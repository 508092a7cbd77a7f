--------------------------- MODULE MCThreadStore ---------------------------
(***************************************************************************)
(* Small instances of ThreadStore.  Bounds: each request visits the store  *)
(* at most three times, so runs are finite without any further bound.      *)
(***************************************************************************)
EXTENDS ThreadStore, TLC

\* Requests, threads, topics are only compared for equality.
Symmetry == Permutations(Requests) \cup Permutations(Threads)
                \cup Permutations(Topics)
=============================================================================
