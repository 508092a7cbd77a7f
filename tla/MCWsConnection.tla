--------------------------- MODULE MCWsConnection ---------------------------
(***************************************************************************)
(* Small instances of WsConnection.  A client sends each ask at most once, *)
(* so runs are finite without any further bound.                           *)
(***************************************************************************)
EXTENDS WsConnection, TLC

\* Asks and ids are only compared for equality.
Symmetry == Permutations(Asks) \cup Permutations(Ids)
=============================================================================
