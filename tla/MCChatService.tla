--------------------------- MODULE MCChatService ---------------------------
(***************************************************************************)
(* Small instances of ChatService.                                         *)
(***************************************************************************)
EXTENDS ChatService, TLC

\* Requests, threads and topics are only compared for equality.
Symmetry == Permutations(Requests) \cup Permutations(Threads)
                \cup Permutations(Topics)
=============================================================================
