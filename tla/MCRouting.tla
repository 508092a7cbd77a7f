----------------------------- MODULE MCRouting ------------------------------
(***************************************************************************)
(* Small instances of Routing.  Attempts and pieces are bounded by the     *)
(* topic's tries, MaxAttempts and AnswerLen, so runs are finite without    *)
(* further bounds.                                                         *)
(***************************************************************************)
EXTENDS Routing, MCTopics

MCConfigs == Sound \cup Traps \cup Flawed

\* Admitted; without the role; with a scope not owned; without a scope.
MCAskers ==
    {[role |-> "REP", scope |-> "east", owned |-> {"east"}],
     [role |-> "GUEST", scope |-> "east", owned |-> {"east"}],
     [role |-> "REP", scope |-> "west", owned |-> {"east"}],
     [role |-> "REP", scope |-> "none", owned |-> {"east"}]}
=============================================================================
