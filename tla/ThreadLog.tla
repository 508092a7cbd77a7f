----------------------------- MODULE ThreadLog -----------------------------
(***************************************************************************)
(* What a conversation thread promises to everyone who reads it, without   *)
(* saying how rows are numbered or how many requests write at once:        *)
(*                                                                         *)
(*   - a thread is bound to one topic (biz_id), once and for ever;         *)
(*   - its messages form a log that only grows at the end;                 *)
(*   - only a bound thread has messages, and none is posted twice.         *)
(*                                                                         *)
(* ThreadStore (the repositories over ma_session and ma_message)           *)
(* implements it; see ThreadStore!RefinesThreadLog.                        *)
(***************************************************************************)
EXTENDS Naturals, Sequences

CONSTANTS
    Threads,    \* thread_id values
    Topics,     \* biz_id values
    NoTopic,    \* a thread that has no session yet
    Messages    \* messages, each with the fields req and role that identify it

VARIABLES
    bound,      \* bound[t]: the topic of thread t, or NoTopic
    log         \* log[t]: the messages of thread t, oldest first

vars == <<bound, log>>

Init ==
    /\ bound = [t \in Threads |-> NoTopic]
    /\ log = [t \in Threads |-> <<>>]

Bind(t, b) ==
    /\ bound[t] = NoTopic
    /\ bound' = [bound EXCEPT ![t] = b]
    /\ UNCHANGED log

Posted(m) ==
    \E t \in Threads : \E i \in DOMAIN log[t] :
        log[t][i].req = m.req /\ log[t][i].role = m.role

Post(t, m) ==
    /\ bound[t] # NoTopic
    /\ ~ Posted(m)
    /\ log' = [log EXCEPT ![t] = Append(@, m)]
    /\ UNCHANGED bound

Next ==
    \E t \in Threads :
        \/ \E b \in Topics : Bind(t, b)
        \/ \E m \in Messages : Post(t, m)

Spec == Init /\ [][Next]_vars
=============================================================================
