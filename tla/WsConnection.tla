---------------------------- MODULE WsConnection ----------------------------
(***************************************************************************)
(* One WebSocket connection (chat_ws): the handshake, the receive loop, the*)
(* table of ConnectionManager and one asyncio task per ask.  The loop and the tasks *)
(* interleave wherever they await; between two awaits they are atomic.     *)
(*                                                                         *)
(* A task runs ChatService.handle and forwards its events; events change   *)
(* nothing here, so a task only starts, is cancelled and ends.  ping and   *)
(* frames that do not decode are answered and change nothing either.       *)
(***************************************************************************)
EXTENDS Naturals, FiniteSets, Functions

CONSTANTS
    Asks,           \* ask frames the client may send; each makes a task
    Ids,            \* request_id values a client may choose
    NoId,           \* the frame has no request_id ("" in the table)
    MaxConcurrent   \* _MAX_CONCURRENT

ASSUME AsksFinite == IsFiniteSet(Asks)
ASSUME NoIdIsNone == NoId \notin Ids
ASSUME MaxConcurrentNat == MaxConcurrent \in Nat

Keys == Ids \cup {NoId}

VARIABLES
    loop,       \* "handshake", "receive" (the receive loop), "closing" (timeout), "left"
    active,     \* _active_tasks: a function from some keys to tasks
    id,         \* id[a]: the key in the frame of ask a
    task,       \* task[a]: what became of ask a
    cancelling, \* tasks whose cancel() is not delivered yet
    cancelled   \* tasks cancel() was called on

vars == <<loop, active, id, task, cancelling, cancelled>>

Live == {"created", "running"}

Init ==
    /\ loop = "handshake"
    /\ active = [k \in {} |-> NoId]
    /\ id = [a \in Asks |-> NoId]
    /\ task = [a \in Asks |-> "unsent"]
    /\ cancelling = {}
    /\ cancelled = {}

----------------------------------------------------------------------------
(* ConnectionManager.                                                      *)

\* Mutant: <= instead of <.
CanAcceptOneMore == Cardinality(DOMAIN active) <= MaxConcurrent

CanAccept == Cardinality(DOMAIN active) < MaxConcurrent

\* A second task under the same key takes the slot of the first.
Add(k, a) == [j \in DOMAIN active \cup {k} |-> IF j = k THEN a ELSE active[j]]

\* pop(k, None): whatever task holds the slot.
Remove(k) == Restrict(active, DOMAIN active \ {k})

\* cancel() on tasks: no effect on one that is done.
CancelTasks(tasks) ==
    LET live == {a \in tasks : task[a] \in Live}
    IN  /\ cancelling' = cancelling \cup live
        /\ cancelled' = cancelled \cup live

----------------------------------------------------------------------------
(* The handshake and the receive loop.                                     *)

\* ready is sent, or the connection is turned away (no database: 1011, unknown
\* topic: 1008) without reaching the loop and its finally clause.
Handshake ==
    /\ loop = "handshake"
    /\ loop' = "receive" \/ loop' = "left"
    /\ UNCHANGED <<active, id, task, cancelling, cancelled>>

Ask(a, k) ==
    /\ loop = "receive"
    /\ task[a] = "unsent"
    /\ CanAccept
    /\ task' = [task EXCEPT ![a] = "created"]
    /\ id' = [id EXCEPT ![a] = k]
    /\ active' = Add(k, a)
    /\ UNCHANGED <<loop, cancelling, cancelled>>

\* Too many concurrent requests: an error frame, no task.
Refuse(a, k) ==
    /\ loop = "receive"
    /\ task[a] = "unsent"
    /\ ~ CanAccept
    /\ task' = [task EXCEPT ![a] = "refused"]
    /\ id' = [id EXCEPT ![a] = k]
    /\ UNCHANGED <<loop, active, cancelling, cancelled>>

\* Mutant: a cancelled task is left to free its slot itself.
CancelKeepsSlot(k) ==
    /\ loop = "receive"
    /\ k \in DOMAIN active
    /\ CancelTasks({active[k]})
    /\ UNCHANGED <<loop, active, id, task>>

\* A cancel frame; a key that is not in the table is ignored.
Cancel(k) ==
    /\ loop = "receive"
    /\ k \in DOMAIN active
    /\ CancelTasks({active[k]})
    /\ active' = Remove(k)
    /\ UNCHANGED <<loop, id, task>>

\* No frame for 45 s: `closed` is sent and the socket closed, which awaits;
\* tasks go on meanwhile.
Timeout ==
    /\ loop = "receive"
    /\ loop' = "closing"
    /\ UNCHANGED <<active, id, task, cancelling, cancelled>>

\* Mutant: the table is cleared, the tasks are not cancelled.
LeaveWithoutCancel ==
    /\ loop \in {"receive", "closing"}
    /\ loop' = "left"
    /\ active' = Restrict(active, {})
    /\ UNCHANGED <<id, task, cancelling, cancelled>>

\* The client disconnected, or the socket is closed after the timeout: the
\* finally clause cancels every task of the table.
Leave ==
    /\ loop \in {"receive", "closing"}
    /\ loop' = "left"
    /\ CancelTasks(Range(active))
    /\ active' = Restrict(active, {})
    /\ UNCHANGED <<id, task>>

----------------------------------------------------------------------------
(* The tasks (_handle_ask).                                                *)

\* First step: a frame without request_id gets a new one, under which the
\* table has nothing.
Start(a) ==
    /\ task[a] = "created"
    /\ a \notin cancelling
    /\ task' = [task EXCEPT ![a] = "running"]
    /\ UNCHANGED <<loop, active, id, cancelling, cancelled>>

\* The finally clause of the task removes its own id.
Ends(a) ==
    /\ task' = [task EXCEPT ![a] = "ended"]
    /\ active' = IF id[a] = NoId THEN active ELSE Remove(id[a])
    /\ UNCHANGED <<loop, id, cancelled>>

\* The stream is over, the send failed, or the client is seen to be gone.
Finish(a) ==
    /\ task[a] = "running"
    /\ a \notin cancelling
    /\ Ends(a)
    /\ UNCHANGED cancelling

\* CancelledError is raised in the task: it ends it, unless the adapter node
\* catches it (then handle goes on).
DeliverCancel(a) ==
    /\ task[a] = "running"
    /\ a \in cancelling
    /\ cancelling' = cancelling \ {a}
    /\ Ends(a) \/ UNCHANGED <<loop, active, id, task, cancelled>>

\* Cancelled before its first step: the coroutine never runs, nor does its
\* finally clause.
DropUnstarted(a) ==
    /\ task[a] = "created"
    /\ a \in cancelling
    /\ cancelling' = cancelling \ {a}
    /\ task' = [task EXCEPT ![a] = "ended"]
    /\ UNCHANGED <<loop, active, id, cancelled>>

----------------------------------------------------------------------------

TaskStep(a) == Start(a) \/ Finish(a) \/ DeliverCancel(a) \/ DropUnstarted(a)

Next ==
    \/ Handshake
    \/ \E a \in Asks, k \in Keys : Ask(a, k) \/ Refuse(a, k)
    \/ \E k \in Keys : Cancel(k)
    \/ Timeout
    \/ Leave
    \/ \E a \in Asks : TaskStep(a)

Spec == Init /\ [][Next]_vars

----------------------------------------------------------------------------

\* The type invariant; the table never has more than MaxConcurrent slots.
TypeOK ==
    /\ loop \in {"handshake", "receive", "closing", "left"}
    /\ DOMAIN active \subseteq Keys
    /\ \A k \in DOMAIN active : active[k] \in Asks
    /\ Cardinality(DOMAIN active) <= MaxConcurrent
    /\ id \in [Asks -> Keys]
    /\ task \in [Asks -> {"unsent", "refused", "ended"} \cup Live]
    /\ cancelling \subseteq cancelled
    /\ cancelled \subseteq Asks

\* No slot is lost: a slot taken under a request_id is held by a task that is
\* still alive, so that it is given back by that task or by a cancel, whatever
\* ids the client reuses and whenever it cancels.  (The slot of asks without
\* request_id is not given back: it is the one that may be lost.)
SlotsHeldByLiveTasks ==
    \A k \in DOMAIN active \ {NoId} : task[active[k]] \in Live

\* Tasks nobody cancelled.
Serving == {a \in Asks \ cancelled : task[a] \in Live}

WithinLimit == Cardinality(Serving) <= MaxConcurrent

NoneLeftServing == loop = "left" => Serving = {}

\* Every accepted ask had a request_id of its own.
Accepted == {a \in Asks : task[a] \in Live \cup {"ended"}}
DistinctIds ==
    /\ \A a \in Accepted : id[a] # NoId
    /\ \A a, b \in Accepted : a # b => id[a] # id[b]

\* A client that gives every ask a request_id of its own is held to the limit
\* of concurrent asks (module docstring of ws.py), however cancels, ends and
\* asks interleave.
DistinctIdsWithinLimit == DistinctIds => WithinLimit

\* For such a client, when the connection is over every task that was still
\* running has been cancelled (design: a disconnect cancels every request).
DistinctIdsNoneLeft == DistinctIds => NoneLeftServing

\* The inductive invariant behind them.  SlotsKnowTheirIds: a slot's task was
\* accepted under the slot's key.  CancelledHaveNoSlot: a cancelled task has
\* lost its slot already.  Tracked: with distinct ids, a task that nobody
\* cancelled holds its slot.
SlotsKnowTheirIds ==
    /\ IsFiniteSet(DOMAIN active)
    /\ \A k \in DOMAIN active : active[k] \in Accepted /\ id[active[k]] = k
    /\ loop \in {"handshake", "left"} => DOMAIN active = {}

CancelledHaveNoSlot ==
    /\ cancelled \subseteq Accepted
    /\ \A k \in DOMAIN active : active[k] \notin cancelled

Tracked ==
    DistinctIds => \A a \in Serving : id[a] \in DOMAIN active /\ active[id[a]] = a

IInv ==
    /\ TypeOK
    /\ SlotsHeldByLiveTasks
    /\ SlotsKnowTheirIds
    /\ CancelledHaveNoSlot
    /\ Tracked
=============================================================================
