------------------------------ MODULE Service ------------------------------
(***************************************************************************)
(* The process: the lifespan of main.py (pools, topics, readiness,         *)
(* shutdown), the gates of the endpoints (SSE, WebSocket, REST history),   *)
(* and calls that use the read-write pool while the lifespan may close it. *)
(*                                                                         *)
(* External: the ASGI server, which accepts calls once startup is complete *)
(* and begins shutdown when no HTTP call is left (tasks of a WebSocket it  *)
(* does not know of); asyncpg's pools: close() makes new acquires raise,   *)
(* waits for the connections in use, and whoever is still queued then gets *)
(* an error; database and agents, which may fail.                          *)
(***************************************************************************)
EXTENDS Topic, FiniteSets

CONSTANTS
    Calls,
    Dirs,       \* what may be in the topics directory: sequences of configurations
    Env,        \* environment variables that are set
    Dsns,       \* what may be configured: records [rw, ro] of BOOLEANs
    Ids,        \* topics that clients ask for
    PoolMax     \* Settings.pg_pool_max

\* asyncpg refuses to create any other pool.
ASSUME PoolMaxPositive == PoolMax \in Nat \ {0}

ASSUME DirsAreSequences == \A d \in Dirs : d \in Seq({d[i] : i \in DOMAIN d})

VARIABLES
    life,       \* where the lifespan is
    dsn, dir,   \* settings and topics directory of this process
    rw, ro,     \* the pools
    loaded,     \* files of dir loaded so far
    registry,   \* TopicRegistry: topic id -> configuration
    ready,      \* the flag of readyz
    op, asked,  \* the endpoint and the topic of a call
    stage,      \* stage[r]: what call r does next
    want, held, \* it is queued for a connection; connections it has
    stored,     \* stored[r]: whether its question is in the table
    outcome     \* how it ended

lifeVars == <<life, dsn, dir, rw, ro, loaded, registry, ready>>
callVars == <<op, asked, stage, want, held, stored, outcome>>
vars == <<lifeVars, callVars>>

Init ==
    /\ life = "start" /\ dsn \in Dsns /\ dir \in Dirs
    /\ rw = "none" /\ ro = "none"
    /\ loaded = 0 /\ registry = [i \in {} |-> 0] /\ ready = FALSE
    /\ op = [r \in Calls |-> "none"] /\ asked = [r \in Calls |-> "none"]
    /\ stage = [r \in Calls |-> "new"] /\ outcome = [r \in Calls |-> "none"]
    /\ want = [r \in Calls |-> FALSE] /\ held = [r \in Calls |-> 0]
    /\ stored = [r \in Calls |-> "no"]

----------------------------------------------------------------------------
(* Startup.                                                                *)

\* A step of startup raises: the server gives up.  No pool is closed.
StartupFails ==
    /\ life' = "failed"
    /\ UNCHANGED <<dsn, dir, rw, ro, loaded, registry, ready, callVars>>

\* create_pools, or the smoke mode without a database.
CreateRw ==
    /\ life = "start"
    /\ \/ /\ ~ dsn.rw
          /\ life' = "topics"
          /\ UNCHANGED <<dsn, dir, rw, ro, loaded, registry, ready, callVars>>
       \/ /\ dsn.rw
          /\ rw' = "open"
          /\ life' = IF dsn.ro THEN "ro" ELSE "topics"
          /\ UNCHANGED <<dsn, dir, ro, loaded, registry, ready, callVars>>
       \/ dsn.rw /\ StartupFails

CreateRo ==
    /\ life = "ro"
    /\ \/ /\ ro' = "open"
          /\ life' = "topics"
          /\ UNCHANGED <<dsn, dir, rw, loaded, registry, ready, callVars>>
       \/ StartupFails

Register(c) == [i \in DOMAIN registry \cup {c.id} |->
                    IF i = c.id THEN c ELSE registry[i]]

\* Mutant: a file that is not accepted is logged and skipped.
LoadTopicSkipping ==
    /\ life = "topics" /\ loaded < Len(dir)
    /\ loaded' = loaded + 1
    /\ registry' = IF Accepted(dir[loaded + 1], Env) THEN Register(dir[loaded + 1])
                   ELSE registry
    /\ UNCHANGED <<life, dsn, dir, rw, ro, ready, callVars>>

\* The next file in order of names: validated, compiled and registered; a
\* topic_id that is taken raises as well.
LoadTopic ==
    /\ life = "topics" /\ loaded < Len(dir)
    /\ LET c == dir[loaded + 1]
       IN  IF Accepted(c, Env) /\ c.id \notin DOMAIN registry
           THEN /\ registry' = Register(c)
                /\ loaded' = loaded + 1
                /\ UNCHANGED <<life, dsn, dir, rw, ro, ready, callVars>>
           ELSE StartupFails

\* chat_service and the repository factories exist iff the pool does.
MarkReady ==
    /\ life = "topics" /\ loaded = Len(dir)
    /\ ready' = TRUE
    /\ life' = "serving"
    /\ UNCHANGED <<dsn, dir, rw, ro, loaded, registry, callVars>>

----------------------------------------------------------------------------
(* Shutdown.                                                               *)

\* mark_not_ready, then close_pools begins with the read-write pool.
Shutdown ==
    /\ life = "serving"
    /\ \A r \in Calls : stage[r] \in {"new", "ended"} \/ op[r] = "ws"
    /\ ready' = FALSE
    /\ IF rw = "open" THEN rw' = "closing" /\ life' = "closing"
                      ELSE life' = "down" /\ UNCHANGED rw
    /\ UNCHANGED <<dsn, dir, ro, loaded, registry, callVars>>

\* Mutant: the read-only pool is forgotten.
RwClosedOnly ==
    /\ rw = "closing" /\ \A r \in Calls : held[r] = 0
    /\ rw' = "closed"
    /\ life' = "down"
    /\ UNCHANGED <<dsn, dir, ro, loaded, registry, ready, callVars>>

\* pool_rw.close() returns when every connection has been given back.
RwClosed ==
    /\ rw = "closing" /\ \A r \in Calls : held[r] = 0
    /\ rw' = "closed"
    /\ life' = IF ro = "open" THEN life ELSE "down"
    /\ UNCHANGED <<dsn, dir, ro, loaded, registry, ready, callVars>>

\* Nothing uses the read-only pool, so that its close() does not wait.
RoClosed ==
    /\ life = "closing" /\ rw = "closed"
    /\ ro' = "closed"
    /\ life' = "down"
    /\ UNCHANGED <<dsn, dir, rw, loaded, registry, ready, callVars>>

----------------------------------------------------------------------------
(* The gates.  A call's head: `account`, the X-User-Account header against *)
(* the body; `wellFormed`, whether X-User-Claims or `before` can be read.  *)

SseGate(b, head) ==
    IF ~ dsn.rw THEN "503"
    ELSE IF b \notin DOMAIN registry THEN "404"
    ELSE IF head.account = "other" THEN "403"
    ELSE IF ~ head.wellFormed THEN "400"
    ELSE "pass"

\* The handshake of chat_ws; what it cannot read of the headers it ignores.
WsGate(b) ==
    IF ~ dsn.rw THEN "1011" ELSE IF b \notin DOMAIN registry THEN "1008" ELSE "pass"

ListGate(head) ==
    IF head.account = "none" THEN "401"
    ELSE IF ~ dsn.rw THEN "503"
    ELSE IF ~ head.wellFormed THEN "400"
    ELSE "pass"

MessagesGate(head) ==
    IF head.account = "none" THEN "401" ELSE IF ~ dsn.rw THEN "503" ELSE "pass"

Gate(o, b, head) ==
    CASE o = "sse"      -> SseGate(b, head)
      [] o = "ws"       -> WsGate(b)
      [] o = "sessions" -> ListGate(head)
      [] o = "messages" -> MessagesGate(head)

Ops == {"sse", "ws", "sessions", "messages"}
FirstStage(o) ==
    CASE o \in {"sse", "ws"} -> "handle" [] o = "sessions" -> "list" [] o = "messages" -> "owner"

Go(r, to) == stage' = [stage EXCEPT ![r] = to]

\* A call arrives and is checked; nothing is awaited in between.
Arrive(r, o, b, head) ==
    /\ life = "serving"
    /\ stage[r] = "new"
    /\ op' = [op EXCEPT ![r] = o]
    /\ asked' = [asked EXCEPT ![r] = IF o \in {"sse", "ws"} THEN b ELSE "none"]
    /\ LET gate == Gate(o, b, head)
       IN  IF gate = "pass" THEN Go(r, FirstStage(o)) /\ UNCHANGED outcome
           ELSE Go(r, "ended") /\ outcome' = [outcome EXCEPT ![r] = gate]
    /\ UNCHANGED <<want, held, stored, lifeVars>>

----------------------------------------------------------------------------
(* Calls.                                                                  *)

\* Mutant: the connection is not given back.
FinishKeepsConnection(r, how) ==
    /\ Go(r, "ended")
    /\ outcome' = [outcome EXCEPT ![r] = how]
    /\ want' = [want EXCEPT ![r] = FALSE]
    /\ UNCHANGED held

\* The call is over; `async with` gives back what it has.
Finish(r, how) ==
    /\ Go(r, "ended")
    /\ outcome' = [outcome EXCEPT ![r] = how]
    /\ want' = [want EXCEPT ![r] = FALSE]
    /\ held' = [held EXCEPT ![r] = 0]

Proceed(r, to) ==
    /\ Go(r, to)
    /\ want' = [want EXCEPT ![r] = FALSE]
    /\ held' = [held EXCEPT ![r] = 0]
    /\ UNCHANGED outcome

\* handle begins: the topic is looked up once more and biz_params are checked;
\* either failure ends the stream with error and done.
Handle(r) ==
    /\ stage[r] = "handle"
    /\ \/ Finish(r, "done")
       \/ asked[r] \in DOMAIN registry /\ Proceed(r, "user")
    /\ UNCHANGED <<op, asked, stored, lifeVars>>

Visits == {"user", "load", "persist", "list", "owner", "rows"}
InUse  == {r \in Calls : held[r] > 0}

\* acquire() on an open pool; the call is served in turn.
Enter(r) ==
    /\ stage[r] \in Visits
    /\ ~ want[r] /\ held[r] = 0
    /\ rw = "open"
    /\ want' = [want EXCEPT ![r] = TRUE]
    /\ UNCHANGED <<op, asked, stage, held, stored, outcome, lifeVars>>

Acquire(r) ==
    /\ want[r]
    /\ rw \in {"open", "closing"}
    /\ Cardinality(InUse) < PoolMax
    /\ want' = [want EXCEPT ![r] = FALSE]
    /\ held' = [held EXCEPT ![r] = @ + 1]
    /\ UNCHANGED <<op, asked, stage, stored, outcome, lifeVars>>

\* Mutant: list_messages takes a connection of its own for the messages.
ReadRowsAnew(r) ==
    /\ Go(r, "rows")
    /\ want' = [want EXCEPT ![r] = TRUE]
    /\ UNCHANGED <<held, outcome>>

\* Both repositories of list_messages are built on one connection.
ReadRows(r) == Go(r, "rows") /\ UNCHANGED <<want, held, outcome>>

\* _persist_user_message returns, and the graph is built outside of any try; or
\* the thread is bound to another topic: error and done, nothing is stored.
UserVisitEnds(r) ==
    \/ /\ IF BuildsGraph(registry[asked[r]]) THEN Proceed(r, "load") ELSE Finish(r, "cut")
       /\ stored' = [stored EXCEPT ![r] = "acknowledged"]
    \/ /\ Finish(r, "done")
       /\ UNCHANGED stored

LaterVisitEnds(r) ==
    /\ CASE stage[r] = "load"    -> Proceed(r, "agent")
         [] stage[r] = "persist" -> Finish(r, "done")
         [] stage[r] = "owner"   -> Finish(r, "404") \/ ReadRows(r)
         [] stage[r] \in {"list", "rows"} -> Finish(r, "page")
    /\ UNCHANGED stored

\* The statements of a visit are done.
VisitEnds(r) ==
    /\ stage[r] \in Visits
    /\ held[r] > 0 /\ ~ want[r]
    /\ IF stage[r] = "user" THEN UserVisitEnds(r) ELSE LaterVisitEnds(r)
    /\ UNCHANGED <<op, asked, lifeVars>>

\* Mutant: the graph's exceptions are not caught either.
OutcomeUncaught(r) ==
    IF stage[r] \in {"list", "owner", "rows"} THEN "500" ELSE "cut"

\* What the client of a visit that failed gets: exceptions of the graph become
\* INTERNAL and done, those before it cut the stream.
FailureOutcome(r) ==
    CASE stage[r] = "user" -> "cut"
      [] stage[r] \in {"load", "persist"} -> "done"
      [] stage[r] \in {"list", "owner", "rows"} -> "500"

\* The INSERT of a question commits by itself: the visit can still fail, or be
\* cancelled, when the row is there.
MayBeStored(r) ==
    \/ UNCHANGED stored
    \/ /\ stage[r] = "user" /\ held[r] > 0
       /\ stored' = [stored EXCEPT ![r] = "unacknowledged"]

\* acquire() raises because the pool is closing, the database fails, or (`list`)
\* `before` has a time zone, which asyncpg does not take for a timestamp.
VisitFails(r) ==
    /\ stage[r] \in Visits
    /\ want[r] \/ held[r] > 0 \/ rw # "open"
    /\ Finish(r, FailureOutcome(r))
    /\ MayBeStored(r)
    /\ UNCHANGED <<op, asked, lifeVars>>

\* Authorization, model and agent; no connection is held.  A node or an edge that
\* raises ends the graph: INTERNAL and done, and no answer is stored.
AgentEnds(r) ==
    /\ stage[r] = "agent"
    /\ Proceed(r, "persist") \/ Finish(r, "done")
    /\ UNCHANGED <<op, asked, stored, lifeVars>>

\* The client leaves and the call is cancelled.  (The adapter node swallows it,
\* which is AgentEnds.)
Leave(r) ==
    /\ stage[r] \notin {"new", "ended"}
    /\ Finish(r, "gone")
    /\ MayBeStored(r)
    /\ UNCHANGED <<op, asked, lifeVars>>

----------------------------------------------------------------------------

Heads == [account : {"same", "other", "none"}, wellFormed : BOOLEAN]

Lifespan ==
    \/ CreateRw
    \/ CreateRo
    \/ LoadTopic
    \/ MarkReady
    \/ RwClosed
    \/ RoClosed

\* What a call does by itself; on a pool that is not open its visits fail.
CallStep(r) ==
    \/ Handle(r)
    \/ Enter(r)
    \/ Acquire(r)
    \/ VisitEnds(r)
    \/ rw # "open" /\ VisitFails(r)
    \/ AgentEnds(r)

Next ==
    \/ Lifespan
    \/ Shutdown
    \/ \E r \in Calls :
        \/ \E o \in Ops, b \in Ids, head \in Heads : Arrive(r, o, b, head)
        \/ CallStep(r) \/ VisitFails(r) \/ Leave(r)

Spec == Init /\ [][Next]_vars

\* The lifespan goes on by itself; so does every call: database and agents
\* answer or fail.  Nobody has to shut the service down.
FairSpec == Spec /\ WF_vars(Lifespan) /\ \A r \in Calls : WF_vars(CallStep(r))

----------------------------------------------------------------------------

\* The type invariant; a call that is over has no connection, and the pool
\* gives out no more than it has.
TypeOK ==
    /\ life \in {"start", "ro", "topics", "serving", "closing", "down", "failed"}
    /\ {rw, ro} \subseteq {"none", "open", "closing", "closed"}
    /\ ready \in BOOLEAN
    /\ Cardinality(InUse) <= PoolMax
    /\ \A r \in Calls :
        /\ stage[r] \in Visits \cup {"new", "handle", "agent", "ended"}
        /\ stage[r] = "ended" <=> outcome[r] # "none"
        /\ stage[r] \notin Visits => ~ want[r] /\ held[r] = 0
        /\ stored[r] \in {"no", "unacknowledged", "acknowledged"}

\* Who reads "ready" reaches a service that is complete: every file of the
\* directory is served (none was skipped, none shadows another), its pools are
\* as configured and open (design 8.2.3 and readyz: all topics compiled).
ReadyIsComplete ==
    ready =>
        /\ \A i \in DOMAIN dir :
            /\ dir[i].id \in DOMAIN registry /\ registry[dir[i].id] = dir[i]
            /\ \A j \in DOMAIN dir : dir[j].id = dir[i].id => j = i
        /\ dsn.rw => rw = "open" /\ (dsn.ro => ro = "open")

\* Closing leaves nothing behind: no pool is open when shutdown is complete,
\* and nobody ever holds a connection of a closed pool.
DownIsClean ==
    /\ life = "down" => rw \in {"none", "closed"} /\ ro \in {"none", "closed"}
    /\ rw = "closed" => InUse = {}

\* Once the service knows that a question is stored its client is told how it
\* ended, by done, also when the pool is closed or the database fails under it;
\* unless the topic's graph cannot be built.  And who is told done never left a
\* question behind that the service does not know of: only clients that are cut
\* off, or left, may find one.
AcknowledgedQuestionsAreClosed ==
    \A r \in Calls :
        /\ outcome[r] = "cut" =>
              stored[r] # "acknowledged" \/ ~ BuildsGraph(registry[asked[r]])
        /\ stored[r] = "unacknowledged" => outcome[r] \in {"cut", "gone"}

\* Every call ends, while the service runs and while it is shut down: nobody
\* waits for a connection for ever.
EveryCallEnds == \A r \in Calls : stage[r] # "new" ~> stage[r] = "ended"

\* Shutdown ends, whatever tasks of WebSockets still run when it begins.
ShutdownEnds == life = "closing" ~> life = "down"
=============================================================================
