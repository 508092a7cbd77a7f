--------------------------- MODULE ServiceProofs ----------------------------
(***************************************************************************)
(* Proofs about Service, for any calls, topics directory, environment,     *)
(* settings and pool size: what ready and down promise, what clients are   *)
(* told, and why nobody waits for a connection for ever.                   *)
(***************************************************************************)
EXTENDS Service, FiniteSetTheorems, TLAPS

\* What the lifespan has done so far is what it is at.
PoolsFollowLife ==
    /\ ready => life = "serving"
    /\ life = "start" => rw = "none" /\ ro = "none"
    /\ life = "ro" => rw = "open" /\ ro = "none"
    /\ life \in {"topics", "serving"} =>
        /\ dsn.rw => rw = "open" /\ (dsn.ro => ro = "open")
        /\ {rw, ro} \subseteq {"none", "open"}
        /\ rw = "none" => ro = "none"
    /\ life = "closing" => ro \in {"none", "open"}
    /\ rw \in {"closing", "closed"} => life \in {"closing", "down"}
    /\ life = "down" => {rw, ro} \subseteq {"none", "closed"}

\* The files loaded so far are registered, each under an id of its own.
FilesLoaded ==
    /\ dir \in Dirs
    /\ loaded \in 0 .. Len(dir)
    /\ life = "serving" => loaded = Len(dir)
    /\ \A i \in 1 .. loaded :
        /\ dir[i].id \in DOMAIN registry /\ registry[dir[i].id] = dir[i]
        /\ \A j \in 1 .. loaded : dir[j].id = dir[i].id => j = i

\* Connections are held of a pool that is not closed.
NothingOfAClosedPool ==
    /\ DOMAIN held = Calls
    /\ rw = "closed" => \A r \in Calls : held[r] = 0

LifeInv == PoolsFollowLife /\ FilesLoaded /\ NothingOfAClosedPool

\* At first no pool is open and no file is loaded.
LEMMA LifeInit == Init => LifeInv
<1> SUFFICES ASSUME Init PROVE LifeInv
  OBVIOUS
<1>1. Len(dir) \in Nat
  BY DirsAreSequences DEF Init
<1> QED
  BY <1>1 DEF Init, LifeInv, PoolsFollowLife, FilesLoaded, NothingOfAClosedPool

\* The files in order: what is loaded next has an id of its own.
LEMMA LoadTopicKeeps == LifeInv /\ LoadTopic => LifeInv'
<1> SUFFICES ASSUME LifeInv, LoadTopic PROVE LifeInv'
  OBVIOUS
<1> DEFINE c == dir[loaded + 1]
<1>1. PoolsFollowLife' /\ NothingOfAClosedPool'
  BY DEF LifeInv, LoadTopic, StartupFails, PoolsFollowLife, NothingOfAClosedPool, callVars
<1>2. CASE StartupFails
  BY <1>1, <1>2 DEF LifeInv, StartupFails, FilesLoaded
<1>3. CASE /\ c.id \notin DOMAIN registry
           /\ registry' = Register(c) /\ loaded' = loaded + 1
           /\ UNCHANGED <<life, dir>>
  <2>1. dir \in Dirs /\ Len(dir) \in Nat /\ loaded < Len(dir) /\ life = "topics"
    BY DirsAreSequences DEF LifeInv, FilesLoaded, LoadTopic
  <2>2. loaded' \in 0 .. Len(dir)
    BY <1>3, <2>1 DEF LifeInv, FilesLoaded
  <2>3. ASSUME NEW i \in 1 .. loaded'
        PROVE  /\ dir[i].id \in DOMAIN registry' /\ registry'[dir[i].id] = dir[i]
               /\ \A j \in 1 .. loaded' : dir[j].id = dir[i].id => j = i
    <3>1. i \in 1 .. loaded \/ i = loaded + 1
      BY <1>3, <2>1 DEF LifeInv, FilesLoaded
    <3>2. \A j \in 1 .. loaded' : j \in 1 .. loaded \/ j = loaded + 1
      BY <1>3, <2>1 DEF LifeInv, FilesLoaded
    <3>3. \A j \in 1 .. loaded : dir[j].id \in DOMAIN registry /\ dir[j].id # c.id
      BY <1>3 DEF LifeInv, FilesLoaded
    <3> QED
      BY <1>3, <3>1, <3>2, <3>3 DEF LifeInv, FilesLoaded, Register
  <2> QED
    BY <1>1, <1>3, <2>1, <2>2, <2>3 DEF LifeInv, FilesLoaded
<1> QED
  BY <1>1, <1>2, <1>3 DEF LoadTopic, LifeInv

\* Every step of the lifespan and of a call keeps the invariant.
LEMMA LifeKept == LifeInv /\ [Next]_vars => LifeInv'
<1> SUFFICES ASSUME LifeInv, [Next]_vars PROVE LifeInv'
  OBVIOUS
<1> USE DEF LifeInv
<1>1. CASE CreateRw
  BY <1>1 DEF CreateRw, StartupFails, PoolsFollowLife, FilesLoaded, NothingOfAClosedPool, callVars
<1>2. CASE CreateRo
  BY <1>2 DEF CreateRo, StartupFails, PoolsFollowLife, FilesLoaded, NothingOfAClosedPool, callVars
<1>3. CASE LoadTopic
  BY <1>3, LoadTopicKeeps
<1>4. CASE MarkReady
  BY <1>4 DEF MarkReady, PoolsFollowLife, FilesLoaded, NothingOfAClosedPool, callVars
<1>5. CASE Shutdown
  BY <1>5 DEF Shutdown, PoolsFollowLife, FilesLoaded, NothingOfAClosedPool, callVars
<1>6. CASE RwClosed
  BY <1>6 DEF RwClosed, PoolsFollowLife, FilesLoaded, NothingOfAClosedPool, callVars
<1>7. CASE RoClosed
  BY <1>7 DEF RoClosed, PoolsFollowLife, FilesLoaded, NothingOfAClosedPool, callVars
<1>8. ASSUME NEW r \in Calls, Acquire(r) PROVE LifeInv'
  BY <1>8 DEF Acquire, lifeVars, PoolsFollowLife, FilesLoaded, NothingOfAClosedPool
<1>9. CASE /\ UNCHANGED lifeVars
           /\ \/ held' = held
              \/ \E r \in Calls : held' = [held EXCEPT ![r] = 0]
  BY <1>9 DEF lifeVars, PoolsFollowLife, FilesLoaded, NothingOfAClosedPool
<1>10. ASSUME NEW r \in Calls,
              \/ \E o \in Ops, b \in Ids, head \in Heads : Arrive(r, o, b, head)
              \/ CallStep(r) \/ VisitFails(r) \/ Leave(r)
       PROVE  LifeInv'
  <2> DEFINE Kept == UNCHANGED lifeVars /\ (held' = held \/ held' = [held EXCEPT ![r] = 0])
  <2>1. CASE \E o \in Ops, b \in Ids, head \in Heads : Arrive(r, o, b, head)
    BY <1>9, <2>1 DEF Arrive
  <2>2. CASE Handle(r) \/ Enter(r) \/ AgentEnds(r) \/ VisitFails(r) \/ Leave(r)
    <3>1. Kept
      BY <2>2 DEF Handle, Enter, AgentEnds, VisitFails, Leave, Finish, Proceed
    <3> QED
      BY <1>9, <3>1
  <2>3. CASE VisitEnds(r)
    <3>1. UNCHANGED lifeVars
      BY <2>3 DEF VisitEnds
    <3>2. held' = held \/ held' = [held EXCEPT ![r] = 0]
      BY <2>3 DEF VisitEnds, UserVisitEnds, LaterVisitEnds, Visits, Finish, Proceed, ReadRows
    <3> QED
      BY <1>9, <3>1, <3>2
  <2> QED
    BY <1>8, <1>10, <2>1, <2>2, <2>3 DEF CallStep
<1>11. CASE UNCHANGED vars
  BY <1>9, <1>11 DEF vars, callVars
<1> QED
  BY <1>1, <1>2, <1>3, <1>4, <1>5, <1>6, <1>7, <1>10, <1>11 DEF Next, Lifespan

\* Whatever is in the topics directory and whatever fails during startup, the
\* service is ready only with every topic of the directory and its pools.
THEOREM ReadyServiceIsComplete == Spec => []ReadyIsComplete
<1>1. LifeInv => ReadyIsComplete
  <2> SUFFICES ASSUME LifeInv, ready PROVE ReadyIsComplete
    BY DEF ReadyIsComplete
  <2>1. dir \in Dirs /\ loaded = Len(dir) /\ life = "serving"
    BY DEF LifeInv, PoolsFollowLife, FilesLoaded
  <2>2. DOMAIN dir = 1 .. loaded
    BY <2>1, DirsAreSequences
  <2> QED
    BY <2>1, <2>2 DEF LifeInv, PoolsFollowLife, FilesLoaded, ReadyIsComplete
<1> QED
  BY <1>1, LifeInit, LifeKept, PTL DEF Spec

\* A shutdown that is complete leaves no pool open, and no call ever holds a
\* connection of a closed pool.
THEOREM ShutdownIsClean == Spec => []DownIsClean
<1>1. LifeInv => DownIsClean
  BY DEF LifeInv, PoolsFollowLife, NothingOfAClosedPool, DownIsClean, InUse
<1> QED
  BY <1>1, LifeInit, LifeKept, PTL DEF Spec

----------------------------------------------------------------------------

\* A stream is cut only where the question is not known to be stored or the graph
\* cannot be built, and only clients that are cut off or left may have a question
\* in the table that nobody knows of.
ToldOf(r) ==
    /\ outcome[r] = "cut" =>
          stored[r] # "acknowledged" \/ ~ BuildsGraph(registry[asked[r]])
    /\ stored[r] = "unacknowledged" => outcome[r] \in {"cut", "gone"}

\* A call exists only once startup is complete; a question is stored in its visit
\* and not before.
CallInv ==
    /\ DOMAIN stage = Calls /\ DOMAIN stored = Calls
    /\ DOMAIN outcome = Calls /\ DOMAIN asked = Calls
    /\ life \in {"start", "ro", "topics", "serving", "closing", "down", "failed"}
    /\ \A r \in Calls :
        /\ stage[r] # "new" => life \in {"serving", "closing", "down"}
        /\ stage[r] # "ended" => outcome[r] = "none"
        /\ stored[r] \in {"no", "unacknowledged", "acknowledged"}
        /\ stage[r] \in {"new", "handle", "user"} => stored[r] = "no"
        /\ ToldOf(r)

\* Where call r is changes, and nothing of the other calls.
OnlyCall(r) ==
    /\ UNCHANGED <<lifeVars, asked>>
    /\ DOMAIN stage' = Calls /\ DOMAIN stored' = Calls /\ DOMAIN outcome' = Calls
    /\ stage[r] # "new" /\ stage'[r] # "new"
    /\ \A q \in Calls \ {r} :
        stage'[q] = stage[q] /\ stored'[q] = stored[q] /\ outcome'[q] = outcome[q]

\* The lifespan replaces no topic that a call may have asked for.
LEMMA LifespanKeepsCalls == LifeInv /\ CallInv /\ (Lifespan \/ Shutdown) => CallInv'
<1> SUFFICES ASSUME LifeInv, CallInv, Lifespan \/ Shutdown PROVE CallInv'
  OBVIOUS
<1>1. UNCHANGED callVars
  BY DEF Lifespan, Shutdown, CreateRw, CreateRo, LoadTopic, MarkReady, RwClosed, RoClosed,
         StartupFails
<1>2. CASE life \in {"start", "ro", "topics"}
  <2>1. life' \in {"start", "ro", "topics", "serving", "failed"}
    BY <1>2 DEF LifeInv, PoolsFollowLife, Lifespan, Shutdown, CreateRw, CreateRo, LoadTopic,
                MarkReady, RwClosed, RoClosed, StartupFails
  <2>2. \A r \in Calls : stage[r] = "new" /\ outcome[r] = "none" /\ stored[r] = "no"
    BY <1>2 DEF CallInv
  <2> QED
    BY <1>1, <2>1, <2>2 DEF CallInv, ToldOf, callVars
<1>3. CASE life \notin {"start", "ro", "topics"}
  <2>1. UNCHANGED registry
    BY <1>3 DEF Lifespan, Shutdown, CreateRw, CreateRo, LoadTopic, MarkReady, RwClosed, RoClosed
  <2>2. life \in {"serving", "closing", "down"} => life' \in {"serving", "closing", "down"}
    BY <1>3 DEF Lifespan, Shutdown, CreateRw, CreateRo, LoadTopic, MarkReady, RwClosed, RoClosed
  <2>3. life' \in {"serving", "closing", "down", "failed"}
    BY <1>3, <2>2 DEF CallInv, Lifespan, Shutdown, CreateRw, CreateRo, LoadTopic, MarkReady,
                      RwClosed, RoClosed
  <2> QED
    BY <1>1, <2>1, <2>2, <2>3 DEF CallInv, ToldOf, callVars
<1> QED
  BY <1>2, <1>3

\* What a visit that ends or fails leaves of its call.
LEMMA VisitKeepsCalls ==
    ASSUME CallInv, NEW r \in Calls, VisitEnds(r) \/ VisitFails(r)
    PROVE  CallInv'
<1>1. OnlyCall(r)
  <2>1. CASE VisitEnds(r)
    BY <2>1 DEF CallInv, OnlyCall, VisitEnds, UserVisitEnds, LaterVisitEnds, Visits,
                Finish, Proceed, ReadRows, Go
  <2>2. CASE VisitFails(r)
    BY <2>2 DEF CallInv, OnlyCall, VisitFails, MayBeStored, Visits, Finish, Go
  <2> QED
    BY <2>1, <2>2
<1>2. /\ stage'[r] \notin {"new", "handle", "user"}
      /\ stage'[r] # "ended" => outcome'[r] = "none"
      /\ stored'[r] \in {"no", "unacknowledged", "acknowledged"}
      /\ ToldOf(r)'
  <2>1. CASE VisitEnds(r) /\ stage[r] = "user"
    <3>1. outcome[r] = "none" /\ stored[r] = "no" /\ UNCHANGED <<asked, registry>>
      BY <2>1 DEF CallInv, VisitEnds, lifeVars
    <3>2. CASE Finish(r, "done") /\ UNCHANGED stored
      BY <3>1, <3>2 DEF CallInv, ToldOf, Finish, Go
    <3>3. CASE Proceed(r, "load") /\ stored' = [stored EXCEPT ![r] = "acknowledged"]
      BY <3>1, <3>3 DEF CallInv, ToldOf, Proceed, Go
    <3>4. CASE /\ Finish(r, "cut") /\ stored' = [stored EXCEPT ![r] = "acknowledged"]
               /\ ~ BuildsGraph(registry[asked[r]])
      BY <3>1, <3>4 DEF CallInv, ToldOf, Finish, Go
    <3> QED
      BY <2>1, <3>2, <3>3, <3>4 DEF VisitEnds, UserVisitEnds
  <2>2. CASE VisitEnds(r) /\ stage[r] # "user"
    BY <2>2 DEF CallInv, ToldOf, VisitEnds, LaterVisitEnds, Visits, Finish, Proceed,
                ReadRows, Go
  <2>3. CASE VisitFails(r)
    BY <2>3 DEF CallInv, ToldOf, VisitFails, MayBeStored, Visits, FailureOutcome, Finish, Go
  <2> QED
    BY <2>1, <2>2, <2>3, VisitEnds(r) \/ VisitFails(r)
<1> QED
  BY <1>1, <1>2 DEF CallInv, ToldOf, OnlyCall, lifeVars

\* Every other step of a call.
LEMMA CallKeepsCalls ==
    ASSUME CallInv, NEW r \in Calls,
           \/ \E o \in Ops, b \in Ids, head \in Heads : Arrive(r, o, b, head)
           \/ CallStep(r) \/ Leave(r)
    PROVE  CallInv'
<1>1. ASSUME NEW o \in Ops, NEW b \in Ids, NEW head \in Heads, Arrive(r, o, b, head)
      PROVE  CallInv'
  <2>1. Gate(o, b, head) # "cut" /\ FirstStage(o) # "new"
    BY DEF Gate, SseGate, WsGate, ListGate, MessagesGate, FirstStage, Ops
  <2>2. /\ stored[r] = "no" /\ outcome'[r] # "cut" /\ stage'[r] # "new"
        /\ stage'[r] # "ended" => outcome'[r] = "none"
    BY <1>1, <2>1 DEF CallInv, Arrive, Go
  <2> QED
    BY <1>1, <2>2 DEF CallInv, ToldOf, Arrive, Go, lifeVars
<1>2. CASE Enter(r) \/ Acquire(r)
  BY <1>2 DEF CallInv, ToldOf, Enter, Acquire, lifeVars
<1>3. CASE Handle(r) \/ AgentEnds(r) \/ Leave(r)
  <2>1. OnlyCall(r)
    BY <1>3 DEF CallInv, OnlyCall, Handle, AgentEnds, Leave, MayBeStored, Finish, Proceed, Go
  <2>2. /\ stage'[r] # "ended" => outcome'[r] = "none"
        /\ outcome'[r] # "cut"
        /\ stage'[r] \in {"new", "handle", "user"} => stage[r] = "handle" /\ UNCHANGED stored
        /\ \/ UNCHANGED stored /\ stored[r] # "unacknowledged"
           \/ outcome'[r] = "gone"
        /\ stored'[r] \in {"no", "unacknowledged", "acknowledged"}
    BY <1>3 DEF CallInv, ToldOf, Handle, AgentEnds, Leave, MayBeStored, Finish, Proceed, Go
  <2> QED
    BY <2>1, <2>2 DEF CallInv, ToldOf, OnlyCall, lifeVars
<1>4. CASE VisitEnds(r) \/ VisitFails(r)
  BY <1>4, VisitKeepsCalls
<1> QED
  BY <1>1, <1>2, <1>3, <1>4 DEF CallStep

\* At first there is no call.
LEMMA CallsInit == Init => CallInv
BY DEF Init, CallInv, ToldOf

\* Every step of the service keeps what is known of the calls.
LEMMA CallsKept == LifeInv /\ CallInv /\ [Next]_vars => CallInv'
<1> SUFFICES ASSUME LifeInv, CallInv, [Next]_vars PROVE CallInv'
  OBVIOUS
<1>1. CASE UNCHANGED vars
  BY <1>1 DEF vars, lifeVars, callVars, CallInv, ToldOf
<1> QED
  BY <1>1, LifespanKeepsCalls, VisitKeepsCalls, CallKeepsCalls DEF Next

\* A client whose question the service knows to be stored gets its done, whatever
\* fails, whenever the service is shut down; except for a topic whose graph cannot
\* be built.  And nobody who got done left a question behind in a failed visit.
THEOREM AcknowledgedQuestionsGetDone == Spec => []AcknowledgedQuestionsAreClosed
<1>1. CallInv => AcknowledgedQuestionsAreClosed
  BY DEF CallInv, ToldOf, AcknowledgedQuestionsAreClosed
<1> QED
  BY <1>1, CallsInit, CallsKept, LifeInit, LifeKept, PTL DEF Spec

----------------------------------------------------------------------------
(* Types and the pool.                                                     *)

\* No call has a connection outside of a visit or queues for a second one, and
\* no more are given out than the pool has.
PoolInv ==
    /\ {rw, ro} \subseteq {"none", "open", "closing", "closed"}
    /\ ready \in BOOLEAN
    /\ stage \in [Calls -> Visits \cup {"new", "handle", "agent", "ended"}]
    /\ DOMAIN outcome = Calls
    /\ want \in [Calls -> BOOLEAN] /\ held \in [Calls -> Nat]
    /\ \A r \in Calls :
        /\ want[r] => held[r] = 0
        /\ stage[r] = "ended" <=> outcome[r] # "none"
        /\ stage[r] \notin Visits => ~ want[r] /\ held[r] = 0
    /\ IsFiniteSet(InUse) /\ Cardinality(InUse) <= PoolMax

\* At first nobody has a connection.
LEMMA PoolInit == Init => PoolInv
<1> SUFFICES ASSUME Init PROVE PoolInv
  OBVIOUS
<1>1. InUse = {}
  BY DEF Init, InUse
<1>2. IsFiniteSet(InUse) /\ Cardinality(InUse) <= PoolMax
  BY <1>1, FS_EmptySet, PoolMaxPositive
<1> QED
  BY <1>2 DEF Init, PoolInv, Visits

\* Connections that are given back do not make the pool exceed its size.
LEMMA InUseShrinks ==
    ASSUME PoolInv, NEW r \in Calls, held' = held \/ held' = [held EXCEPT ![r] = 0]
    PROVE  /\ held' \in [Calls -> Nat]
           /\ IsFiniteSet(InUse') /\ Cardinality(InUse') <= PoolMax
<1>1. held' \in [Calls -> Nat] /\ InUse' \in SUBSET InUse
  BY DEF PoolInv, InUse
<1>2. IsFiniteSet(InUse') /\ Cardinality(InUse') <= Cardinality(InUse)
  BY <1>1, FS_Subset DEF PoolInv
<1>3. Cardinality(InUse) \in Nat /\ Cardinality(InUse') \in Nat /\ PoolMax \in Nat
  BY <1>2, FS_CardinalityType, PoolMaxPositive DEF PoolInv
<1> QED
  BY <1>1, <1>2, <1>3 DEF PoolInv

\* The lifespan opens and closes pools; it takes nobody's connection.
LEMMA LifespanKeepsPool == PoolInv /\ (Lifespan \/ Shutdown) => PoolInv'
<1> SUFFICES ASSUME PoolInv, Lifespan \/ Shutdown PROVE PoolInv'
  OBVIOUS
<1>1. UNCHANGED callVars
  BY DEF Lifespan, Shutdown, CreateRw, CreateRo, LoadTopic, MarkReady, RwClosed, RoClosed,
         StartupFails
<1>2. {rw', ro'} \subseteq {"none", "open", "closing", "closed"} /\ ready' \in BOOLEAN
  BY DEF PoolInv, Lifespan, Shutdown, CreateRw, CreateRo, LoadTopic, MarkReady, RwClosed,
         RoClosed, StartupFails
<1> QED
  BY <1>1, <1>2 DEF PoolInv, callVars, InUse

\* A call that gets a connection finds one that is free.
LEMMA AcquireKeepsPool ==
    ASSUME PoolInv, NEW r \in Calls, Acquire(r)
    PROVE  PoolInv'
<1>1. /\ held' = [held EXCEPT ![r] = @ + 1] /\ want' = [want EXCEPT ![r] = FALSE]
      /\ Cardinality(InUse) < PoolMax
      /\ UNCHANGED <<rw, ro, ready, stage, outcome>>
  BY DEF Acquire, lifeVars
<1>2. stage[r] \in Visits
  BY DEF PoolInv, Acquire
<1>3. held' \in [Calls -> Nat] /\ InUse' = InUse \cup {r}
  BY <1>1 DEF PoolInv, InUse
<1>4. /\ IsFiniteSet(InUse')
      /\ Cardinality(InUse') = Cardinality(InUse) \/ Cardinality(InUse') = Cardinality(InUse) + 1
  BY <1>3, FS_AddElement DEF PoolInv
<1>5. Cardinality(InUse) \in Nat /\ PoolMax \in Nat
  BY FS_CardinalityType, PoolMaxPositive DEF PoolInv
<1> QED
  BY <1>1, <1>2, <1>3, <1>4, <1>5 DEF PoolInv

\* Every other step of a call gives back what it has, or goes on with it.
LEMMA CallKeepsPool ==
    ASSUME PoolInv, NEW r \in Calls,
           \/ \E o \in Ops, b \in Ids, head \in Heads : Arrive(r, o, b, head)
           \/ CallStep(r) \/ VisitFails(r) \/ Leave(r)
    PROVE  PoolInv'
<1> USE DEF Go
<1>1. ASSUME NEW o \in Ops, NEW b \in Ids, NEW head \in Heads, Arrive(r, o, b, head)
      PROVE  PoolInv'
  <2>1. Gate(o, b, head) # "none" /\ FirstStage(o) \in Visits \cup {"handle"}
    BY DEF Gate, SseGate, WsGate, ListGate, MessagesGate, FirstStage, Ops, Visits
  <2>2. stage[r] = "new" /\ UNCHANGED <<want, held, lifeVars>>
    BY <1>1 DEF Arrive
  <2>3. \/ stage' = [stage EXCEPT ![r] = FirstStage(o)] /\ UNCHANGED outcome
        \/ /\ stage' = [stage EXCEPT ![r] = "ended"]
           /\ outcome' = [outcome EXCEPT ![r] = Gate(o, b, head)]
    BY <1>1 DEF Arrive
  <2> QED
    BY <2>1, <2>2, <2>3 DEF PoolInv, lifeVars, InUse, Visits
<1>2. ASSUME NEW how, how # "none", Finish(r, how), UNCHANGED lifeVars
      PROVE  PoolInv'
  BY <1>2, InUseShrinks DEF PoolInv, Finish, lifeVars, Visits
<1>3. ASSUME NEW to \in Visits \cup {"agent"}, Proceed(r, to), UNCHANGED lifeVars,
             stage[r] # "ended"
      PROVE  PoolInv'
  BY <1>3, InUseShrinks DEF PoolInv, Proceed, lifeVars, Visits
<1>4. CASE Handle(r)
  BY <1>2, <1>3, <1>4 DEF Handle, Visits
<1>5. CASE Enter(r)
  BY <1>5 DEF Enter, PoolInv, lifeVars, InUse
<1>6. CASE Acquire(r)
  BY <1>6, AcquireKeepsPool
<1>7. CASE VisitEnds(r)
  <2>1. UNCHANGED lifeVars /\ stage[r] \in Visits /\ stage[r] # "ended"
    BY <1>7 DEF VisitEnds, Visits
  <2>2. CASE ReadRows(r)
    BY <2>1, <2>2 DEF ReadRows, PoolInv, lifeVars, InUse, Visits
  <2>3. CASE Proceed(r, "load") \/ Proceed(r, "agent")
    BY <1>3, <2>1, <2>3 DEF Visits
  <2>4. CASE Finish(r, "cut") \/ Finish(r, "done") \/ Finish(r, "404") \/ Finish(r, "page")
    BY <1>2, <2>1, <2>4
  <2> QED
    BY <1>7, <2>2, <2>3, <2>4 DEF VisitEnds, UserVisitEnds, LaterVisitEnds, Visits
<1>8. CASE AgentEnds(r)
  <2>1. stage[r] # "ended" /\ UNCHANGED lifeVars
    BY <1>8 DEF AgentEnds
  <2> QED
    BY <1>2, <1>3, <1>8, <2>1 DEF AgentEnds, Visits
<1>9. CASE VisitFails(r)
  <2>1. FailureOutcome(r) # "none"
    BY <1>9 DEF VisitFails, FailureOutcome, Visits
  <2> QED
    BY <1>2, <1>9, <2>1 DEF VisitFails
<1>10. CASE Leave(r)
  BY <1>2, <1>10 DEF Leave
<1> QED
  BY <1>1, <1>4, <1>5, <1>6, <1>7, <1>8, <1>9, <1>10 DEF CallStep

\* Every step of the service keeps what is known of the pool.
LEMMA PoolKept == PoolInv /\ [Next]_vars => PoolInv'
<1> SUFFICES ASSUME PoolInv, [Next]_vars PROVE PoolInv'
  OBVIOUS
<1>1. CASE UNCHANGED vars
  BY <1>1 DEF vars, lifeVars, callVars, PoolInv, InUse
<1> QED
  BY <1>1, LifespanKeepsPool, CallKeepsPool DEF Next

\* The pool never gives out more connections than it has, and a call that is
\* over, or with its agent, keeps none, however calls, failures and the
\* lifespan interleave.
THEOREM TypeCorrect == Spec => []TypeOK
<1>1. CallInv /\ PoolInv => TypeOK
  BY DEF CallInv, PoolInv, TypeOK
<1> QED
  BY <1>1, PoolInit, PoolKept, CallsInit, CallsKept, LifeInit, LifeKept, PTL DEF Spec

----------------------------------------------------------------------------
(* What keeps EveryCallEnds from failing, apart from fairness.             *)

\* Who waits for a connection finds one free, or waits for somebody who has one
\* and can go on without another.
NobodyWaitsInACircle ==
    \A r \in Calls : want[r] =>
        \/ Cardinality(InUse) < PoolMax
        \/ \E q \in InUse : ~ want[q] /\ stage[q] \in Visits

\* Calls never wait for each other in a circle, however small the pool: the
\* repositories of one request share one connection, so that no call asks for
\* a second one while it has one.
THEOREM PoolNeverDeadlocks == Spec => []NobodyWaitsInACircle
<1>1. PoolInv => NobodyWaitsInACircle
  <2> SUFFICES ASSUME PoolInv, ~ (Cardinality(InUse) < PoolMax)
               PROVE  \E q \in InUse : ~ want[q] /\ stage[q] \in Visits
    BY DEF NobodyWaitsInACircle
  <2>1. InUse # {}
    BY FS_EmptySet, PoolMaxPositive DEF PoolInv
  <2>2. PICK q \in Calls : q \in InUse /\ held[q] > 0
    BY <2>1 DEF InUse
  <2>3. ~ want[q] /\ stage[q] \in Visits
    BY <2>2 DEF PoolInv
  <2> QED
    BY <2>2, <2>3
<1> QED
  BY <1>1, PoolInit, PoolKept, PTL DEF Spec

\* What is left of a call: its stages to come and, of a visit, whether it has
\* to queue, is queued or has its connection.
StagesLeft(s) ==
    CASE s = "new" -> 7 [] s = "handle" -> 6 [] s = "user" -> 5 [] s = "load" -> 4
      [] s \in {"agent", "owner"} -> 3 [] s \in {"persist", "list", "rows"} -> 2
      [] s = "ended" -> 0
Left(r) ==
    3 * StagesLeft(stage[r]) +
        (IF stage[r] \notin Visits \/ held[r] > 0 THEN 0 ELSE IF want[r] THEN 1 ELSE 2)

\* A step concerns a call not at all, or leaves less of it.
GoesForward(r) == UNCHANGED <<stage[r], want[r], held[r]>> \/ Left(r)' < Left(r)

\* A call that moves to a later stage.
LEMMA LaterIsLess ==
    ASSUME PoolInv, PoolInv', NEW r \in Calls,
           StagesLeft(stage'[r]) < StagesLeft(stage[r])
    PROVE  Left(r)' < Left(r)
<1>1. \A s \in Visits \cup {"new", "handle", "agent", "ended"} : StagesLeft(s) \in 0 .. 7
  BY DEF StagesLeft, Visits
<1>2. /\ stage[r] \in Visits \cup {"new", "handle", "agent", "ended"}
      /\ stage'[r] \in Visits \cup {"new", "handle", "agent", "ended"}
  BY DEF PoolInv
<1>3. StagesLeft(stage[r]) \in 0 .. 7 /\ StagesLeft(stage'[r]) \in 0 .. 7
  BY <1>1, <1>2
<1> QED
  BY <1>3 DEF Left

\* Whatever step is taken.
LEMMA StepGoesForward ==
    ASSUME PoolInv, PoolInv', [Next]_vars, NEW q \in Calls
    PROVE  GoesForward(q)
<1>1. CASE UNCHANGED callVars
  BY <1>1 DEF callVars, GoesForward
<1>2. CASE Lifespan \/ Shutdown
  BY <1>1, <1>2 DEF Lifespan, Shutdown, CreateRw, CreateRo, LoadTopic, MarkReady, RwClosed,
                    RoClosed, StartupFails
<1>3. ASSUME NEW r \in Calls,
             \/ \E o \in Ops, b \in Ids, head \in Heads : Arrive(r, o, b, head)
             \/ CallStep(r) \/ VisitFails(r) \/ Leave(r)
      PROVE  GoesForward(q)
  <2> USE DEF Go
  <2>1. \A p \in Calls \ {r} : UNCHANGED <<stage[p], want[p], held[p]>>
    BY <1>3 DEF PoolInv, Arrive, CallStep, Handle, Enter, Acquire, VisitEnds, UserVisitEnds,
                LaterVisitEnds, Visits,
                AgentEnds, VisitFails, Leave, Finish, Proceed, ReadRows
  <2>2. CASE Enter(r) \/ Acquire(r)
    <3>1. stage[r] \in Visits /\ UNCHANGED stage
      BY <2>2 DEF PoolInv, Enter, Acquire
    <3>2. \/ held[r] = 0 /\ ~ want[r] /\ held'[r] = 0 /\ want'[r]
          \/ held[r] = 0 /\ want[r] /\ held'[r] > 0
      BY <2>2 DEF PoolInv, Enter, Acquire
    <3>3. StagesLeft(stage[r]) \in Nat
      BY <3>1 DEF StagesLeft, Visits
    <3>4. Left(r)' < Left(r)
      BY <3>1, <3>2, <3>3 DEF Left
    <3> QED
      BY <2>1, <3>4 DEF GoesForward
  <2>3. CASE ~ (Enter(r) \/ Acquire(r))
    <3>1. StagesLeft(stage'[r]) < StagesLeft(stage[r])
      <4>1. CASE \E o \in Ops, b \in Ids, head \in Heads : Arrive(r, o, b, head)
        BY <4>1 DEF PoolInv, Arrive, FirstStage, Ops, StagesLeft
      <4>2. CASE Handle(r) \/ AgentEnds(r)
        BY <4>2 DEF PoolInv, Handle, AgentEnds, Finish, Proceed, StagesLeft
      <4>3. CASE VisitEnds(r)
        <5>1. /\ stage[r] \in Visits
              /\ \/ stage[r] = "user" /\ stage'[r] = "load"
                 \/ stage[r] = "load" /\ stage'[r] = "agent"
                 \/ stage[r] = "owner" /\ stage'[r] = "rows"
                 \/ stage'[r] = "ended"
          BY <4>3 DEF PoolInv, VisitEnds, UserVisitEnds, LaterVisitEnds, Visits, Finish,
                      Proceed, ReadRows
        <5> QED
          BY <5>1 DEF StagesLeft, Visits
      <4>4. CASE VisitFails(r) \/ Leave(r)
        <5>1. stage'[r] = "ended" /\ stage[r] \notin {"new", "ended"}
          BY <4>4 DEF PoolInv, VisitFails, Leave, Visits, Finish
        <5> QED
          BY <5>1 DEF PoolInv, StagesLeft, Visits
      <4> QED
        BY <1>3, <2>3, <4>1, <4>2, <4>3, <4>4 DEF CallStep
    <3> QED
      BY <2>1, <3>1, LaterIsLess DEF GoesForward
  <2> QED
    BY <2>2, <2>3
<1>4. CASE UNCHANGED vars
  BY <1>1, <1>4 DEF vars
<1> QED
  BY <1>2, <1>3, <1>4 DEF Next

\* Every step takes the call that makes it forward and leaves the others where
\* they are: nothing is retried and no stage is come back to, so that a call is
\* over after a bounded number of its own steps.
THEOREM CallsGoForward == Spec => [][\A r \in Calls : GoesForward(r)]_vars
<1>1. PoolInv /\ PoolInv' /\ [Next]_vars => [\A r \in Calls : GoesForward(r)]_vars
  BY StepGoesForward
<1> QED
  BY <1>1, PoolInit, PoolKept, PTL DEF Spec
=============================================================================
