---------------------------- MODULE ThreadStore ----------------------------
(***************************************************************************)
(* SessionRepository and MessageRepository over PostgreSQL, one action per *)
(* SQL statement.  Every statement commits on its own (no transaction is   *)
(* opened anywhere), so other requests run between any two of them.        *)
(*                                                                         *)
(* A request (one ask, one asyncio task) visits the store at most three    *)
(* times, each time on a connection it takes from the pool and gives back: *)
(*   "user"     get_or_create, append            (before the graph)        *)
(*   "load"     get_or_create, list_recent       (load_session node)       *)
(*   "persist"  append, touch                    (persist node)            *)
(* What the request does between the visits is left open: ChatService      *)
(* composes this module with it.                                           *)
(*                                                                         *)
(* The database is external: modelled are the statements' effects, the     *)
(* primary key of ma_session and UNIQUE (thread_id, seq) of ma_message.    *)
(***************************************************************************)
EXTENDS Naturals, Sequences, FiniteSets, FiniteSetsExt

CONSTANTS
    Requests,   \* requests, each served by one asyncio task
    Threads,    \* thread_id values
    Topics,     \* biz_id values
    NoTopic,    \* stands for: no ma_session row
    Bodies,     \* what a message says (content and status)
    PoolMax     \* asyncpg pool max_size (Settings.pg_pool_max)

ASSUME RequestsFinite == IsFiniteSet(Requests)
ASSUME NoTopicIsNone == NoTopic \notin Topics
ASSUME PoolMaxPositive == PoolMax \in Nat \ {0}

Visits  == {"none", "user", "load", "persist"}
Results == {"none", "ok", "mismatch", "duplicate", "dberror", "cancelled"}
InStore == {"select", "insert", "reselect", "max", "row", "list", "touch",
            "release"}
Places  == InStore \cup {"between", "waiting", "ended"}

Message == [req : Requests, role : {"user", "assistant"}, body : Bodies]

VARIABLES
    ask,        \* ask[r]: the thread and topic request r names (never changes)
    sessions,   \* sessions[t]: biz_id of the ma_session row of t, or NoTopic
    messages,   \* messages[t]: the ma_message rows of t, a function on their seq
    touched,    \* threads whose last_message_at is not NULL
    conns,      \* requests that hold a pooled connection
    visit,      \* visit[r]: the visit r is in, or was in last
    pc,         \* pc[r]: the statement r executes next
    maxSeq,     \* maxSeq[r]: what r's SELECT MAX(seq) returned
    result      \* result[r]: how the visit went

vars == <<ask, sessions, messages, touched, conns, visit, pc, maxSeq, result>>
tables == <<sessions, messages, touched>>

Init ==
    /\ ask \in [Requests -> [thread : Threads, topic : Topics]]
    /\ sessions = [t \in Threads |-> NoTopic]
    /\ messages = [t \in Threads |-> <<>>]
    /\ touched = {}
    /\ conns = {}
    /\ visit = [r \in Requests |-> "none"]
    /\ pc = [r \in Requests |-> "between"]
    /\ maxSeq = [r \in Requests |-> 0]
    /\ result = [r \in Requests |-> "none"]

Thread(r) == ask[r].thread
Topic(r)  == ask[r].topic

Goto(r, place) == pc' = [pc EXCEPT ![r] = place]

\* The visit is over, with result res; the connection is still held.
EndVisit(r, res) ==
    /\ Goto(r, "release")
    /\ result' = [result EXCEPT ![r] = res]

\* Mutant: the question is stored only once the graph has run.
NextVisitAnswerFirst(v) ==
    CASE v = "none" -> "load"
      [] v = "load" -> "persist"
      [] v = "user" -> "load"

NextVisit(v) ==
    CASE v = "none" -> "user"
      [] v = "user" -> "load"
      [] v = "load" -> "persist"

\* Mutant: the SELECT lost its WHERE thread_id = $1.
MaxSeqOfAll(t) == Max({0} \cup UNION {DOMAIN messages[u] : u \in Threads})

\* MAX(seq) of the rows of t, 0 if there is none.
MaxSeqOf(t) == Max({0} \cup DOMAIN messages[t])

----------------------------------------------------------------------------
(* The pool: `async with factory.acquire() as conn`.                       *)

\* r calls acquire() for its next visit.
Enter(r) ==
    /\ pc[r] = "between" /\ visit[r] # "persist"
    /\ visit' = [visit EXCEPT ![r] = NextVisit(@)]
    /\ result' = [result EXCEPT ![r] = "none"]
    /\ Goto(r, "waiting")
    /\ UNCHANGED <<ask, tables, conns, maxSeq>>

\* The pool has a free connection and hands it to r.
Acquire(r) ==
    /\ pc[r] = "waiting"
    /\ Cardinality(conns) < PoolMax
    /\ conns' = conns \cup {r}
    /\ Goto(r, IF visit[r] = "persist" THEN "max" ELSE "select")
    /\ UNCHANGED <<ask, tables, visit, maxSeq, result>>

\* Mutant: pool.acquire() without `async with`, released on success only.
ReleaseOnSuccess(r) ==
    /\ pc[r] = "release"
    /\ conns' = IF result[r] = "ok" THEN conns \ {r} ELSE conns
    /\ Goto(r, IF result[r] = "ok" /\ visit[r] # "persist"
               THEN "between" ELSE "ended")
    /\ UNCHANGED <<ask, tables, visit, maxSeq, result>>

\* Leaving the `async with` gives the connection back, however the visit went.
Release(r) ==
    /\ pc[r] = "release"
    /\ conns' = conns \ {r}
    /\ Goto(r, IF result[r] = "ok" /\ visit[r] # "persist"
               THEN "between" ELSE "ended")
    /\ UNCHANGED <<ask, tables, visit, maxSeq, result>>

----------------------------------------------------------------------------
(* SessionRepository.get_or_create: three statements.                      *)

AfterGetOrCreate(r) == Goto(r, IF visit[r] = "user" THEN "max" ELSE "list")

\* SELECT by thread_id: another topic's row is a SessionBizMismatchError.
SelectSession(r) ==
    /\ pc[r] = "select"
    /\ \/ /\ sessions[Thread(r)] = NoTopic
          /\ Goto(r, "insert")
          /\ UNCHANGED result
       \/ /\ sessions[Thread(r)] = Topic(r)
          /\ AfterGetOrCreate(r)
          /\ UNCHANGED result
       \/ /\ sessions[Thread(r)] \notin {NoTopic, Topic(r)}
          /\ EndVisit(r, "mismatch")
    /\ UNCHANGED <<ask, tables, conns, visit, maxSeq>>

\* Mutant: ON CONFLICT (thread_id) DO UPDATE SET biz_id.
InsertSessionDoUpdate(r) ==
    /\ pc[r] = "insert"
    /\ sessions' = [sessions EXCEPT ![Thread(r)] = Topic(r)]
    /\ Goto(r, "reselect")
    /\ UNCHANGED <<ask, messages, touched, conns, visit, maxSeq, result>>

\* INSERT ... ON CONFLICT (thread_id) DO NOTHING.
InsertSession(r) ==
    /\ pc[r] = "insert"
    /\ sessions' = [sessions EXCEPT ![Thread(r)] =
                        IF @ = NoTopic THEN Topic(r) ELSE @]
    /\ Goto(r, "reselect")
    /\ UNCHANGED <<ask, messages, touched, conns, visit, maxSeq, result>>

\* The second SELECT.  Its row may be another request's: biz_id is not
\* compared again.  It is never None (the assert): BoundFirst says so.
ReselectSession(r) ==
    /\ pc[r] = "reselect"
    /\ AfterGetOrCreate(r)
    /\ UNCHANGED <<ask, tables, conns, visit, maxSeq, result>>

SessionRepository_touch(r) ==
    /\ pc[r] = "touch"
    /\ touched' = touched \cup {Thread(r)}
    /\ EndVisit(r, "ok")
    /\ UNCHANGED <<ask, sessions, messages, conns, visit, maxSeq>>

----------------------------------------------------------------------------
(* MessageRepository.append (seq = 0): two statements, and list_recent.    *)

SelectMaxSeq(r) ==
    /\ pc[r] = "max"
    /\ maxSeq' = [maxSeq EXCEPT ![r] = MaxSeqOf(Thread(r))]
    /\ Goto(r, "row")
    /\ UNCHANGED <<ask, tables, conns, visit, result>>

Role(r) == IF visit[r] = "user" THEN "user" ELSE "assistant"

\* Mutant: the number just read is used as it is.
NextSeqNotIncremented(r) == maxSeq[r]

\* The number the new row gets: MAX + 1, as it was when r read it.
NextSeq(r) == maxSeq[r] + 1

\* Mutant: ON CONFLICT (thread_id, seq) DO UPDATE, the last writer wins.
SeqTakenOver(t, k) == TRUE

\* UNIQUE (thread_id, seq).
SeqFree(t, k) == k \notin DOMAIN messages[t]

\* The rows of t once message m is stored under seq k.
WithRow(t, k, m) ==
    [n \in DOMAIN messages[t] \cup {k} |-> IF n = k THEN m ELSE messages[t][n]]

\* INSERT: a row that took this seq since r read MAX makes it fail with
\* UniqueViolationError.
InsertMessage(r, body) ==
    LET t == Thread(r)
        k == NextSeq(r)
        m == [req |-> r, role |-> Role(r), body |-> body]
    IN  /\ pc[r] = "row"
        /\ \/ /\ SeqFree(t, k)
              /\ messages' = [messages EXCEPT ![t] = WithRow(t, k, m)]
              /\ IF visit[r] = "user"
                 THEN EndVisit(r, "ok")
                 ELSE Goto(r, "touch") /\ UNCHANGED result
           \/ /\ ~ SeqFree(t, k)
              /\ EndVisit(r, "duplicate")
              /\ UNCHANGED messages
        /\ UNCHANGED <<ask, sessions, touched, conns, visit, maxSeq>>

\* SELECT ... ORDER BY seq DESC LIMIT n changes nothing in the store.
ListRecent(r) ==
    /\ pc[r] = "list"
    /\ EndVisit(r, "ok")
    /\ UNCHANGED <<ask, tables, conns, visit, maxSeq>>

----------------------------------------------------------------------------
(* Failures.  A statement may fail (connection lost, server error) and the *)
(* task may be cancelled while it awaits one.  Either way the statement    *)
(* may have taken effect: that is the same failure one place later.        *)

Failures == {"dberror", "cancelled"}

AbortVisit(r, why) ==
    /\ pc[r] \in InStore
    /\ EndVisit(r, why)
    /\ UNCHANGED <<ask, tables, conns, visit, maxSeq>>

\* acquire() raises, or is cancelled while it waits for a free connection.
AbortWait(r, why) ==
    /\ pc[r] = "waiting"
    /\ Goto(r, "ended")
    /\ result' = [result EXCEPT ![r] = why]
    /\ UNCHANGED <<ask, tables, conns, visit, maxSeq>>

\* Between two visits the request is cancelled or fails elsewhere: no further
\* visit.
Leave(r) ==
    /\ pc[r] = "between"
    /\ Goto(r, "ended")
    /\ UNCHANGED <<ask, tables, conns, visit, maxSeq, result>>

----------------------------------------------------------------------------

\* What a request does with the store once it waits for a connection.
Work(r) ==
    \/ Acquire(r)
    \/ SelectSession(r)
    \/ InsertSession(r)
    \/ ReselectSession(r)
    \/ SelectMaxSeq(r)
    \/ \E body \in Bodies : InsertMessage(r, body)
    \/ ListRecent(r)
    \/ SessionRepository_touch(r)
    \/ Release(r)

Next ==
    \E r \in Requests :
        \/ Enter(r)
        \/ Work(r)
        \/ \E why \in Failures : AbortVisit(r, why) \/ AbortWait(r, why)
        \/ Leave(r)

Spec == Init /\ [][Next]_vars

----------------------------------------------------------------------------

\* The type invariant: rows are a function from seq to message.
TypeOK ==
    /\ ask \in [Requests -> [thread : Threads, topic : Topics]]
    /\ sessions \in [Threads -> Topics \cup {NoTopic}]
    /\ DOMAIN messages = Threads
    /\ \A t \in Threads :
          /\ DOMAIN messages[t] \subseteq Nat \ {0}
          /\ IsFiniteSet(DOMAIN messages[t])
          /\ \A n \in DOMAIN messages[t] : messages[t][n] \in Message
    /\ touched \subseteq Threads
    /\ conns \subseteq Requests
    /\ visit \in [Requests -> Visits]
    /\ pc \in [Requests -> Places]
    /\ maxSeq \in [Requests -> Nat]
    /\ result \in [Requests -> Results]

----------------------------------------------------------------------------
(* What the store guarantees.                                              *)

\* The rows of a thread are numbered 1, 2, ..., n: although MAX(seq) is read
\* in one statement and used in another, no interleaving, failure or lost
\* answer leaves a gap or reuses a number.
SeqsContiguous ==
    \A t \in Threads : DOMAIN messages[t] = 1 .. MaxSeqOf(t)

\* The pool loses no connection: exactly the requests inside an `async with`
\* hold one, and never more than max_size of them.
PoolSound ==
    /\ conns = {r \in Requests : pc[r] \in InStore}
    /\ Cardinality(conns) <= PoolMax

HasRow(r, role) ==
    \E n \in DOMAIN messages[Thread(r)] :
        /\ messages[Thread(r)][n].req = r
        /\ messages[Thread(r)][n].role = role

\* A visit that reported success keeps its row, whatever later writers do: a
\* request whose append of the question returned has its question stored,
\* and one whose persist visit went well has its answer stored.
AcknowledgedStored ==
    \A r \in Requests :
        /\ visit[r] \in {"load", "persist"} => HasRow(r, "user")
        /\ result[r] = "ok" => HasRow(r, "user")
        /\ result[r] = "ok" /\ visit[r] = "persist" => HasRow(r, "assistant")

\* In a thread, the answer to a request comes after its question.
QuestionBeforeAnswer ==
    \A t \in Threads : \A j \in DOMAIN messages[t] :
        messages[t][j].role = "assistant" =>
            \E i \in DOMAIN messages[t] :
                /\ i < j
                /\ messages[t][i].role = "user"
                /\ messages[t][i].req = messages[t][j].req

\* The store implements the abstract thread: bindings never change and the
\* rows, read in the order of seq, are a log that grows at the end only.
Log == INSTANCE ThreadLog WITH
            Messages <- Message, bound <- sessions, log <- messages
RefinesThreadLog == Log!Spec

\* The inductive invariant behind the guarantees above.  ControlOK: where each
\* visit can be.  RowsAreLog and ReadOK: a number read is never ahead of the
\* rows.  BoundFirst: a thread is bound before a row is written to it.
\* RowsMatchControl: a row exists only after its INSERT, in its own thread.
ControlOK ==
    \A r \in Requests :
        /\ visit[r] = "none" => pc[r] \in {"between", "ended"} /\ result[r] = "none"
        /\ pc[r] \in {"select", "insert", "reselect"} => visit[r] \in {"user", "load"}
        /\ pc[r] = "list" => visit[r] = "load"
        /\ pc[r] \in {"max", "row"} => visit[r] \in {"user", "persist"}
        /\ pc[r] = "touch" => visit[r] = "persist"
        /\ pc[r] \in {"waiting"} \cup (InStore \ {"release"}) => result[r] = "none"
        /\ pc[r] = "between" =>
              visit[r] = "none" \/ (visit[r] \in {"user", "load"} /\ result[r] = "ok")

RowsAreLog == messages \in [Threads -> Seq(Message)]

ReadOK ==
    \A r \in Requests :
        pc[r] = "row" => maxSeq[r] <= Len(messages[Thread(r)])

BoundFirst ==
    \A r \in Requests :
        \/ visit[r] \in {"load", "persist"}
        \/ pc[r] \in {"reselect", "max", "row"}
        \/ result[r] = "ok"
        => sessions[Thread(r)] # NoTopic

RowMatchesControl(t, m) ==
    /\ Thread(m.req) = t
    /\ visit[m.req] # "none"
    /\ m.role = "user" /\ visit[m.req] = "user" =>
          pc[m.req] \in {"release", "between", "ended"}
    /\ m.role = "assistant" =>
          visit[m.req] = "persist" /\ pc[m.req] \in {"touch", "release", "ended"}

RowsMatchControl ==
    \A t \in Threads : \A n \in DOMAIN messages[t] :
        RowMatchesControl(t, messages[t][n])

AnswerBeforeTouch ==
    \A r \in Requests : pc[r] = "touch" => HasRow(r, "assistant")

IInv ==
    /\ TypeOK
    /\ ControlOK
    /\ PoolSound
    /\ RowsAreLog
    /\ ReadOK
    /\ BoundFirst
    /\ RowsMatchControl
    /\ AcknowledgedStored
    /\ AnswerBeforeTouch
    /\ QuestionBeforeAnswer

\* What the docstring of get_or_create says: a thread_id that exists with
\* another biz_id is refused.  Then every question in a thread is about the
\* topic the thread is bound to.
QuestionsMatchTopic ==
    \A t \in Threads : \A n \in DOMAIN messages[t] :
        Topic(messages[t][n].req) = sessions[t]

=============================================================================
