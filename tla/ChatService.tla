---------------------------- MODULE ChatService ----------------------------
(***************************************************************************)
(* ChatService.handle: one ask from its arrival to the end of its event    *)
(* stream, for several requests at once.  It composes                      *)
(*   ThreadStore  the statements each request runs against the two tables, *)
(*   AdapterNode  the retry loop around the downstream agent,              *)
(*   History      the selection of the turns given to the model,           *)
(* with what handle and the graph it compiles do around them:              *)
(*                                                                         *)
(*   arrive - user - load - auth -+- reject --------------------+- persist *)
(*                                +- enrich - intent - adapter -+          *)
(*                                                                         *)
(* LangGraph is external: a node runs after its predecessor, a node that   *)
(* raises ends the run, and cancelling the run cancels the node.  Whether  *)
(* the run goes on after a node that caught its cancellation is up to the  *)
(* engine (EngineResumes).                                                 *)
(*                                                                         *)
(* The graph runs in a task of its own.  What its nodes emit goes into the *)
(* unbounded queue behind astream_events, and handle yields it from there  *)
(* when its consumer is ready: `stream` is what was put into the queue.    *)
(* No node waits for handle, handle yields in order, and it comes to an    *)
(* exception of the graph or to its own done only when the queue is empty. *)
(* So when it yields shows in one place only: a request that is cancelled  *)
(* leaves unyielded what is in the queue at that moment (unread).          *)
(***************************************************************************)
EXTENDS History, FiniteSets

CONSTANTS
    Requests, Threads, Topics, NoTopic, PoolMax,    \* see ThreadStore
    AnswerLen, MaxAttempts, RetryableFlags,         \* see AdapterNode
    MaxTurns,       \* history.max_turns of the topics
    Routes,         \* labels of the conditional edge, each with its adapter
    DefaultRoute,   \* default_route of the topics
    EngineResumes,  \* what the engine may do after a caught cancellation
    Faults          \* what may go wrong: a subset of FaultKinds

FaultKinds == {"request", "plugin", "database", "cancel"}

ASSUME RequestsFinite == IsFiniteSet(Requests)
ASSUME NoTopicIsNone == NoTopic \notin Topics
ASSUME PoolMaxPositive == PoolMax \in Nat \ {0}
ASSUME AnswerLenNat == AnswerLen \in Nat
ASSUME MaxAttemptsPositive == MaxAttempts \in Nat \ {0}
ASSUME MaxTurnsPositive == MaxTurns \in Nat \ {0}
ASSUME FaultsKnown == Faults \subseteq FaultKinds
ASSUME EngineResumesSet == EngineResumes \subseteq BOOLEAN /\ EngineResumes # {}

Nodes == {"arrive", "user", "load", "auth", "reject", "enrich", "intent",
          "adapter", "persist", "done", "failed", "closed"}

\* answer_chunks: a topic's refusal text, which is piece 0, or pieces of answers.
Answers == {<<0>>} \cup BoundedSeq(1 .. AnswerLen, AnswerLen * MaxAttempts)

\* Content and status of an ma_message row.
Bodies == [status : {"complete", "partial"}, chunks : Answers]

VARIABLES
    ask, sessions, messages, touched, conns, visit, pc, maxSeq, result,
    phase, attempt, pos, chunks, ending, stream,
    node,       \* node[r]: where the request is in handle and its graph
    history,    \* history[r]: turns given to the model, as <<question, answer>>
    rejected,   \* requests the auth plugin did not let pass
    cancelled,  \* requests whose task was cancelled
    unread      \* unread[r]: pieces that never left the queue of request r

storeVars == <<ask, sessions, messages, touched, conns, visit, pc, maxSeq, result>>
adapterVars == <<phase, attempt, pos, chunks, ending>>
chatVars == <<node, history, rejected, cancelled, unread>>
vars == <<storeVars, adapterVars, stream, chatVars>>

Store   == INSTANCE ThreadStore
Adapter == INSTANCE AdapterNode

Init ==
    /\ Store!Init
    /\ Adapter!Init
    /\ node = [r \in Requests |-> "arrive"]
    /\ history = [r \in Requests |-> <<>>]
    /\ rejected = {}
    /\ cancelled = {}
    /\ unread = [r \in Requests |-> 0]

Ev(type, info) == Adapter!Ev(type, info)
Emit(r, events) == Adapter!Emit(r, events)
Goto(r, n) == node' = [node EXCEPT ![r] = n]

Done(status) == Ev("done", status)
Error(code)  == Ev("error", code)
Step(name)   == <<Ev("thinking", name), Ev("progress", name)>>

----------------------------------------------------------------------------
(* handle, before the graph.                                               *)

\* Unknown topic, or biz_params that do not validate.
Refuse(r, code) ==
    /\ "request" \in Faults
    /\ node[r] = "arrive"
    /\ Emit(r, <<Error(code), Done("failed")>>)
    /\ Goto(r, "closed")
    /\ UNCHANGED <<storeVars, adapterVars, history, rejected, cancelled, unread>>

\* meta, then the user message is persisted.
Accept(r) ==
    /\ node[r] = "arrive"
    /\ Emit(r, <<Ev("meta", "none")>>)
    /\ Goto(r, "user")
    /\ Store!Enter(r)
    /\ UNCHANGED <<adapterVars, history, rejected, cancelled, unread>>

UserBody == [status |-> "complete", chunks |-> <<>>]

InsertUserMessage(r) ==
    /\ node[r] = "user"
    /\ Store!InsertMessage(r, UserBody)
    /\ UNCHANGED <<adapterVars, stream, chatVars>>

\* Where the request goes when _persist_user_message ends with res.  Only
\* SessionBizMismatchError is caught: everything else leaves handle, and the
\* stream gets neither error nor done.
AfterUserVisit(r, res) ==
    \/ /\ res = "ok"
       /\ Goto(r, "load")
       /\ UNCHANGED stream
    \/ /\ res = "mismatch"
       /\ Emit(r, <<Error("BAD_REQUEST"), Done("failed")>>)
       /\ Goto(r, "closed")
    \/ /\ res \notin {"ok", "mismatch"}
       /\ Goto(r, "closed")
       /\ UNCHANGED stream

----------------------------------------------------------------------------
(* The store, as every visit uses it.                                      *)

\* Statements that concern the store alone.
StoreStep(r) ==
    /\ \/ Store!Acquire(r)
       \/ Store!SelectSession(r)
       \/ Store!InsertSession(r)
       \/ Store!ReselectSession(r)
       \/ Store!SelectMaxSeq(r)
       \/ Store!SessionRepository_touch(r)
    /\ UNCHANGED <<adapterVars, stream, chatVars>>

\* Mutant: the node logs the exception of its visit and returns.
AfterNodeVisitSwallows(r, res, next) ==
    /\ Goto(r, IF r \in cancelled THEN "closed" ELSE next)
    /\ UNCHANGED stream

\* A node of the graph whose visit ended with res: next is where a good visit
\* leads; an exception ends the graph run, a cancellation ends handle.
AfterNodeVisit(r, res, next) ==
    /\ Goto(r, CASE r \in cancelled -> "closed"
                 [] res = "ok"      -> next
                 [] OTHER           -> "failed")
    /\ UNCHANGED stream

AfterVisit(r, res) ==
    \/ node[r] = "user" /\ AfterUserVisit(r, res)
    \/ node[r] = "load" /\ AfterNodeVisit(r, res, "auth")
    \/ node[r] = "persist" /\ AfterNodeVisit(r, res, "done")

VisitEnds(r) ==
    /\ Store!Release(r)
    /\ AfterVisit(r, result[r])
    /\ UNCHANGED <<adapterVars, history, rejected, cancelled, unread>>

\* A statement, or acquire, fails.
StoreFails(r) ==
    /\ "database" \in Faults
    /\ \/ /\ Store!AbortVisit(r, "dberror")
          /\ UNCHANGED <<node, stream>>
       \/ /\ Store!AbortWait(r, "dberror")
          /\ AfterVisit(r, "dberror")
    /\ UNCHANGED <<adapterVars, history, rejected, cancelled, unread>>

----------------------------------------------------------------------------
(* The nodes of the graph.                                                 *)

EnterLoad(r) ==
    /\ node[r] = "load"
    /\ Store!Enter(r)
    /\ UNCHANGED <<adapterVars, stream, chatVars>>

\* list_recent: the last 4 * MaxTurns rows, oldest first, cut into turns.
LoadHistory(r) ==
    LET rows == messages[ask[r].thread]
        Row(m) == [role |-> m.role, status |-> m.body.status, req |-> m.req]
        all == [i \in 1 .. Len(rows) |-> Row(rows[i])]
    IN  /\ node[r] = "load"
        /\ Store!ListRecent(r)
        /\ history' = [history EXCEPT ![r] =
                HistoryOf(Recent(all, Window(MaxTurns)), MaxTurns)]
        /\ UNCHANGED <<adapterVars, stream, node, rejected, cancelled, unread>>

\* Mutant: the edge out of auth_node ignores the verdict.
AfterAuthAlways(passed) == "enrich"

AfterAuth(passed) == IF passed THEN "enrich" ELSE "reject"

Auth(r, passed) ==
    /\ node[r] = "auth"
    /\ Emit(r, Step("auth"))
    /\ Goto(r, AfterAuth(passed))
    /\ rejected' = IF passed THEN rejected ELSE rejected \cup {r}
    /\ UNCHANGED <<storeVars, adapterVars, history, cancelled, unread>>

\* The refusal is streamed and becomes the answer.
Reject(r) ==
    /\ node[r] = "reject"
    /\ Emit(r, <<Adapter!Delta(0)>>)
    /\ chunks' = [chunks EXCEPT ![r] = <<0>>]
    /\ Goto(r, "persist")
    /\ Store!Enter(r)
    /\ UNCHANGED <<phase, attempt, pos, ending, history, rejected, cancelled, unread>>

Enrich(r) ==
    /\ node[r] = "enrich"
    /\ Emit(r, Step("enrich"))
    /\ Goto(r, "intent")
    /\ UNCHANGED <<storeVars, adapterVars, history, rejected, cancelled, unread>>

\* authorize or enrich raises: no progress event, the graph run ends.
PluginRaises(r) ==
    /\ "plugin" \in Faults
    /\ node[r] \in {"auth", "enrich"}
    /\ Emit(r, <<Ev("thinking", node[r])>>)
    /\ Goto(r, "failed")
    /\ UNCHANGED <<storeVars, adapterVars, history, rejected, cancelled, unread>>

\* Whatever its attempts give, the intent node returns a label of the edge or
\* the default route; the edge's mapping has no node for another route.
Intent(r, route) ==
    /\ node[r] = "intent"
    /\ Emit(r, Step("intent"))
    /\ IF route \in Routes
       THEN Goto(r, "adapter")
       ELSE Goto(r, "failed")
    /\ UNCHANGED <<storeVars, adapterVars, history, rejected, cancelled, unread>>

AdapterStep(r) ==
    /\ node[r] = "adapter"
    /\ Adapter!Begin(r) \/ Adapter!Step(r)
    /\ UNCHANGED <<storeVars, chatVars>>

AdapterReturns(r) ==
    /\ node[r] = "adapter"
    /\ phase[r] = "returned"
    /\ Goto(r, "persist")
    /\ Store!Enter(r)
    /\ UNCHANGED <<adapterVars, stream, history, rejected, cancelled, unread>>

\* Partial when the list of chunks is empty, whatever the chunks in it say: one
\* empty delta is enough for complete.  An error makes no difference.
Status(r) ==
    IF ending[r] = "cancelled" \/ chunks[r] = <<>> THEN "partial" ELSE "complete"

\* Mutant: touch is forgotten after append.
InsertAnswerNoTouch(r) ==
    LET m == [req |-> r, role |-> "assistant",
              body |-> [status |-> Status(r), chunks |-> chunks[r]]]
    IN  /\ node[r] = "persist" /\ pc[r] = "row"
        /\ Store!SeqFree(ask[r].thread, Store!NextSeq(r))
        /\ messages' = [messages EXCEPT ![ask[r].thread] =
                            Store!WithRow(ask[r].thread, Store!NextSeq(r), m)]
        /\ Store!EndVisit(r, "ok")
        /\ UNCHANGED <<ask, sessions, touched, conns, visit, maxSeq>>
        /\ UNCHANGED <<adapterVars, stream, chatVars>>

InsertAnswer(r) ==
    /\ node[r] = "persist"
    /\ Store!InsertMessage(r, [status |-> Status(r), chunks |-> chunks[r]])
    /\ UNCHANGED <<adapterVars, stream, chatVars>>

----------------------------------------------------------------------------
(* handle, after the graph.                                                *)

Finish(r) ==
    /\ node[r] = "done"
    /\ Emit(r, <<Done("complete")>>)
    /\ Goto(r, "closed")
    /\ UNCHANGED <<storeVars, adapterVars, history, rejected, cancelled, unread>>

\* The graph run raised: INTERNAL, and the same done.
Fail(r) ==
    /\ node[r] = "failed"
    /\ Emit(r, <<Error("INTERNAL"), Done("complete")>>)
    /\ Goto(r, "closed")
    /\ UNCHANGED <<storeVars, adapterVars, history, rejected, cancelled, unread>>

----------------------------------------------------------------------------
(* The consumer goes away (WS cancel or disconnect, SSE disconnect): the   *)
(* task is cancelled at whatever it awaits, and nothing more is yielded,   *)
(* though any number of pieces may be in the queue.                        *)

Pieces(r) == Adapter!DeltasOf(stream[r])

CancelInStore(r) ==
    \/ /\ Store!AbortVisit(r, "cancelled")
       /\ UNCHANGED <<adapterVars, node>>
    \/ /\ Store!AbortWait(r, "cancelled")
       /\ Goto(r, "closed")
       /\ UNCHANGED adapterVars

CancelInAdapter(r) ==
    /\ node[r] = "adapter"
    /\ \/ /\ Adapter!CancelStreaming(r)
          /\ \/ /\ TRUE \in EngineResumes
                /\ Goto(r, "persist")
                /\ Store!Enter(r)
             \/ /\ FALSE \in EngineResumes
                /\ Goto(r, "closed")
                /\ UNCHANGED storeVars
       \/ /\ Adapter!CancelUncaught(r)
          /\ Goto(r, "closed")
          /\ UNCHANGED storeVars

CancelElsewhere(r) ==
    /\ \/ node[r] \in {"load", "auth", "reject", "enrich", "intent", "done", "failed"}
       \/ node[r] = "adapter" /\ phase[r] \in {"idle", "returned"}
    /\ pc[r] \in {"between", "ended"}
    /\ Goto(r, "closed")
    /\ UNCHANGED <<storeVars, adapterVars>>

Cancel(r) ==
    /\ "cancel" \in Faults
    /\ r \notin cancelled
    /\ cancelled' = cancelled \cup {r}
    /\ \E n \in 0 .. Len(Pieces(r)) : unread' = [unread EXCEPT ![r] = n]
    /\ CancelInStore(r) \/ CancelInAdapter(r) \/ CancelElsewhere(r)
    /\ UNCHANGED <<stream, history, rejected>>

----------------------------------------------------------------------------

\* What a request does by itself.
Advance(r) ==
    \/ \E code \in {"TOPIC_NOT_FOUND", "BAD_REQUEST"} : Refuse(r, code)
    \/ Accept(r)
    \/ InsertUserMessage(r)
    \/ StoreStep(r)
    \/ VisitEnds(r)
    \/ EnterLoad(r)
    \/ LoadHistory(r)
    \/ \E passed \in BOOLEAN : Auth(r, passed)
    \/ Reject(r)
    \/ Enrich(r)
    \/ PluginRaises(r)
    \/ \E route \in Routes \cup {DefaultRoute} : Intent(r, route)
    \/ AdapterStep(r)
    \/ AdapterReturns(r)
    \/ InsertAnswer(r)
    \/ Finish(r)
    \/ Fail(r)

Next == \E r \in Requests : Advance(r) \/ StoreFails(r) \/ Cancel(r)

Spec == Init /\ [][Next]_vars

\* Once it has arrived a request keeps going: the event loop resumes it, the
\* consumer reads or goes away (which cancels it), the database answers, and the
\* sleep between attempts ends.  That the plugins and the model answer and that
\* the downstream agent ends its answer are assumptions about those services:
\* no timeout of the code bounds them.  (The read timeouts of MetaGC and Uniioc
\* bound one read, not an answer; see Adapters.)
FairSpec ==
    Spec /\ \A r \in Requests : WF_vars(node[r] # "arrive" /\ Advance(r))

----------------------------------------------------------------------------
(* What handle guarantees.                                                 *)

TypeOK ==
    /\ Store!TypeOK
    /\ phase \in [Requests -> Adapter!Phases]
    /\ attempt \in [Requests -> 0 .. MaxAttempts]
    /\ pos \in [Requests -> 0 .. AnswerLen]
    /\ chunks \in [Requests -> Answers]
    /\ ending \in [Requests -> Adapter!Endings]
    /\ node \in [Requests -> Nodes]
    /\ \A r \in Requests : Len(history[r]) <= MaxTurns
    /\ rejected \subseteq Requests
    /\ cancelled \subseteq Requests
    /\ unread \in [Requests -> 0 .. AnswerLen * MaxAttempts + 1]

Positions(r, type) == {i \in DOMAIN stream[r] : stream[r][i].type = type}

\* The stream contract: meta at most once and first, done at most once and
\* last, an error before the done, and no answer after an error.
StreamShape ==
    \A r \in Requests :
        /\ Positions(r, "meta") \subseteq {1}
        /\ Positions(r, "done") \subseteq {Len(stream[r])}
        /\ \A i \in Positions(r, "error"), j \in Positions(r, "delta") : j < i
        /\ \A i \in Positions(r, "done") :
              stream[r][i].info = "failed" =>
                  Positions(r, "error") # {} /\ Positions(r, "delta") = {}

AnswerRows(r) ==
    {m \in Range(messages[ask[r].thread]) : m.req = r /\ m.role = "assistant"}

\* The pieces handle has yielded.
Shown(r) == SubSeq(Pieces(r), 1, Len(Pieces(r)) - unread[r])

\* The answer that is stored is, piece by piece, the one the consumer was shown:
\* after retries, errors or a refusal.  After a cancellation it has all that was
\* shown, and possibly more: what was left in the queue, and one piece that was
\* collected and did not get that far.
StoredIsStreamed ==
    \A r \in Requests : \A m \in AnswerRows(r) :
        /\ IsPrefix(Shown(r), m.body.chunks)
        /\ r \notin cancelled => m.body.chunks = Shown(r)
        /\ Len(m.body.chunks) <=
              Len(Pieces(r)) + (IF ending[r] = "cancelled" THEN 1 ELSE 0)

\* A stream that ends with done and without an error has not promised too much:
\* the answer row is there, with every piece that was streamed.  So a failure of
\* persist, or of any node before it, is told.
DoneIsStored ==
    \A r \in Requests \ cancelled :
        /\ node[r] = "closed"
        /\ Done("complete") \in Range(stream[r])
        /\ Positions(r, "error") = {}
        => \E m \in AnswerRows(r) : m.body.chunks = Pieces(r)

\* Refused by the auth plugin: no enrichment, no intent, no downstream call,
\* and what is streamed is the refusal alone.
RejectedGoesNoFurther ==
    \A r \in rejected :
        /\ phase[r] = "idle"
        /\ \A i \in Positions(r, "thinking") : stream[r][i].info = "auth"
        /\ \A i \in Positions(r, "delta") : stream[r][i].piece = 0

\* No pooled connection is held while a plugin, the model or the downstream
\* agent is being waited for, or after the stream has ended.
NoConnectionWhileStreaming ==
    \A r \in conns : node[r] \in {"user", "load", "persist"}

\* Every turn given to the model is a question and an answer that stand next to
\* each other in the thread of the request, both stored complete; the answer is
\* not one that was cut by a cancellation.
HistoryIsComplete ==
    \A r \in Requests : \A i \in DOMAIN history[r] :
        LET rows == messages[ask[r].thread]
            turn == history[r][i]
            Stored(m, role, q) ==
                m.role = role /\ m.req = q /\ m.body.status = "complete"
        IN  /\ \E j \in 1 .. Len(rows) - 1 :
                  /\ Stored(rows[j], "user", turn[1])
                  /\ Stored(rows[j + 1], "assistant", turn[2])
            /\ ending[turn[2]] # "cancelled"

\* Between them the requests use the two tables as ThreadStore allows.
ImplementsStore == Store!Spec

\* Every request that was accepted is closed in the end.
EveryStreamCloses ==
    \A r \in Requests : node[r] # "arrive" ~> node[r] = "closed"

----------------------------------------------------------------------------
(* What the documents say and the code does not do.                        *)

\* done is the last event of every stream whose consumer stays (API document;
\* design: an uncaught exception gives INTERNAL and done).
EveryStreamDone ==
    \A r \in Requests \ cancelled :
        node[r] = "closed" => Last(stream[r]).type = "done"

\* When the client goes away, what it had been shown so far is stored as partial
\* (design).
CancelKeepsPartial ==
    \A r \in cancelled \ rejected :
        node[r] = "closed" /\ Shown(r) # <<>> => AnswerRows(r) # {}
=============================================================================
