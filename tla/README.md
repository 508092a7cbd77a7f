# TLA+ models of the MasterAgent service

MasterAgent sits between web/mobile clients and several third-party AI agents.
A client *asks* a question about a *topic* (`biz_id`) in a *thread*; the service
checks the user, enriches the question, lets a language model pick a route,
streams the answer of the agent behind that route to the client, and stores
question and answer in PostgreSQL. It is one asyncio process: requests
interleave at every `await`, share a connection pool and two tables, may be
cancelled at any await by their client, call agents that fail half-way, and may
still run when the process is told to stop. This directory models that behaviour
in TLA+, checks it with TLC, and proves the central parts with TLAPS.

Paths below are relative to `src/src/ma/` unless they say otherwise.

## 1. Inventory

### Components, state, operations

| Component | Code | State it keeps | Operations | Model |
|---|---|---|---|---|
| Session and message repositories | `core/repo/session_repository.py`, `message_repository.py` | tables `ma_session`, `ma_message` | `get_or_create`, `touch`, `append`, `list_recent`; `list_by_user` and `get_by_thread` for the REST API | `ThreadStore`, `ThreadLog`, `SessionList` |
| Connection pool | `infra/db.py`, `_RepoFactory` in `main.py` | connections in use, open or closing | create, `acquire`, release, close | `ThreadStore`, `Service` |
| `ChatService.handle` and its graph | `core/chat_service.py` | position of each request, its event queue | one per node, plus end, failure, cancellation; building the graph of a topic | `ChatService`, `Routing` |
| Built-in nodes | `core/graph/builtins.py` | none | load_session, reject, persist | `ChatService`, `History`, `Conversation` |
| Node wrappers | `core/graph/node_wrappers.py` | attempt, collected chunks | auth, enrich, intent with retries, adapter with retries | `Routing`, `AdapterNode`, `ChatService` |
| Topic configuration, compiler, registry | `core/topic/` | compiled topics, read-only after startup | validate, compile, register | `Topic`, `Service` |
| Plugin registry | `core/plugin/` | classes by kind and name, filled at import | `create` | `Topic` |
| Downstream adapters | `plugins/adapter/` | the exchange of one run | `run` | `Adapters` |
| Intent, auth, enrich plugins | `plugins/` | none | `classify`, `authorize`, `enrich` | `Topic`, `Routing` |
| WebSocket endpoint | `api/ws.py` | table `_active_tasks`, one task per ask | handshake, ask, cancel, ping, timeout, disconnect | `WsConnection`, gate in `Service` |
| SSE endpoint | `api/sse.py` | none | checks, then forwards `handle`'s events | `Service` |
| REST history | `api/rest.py` | none | list sessions, list messages | `Service`, `SessionList` |
| Lifespan, health, settings | `main.py`, `api/health.py`, `infra/` | ready flag, pools, topics | startup, readyz, shutdown | `Service` |
| Event encoding, SQL loader and executor, logging, tracing, replay CLI | various | – | – | not modelled (section 8) |

### How they interact

    lifespan: pools, topics, ready ............ shutdown closes the pools   (Service)
          |
    WS frame / SSE request / GET history
          |  gates (503, 404, 403, 400, 401, 1011, 1008)                    (Service)
          |  one asyncio task per ask
          v
    WsConnection ----- cancel() ------+
          | handle()                  |
          v                           v
    ChatService: arrive - user - load - auth -+- reject ------------------- persist - done
                           |      |           +- enrich - intent - adapter -+  |
                           |      |            \____ Routing ____/   |         |
                           v      v             (Topic: the edge)    |         v
                        ThreadStore (3 visits, a pooled connection each)
                                  |                                  v
                                  v                       AdapterNode - Adapters - agent
                      History - Conversation

LangGraph runs the graph in a second task; what its nodes emit goes into an unbounded
queue, and `handle` yields it when its client is ready to read. The two tasks are one
actor in the models: no node waits for `handle`, the queue keeps the order, and `handle`
comes to the exception of a graph, or to its own `done`, when the queue is empty. What
the queue changes is what a client that *leaves* has been shown, and that is in the model
(`unread` in `ChatService`). Requests share only the tables, the pool and the compiled
topics. A WebSocket connection calls
`cancel()` on tasks. The lifespan closes the pool under whoever still uses it.

### What is hard here

- every SQL statement commits by itself; `SELECT MAX(seq)` and the `INSERT` that
  uses it, or the two `SELECT`s around `INSERT ... DO NOTHING`, are separated by
  awaits during which other requests run;
- a request may be cancelled at any await, and the adapter node *swallows* the
  cancellation while it streams, but not while it backs off;
- an attempt of the adapter node may fail after part of the answer was streamed;
- the graph may be ahead of the client by any number of pieces when the client leaves;
- a failure after the first event must still end the stream in the agreed way;
- the pool is small, every request takes a connection three times, and shutdown
  closes it while the tasks of WebSockets run on;
- history is paired by adjacency of rows, out of a window that also holds half turns
  and rows of asks that ran at the same time;
- a topic file names routes, nodes and plugins in several places; validation, the
  compiler and the graph builder each look at some of them;
- the session list is paged by a time that asks keep changing, and that is not unique;
- the WebSocket table is keyed by ids the client chooses, a slot is removed both by
  the cancel frame and by the task's `finally`, and a task cancelled before its first
  step runs no `finally`.

### What makes each component correct

- *Repositories*: rows of a thread are numbered without a gap; what was acknowledged
  stays; an answer follows its question; a thread is bound to one topic. A reader of
  the session list misses only sessions that moved.
- *Pool*: exactly the requests inside `async with` hold a connection.
- *handle*: the shape of the stream; what is stored is what was shown, and a `done`
  without an error means that it is stored; a refused request goes no further; the
  history holds complete turns only; every stream ends.
- *History*: the newest turns, none skipped; asks are mixed only if they overlapped.
- *Routing*: the agent that is asked is the one the topic names for the label, for an
  admitted user only; a topic that was accepted does not get stuck.
- *Adapters*: a refusal, a timeout or a lost connection is told once and last; only the
  unreadable is asked for again.
- *WebSocket*: no slot is lost, the limit holds, nobody is served after the disconnect.
- *Process*: ready means complete; shutdown ends and leaves nothing open; whoever's
  question was stored in a visit that went well is told how it ended.

`PROJECT.json` lists the hazards behind these, each at its line, with the properties
that cover it.

## 2. Modules

Each module's header says what it models; the comments of its definitions name the
statement or branch they stand for.

- **ThreadLog**: the abstract specification of a thread. It is bound to a topic once,
  and its messages are a log that grows only at the end, without doubles.
- **ThreadStore**: the repositories, one action per SQL statement. `pc[r]` is the
  statement request `r` executes next, `visit[r]` which of its three visits it is in.
  `Enter`/`Acquire`/`Release` are `async with factory.acquire()`. `AbortVisit` fails or
  cancels a visit at any statement, before or after its effect; `AbortWait` does so
  while a connection is awaited. PostgreSQL is external: the primary key of
  `ma_session`, `UNIQUE (thread_id, seq)` of `ma_message`, and one commit per statement
  are taken from `scripts/sql/init.sql` and from the absence of any transaction.
- **History**: the pure part of load_session: the window of rows, the pairing of a
  complete question with the complete answer in the next row, the last `max_turns`.
  It has no state; `ChatService` and `Conversation` extend it.
- **Conversation**: a long thread. `rows` grows by questions and answers in any order
  `ThreadLog` allows, asks may fail without an answer, and History is read off it in
  every state. Asks are named in the order their questions are stored.
- **AdapterNode**: the retry loop. The agent is external: an attempt delivers the
  pieces of the answer from the first one and may stop anywhere by ending, by an
  error event or by an exception. Pieces are numbered so that repeats can be seen; a piece
  stands for whatever a delta says, the empty text included. `stream` is what the node put
  into the queue.
- **Adapters**: what MetaGC's, Uniioc's and the knowledge center's adapter make of an
  agent that refuses, breaks off, falls silent, answers with an error status, sends what
  cannot be read, or from some point on only what is skipped (`Trickles`). Each exchange action is conjoined with the step of `AdapterNode`
  it causes (`Node!...`).
- **Topic**: a topic's YAML file as a record; `Valid` is `TopicConfig.model_validate`,
  `Compiles` the compiler with the plugin registry, `Mapping`/`Labels`/`AdapterFor`/
  `BuildsGraph` what `_build_graph` and the intent wrapper make of the result, `Verdict`
  the auth plugins. Pure operators; the modules below use them.
- **Routing**: one request from the auth node over the intent node with its retries and
  the conditional edge into the agent, composing `Topic` and `Adapters` (`INSTANCE` on
  its own variables). The model behind the classifier may name any label or none, or raise.
- **ChatService**: `handle` for several requests at once, composing `ThreadStore`,
  `AdapterNode` and `History`. `node[r]` is where `r` is; every action of the first two
  is conjoined with what `handle` does with its outcome. A cancellation leaves any number
  of pieces in the queue (`unread`); `Shown` is the rest. Here the route is a free choice
  (`Routes`, `DefaultRoute`); which route it is, is `Routing`'s subject.
- **SessionList**: `list_by_user` with its order and its paging, read page by page while
  sessions are created and touched. `CURRENT_TIMESTAMP` is the time a statement *began*,
  hence the lag between a touch's time and the time it is seen.
- **WsConnection**: a connection's handshake, receive loop, table and tasks. A task is
  "created" until its first step, so that a cancel can come before it.
- **Service**: the process. `life` is where the lifespan is, `stage[r]` what call `r`
  does next, `want`/`held` its place in the pool; `Gate` is the head of every endpoint.
  A visit to the database is one step here (its statements are `ThreadStore`'s subject);
  what counts is where a pool that closes, or a database that fails, catches a call. The
  visit that stores the question may fail with the question stored, since each statement
  commits by itself: `stored` tells "acknowledged" from "unacknowledged".
- **MCTopics**: topic records for the instances: good ones, accepted ones that do less
  than they seem to, and ones with a single flaw each.
- **...Proofs**: theorems. **MC...**: instances for TLC.

Refinements: `ThreadStore` implements `ThreadLog` (proved); `ChatService` uses the
tables only as `ThreadStore` allows (`ImplementsStore`, proved), so what is proved of
the one holds for the other; `Routing` with all its adapters stays within `AdapterNode`
(`ImplementsNode`, proved), which is why `ChatService` may use the latter.

Definitions whose comment begins with "Mutant:" are plausible bugs of the definition
that follows; no specification uses them. Each property is shown to fail when one of
them replaces the definition it mutates.

### Abstractions

Texts, identities and JSON are left out; a message is its request, role, status and
pieces; timestamps exist in `SessionList` only, and in `ThreadStore` `touched` stands for
`last_message_at` being set. thinking and progress events of a node are emitted in one
step. A back-off sleep may take any time. The three auth plugins look at different claims
in the same way and are one operator. Of settings, only the DSNs, the pool size and the
topics directory remain; of a plugin's parameters, the environment variables they mention
and whether `configure` accepts them.

## 3. Runs

### Passing

| Run | Instance | Question |
|---|---|---|
| `store_safety` | 3 requests, 2 threads, 2 topics, pool of 2 | Do numbering, pool, acknowledgements and order survive every interleaving, failure and cancellation, and is the result the abstract thread? |
| `chat_safety` | 2 requests, 1 thread, 2 topics, 1-piece answers, 2 attempts, every fault | Do stream, tables and history fit together, however far behind a client is when it leaves? |
| `chat_liveness` | 2 requests, pool of 1, 2 attempts, database faults, cancellation | Is every accepted ask closed? |
| `routing` | 1 request, 4 askers, 5 accepted topics out of 15, 2 classifier attempts, 2-piece answers, 2 adapter attempts | Is only the right agent asked, can an accepted topic get stuck, are refusals, timeouts and lost connections told once, is only the unreadable asked for again, what can hold a request for ever, and does `AdapterNode` allow it all? |
| `conversation` | threads of 5 asks, `max_turns` 1 and 2 | Is the history the newest complete turns, when is it too short, when does a turn mix two asks? |
| `session_list` | 3 sessions of 2 topics, 3 time units, a lag of 1, pages of 1 and 2 | What can a reader miss, see twice, or never finish, while sessions move? |
| `ws_safety` | 4 asks, 4 ids and "no id", limit 2 | Is no slot lost; does a client with distinct ids get the promised limit and cleanup? |
| `service` | 2 calls, pool of 1, 24 topics directories, 3 DSN settings | Is ready complete, does shutdown end and leave nothing open, is the client of an acknowledged question always told how it ended, does every call end? |

### Violations (what a document says and the code does not do)

| Run | What TLC shows |
|---|---|
| `store_binding` | Two first requests of a thread with different topics: both `SELECT`s find nothing, the losing `INSERT` does nothing, the second `SELECT` returns the other topic's row and `biz_id` is not compared again. The question is stored under the other topic; the docstring says `SessionBizMismatchError`. |
| `chat_no_done` | Two asks on a thread read the same `MAX(seq)`; the second `INSERT` raises `UniqueViolationError`, which `handle` does not catch: its stream ends after `meta` with neither `error` nor `done`. |
| `chat_cancel` | The client leaves during the back-off sleep (or before persist): what it was shown is not stored, where the design promises a partial message. |
| `adapter_retry` | A frame raises (MetaGC: not JSON) after the first delta: the retry streams the first piece again, and both copies are collected, where the API document says that the deltas put together are the answer and the design that retries are transparent. |

### Divergences seen while modelling, without a run of their own

The models contain this behaviour; the runs above are kept to the most telling.

- An agent fails after a delta: the answer cut short is stored `complete`, since
  `_persist_node` asks only whether the list of chunks is empty. `src/swagger.md:71` has
  `partial`, and a later history then contains it as a turn. For the same reason an answer
  of nothing but an empty delta is stored `complete`, without content.
- The visit that stores the question fails after its `INSERT` has committed (the answer
  to it is lost, or the release fails): the stream is cut, and the thread keeps a question
  its asker was not told of ("unacknowledged" in `Service`).
- httpx's timeouts bound one read, not an exchange: an agent that sends comments or frames
  its adapter skips keeps its request for ever; so does a silent knowledge center, and a
  model that does not answer, whose client is made without a timeout
  (`plugins/intent/llm_classifier.py:57`). `EndsUnlessHeld` says that nothing else does.
- Uniioc answers with an error status: its adapter does not look at the status, reads
  the error page as an empty answer and sends no error event; `src/swagger.md:296`
  expects `DOWNSTREAM_ERROR`. (`FailureToldOnce` therefore leaves the trouble "status" out.)
- Asks without `request_id`, or with one in use, share a slot of the WebSocket table:
  more tasks run than the limit of five `api/ws.py:4` states, and the slot of such asks
  is not given back. (Hence the hypothesis `DistinctIds`.)
- Validation accepts a node whose id is a name of the graph's own nodes, a field of
  its state, `__start__` or `__end__`, or has a character LangGraph keeps for itself (`|`,
  `:`). `add_node` raises when the question was already stored, outside of the `try`: the
  stream is cut. (`BuildsGraph` in `AcknowledgedQuestionsAreClosed`.)
- Validation accepts `default`, `reject` and labels of further edges as `default_route`;
  the graph has the first edge only, and a fallback of such a topic ends in `INTERNAL`.
- The session list uses `last_message_at < before`: sessions that share the time at
  the end of a page, or that have no answer yet, are skipped (`MissesOnlyMoving` says
  that nothing else is). `list_messages` without `before_seq` shows the newest 200 rows
  at most.
- `before` with a time zone, as in the design's example, parses and is then refused by
  asyncpg: 500.
- A call whose visits come after the pool was closed fails with `INTERNAL` or 500;
  tasks of WebSockets are not waited for by shutdown, and may outlive it.

### Why the bounds are enough

- *Store.* The races are between two writers of one thread, or two competitors for a
  connection; a third request is an observer, a second thread separates per-thread
  from global effects (the mutant `MaxSeqOfAll` needs it). Each request makes three
  visits, so runs are finite as they are. The proofs remove these bounds.
- *Chat.* Two requests on one thread give every race on it, and a request that reads
  the history the other left. Two topics let a request be refused for the other's. One
  piece and two attempts (`AnswerLen`, `MaxAttempts`) are the least with a failure after
  a delta, a repeat, and the last attempt; a client that leaves may have been shown none,
  one or both of the pieces. `DefaultRoute = default` in `chat_safety` and
  `chat_liveness` is a route that the edge cannot take.
- *Chat liveness.* The number of pieces does not matter for ending, so `AnswerLen` is
  0. Faults that end a request early at once (`request`, `plugin`) are left out; those that
  keep it longer or abandon it while it holds something are in.
- *Routing.* Requests do not meet here, so one is enough; its topic, asker and labels
  are chosen freely. Two pieces and two attempts give a repeat and a failure before,
  between and after pieces; two classifier attempts (`tries`) a retry and a fallback.
  `MCTopics` has a topic for every rule of validation and compilation broken alone,
  and for everything they let pass. The safety proofs remove these bounds.
- *Conversation.* With `max_turns` 1 the window is four rows and five asks (`Asks`) make
  ten: the window cuts turns off. Two turns (`TurnLimits`) give an order among them.
- *Session list.* Three sessions are a page, the one behind it and one of another topic;
  `MaxTime` 3 with `Lag` 1 gives equal times, a touch between two pages, and a touch that
  is seen after a page it should have been on. `seen` counts to two, "more than once".
- *WebSocket.* Limit 2 instead of 5: an ask is refused, one slot is freed while the other
  is held, and a fourth ask reuses an id whose first task winds down.
- *Service.* One connection (`PoolMax`) and two calls: one waits for what the other has,
  when the pool closes and when it does not. Directories of up to two files: a flawed
  one before or after a good one, two of one id, one whose graph cannot be built.

`CHECK_DEADLOCK FALSE` everywhere: requests are finite in number and a run ends when
they have ended. That nobody waits for ever is what `EveryStreamCloses`, `EveryCallEnds`,
`ShutdownEnds`, `EndsUnlessHeld` and `ReadingEnds` say. Symmetry is used in safety runs
only, over values that are only compared.

## 4. Fairness

`ChatService!FairSpec`: weak fairness of everything an accepted request does by itself.
The event loop resumes each task whose await is over; PostgreSQL answers or fails. asyncpg
hands connections to waiters in order; weak fairness of `Acquire` is less and suffices,
because every request makes boundedly many visits. A client reads or goes away, which
cancels its request. **That plugins and the model answer, and that an agent ends its
answer, are assumptions about those services**, not consequences of the code: timeouts of
httpx bound one read, the knowledge center has none after connecting
(`knowledge_center.py:54`), the classifier sets none (`llm_classifier.py:57`). The steps
of arrival, `StoreFails` and `Cancel` have no fairness.

`Routing!FairSpec`: weak fairness of a request's steps except those of the intent node, so
that nothing is assumed of the model. Connecting is bounded by every adapter; an agent that
is connected sends a piece, ends, fails, falls silent or begins to trickle; the HTTP clients
time out on a silent one. A silent knowledge center and an agent that trickles have no step
of their own. `EndsUnlessHeld` says that each request ends or is held for ever by one of
these three (`Held`), so that every other way of staying is excluded.

`Service!FairSpec`: weak fairness of the lifespan and of each call's own steps; on a pool
that is not open those include the failure of a visit, which asyncpg raises at once.
`Shutdown`, arrivals, failures of an open database and leaving have none.

`SessionList!FairSpec`: a reader that began goes on. Nobody has to create or touch anything.

`Conversation`, `ThreadStore` and `WsConnection` state safety only.

## 5. Proofs

**ThreadStoreProofs**, for any requests, threads, topics, bodies and pool size
(`RequestsFinite`, `NoTopicIsNone`, `PoolMaxPositive`):

- `InductiveInvariant`: `Spec => []IInv`; from it `TypeCorrect`, `SeqsAreContiguous`,
  `PoolIsSound`, `AcknowledgedIsStored`, `QuestionComesFirst`;
- `StoreImplementsLog`: `Spec => RefinesThreadLog`, every statement is a `Bind`, a `Post`
  or a stutter of the abstract thread.

The guarantees are not inductive. Contiguous numbers need to know that a number read
earlier is not *ahead* of the rows (`ReadOK`): then a number that is still free at the
`INSERT` is exactly the next one, and the row is an append (`FreeSeqAppends`). That a
row is not posted twice needs to know where its writer can be (`RowsMatchControl`,
`ControlOK`); that only bound threads are written to is `BoundFirst`.

**WsConnectionProofs**, for any asks, ids and limit (`AsksFinite`, `NoIdIsNone`,
`MaxConcurrentNat`): `TypeCorrect`, `NoSlotIsLost`, `LimitHolds`, `NoneIsLeft`. The core of the inductive
invariant is `Tracked`: with distinct ids, a task nobody cancelled holds the slot of its
id, so tasks served are at most as many as slots. It needs `SlotsKnowTheirIds` and
`CancelledHaveNoSlot` (whoever cancels a task has freed its slot, hence the clean-up of a
cancelled task frees nothing of another task).

**HistoryProofs** has the lemmas about load_session's pure part, for any rows and any
`max_turns`; the two modules below cite them. `Scan` is a recursive function over the
rows. `ScanExists` shows that a function with its equations exists, `ScanEquation` that
`Scan` is one, and `AllFound` that from any row on it finds every turn exactly once, in
order (`SkippedAlone` for a row that begins no turn, `TakenOnce` for one that does: the
row after a turn's first begins none, so nothing is lost by skipping two).
`HistoryFacts` says what the last `max_turns` of them are. The library's induction
theorems cannot be instantiated by the installed provers (section 6); here an induction
takes a least counterexample out of the set of numbers at which the claim fails
(`LeastExists`, from `WFMin` and the well-foundedness of `<`), which needs no operator
parameter.

**ConversationProofs**, for any number of asks and any turn limits (`AsksNat`,
`TurnLimitsPositive`):

- `MixedTurnsNeedOverlap`. The invariant says that every ask so far has its question in
  the rows (`QuestionsStored`) and every answer an earlier question of its own
  (`AnswersFollow`); the row before a foreign answer is a question, so that question
  came earlier still.
- `HistoriesAreNewestTurns` from `HistoryFacts`: the history is the newest `max_turns`
  turns of the window.
- `WindowsSuffice`. If the window is not the whole thread it has 4 * `max_turns` rows;
  a history shorter than `max_turns` turns accounts for less than half of them, as a
  turn has two rows (`RowsOfTurns`), so the others belong to no turn.

**RoutingProofs**, for any topics, environment, askers and roles, any number of attempts
and length of answers (`ConfigsAssumption`: a topic's nodes are a sequence, and no label
is the token that stands for an unreadable answer; `MaxAttemptsPositive`: the retry
configuration has `ge=1`; `AnswerLenNat`): `RoutableTopicsAlwaysRun`, whose invariant carries "accepted" along and says that
a request at the edge has a label the graph knows or the default; and `OnlyRightAgentAsked`,
whose invariant `WayInv` ties the route to the label heard last, the tries to the fallback
and the verdict to everything after the auth node. That the adapter of a node id is the
last one configured is a lemma (`LastExists`, by well-founded induction on a set of indices).

About the agents it has `RoutingImplementsNode` (each exchange action is an action of
`AdapterNode` or a stutter of its variables), `FailuresAreToldOnce` and
`OnlyUnreadableIsAskedAgain`. The invariant `Told` says for each phase of a request what
its stream and its troubles may be: no error event before the node returns, a back-off
only after something unreadable. `TypeCorrect` proves the type invariant: that the
classifier is called at most as often as the topic says needs the part of `Typed` that
whoever is still to be classified, or sleeps before that, has an attempt left; that an
agent is one the repository has an adapter for needs that the compiler created every
adapter of an accepted topic (`AdaptersAreKnown`). `RetriesAreBounded` adds the bounds
of the adapter node (`Bounded`: who backs off has an attempt left), so that the work
done for a request is bounded whatever classifier and agent do.

**ServiceProofs**, for any calls, directories, environment, settings and pool size
(`DirsAreSequences`, and `PoolMaxPositive`: asyncpg creates no other pool):

- `ReadyServiceIsComplete` and `ShutdownIsClean` from `LifeInv`: pools follow the
  lifespan's position, the files loaded so far are registered each under its own id,
  nothing is held of a closed pool;
- `AcknowledgedQuestionsGetDone` from it and `CallInv`: a question is acknowledged at the
  end of its visit and not before, and one that was stored in a visit that failed belongs
  to a call that is over; the registry does not change once there are calls, so that the
  topic whose graph was built is still the one;
- `TypeCorrect` from `CallInv` and `PoolInv`: connections in use are finitely many and
  at most `PoolMax`, and a call outside of a visit has none and queues for none;
- the safety part of `EveryCallEnds`: `PoolNeverDeadlocks` (`PoolInv` says that nobody
  queues for a second connection, so on an exhausted pool every holder can go on) and
  `CallsGoForward` (each step of a call makes `Left` smaller: the stages to come and what
  is to be done of the current visit). What is left to fairness is that the steps happen.

**SessionListProofs**, for any sessions, owners, topics, limits, lag and clock
(`SessionsFinite`, `LimitsPositive`, `MaxTimePositive`): `TypeCorrect`,
`ReaderMissesOnlyMoving`, `ReaderListsOnce` and `ReadingGoesBack`. Between two pages
`ShownIsBehind` says that what was shown and has not moved is not older than `before`,
hence not listed again, and `UnshownIsAhead` that what was not shown and has not moved is
older than `before`, hence still to come, unless it has no answer or shares the time of
the end of a page. `WhatAPageIs` and `WhereNextBegins` are the lemmas about one page: no
row left out is newer than one that is in it, and the next page begins before this one.
The latter is `ReadingGoesBack`, the safety part of `ReadingEnds`.

**ChatProofs**, for any requests, threads, topics, routes, length of answers, number of
attempts and `max_turns`, and every fault (`AnswerLenNat`, `MaxAttemptsPositive`;
`MaxTurnsPositive`, which is `Field(ge=1, le=200)` of the topic; and, where the store
comes in, the assumptions of `ThreadStore`): `StreamsHaveShape`, `RefusedStays`,
`ConnectionsOnlyInVisits` and `ChatUsesStore`. Their
invariant `ChatInv` has a part per request and one for the rows:

- `Control` ties the node of `handle` to the visit and the statement of the store. It is
  what says that a connection is held in `user`, `load` and `persist` only, and that the
  next visit is the one the node asks for.
- `Collected` bounds what the attempts can have brought: at most `AnswerLen` pieces for
  each attempt before, plus those of the current one. This gives `ChunksAreAnswers`: what
  is stored is an answer `ThreadStore` was told to expect, however often it was repeated.
- `Streamed` says which events there can be at each node: no `done` before `closed`, no
  `error` before the adapter has returned, no `delta` before the adapter or the refusal.
  `EmitOne` and `EmitTwo` say what one more event makes of a stream.
- `Refused` follows a rejected request; `AnswersTold` says that the row of an answer is
  there only when the answer is complete (node in `Over`) and tells what was collected.

A step concerns one request, so `OthersStay` does the others once and for all; there is
one lemma per action of `ChatService`, and one (`StatementKeeps`) for all statements
inside a visit. `AnswersKept` is the other half: nothing changes an answer in `Over`.

Four more theorems use `AllInv`, which adds what the store guarantees and four parts:

- `StoreIsSound`: `ChatUsesStore` and `ThreadStoreProofs` (instantiated with this module's
  variables) give `ThreadStore`'s invariant in every state of `ChatService`, in particular
  that a row stands in the thread of its request and that a persist visit that went well
  has left one (`StoreFacts`).
- `Tracks`: the chunks a request has collected are the deltas of its stream, with at most
  one more after a cancellation. `PieceTracked`, `NothingTracked` and `LastPieceTracked`
  are what a step can do to that; everything else is `Quiet`.
- `QueueInv`: only a request that was cancelled has pieces in the queue that nobody takes
  out, or an answer that was cut. With `Tracks` and `AnswersTold` (a stored answer is what
  was collected) this is `AnswersAreStreamed`.
- `DoneInv`: a request that is about to end, or has ended, with `done` and without an error
  has been through a persist visit that went well. `EndsWellAfterPersist` goes through all
  the steps after which that could be so. With `StoreFacts` this is `DoneMeansStored`.
- `HistoryInv`: each turn given to the model is a complete question and, in the next row,
  a complete answer of the request's thread. Loading establishes it: the scan takes turns
  of the window (`HistoryFacts`), and the window is the end of the thread, row by row
  (`RecentAreLast`, `LoadedIsComplete`). No step changes or removes a row (`RowsStay`).
  This is `HistoriesAreComplete`; with the types of `ChatInv` and the store it is
  `TypeCorrect`.

Every invariant and every action property that a passing run checks is proved for all
values of the constants.

## 6. Only model-checked

- Liveness (`EveryStreamCloses`, `EndsUnlessHeld`, `EveryCallEnds`, `ShutdownEnds`,
  `ReadingEnds`), which is beyond the prover together with anything about `ENABLED`.
  What of it is safety is proved where section 5 says so: bounds on retries, no circle
  of waiting calls, and steps that go forward only.
- The four violations, which are counterexamples.
- The library's theorems of induction take an operator as a parameter, which the
  installed provers cannot instantiate. Where a proof needs induction over data (`Scan`,
  `DeltasOf`), it is by a least counterexample, as described for `HistoryProofs`.

## 7. What could come next

1. The safety part of `EveryStreamCloses`: a measure for `ChatService` as for `Service`.
2. A violation run for each divergence of section 3 that has none.
3. A reader of `list_messages` (`before_seq`) beside `SessionList`.

## 8. Not modelled, and why

- Encoding of events and frames (`core/graph/events.py`): formatting; a frame that cannot
  be parsed is answered and changes nothing.
- Logging, tracing, the replay tool: no effect on the service's state.
- `sql_loader`, `sql_executor`: not used by the service at this commit.
- The text `generic_enrich` puts around a question, and the prompt of the classifier.
- `mark_partial`, `mark_failed`, `append` with a given `seq`: called by no code of the service.
- Registration of plugins: a dictionary filled at import.
