---------------------------- MODULE ChatProofs ------------------------------
(***************************************************************************)
(* Proofs about ChatService, for any requests, threads, topics and routes, *)
(* any length of answers and number of attempts, and every fault: it uses  *)
(* the tables as ThreadStore allows, its streams have the agreed shape, a  *)
(* refused request goes no further, no connection is held while an agent   *)
(* is awaited, an answer that is stored is the one that was streamed and   *)
(* is there when the stream says so, and histories are made of complete    *)
(* questions and answers alone.                                            *)
(***************************************************************************)
EXTENDS ChatService, HistoryProofs, SequenceTheorems

Early == {"arrive", "user", "load", "auth", "reject", "enrich", "intent"}

\* In a visit: it waits for a connection or has one.
Visiting == Store!InStore \cup {"waiting"}

Event ==
    [type : {"meta", "thinking", "progress", "delta", "error", "done"}, piece : Nat,
     info : {"none", "auth", "enrich", "intent", "failed", "complete", "INTERNAL",
             "BAD_REQUEST", "TOPIC_NOT_FOUND", "DOWNSTREAM_ERROR"}]

Domains ==
    /\ node \in [Requests -> Nodes]
    /\ visit \in [Requests -> Store!Visits] /\ pc \in [Requests -> Store!Places]
    /\ DOMAIN result = Requests /\ conns \subseteq Requests
    /\ phase \in [Requests -> Adapter!Phases]
    /\ attempt \in [Requests -> Nat] /\ pos \in [Requests -> Nat]
    /\ chunks \in [Requests -> Seq(Nat)]
    /\ DOMAIN ending = Requests
    /\ stream \in [Requests -> Seq(Event)]
    /\ rejected \subseteq Requests

----------------------------------------------------------------------------
(* Streams.                                                                *)

Without(s, type) == \A i \in DOMAIN s : s[i].type # type

\* What StreamShape says of one stream.
Shape(s) ==
    /\ \A i \in DOMAIN s : s[i].type = "meta" => i = 1
    /\ \A i \in DOMAIN s : s[i].type = "done" => i = Len(s)
    /\ \A i, j \in DOMAIN s : s[i].type = "error" /\ s[j].type = "delta" => j < i
    /\ \A i \in DOMAIN s :
        s[i].type = "done" /\ s[i].info = "failed"
        => ~ Without(s, "error") /\ Without(s, "delta")

\* What RejectedGoesNoFurther says of one stream.
RefusalOnly(s) ==
    \A i \in DOMAIN s :
        /\ s[i].type = "thinking" => s[i].info = "auth"
        /\ s[i].type = "delta" => s[i].piece = 0

\* Event e may come after the events of s.
MayFollow(e, s) ==
    /\ Without(s, "done")
    /\ e.type = "meta" => s = <<>>
    /\ e.type = "delta" => Without(s, "error")
    /\ e.type = "done" /\ e.info = "failed" => ~ Without(s, "error") /\ Without(s, "delta")

\* One event is emitted.
LEMMA EmitOne ==
    ASSUME NEW s \in Seq(Event), NEW e \in Event, Shape(s), MayFollow(e, s)
    PROVE  /\ s \o <<e>> \in Seq(Event)
           /\ Shape(s \o <<e>>)
           /\ \A k : Without(s \o <<e>>, k) <=> Without(s, k) /\ e.type # k
           /\ RefusalOnly(s \o <<e>>) <=>
                /\ RefusalOnly(s)
                /\ e.type = "thinking" => e.info = "auth"
                /\ e.type = "delta" => e.piece = 0
<1> DEFINE t == s \o <<e>>
<1>1. /\ t \in Seq(Event) /\ Len(s) \in Nat /\ Len(t) = Len(s) + 1
      /\ DOMAIN s = 1 .. Len(s) /\ DOMAIN t = 1 .. Len(s) + 1
      /\ \A i \in 1 .. Len(s) : t[i] = s[i]
      /\ t[Len(s) + 1] = e
  OBVIOUS
<1> HIDE DEF t
<1>2. \A i \in DOMAIN t : i \in DOMAIN s \/ i = Len(s) + 1
  BY <1>1
<1>3. \A k : Without(t, k) <=> Without(s, k) /\ e.type # k
  BY <1>1, <1>2 DEF Without
<1>4. \A i \in DOMAIN t : t[i].type = "meta" => i = 1
  BY <1>1, <1>2 DEF Shape, MayFollow
<1>5. \A i \in DOMAIN t : t[i].type = "done" => i = Len(t)
  BY <1>1, <1>2 DEF MayFollow, Without
<1>6. \A i, j \in DOMAIN t : t[i].type = "error" /\ t[j].type = "delta" => j < i
  BY <1>1, <1>2 DEF Shape, MayFollow, Without
<1>7. ASSUME NEW i \in DOMAIN t, t[i].type = "done", t[i].info = "failed"
      PROVE  ~ Without(t, "error") /\ Without(t, "delta")
  <2>1. i = Len(s) + 1
    BY <1>1, <1>2, <1>7 DEF MayFollow, Without
  <2> QED
    BY <1>1, <1>3, <1>7, <2>1 DEF MayFollow
<1>8. RefusalOnly(t) <=> /\ RefusalOnly(s)
                         /\ e.type = "thinking" => e.info = "auth"
                         /\ e.type = "delta" => e.piece = 0
  BY <1>1, <1>2 DEF RefusalOnly
<1>9. Shape(t)
  BY <1>4, <1>5, <1>6, <1>7 DEF Shape
<1> QED
  BY <1>1, <1>3, <1>8, <1>9 DEF t

\* Two events are emitted, one after the other.
LEMMA EmitTwo ==
    ASSUME NEW s \in Seq(Event), NEW e \in Event, NEW f \in Event
    PROVE  s \o <<e, f>> = (s \o <<e>>) \o <<f>>
<1> DEFINE t == s \o <<e, f>>
           u == (s \o <<e>>) \o <<f>>
<1>1. t \in Seq(Event) /\ u \in Seq(Event) /\ Len(t) = Len(s) + 2 /\ Len(u) = Len(s) + 2
  OBVIOUS
<1>2. \A i \in 1 .. Len(s) + 2 : t[i] = u[i]
  <2> SUFFICES ASSUME NEW i \in 1 .. Len(s) + 2 PROVE t[i] = u[i]
    OBVIOUS
  <2>1. i \in 1 .. Len(s) \/ i = Len(s) + 1 \/ i = Len(s) + 2
    OBVIOUS
  <2> QED
    BY <2>1
<1> HIDE DEF t, u
<1>3. t \in [1 .. Len(s) + 2 -> Event] /\ u \in [1 .. Len(s) + 2 -> Event]
  BY <1>1, LenProperties
<1>4. t = u
  BY <1>2, <1>3
<1> QED
  BY <1>4 DEF t, u

----------------------------------------------------------------------------
(* The deltas of a stream.                                                 *)

\* What is collected of the first i events if deltas is what is collected before.
DeltasTo(events, deltas, i) ==
    IF i = 0 THEN <<>>
    ELSE IF events[i].type = "delta"
         THEN Append(deltas[i - 1], events[i].piece)
         ELSE deltas[i - 1]

DeltasUpTo(events, n) ==
    \E deltas : \A i \in 0 .. n : deltas[i] = DeltasTo(events, deltas, i)

\* Events can be collected one after the other.
LEMMA DeltasExist ==
    ASSUME NEW events, NEW n \in Nat
    PROVE  DeltasUpTo(events, n)
<1> DEFINE Bad == {k \in Nat : ~ DeltasUpTo(events, k)}
<1> SUFFICES ASSUME Bad # {} PROVE FALSE
  OBVIOUS
<1>1. PICK k \in Bad : \A j \in Nat : j < k => j \notin Bad
  <2>1. Bad \in SUBSET Nat
    OBVIOUS
  <2> HIDE DEF Bad
  <2> QED
    BY <2>1, LeastExists
<1>2. CASE k = 0
  <2> DEFINE deltas == [i \in {0} |-> <<>>]
  <2>1. \A i \in 0 .. 0 : deltas[i] = DeltasTo(events, deltas, i)
    BY DEF DeltasTo
  <2> HIDE DEF deltas
  <2> QED
    BY <1>2, <2>1 DEF DeltasUpTo
<1>3. CASE k # 0
  <2>1. k - 1 \in Nat /\ k - 1 < k
    BY <1>3
  <2>2. DeltasUpTo(events, k - 1)
    BY <1>1, <2>1
  <2>3. PICK deltas : \A i \in 0 .. k - 1 : deltas[i] = DeltasTo(events, deltas, i)
    BY <2>2 DEF DeltasUpTo
  <2> DEFINE more == [i \in 0 .. k |-> IF i = k THEN DeltasTo(events, deltas, i) ELSE deltas[i]]
  <2>4. ASSUME NEW i \in 0 .. k PROVE more[i] = DeltasTo(events, more, i)
    <3>1. more[i] = DeltasTo(events, deltas, i)
      BY <2>3
    <3>2. i # 0 => more[i - 1] = deltas[i - 1]
      OBVIOUS
    <3> HIDE DEF more
    <3> QED
      BY <3>1, <3>2 DEF DeltasTo
  <2> HIDE DEF more
  <2> QED
    BY <2>4 DEF DeltasUpTo
<1> QED
  BY <1>2, <1>3

\* What DeltasOf collects of a stream, event by event.
LEMMA DeltasEquation ==
    ASSUME NEW events \in Seq(Event)
    PROVE  \E deltas :
              /\ \A i \in 0 .. Len(events) : deltas[i] = DeltasTo(events, deltas, i)
              /\ Adapter!DeltasOf(events) = deltas[Len(events)]
<1> DEFINE IsDeltas(deltas) == deltas = [i \in 0 .. Len(events) |-> DeltasTo(events, deltas, i)]
<1>1. Len(events) \in Nat
  OBVIOUS
<1>2. PICK f : \A i \in 0 .. Len(events) : f[i] = DeltasTo(events, f, i)
  BY <1>1, DeltasExist DEF DeltasUpTo
<1> DEFINE g == [i \in 0 .. Len(events) |-> f[i]]
<1>3. \A i \in 0 .. Len(events) : g[i] = DeltasTo(events, g, i)
  <2>1. TAKE i \in 0 .. Len(events)
  <2>2. g[i] = f[i] /\ (i # 0 => g[i - 1] = f[i - 1])
    BY <1>1
  <2>3. f[i] = DeltasTo(events, f, i)
    BY <1>2
  <2> HIDE DEF g
  <2> QED
    BY <2>2, <2>3 DEF DeltasTo
<1>4. g = [i \in 0 .. Len(events) |-> DeltasTo(events, g, i)]
  <2>1. g = [i \in 0 .. Len(events) |-> g[i]]
    OBVIOUS
  <2> HIDE DEF g
  <2> QED
    BY <1>3, <2>1
<1>5. \E deltas : IsDeltas(deltas)
  <2> HIDE DEF g
  <2> QED
    BY <1>4
<1> DEFINE h == CHOOSE deltas : IsDeltas(deltas)
<1>6. Adapter!DeltasOf(events) = h[Len(events)]
  BY DEF Adapter!DeltasOf, DeltasTo
<1>7. h = [i \in 0 .. Len(events) |-> DeltasTo(events, h, i)]
  BY <1>5
<1> HIDE DEF h
<1>8. \A i \in 0 .. Len(events) : h[i] = DeltasTo(events, h, i)
  BY <1>7
<1> QED
  BY <1>6, <1>8

\* One more event adds its piece if it is a delta, and nothing else.
LEMMA DeltasOfMore ==
    ASSUME NEW s \in Seq(Event), NEW e \in Event
    PROVE  Adapter!DeltasOf(s \o <<e>>) = IF e.type = "delta"
                                          THEN Append(Adapter!DeltasOf(s), e.piece)
                                          ELSE Adapter!DeltasOf(s)
<1> DEFINE t == s \o <<e>>
           L == Len(s)
<1>1. /\ t \in Seq(Event) /\ L \in Nat /\ Len(t) = L + 1
      /\ \A i \in 1 .. L : t[i] = s[i]
  OBVIOUS
<1>2. t[L + 1] = e
  OBVIOUS
<1>3. PICK f : /\ \A i \in 0 .. L : f[i] = DeltasTo(s, f, i)
               /\ Adapter!DeltasOf(s) = f[L]
  BY DeltasEquation
<1> HIDE DEF t
<1>4. PICK g : /\ \A i \in 0 .. Len(t) : g[i] = DeltasTo(t, g, i)
               /\ Adapter!DeltasOf(t) = g[Len(t)]
  BY <1>1, DeltasEquation
<1> HIDE DEF L
<1>5. ASSUME NEW n \in 0 .. L PROVE f[n] = g[n]
  <2> DEFINE Bad == {k \in 0 .. L : f[k] # g[k]}
  <2> SUFFICES ASSUME Bad # {} PROVE FALSE
    OBVIOUS
  <2>1. PICK k \in Bad : \A j \in Nat : j < k => j \notin Bad
    <3>1. Bad \in SUBSET Nat
      BY <1>1
    <3> HIDE DEF Bad
    <3> QED
      BY <3>1, LeastExists
  <2>2. k \in 0 .. L /\ k \in 0 .. Len(t) /\ f[k] # g[k]
    BY <1>1
  <2>3. f[k] = DeltasTo(s, f, k) /\ g[k] = DeltasTo(t, g, k)
    BY <1>3, <1>4, <2>2
  <2>4. k # 0
    BY <2>2, <2>3 DEF DeltasTo
  <2>5. k - 1 \in 0 .. L /\ k - 1 < k /\ k - 1 \in Nat /\ k \in 1 .. L
    BY <1>1, <2>2, <2>4
  <2>6. f[k - 1] = g[k - 1] /\ t[k] = s[k]
    BY <1>1, <2>1, <2>5
  <2> HIDE DEF Bad
  <2> QED
    BY <2>2, <2>3, <2>6 DEF DeltasTo
<1>6. L \in 0 .. L /\ L + 1 \in 0 .. Len(t) /\ L + 1 # 0 /\ (L + 1) - 1 = L
  BY <1>1
<1>7. f[L] = g[L] /\ g[L + 1] = DeltasTo(t, g, L + 1)
  BY <1>4, <1>5, <1>6
<1>8. g[L + 1] = IF e.type = "delta" THEN Append(g[L], e.piece) ELSE g[L]
  BY <1>2, <1>6, <1>7 DEF DeltasTo
<1> QED
  BY <1>1, <1>3, <1>4, <1>7, <1>8 DEF t

\* An empty stream has no deltas.
LEMMA NoDeltasYet == Adapter!DeltasOf(<<>>) = <<>>
<1> DEFINE none == <<>>
<1>1. none \in Seq(Event) /\ Len(none) = 0
  OBVIOUS
<1> HIDE DEF none
<1>2. PICK deltas : /\ \A i \in 0 .. Len(none) : deltas[i] = DeltasTo(none, deltas, i)
                    /\ Adapter!DeltasOf(none) = deltas[Len(none)]
  BY <1>1, DeltasEquation
<1>3. deltas[0] = DeltasTo(none, deltas, 0)
  BY <1>1, <1>2
<1> QED
  BY <1>1, <1>2, <1>3 DEF none, DeltasTo

----------------------------------------------------------------------------
(* The inductive invariant.                                                *)

\* Where handle is and what it does with the store go together.
Control(r) ==
    /\ node[r] = "arrive" => visit[r] = "none" /\ pc[r] = "between"
    /\ node[r] = "user" => visit[r] = "user" /\ pc[r] \in Visiting
    /\ node[r] = "load" => \/ visit[r] = "user" /\ pc[r] = "between"
                           \/ visit[r] = "load" /\ pc[r] \in Visiting
    /\ node[r] \in {"auth", "reject", "enrich", "intent", "adapter"} =>
            visit[r] = "load" /\ pc[r] = "between"
    /\ node[r] = "persist" => visit[r] = "persist" /\ pc[r] \in Visiting
    /\ node[r] \in {"done", "failed", "closed"} => pc[r] \in {"between", "ended"}
    /\ r \in conns <=> pc[r] \in Store!InStore

\* What is collected: nothing, the refusal, or what the attempts so far can
\* have brought.
Collected(r) ==
    /\ node[r] \in Early => phase[r] = "idle"
    /\ node[r] \in Early \cup {"adapter"} /\ phase[r] = "idle" => chunks[r] = <<>>
    /\ phase[r] = "idle" => attempt[r] = 0 /\ pos[r] = 0 /\ chunks[r] \in {<<>>, <<0>>}
    /\ phase[r] # "idle" =>
        /\ attempt[r] \in 1 .. MaxAttempts /\ pos[r] \in 0 .. AnswerLen
        /\ chunks[r] \in Seq(1 .. AnswerLen)
        /\ Len(chunks[r]) <= (attempt[r] - 1) * AnswerLen + pos[r]
    /\ phase[r] = "backoff" => attempt[r] < MaxAttempts

\* What has been streamed at each point.
Streamed(r) ==
    /\ Shape(stream[r])
    /\ node[r] = "arrive" => stream[r] = <<>>
    /\ node[r] # "closed" => Without(stream[r], "done")
    /\ node[r] \in Early => Without(stream[r], "delta")
    /\ node[r] \in Early \/ (node[r] = "adapter" /\ phase[r] # "returned")
        => Without(stream[r], "error")

\* A refused request: where it can be, and what it has streamed.
Refused(r) ==
    /\ node[r] \in {"arrive", "user", "load", "auth"} => Without(stream[r], "thinking")
    /\ r \in rejected =>
        /\ node[r] \in {"reject", "persist", "done", "failed", "closed"}
        /\ phase[r] = "idle"
        /\ RefusalOnly(stream[r])

Fine(r) == Control(r) /\ Collected(r) /\ Streamed(r) /\ Refused(r)

\* The answer is complete: it is stored, was stored or will not be.
Over == {"persist", "done", "failed", "closed"}

\* Rows of answers are there only after the answer is complete, and tell it.
AnswersTold ==
    /\ ask \in [Requests -> [thread : Threads, topic : Topics]]
    /\ DOMAIN messages = Threads
    /\ \A t \in Threads : \A n \in DOMAIN messages[t] :
        LET m == messages[t][n]
        IN  m.role = "assistant" =>
                /\ m.req \in Requests /\ node[m.req] \in Over
                /\ m.body.status = "complete" =>
                        chunks[m.req] # <<>> /\ ending[m.req] # "cancelled"
                /\ m.body.chunks = chunks[m.req]

FineInv == Domains /\ \A r \in Requests : Fine(r)

ChatInv == FineInv /\ AnswersTold

----------------------------------------------------------------------------
(* Steps concern one request.                                              *)

OnlyRequest(r) ==
    /\ Domains'
    /\ \A q \in Requests \ {r} :
        /\ node'[q] = node[q] /\ visit'[q] = visit[q] /\ pc'[q] = pc[q]
        /\ phase'[q] = phase[q] /\ attempt'[q] = attempt[q] /\ pos'[q] = pos[q]
        /\ chunks'[q] = chunks[q] /\ ending'[q] = ending[q] /\ stream'[q] = stream[q]
        /\ q \in conns' <=> q \in conns
        /\ q \in rejected' <=> q \in rejected

\* So it has to keep what is known of r.
LEMMA OthersStay ==
    ASSUME FineInv, NEW r \in Requests, OnlyRequest(r), Fine(r)'
    PROVE  FineInv'
<1> SUFFICES ASSUME NEW q \in Requests \ {r} PROVE Fine(q)'
  BY DEF FineInv, OnlyRequest
<1>1. Control(q)' /\ Collected(q)'
  BY DEF FineInv, Fine, OnlyRequest, Control, Collected
<1>2. Streamed(q)' /\ Refused(q)'
  BY DEF FineInv, Fine, OnlyRequest, Streamed, Refused
<1> QED
  BY <1>1, <1>2 DEF Fine

\* What one emitted event makes of a stream.
LEMMA Emits ==
    ASSUME Domains, NEW r \in Requests, NEW e \in Event, Emit(r, <<e>>),
           Shape(stream[r]), MayFollow(e, stream[r])
    PROVE  /\ stream' \in [Requests -> Seq(Event)]
           /\ \A q \in Requests \ {r} : stream'[q] = stream[q]
           /\ Shape(stream'[r])
           /\ \A k : Without(stream'[r], k) <=> Without(stream[r], k) /\ e.type # k
           /\ RefusalOnly(stream'[r]) <=>
                /\ RefusalOnly(stream[r])
                /\ e.type = "thinking" => e.info = "auth"
                /\ e.type = "delta" => e.piece = 0
<1>1. stream' = [stream EXCEPT ![r] = stream[r] \o <<e>>]
  BY DEF Emit, Adapter!Emit
<1>2. stream[r] \in Seq(Event)
  BY DEF Domains
<1>3. stream[r] \o <<e>> \in Seq(Event)
  BY <1>2, EmitOne
<1>4. stream'[r] = stream[r] \o <<e>> /\ \A q \in Requests \ {r} : stream'[q] = stream[q]
  BY <1>1 DEF Domains
<1>5. stream' \in [Requests -> Seq(Event)]
  BY <1>1, <1>3 DEF Domains
<1> QED
  BY <1>2, <1>4, <1>5, EmitOne

\* What two of them make of it.
LEMMA EmitsTwo ==
    ASSUME Domains, NEW r \in Requests, NEW e \in Event, NEW f \in Event, Emit(r, <<e, f>>),
           Shape(stream[r]), MayFollow(e, stream[r]),
           e.type # "done", f.type \notin {"meta", "delta"},
           f.type = "done" /\ f.info = "failed"
                => e.type = "error" /\ Without(stream[r], "delta")
    PROVE  /\ stream' \in [Requests -> Seq(Event)]
           /\ \A q \in Requests \ {r} : stream'[q] = stream[q]
           /\ Shape(stream'[r])
           /\ \A k : Without(stream'[r], k) <=>
                        Without(stream[r], k) /\ e.type # k /\ f.type # k
           /\ RefusalOnly(stream'[r]) <=>
                /\ RefusalOnly(stream[r])
                /\ e.type = "thinking" => e.info = "auth"
                /\ e.type = "delta" => e.piece = 0
                /\ f.type = "thinking" => f.info = "auth"
                /\ f.type = "delta" => f.piece = 0
<1>1. stream' = [stream EXCEPT ![r] = stream[r] \o <<e, f>>]
  BY DEF Emit, Adapter!Emit
<1>2. stream[r] \in Seq(Event)
  BY DEF Domains
<1> DEFINE s == stream[r] \o <<e>>
<1>3. /\ s \in Seq(Event) /\ Shape(s)
      /\ \A k : Without(s, k) <=> Without(stream[r], k) /\ e.type # k
      /\ RefusalOnly(s) <=> /\ RefusalOnly(stream[r])
                            /\ e.type = "thinking" => e.info = "auth"
                            /\ e.type = "delta" => e.piece = 0
  BY <1>2, EmitOne
<1>4. stream[r] \o <<e, f>> = s \o <<f>>
  BY <1>2, EmitTwo
<1>5. MayFollow(f, s)
  BY <1>3 DEF MayFollow
<1> HIDE DEF s
<1>6. s \o <<f>> \in Seq(Event)
  BY <1>3, <1>5, EmitOne
<1>7. stream'[r] = s \o <<f>> /\ \A q \in Requests \ {r} : stream'[q] = stream[q]
  BY <1>1, <1>4 DEF Domains
<1>8. stream' \in [Requests -> Seq(Event)]
  BY <1>1, <1>4, <1>6 DEF Domains
<1>9. /\ Shape(s \o <<f>>)
      /\ \A k : Without(s \o <<f>>, k) <=> Without(s, k) /\ f.type # k
      /\ RefusalOnly(s \o <<f>>) <=> /\ RefusalOnly(s)
                                     /\ f.type = "thinking" => f.info = "auth"
                                     /\ f.type = "delta" => f.piece = 0
  BY <1>3, <1>5, EmitOne
<1> QED
  BY <1>3, <1>7, <1>8, <1>9

----------------------------------------------------------------------------
(* The store.                                                              *)

\* A statement, or the end of one in an exception: the request stays in its visit.
LEMMA StatementKeeps ==
    ASSUME FineInv, NEW r \in Requests, UNCHANGED <<adapterVars, stream, node, rejected>>,
           \/ Store!Acquire(r)
           \/ Store!SelectSession(r)
           \/ Store!InsertSession(r)
           \/ Store!ReselectSession(r)
           \/ Store!SelectMaxSeq(r)
           \/ Store!SessionRepository_touch(r)
           \/ \E body : Store!InsertMessage(r, body)
           \/ Store!ListRecent(r)
           \/ \E why : Store!AbortVisit(r, why)
    PROVE  FineInv'
<1>1. /\ pc[r] \in Visiting
      /\ \E x \in Store!InStore : pc' = [pc EXCEPT ![r] = x]
      /\ visit' = visit /\ DOMAIN result' = Requests
      /\ \/ conns' = conns \cup {r}
         \/ conns' = conns /\ pc[r] \in Store!InStore
  BY DEF FineInv, Domains, Visiting, Store!InStore, Store!Goto, Store!EndVisit,
         Store!AfterGetOrCreate, Store!Acquire, Store!SelectSession, Store!InsertSession,
         Store!ReselectSession, Store!SelectMaxSeq, Store!SessionRepository_touch,
         Store!InsertMessage, Store!ListRecent, Store!AbortVisit
<1>2. Domains /\ Fine(r)
  BY DEF FineInv
<1>3. Domains'
  BY <1>1, <1>2 DEF Domains, Store!Places, adapterVars
<1>4. OnlyRequest(r)
  BY <1>1, <1>2, <1>3 DEF Domains, OnlyRequest, adapterVars
<1>5. pc[r] \in Visiting /\ pc'[r] \in Visiting /\ pc'[r] \in Store!InStore /\ r \in conns'
  BY <1>1, <1>2 DEF Domains, Visiting, Fine, Control
<1>6. Control(r)'
  BY <1>1, <1>2, <1>5 DEF Fine, Control, Visiting, Store!InStore
<1>7. Collected(r)' /\ Streamed(r)' /\ Refused(r)'
  BY <1>2 DEF Fine, Collected, Streamed, Refused, adapterVars
<1> QED
  BY <1>4, <1>6, <1>7, OthersStay DEF Fine

\* A request begins its next visit.
LEMMA EnterEffect ==
    ASSUME FineInv, NEW r \in Requests, NEW n \in Nodes, Store!Enter(r), Goto(r, n),
           \/ n = "user" /\ node[r] = "arrive"
           \/ n = "load" /\ node[r] = "load"
           \/ n = "persist" /\ node[r] \in {"reject", "adapter"}
    PROVE  /\ Control(r)'
           /\ node' \in [Requests -> Nodes]
           /\ visit' \in [Requests -> Store!Visits] /\ pc' \in [Requests -> Store!Places]
           /\ DOMAIN result' = Requests
           /\ conns' = conns /\ node'[r] = n
           /\ \A q \in Requests \ {r} :
                node'[q] = node[q] /\ visit'[q] = visit[q] /\ pc'[q] = pc[q]
<1>1. Domains /\ Control(r)
  BY DEF FineInv, Fine
<1>2. visit[r] = CASE n = "user" -> "none" [] n = "load" -> "user" [] n = "persist" -> "load"
  BY <1>1 DEF Control, Store!Enter, Visiting, Store!InStore
<1>3. Store!NextVisit(visit[r]) = n
  BY <1>2 DEF Store!NextVisit
<1>4. /\ node' = [node EXCEPT ![r] = n] /\ visit' = [visit EXCEPT ![r] = n]
      /\ pc' = [pc EXCEPT ![r] = "waiting"] /\ DOMAIN result' = Requests
      /\ conns' = conns /\ pc[r] = "between"
  BY <1>1, <1>3 DEF Domains, Goto, Store!Enter, Store!Goto
<1>5. n \in Store!Visits /\ "waiting" \in Store!Places
  BY DEF Store!Visits, Store!Places
<1>6. Control(r)'
  BY <1>1, <1>4 DEF Domains, Control, Visiting, Store!InStore
<1> QED
  BY <1>1, <1>4, <1>5, <1>6 DEF Domains

----------------------------------------------------------------------------
(* The nodes.                                                              *)

\* A step outside of the store that goes to node n.
LEMMA NodeKeeps ==
    ASSUME FineInv, NEW r \in Requests, NEW n \in Nodes, Goto(r, n),
           UNCHANGED <<storeVars, adapterVars>>,
           rejected' \in {rejected, rejected \cup {r}},
           stream' \in [Requests -> Seq(Event)],
           \A q \in Requests \ {r} : stream'[q] = stream[q],
           \/ /\ n \in {"auth", "reject", "enrich", "intent", "adapter"}
              /\ visit[r] = "load" /\ pc[r] = "between"
           \/ n \in {"failed", "closed"} /\ pc[r] \in {"between", "ended"},
           (Collected(r) /\ Streamed(r) /\ Refused(r))'
    PROVE  FineInv'
<1>1. Domains /\ Control(r)
  BY DEF FineInv, Fine
<1>2. node' = [node EXCEPT ![r] = n]
  BY DEF Goto
<1>3. Domains'
  BY <1>1, <1>2 DEF Domains, storeVars, adapterVars
<1>4. OnlyRequest(r)
  BY <1>1, <1>2, <1>3 DEF Domains, OnlyRequest, storeVars, adapterVars
<1>5. Control(r)'
  BY <1>1, <1>2 DEF Domains, Control, storeVars, Store!InStore
<1> QED
  BY <1>4, <1>5, OthersStay DEF Fine

\* An ask that is turned away before anything is stored.
LEMMA RefuseKeeps ==
    ASSUME FineInv, NEW r \in Requests, NEW code \in {"TOPIC_NOT_FOUND", "BAD_REQUEST"},
           Refuse(r, code)
    PROVE  FineInv'
<1> DEFINE e == Error(code)
           f == Done("failed")
<1>1. /\ e \in Event /\ e.type = "error" /\ f \in Event /\ f.type = "done"
  BY DEF Error, Done, Ev, Adapter!Ev, Event
<1>2. Domains /\ Fine(r) /\ node[r] = "arrive"
  BY DEF FineInv, Refuse
<1>3. MayFollow(e, stream[r]) /\ Shape(stream[r]) /\ Without(stream[r], "delta")
  BY <1>1, <1>2 DEF Fine, Streamed, MayFollow, Early
<1>4. Emit(r, <<e, f>>)
  BY DEF Refuse
<1> HIDE DEF e, f
<1>5. /\ stream' \in [Requests -> Seq(Event)] /\ Shape(stream'[r])
      /\ \A q \in Requests \ {r} : stream'[q] = stream[q]
  BY <1>1, <1>2, <1>3, <1>4, EmitsTwo
<1>6. node'[r] = "closed" /\ Goto(r, "closed") /\ UNCHANGED <<storeVars, adapterVars, rejected>>
  BY <1>2 DEF Refuse, Goto, Domains
<1>7. r \notin rejected
  BY <1>2 DEF Fine, Refused
<1>8. (Collected(r) /\ Streamed(r) /\ Refused(r))'
  BY <1>2, <1>5, <1>6, <1>7 DEF Fine, Collected, Streamed, Refused, Early, adapterVars
<1>9. pc[r] = "between"
  BY <1>2 DEF Fine, Control
<1> QED
  BY <1>5, <1>6, <1>8, <1>9, NodeKeeps DEF Nodes
\* What the agent, the collected answer and the stream of r may become.
AgentStep(r) ==
    /\ phase' \in [Requests -> Adapter!Phases]
    /\ attempt' \in [Requests -> Nat] /\ pos' \in [Requests -> Nat]
    /\ chunks' \in [Requests -> Seq(Nat)]
    /\ DOMAIN ending' = Requests
    /\ stream' \in [Requests -> Seq(Event)]
    /\ \A q \in Requests \ {r} :
        /\ phase'[q] = phase[q] /\ attempt'[q] = attempt[q] /\ pos'[q] = pos[q]
        /\ chunks'[q] = chunks[q] /\ ending'[q] = ending[q] /\ stream'[q] = stream[q]

\* A step that begins the next visit.
LEMMA EnterKeeps ==
    ASSUME FineInv, NEW r \in Requests, NEW n \in Nodes, Store!Enter(r), Goto(r, n),
           \/ n = "user" /\ node[r] = "arrive"
           \/ n = "load" /\ node[r] = "load"
           \/ n = "persist" /\ node[r] \in {"reject", "adapter"},
           AgentStep(r), UNCHANGED rejected,
           (Collected(r) /\ Streamed(r) /\ Refused(r))'
    PROVE  FineInv'
<1>1. Domains
  BY DEF FineInv
<1>2. /\ Control(r)'
      /\ node' \in [Requests -> Nodes]
      /\ visit' \in [Requests -> Store!Visits] /\ pc' \in [Requests -> Store!Places]
      /\ DOMAIN result' = Requests
      /\ conns' = conns /\ node'[r] = n
      /\ \A q \in Requests \ {r} :
           node'[q] = node[q] /\ visit'[q] = visit[q] /\ pc'[q] = pc[q]
  BY EnterEffect
<1>3. Domains'
  BY <1>1, <1>2 DEF Domains, AgentStep
<1>4. OnlyRequest(r)
  BY <1>2, <1>3 DEF OnlyRequest, AgentStep
<1> QED
  BY <1>2, <1>4, OthersStay DEF Fine

\* An ask is accepted.
LEMMA AcceptKeeps ==
    ASSUME FineInv, NEW r \in Requests, Accept(r)
    PROVE  FineInv'
<1> DEFINE e == Ev("meta", "none")
<1>1. e \in Event /\ e.type = "meta"
  BY DEF Ev, Adapter!Ev, Event
<1>2. Domains /\ Fine(r) /\ node[r] = "arrive"
  BY DEF FineInv, Accept
<1>3. MayFollow(e, stream[r]) /\ Shape(stream[r])
  BY <1>1, <1>2 DEF Fine, Streamed, MayFollow, Without
<1>4. Emit(r, <<e>>)
  BY DEF Accept
<1> HIDE DEF e
<1>5. /\ stream' \in [Requests -> Seq(Event)] /\ Shape(stream'[r])
      /\ \A q \in Requests \ {r} : stream'[q] = stream[q]
      /\ \A k : Without(stream'[r], k) <=> Without(stream[r], k) /\ e.type # k
  BY <1>1, <1>2, <1>3, <1>4, Emits
<1>6. /\ Store!Enter(r) /\ Goto(r, "user") /\ node'[r] = "user"
      /\ UNCHANGED <<adapterVars, rejected>>
  BY <1>2 DEF Accept, Goto, Domains
<1>7. r \notin rejected
  BY <1>2 DEF Fine, Refused
<1>8. AgentStep(r)
  BY <1>2, <1>5, <1>6 DEF AgentStep, Domains, adapterVars
<1>9. Collected(r)'
  BY <1>2, <1>6 DEF Fine, Collected, Early, adapterVars
<1>10. Streamed(r)' /\ Refused(r)'
  BY <1>1, <1>2, <1>5, <1>6, <1>7 DEF Fine, Streamed, Refused, Early
<1> QED
  BY <1>2, <1>6, <1>8, <1>9, <1>10, EnterKeeps DEF Nodes

\* load_session asks for its connection.
LEMMA EnterLoadKeeps ==
    ASSUME FineInv, NEW r \in Requests, EnterLoad(r)
    PROVE  FineInv'
<1>1. Domains /\ Fine(r) /\ node[r] = "load" /\ Store!Enter(r)
      /\ UNCHANGED <<adapterVars, stream, chatVars>>
  BY DEF FineInv, EnterLoad
<1>2. Goto(r, "load") /\ node'[r] = node[r] /\ UNCHANGED <<rejected, node>>
  BY <1>1 DEF Goto, Domains, chatVars
<1>3. AgentStep(r)
  BY <1>1 DEF AgentStep, Domains, adapterVars
<1>4. (Collected(r) /\ Streamed(r) /\ Refused(r))'
  BY <1>1, <1>2 DEF Fine, Collected, Streamed, Refused, adapterVars
<1> QED
  BY <1>1, <1>2, <1>3, <1>4, EnterKeeps DEF Nodes

\* The refusal is streamed and becomes the answer.
LEMMA RejectKeeps ==
    ASSUME FineInv, NEW r \in Requests, Reject(r)
    PROVE  FineInv'
<1> DEFINE e == Adapter!Delta(0)
<1>1. e \in Event /\ e.type = "delta" /\ e.piece = 0
  BY DEF Adapter!Delta, Event
<1>2. Domains /\ Fine(r) /\ node[r] = "reject"
  BY DEF FineInv, Reject
<1>3. MayFollow(e, stream[r]) /\ Shape(stream[r])
  BY <1>1, <1>2 DEF Fine, Streamed, MayFollow, Early
<1>4. Emit(r, <<e>>)
  BY DEF Reject
<1> HIDE DEF e
<1>5. /\ stream' \in [Requests -> Seq(Event)] /\ Shape(stream'[r])
      /\ \A q \in Requests \ {r} : stream'[q] = stream[q]
      /\ \A k : Without(stream'[r], k) <=> Without(stream[r], k) /\ e.type # k
      /\ RefusalOnly(stream'[r]) <=> RefusalOnly(stream[r])
  BY <1>1, <1>2, <1>3, <1>4, Emits
<1>6. /\ Store!Enter(r) /\ Goto(r, "persist") /\ node'[r] = "persist"
      /\ chunks' = [chunks EXCEPT ![r] = <<0>>]
      /\ UNCHANGED <<phase, attempt, pos, ending, rejected>>
  BY <1>2 DEF Reject, Goto, Domains
<1>7. <<0>> \in Seq(Nat)
  OBVIOUS
<1>8. AgentStep(r) /\ chunks'[r] = <<0>>
  BY <1>2, <1>5, <1>6, <1>7 DEF AgentStep, Domains
<1>9. Collected(r)'
  BY <1>2, <1>6, <1>8 DEF Fine, Collected, Early
<1>10. Streamed(r)' /\ Refused(r)'
  BY <1>1, <1>2, <1>5, <1>6 DEF Fine, Streamed, Refused, Early
<1> QED
  BY <1>2, <1>6, <1>8, <1>9, <1>10, EnterKeeps DEF Nodes

\* The adapter node has returned.
LEMMA AdapterReturnsKeeps ==
    ASSUME FineInv, NEW r \in Requests, AdapterReturns(r)
    PROVE  FineInv'
<1>1. Domains /\ Fine(r) /\ node[r] = "adapter" /\ phase[r] = "returned" /\ Store!Enter(r)
      /\ UNCHANGED <<adapterVars, stream, rejected>> /\ Goto(r, "persist")
  BY DEF FineInv, AdapterReturns
<1>2. node'[r] = "persist"
  BY <1>1 DEF Goto, Domains
<1>3. AgentStep(r)
  BY <1>1 DEF AgentStep, Domains, adapterVars
<1>4. (Collected(r) /\ Streamed(r) /\ Refused(r))'
  BY <1>1, <1>2 DEF Fine, Collected, Streamed, Refused, adapterVars, Early
<1> QED
  BY <1>1, <1>2, <1>3, <1>4, EnterKeeps DEF Nodes
\* The two events around a plugin's work.
LEMMA StepEvents ==
    ASSUME FineInv, NEW r \in Requests, NEW name \in {"auth", "enrich", "intent"},
           Emit(r, Step(name)), Without(stream[r], "done")
    PROVE  /\ stream' \in [Requests -> Seq(Event)]
           /\ \A q \in Requests \ {r} : stream'[q] = stream[q]
           /\ Shape(stream'[r])
           /\ \A k : Without(stream'[r], k) <=>
                        Without(stream[r], k) /\ k \notin {"thinking", "progress"}
           /\ RefusalOnly(stream'[r]) <=> RefusalOnly(stream[r]) /\ name = "auth"
<1> DEFINE e == Ev("thinking", name)
           f == Ev("progress", name)
<1>1. /\ e \in Event /\ e.type = "thinking" /\ e.info = name
      /\ f \in Event /\ f.type = "progress"
  BY DEF Ev, Adapter!Ev, Event
<1>2. Emit(r, <<e, f>>)
  BY DEF Step
<1> HIDE DEF e, f
<1>3. Domains /\ Shape(stream[r])
  BY DEF FineInv, Fine, Streamed
<1>4. MayFollow(e, stream[r])
  BY <1>1 DEF MayFollow
<1>5. /\ stream' \in [Requests -> Seq(Event)]
      /\ \A q \in Requests \ {r} : stream'[q] = stream[q]
      /\ Shape(stream'[r])
      /\ \A k : Without(stream'[r], k) <=>
                   Without(stream[r], k) /\ e.type # k /\ f.type # k
      /\ RefusalOnly(stream'[r]) <=>
           /\ RefusalOnly(stream[r])
           /\ e.type = "thinking" => e.info = "auth"
           /\ e.type = "delta" => e.piece = 0
           /\ f.type = "thinking" => f.info = "auth"
           /\ f.type = "delta" => f.piece = 0
  BY <1>1, <1>2, <1>3, <1>4, EmitsTwo
<1> QED
  BY <1>1, <1>5

\* auth_node.
LEMMA AuthKeeps ==
    ASSUME FineInv, NEW r \in Requests, NEW passed \in BOOLEAN, Auth(r, passed)
    PROVE  FineInv'
<1>1. Domains /\ Fine(r) /\ node[r] = "auth"
  BY DEF FineInv, Auth
<1>2. Without(stream[r], "done") /\ Emit(r, Step("auth"))
  BY <1>1 DEF Fine, Streamed, Auth
<1>3. /\ stream' \in [Requests -> Seq(Event)]
      /\ \A q \in Requests \ {r} : stream'[q] = stream[q]
      /\ Shape(stream'[r])
      /\ \A k : Without(stream'[r], k) <=>
                   Without(stream[r], k) /\ k \notin {"thinking", "progress"}
      /\ RefusalOnly(stream'[r]) <=> RefusalOnly(stream[r])
  BY <1>2, StepEvents
<1>4. PICK n \in {"enrich", "reject"} :
        /\ Goto(r, n) /\ node'[r] = n
        /\ n = "enrich" => rejected' = rejected
        /\ n = "reject" => rejected' = rejected \cup {r}
  BY <1>1 DEF Auth, AfterAuth, Goto, Domains
<1>5. UNCHANGED <<storeVars, adapterVars>>
  BY DEF Auth
<1>6. r \notin rejected
  BY <1>1 DEF Fine, Refused
<1>7. Without(stream[r], "thinking") /\ Without(stream[r], "delta")
  BY <1>1 DEF Fine, Refused, Streamed, Early
<1>8. RefusalOnly(stream[r])
  BY <1>7 DEF RefusalOnly, Without
<1>9. Collected(r)'
  BY <1>1, <1>4, <1>5 DEF Fine, Collected, Early, adapterVars
<1>10. Streamed(r)'
  BY <1>1, <1>3, <1>4 DEF Fine, Streamed, Early
<1>11. phase'[r] = "idle"
  BY <1>1, <1>5 DEF Fine, Collected, Early, adapterVars
<1>12. Refused(r)'
  BY <1>3, <1>4, <1>6, <1>8, <1>11 DEF Refused
<1>13. visit[r] = "load" /\ pc[r] = "between"
  BY <1>1 DEF Fine, Control
<1> QED
  BY <1>3, <1>4, <1>5, <1>9, <1>10, <1>12, <1>13, NodeKeeps DEF Nodes

\* enrich_node.
LEMMA EnrichKeeps ==
    ASSUME FineInv, NEW r \in Requests, Enrich(r)
    PROVE  FineInv'
<1>1. Domains /\ Fine(r) /\ node[r] = "enrich"
  BY DEF FineInv, Enrich
<1>2. Without(stream[r], "done") /\ Emit(r, Step("enrich"))
  BY <1>1 DEF Fine, Streamed, Enrich
<1>3. /\ stream' \in [Requests -> Seq(Event)]
      /\ \A q \in Requests \ {r} : stream'[q] = stream[q]
      /\ Shape(stream'[r])
      /\ \A k : Without(stream'[r], k) <=>
                   Without(stream[r], k) /\ k \notin {"thinking", "progress"}
  BY <1>2, StepEvents
<1>4. Goto(r, "intent") /\ node'[r] = "intent" /\ UNCHANGED <<storeVars, adapterVars, rejected>>
  BY <1>1 DEF Enrich, Goto, Domains
<1>5. r \notin rejected
  BY <1>1 DEF Fine, Refused
<1>6. Collected(r)'
  BY <1>1, <1>4 DEF Fine, Collected, Early, adapterVars
<1>7. Streamed(r)' /\ Refused(r)'
  BY <1>1, <1>3, <1>4, <1>5 DEF Fine, Streamed, Refused, Early
<1>8. visit[r] = "load" /\ pc[r] = "between"
  BY <1>1 DEF Fine, Control
<1> QED
  BY <1>3, <1>4, <1>6, <1>7, <1>8, NodeKeeps DEF Nodes

\* intent_node and the conditional edge.
LEMMA IntentKeeps ==
    ASSUME FineInv, NEW r \in Requests, NEW route, Intent(r, route)
    PROVE  FineInv'
<1>1. Domains /\ Fine(r) /\ node[r] = "intent"
  BY DEF FineInv, Intent
<1>2. Without(stream[r], "done") /\ Emit(r, Step("intent"))
  BY <1>1 DEF Fine, Streamed, Intent
<1>3. /\ stream' \in [Requests -> Seq(Event)]
      /\ \A q \in Requests \ {r} : stream'[q] = stream[q]
      /\ Shape(stream'[r])
      /\ \A k : Without(stream'[r], k) <=>
                   Without(stream[r], k) /\ k \notin {"thinking", "progress"}
  BY <1>2, StepEvents
<1>4. PICK n \in {"adapter", "failed"} : Goto(r, n) /\ node'[r] = n
  BY <1>1 DEF Intent, Goto, Domains
<1>5. UNCHANGED <<storeVars, adapterVars, rejected>>
  BY DEF Intent
<1>6. r \notin rejected
  BY <1>1 DEF Fine, Refused
<1>7. Collected(r)'
  BY <1>1, <1>4, <1>5 DEF Fine, Collected, Early, adapterVars
<1>8. Streamed(r)' /\ Refused(r)'
  BY <1>1, <1>3, <1>4, <1>5, <1>6 DEF Fine, Streamed, Refused, Early
<1>9. visit[r] = "load" /\ pc[r] = "between"
  BY <1>1 DEF Fine, Control
<1> QED
  BY <1>3, <1>4, <1>5, <1>7, <1>8, <1>9, NodeKeeps DEF Nodes

\* A plugin raises.
LEMMA PluginRaisesKeeps ==
    ASSUME FineInv, NEW r \in Requests, PluginRaises(r)
    PROVE  FineInv'
<1> DEFINE e == Ev("thinking", node[r])
<1>1. Domains /\ Fine(r) /\ node[r] \in {"auth", "enrich"}
  BY DEF FineInv, PluginRaises
<1>2. e \in Event /\ e.type = "thinking"
  BY <1>1 DEF Ev, Adapter!Ev, Event
<1>3. MayFollow(e, stream[r]) /\ Shape(stream[r])
  BY <1>1, <1>2 DEF Fine, Streamed, MayFollow
<1>4. Emit(r, <<e>>)
  BY DEF PluginRaises
<1> HIDE DEF e
<1>5. /\ stream' \in [Requests -> Seq(Event)] /\ Shape(stream'[r])
      /\ \A q \in Requests \ {r} : stream'[q] = stream[q]
      /\ \A k : Without(stream'[r], k) <=> Without(stream[r], k) /\ e.type # k
  BY <1>1, <1>2, <1>3, <1>4, Emits
<1>6. Goto(r, "failed") /\ node'[r] = "failed" /\ UNCHANGED <<storeVars, adapterVars, rejected>>
  BY <1>1 DEF PluginRaises, Goto, Domains
<1>7. r \notin rejected
  BY <1>1 DEF Fine, Refused
<1>8. Collected(r)'
  BY <1>1, <1>6 DEF Fine, Collected, Early, adapterVars
<1>9. Streamed(r)' /\ Refused(r)'
  BY <1>1, <1>2, <1>5, <1>6, <1>7 DEF Fine, Streamed, Refused, Early
<1>10. pc[r] = "between"
  BY <1>1 DEF Fine, Control
<1> QED
  BY <1>5, <1>6, <1>8, <1>9, <1>10, NodeKeeps DEF Nodes

\* The graph has run: done.
LEMMA FinishKeeps ==
    ASSUME FineInv, NEW r \in Requests, Finish(r)
    PROVE  FineInv'
<1> DEFINE e == Done("complete")
<1>1. Domains /\ Fine(r) /\ node[r] = "done"
  BY DEF FineInv, Finish
<1>2. e \in Event /\ e.type = "done" /\ e.info = "complete"
  BY DEF Done, Ev, Adapter!Ev, Event
<1>3. MayFollow(e, stream[r]) /\ Shape(stream[r])
  BY <1>1, <1>2 DEF Fine, Streamed, MayFollow
<1>4. Emit(r, <<e>>)
  BY DEF Finish
<1> HIDE DEF e
<1>5. /\ stream' \in [Requests -> Seq(Event)] /\ Shape(stream'[r])
      /\ \A q \in Requests \ {r} : stream'[q] = stream[q]
      /\ RefusalOnly(stream'[r]) <=> RefusalOnly(stream[r])
  BY <1>1, <1>2, <1>3, <1>4, Emits
<1>6. Goto(r, "closed") /\ node'[r] = "closed" /\ UNCHANGED <<storeVars, adapterVars, rejected>>
  BY <1>1 DEF Finish, Goto, Domains
<1>7. (Collected(r) /\ Streamed(r) /\ Refused(r))'
  BY <1>1, <1>5, <1>6 DEF Fine, Collected, Streamed, Refused, Early, adapterVars
<1>8. pc[r] \in {"between", "ended"}
  BY <1>1 DEF Fine, Control
<1> QED
  BY <1>5, <1>6, <1>7, <1>8, NodeKeeps DEF Nodes

\* The graph run raised.
LEMMA FailKeeps ==
    ASSUME FineInv, NEW r \in Requests, Fail(r)
    PROVE  FineInv'
<1> DEFINE e == Error("INTERNAL")
           f == Done("complete")
<1>1. Domains /\ Fine(r) /\ node[r] = "failed"
  BY DEF FineInv, Fail
<1>2. /\ e \in Event /\ e.type = "error"
      /\ f \in Event /\ f.type = "done" /\ f.info = "complete"
  BY DEF Error, Done, Ev, Adapter!Ev, Event
<1>3. MayFollow(e, stream[r]) /\ Shape(stream[r])
  BY <1>1, <1>2 DEF Fine, Streamed, MayFollow
<1>4. Emit(r, <<e, f>>)
  BY DEF Fail
<1> HIDE DEF e, f
<1>5. /\ stream' \in [Requests -> Seq(Event)] /\ Shape(stream'[r])
      /\ \A q \in Requests \ {r} : stream'[q] = stream[q]
      /\ RefusalOnly(stream'[r]) <=> RefusalOnly(stream[r])
  BY <1>1, <1>2, <1>3, <1>4, EmitsTwo
<1>6. Goto(r, "closed") /\ node'[r] = "closed" /\ UNCHANGED <<storeVars, adapterVars, rejected>>
  BY <1>1 DEF Fail, Goto, Domains
<1>7. (Collected(r) /\ Streamed(r) /\ Refused(r))'
  BY <1>1, <1>5, <1>6 DEF Fine, Collected, Streamed, Refused, Early, adapterVars
<1>8. pc[r] \in {"between", "ended"}
  BY <1>1 DEF Fine, Control
<1> QED
  BY <1>5, <1>6, <1>7, <1>8, NodeKeeps DEF Nodes

----------------------------------------------------------------------------
(* The end of a visit.                                                     *)

\* Where a visit that ends leads, and what it streams.
LEMMA AfterVisitEffect ==
    ASSUME FineInv, NEW r \in Requests, NEW res, pc[r] \in Visiting, AfterVisit(r, res)
    PROVE  \E n \in {"load", "auth", "done", "failed", "closed"} :
             /\ Goto(r, n) /\ node'[r] = n
             /\ n = "load" => node[r] = "user" /\ visit[r] = "user" /\ res = "ok"
             /\ n = "auth" => node[r] = "load" /\ visit[r] = "load" /\ res = "ok"
             /\ n = "done" => node[r] = "persist"
             /\ n = "failed" => node[r] \in {"load", "persist"}
             /\ stream' \in [Requests -> Seq(Event)] /\ Shape(stream'[r])
             /\ \A q \in Requests \ {r} : stream'[q] = stream[q]
             /\ n # "closed" => stream' = stream
             /\ RefusalOnly(stream[r]) => RefusalOnly(stream'[r])
<1>1. Domains /\ Fine(r)
  BY DEF FineInv
<1>2. CASE node[r] = "user" /\ AfterUserVisit(r, res) /\ res = "mismatch"
  <2> DEFINE e == Error("BAD_REQUEST")
             f == Done("failed")
  <2>1. /\ e \in Event /\ e.type = "error" /\ f \in Event /\ f.type = "done"
    BY DEF Error, Done, Ev, Adapter!Ev, Event
  <2>2. MayFollow(e, stream[r]) /\ Shape(stream[r]) /\ Without(stream[r], "delta")
    BY <1>1, <1>2, <2>1 DEF Fine, Streamed, MayFollow, Early
  <2>3. Emit(r, <<e, f>>)
    BY <1>2 DEF AfterUserVisit
  <2> HIDE DEF e, f
  <2>4. /\ stream' \in [Requests -> Seq(Event)] /\ Shape(stream'[r])
        /\ \A q \in Requests \ {r} : stream'[q] = stream[q]
        /\ RefusalOnly(stream'[r]) <=> RefusalOnly(stream[r])
    BY <1>1, <2>1, <2>2, <2>3, EmitsTwo
  <2>5. Goto(r, "closed") /\ node'[r] = "closed"
    BY <1>1, <1>2 DEF AfterUserVisit, Goto, Domains
  <2> QED
    BY <2>4, <2>5
<1>3. CASE node[r] = "user" /\ AfterUserVisit(r, res) /\ res # "mismatch"
  <2>1. \/ Goto(r, "load") /\ node'[r] = "load" /\ res = "ok"
        \/ Goto(r, "closed") /\ node'[r] = "closed"
    BY <1>1, <1>3 DEF AfterUserVisit, Goto, Domains
  <2>2. stream' = stream /\ visit[r] = "user"
    BY <1>1, <1>3 DEF AfterUserVisit, Fine, Control
  <2> QED
    BY <1>1, <1>3, <2>1, <2>2 DEF Domains, Fine, Streamed
<1>4. CASE node[r] = "load" /\ AfterNodeVisit(r, res, "auth")
  <2> DEFINE n == CASE r \in cancelled -> "closed"
                    [] res = "ok"      -> "auth"
                    [] OTHER           -> "failed"
  <2>1. n \in {"auth", "failed", "closed"} /\ (n = "auth" => res = "ok")
    OBVIOUS
  <2>2. Goto(r, n)
    BY <1>4 DEF AfterNodeVisit
  <2> HIDE DEF n
  <2>3. node'[r] = n
    BY <1>1, <2>2 DEF Goto, Domains
  <2>4. stream' = stream /\ visit[r] = "load"
    BY <1>1, <1>4 DEF AfterNodeVisit, Fine, Control, Visiting, Store!InStore
  <2> QED
    BY <1>1, <1>4, <2>1, <2>2, <2>3, <2>4 DEF Domains, Fine, Streamed
<1>5. CASE node[r] = "persist" /\ AfterNodeVisit(r, res, "done")
  <2> DEFINE n == CASE r \in cancelled -> "closed"
                    [] res = "ok"      -> "done"
                    [] OTHER           -> "failed"
  <2>1. n \in {"done", "failed", "closed"}
    OBVIOUS
  <2>2. Goto(r, n)
    BY <1>5 DEF AfterNodeVisit
  <2> HIDE DEF n
  <2>3. node'[r] = n
    BY <1>1, <2>2 DEF Goto, Domains
  <2>4. stream' = stream
    BY <1>5 DEF AfterNodeVisit
  <2> QED
    BY <1>1, <1>5, <2>1, <2>2, <2>3, <2>4 DEF Domains, Fine, Streamed
<1> QED
  BY <1>2, <1>3, <1>4, <1>5 DEF AfterVisit

\* The visit ends with res, and the request holds no connection any more.
LEMMA AfterVisitKeeps ==
    ASSUME FineInv, NEW r \in Requests, NEW res, pc[r] \in Visiting, AfterVisit(r, res),
           UNCHANGED <<adapterVars, rejected>>,
           visit' = visit, DOMAIN result' = Requests, conns' = conns \ {r},
           pc' = [pc EXCEPT ![r] = IF res = "ok" /\ visit[r] # "persist"
                                   THEN "between" ELSE "ended"]
    PROVE  FineInv'
<1>1. Domains /\ Fine(r)
  BY DEF FineInv
<1>2. PICK n \in {"load", "auth", "done", "failed", "closed"} :
             /\ Goto(r, n) /\ node'[r] = n
             /\ n = "load" => node[r] = "user" /\ visit[r] = "user" /\ res = "ok"
             /\ n = "auth" => node[r] = "load" /\ visit[r] = "load" /\ res = "ok"
             /\ n = "done" => node[r] = "persist"
             /\ n = "failed" => node[r] \in {"load", "persist"}
             /\ stream' \in [Requests -> Seq(Event)] /\ Shape(stream'[r])
             /\ \A q \in Requests \ {r} : stream'[q] = stream[q]
             /\ n # "closed" => stream' = stream
             /\ RefusalOnly(stream[r]) => RefusalOnly(stream'[r])
  BY AfterVisitEffect
<1>3. /\ node' = [node EXCEPT ![r] = n] /\ n \in Nodes
      /\ pc'[r] \in {"between", "ended"}
      /\ pc' \in [Requests -> Store!Places]
      /\ n \in {"load", "auth"} => pc'[r] = "between"
  BY <1>1, <1>2 DEF Goto, Domains, Store!Places, Nodes
<1>4. Domains'
  BY <1>1, <1>2, <1>3 DEF Domains, adapterVars
<1>5. OnlyRequest(r)
  BY <1>1, <1>2, <1>3, <1>4 DEF Domains, OnlyRequest, adapterVars
<1>6. Control(r)'
  BY <1>2, <1>3 DEF Control, Store!InStore
<1>7. node[r] \in {"user", "load", "persist"}
  BY DEF AfterVisit
<1>8. Collected(r)'
  BY <1>1, <1>2, <1>7 DEF Fine, Collected, Early, adapterVars
<1>9. Streamed(r)'
  BY <1>1, <1>2, <1>7 DEF Fine, Streamed, Early
<1>10. Refused(r)'
  BY <1>1, <1>2, <1>7 DEF Fine, Refused, adapterVars
<1> QED
  BY <1>5, <1>6, <1>8, <1>9, <1>10, OthersStay DEF Fine

\* The connection is given back, and the request goes on or is over.
LEMMA VisitEndsKeeps ==
    ASSUME FineInv, NEW r \in Requests, VisitEnds(r)
    PROVE  FineInv'
<1>1. /\ pc[r] = "release" /\ conns' = conns \ {r}
      /\ visit' = visit /\ result' = result
      /\ pc' = [pc EXCEPT ![r] = IF result[r] = "ok" /\ visit[r] # "persist"
                                 THEN "between" ELSE "ended"]
      /\ AfterVisit(r, result[r]) /\ UNCHANGED <<adapterVars, rejected>>
  BY DEF VisitEnds, Store!Release, Store!Goto
<1>2. pc[r] \in Visiting /\ DOMAIN result' = Requests
  BY <1>1 DEF FineInv, Domains, Visiting, Store!InStore
<1> QED
  BY <1>1, <1>2, AfterVisitKeeps

\* A statement, or the wait for a connection, fails.
LEMMA StoreFailsKeeps ==
    ASSUME FineInv, NEW r \in Requests, StoreFails(r)
    PROVE  FineInv'
<1>1. CASE Store!AbortVisit(r, "dberror") /\ UNCHANGED <<node, stream, adapterVars, rejected>>
  BY <1>1, StatementKeeps
<1>2. CASE /\ Store!AbortWait(r, "dberror") /\ AfterVisit(r, "dberror")
           /\ UNCHANGED <<adapterVars, rejected>>
  <2>1. /\ pc[r] = "waiting" /\ conns' = conns /\ visit' = visit
        /\ pc' = [pc EXCEPT ![r] = "ended"] /\ DOMAIN result' = Requests
    BY <1>2 DEF Store!AbortWait, Store!Goto, FineInv, Domains
  <2>2. r \notin conns /\ pc[r] \in Visiting
    BY <2>1 DEF FineInv, Fine, Control, Visiting, Store!InStore
  <2>3. conns' = conns \ {r}
    BY <2>1, <2>2
  <2> QED
    BY <1>2, <2>1, <2>2, <2>3, AfterVisitKeeps
<1> QED
  BY <1>1, <1>2 DEF StoreFails

----------------------------------------------------------------------------
(* The adapter node.                                                       *)

\* One attempt more makes room for one answer more.
LEMMA OneMore ==
    ASSUME NEW a \in Nat, NEW n \in Nat, NEW b, b = a + 1, NEW p, p = 0
    PROVE  (b - 1) * n + p = (a - 1) * n + n
  BY SMT

\* A step of the agent's exchange, with the request staying in the node.
LEMMA AgentKeeps ==
    ASSUME FineInv, NEW r \in Requests, node[r] = "adapter",
           UNCHANGED <<storeVars, chatVars>>, AgentStep(r),
           (Collected(r) /\ Streamed(r))'
    PROVE  FineInv'
<1>1. Domains /\ Fine(r)
  BY DEF FineInv
<1>2. node' = node /\ visit' = visit /\ pc' = pc /\ conns' = conns /\ rejected' = rejected
      /\ result' = result
  BY DEF storeVars, chatVars
<1>3. OnlyRequest(r)
  BY <1>1, <1>2 DEF OnlyRequest, AgentStep, Domains
<1>4. Control(r)'
  BY <1>1, <1>2 DEF Fine, Control
<1>5. Refused(r)'
  BY <1>1, <1>2 DEF Fine, Refused
<1> QED
  BY <1>3, <1>4, <1>5, OthersStay DEF Fine

\* adapter.run is called.
LEMMA BeginKeeps ==
    ASSUME FineInv, NEW r \in Requests, node[r] = "adapter",
           UNCHANGED <<storeVars, chatVars>>, Adapter!Begin(r)
    PROVE  FineInv'
<1>1. Domains /\ Fine(r) /\ node' = node
  BY DEF FineInv, chatVars
<1>2. /\ phase[r] = "idle" /\ phase' = [phase EXCEPT ![r] = "streaming"]
      /\ attempt' = [attempt EXCEPT ![r] = 1]
      /\ UNCHANGED <<pos, chunks, ending, stream>>
  BY DEF Adapter!Begin
<1>3. AgentStep(r) /\ phase'[r] = "streaming" /\ attempt'[r] = 1
  BY <1>1, <1>2 DEF AgentStep, Domains, Adapter!Phases
<1>4. chunks'[r] = <<>> /\ pos'[r] = 0
  BY <1>1, <1>2 DEF Fine, Collected
<1>5. /\ 1 \in 1 .. MaxAttempts /\ 0 \in 0 .. AnswerLen /\ <<>> \in Seq(1 .. AnswerLen)
      /\ Len(<<>>) <= (1 - 1) * AnswerLen + 0
  BY AnswerLenNat, MaxAttemptsPositive
<1>6. Collected(r)'
  BY <1>1, <1>3, <1>4, <1>5 DEF Collected, Early
<1>7. Streamed(r)'
  BY <1>1, <1>2, <1>3 DEF Fine, Streamed, Early
<1> QED
  BY <1>3, <1>6, <1>7, AgentKeeps

\* A piece is collected: it is one of the answer's, and there is room for it.
LEMMA CollectOne ==
    ASSUME FineInv, NEW r \in Requests, phase[r] = "streaming", pos[r] < AnswerLen,
           pos' = [pos EXCEPT ![r] = @ + 1], Adapter!Collect(r, pos[r] + 1),
           attempt' = attempt
    PROVE  /\ chunks' \in [Requests -> Seq(Nat)] /\ pos' \in [Requests -> Nat]
           /\ \A q \in Requests \ {r} : chunks'[q] = chunks[q] /\ pos'[q] = pos[q]
           /\ chunks'[r] \in Seq(1 .. AnswerLen) /\ pos'[r] \in 0 .. AnswerLen
           /\ Len(chunks'[r]) <= (attempt'[r] - 1) * AnswerLen + pos'[r]
<1>1. /\ Domains /\ pos[r] \in Nat /\ chunks[r] \in Seq(1 .. AnswerLen)
      /\ attempt[r] \in Nat /\ Len(chunks[r]) <= (attempt[r] - 1) * AnswerLen + pos[r]
  BY DEF FineInv, Domains, Fine, Collected
<1>2. chunks' = [chunks EXCEPT ![r] = Append(chunks[r], pos[r] + 1)]
  BY DEF Adapter!Collect
<1>3. pos[r] + 1 \in 1 .. AnswerLen /\ pos[r] + 1 \in Nat
  BY <1>1, AnswerLenNat
<1>4. chunks[r] \in Seq(Nat)
  BY <1>1 DEF Domains
<1>5. /\ Append(chunks[r], pos[r] + 1) \in Seq(1 .. AnswerLen)
      /\ Append(chunks[r], pos[r] + 1) \in Seq(Nat)
      /\ Len(Append(chunks[r], pos[r] + 1)) = Len(chunks[r]) + 1
      /\ Len(chunks[r]) \in Nat
  BY <1>1, <1>3, <1>4
<1>6. chunks'[r] = Append(chunks[r], pos[r] + 1) /\ pos'[r] = pos[r] + 1
  BY <1>1, <1>2 DEF Domains
<1> DEFINE room == (attempt[r] - 1) * AnswerLen
<1>7. room \in Int
  BY <1>1, AnswerLenNat
<1>8. Len(chunks[r]) <= room + pos[r]
  BY <1>1
<1> HIDE DEF room
<1>9. Len(chunks'[r]) <= room + pos'[r]
  BY <1>1, <1>5, <1>6, <1>7, <1>8
<1>10. chunks' \in [Requests -> Seq(Nat)] /\ pos' \in [Requests -> Nat]
  BY <1>1, <1>2, <1>3, <1>5 DEF Domains
<1>11. chunks'[r] \in Seq(1 .. AnswerLen) /\ pos'[r] \in 0 .. AnswerLen
  BY <1>3, <1>5, <1>6
<1>12. \A q \in Requests \ {r} : chunks'[q] = chunks[q] /\ pos'[q] = pos[q]
  BY <1>1, <1>2 DEF Domains
<1> QED
  BY <1>9, <1>10, <1>11, <1>12 DEF room

\* A delta.
LEMMA ReceiveKeeps ==
    ASSUME FineInv, NEW r \in Requests, node[r] = "adapter",
           UNCHANGED <<storeVars, chatVars>>, Adapter!Receive(r)
    PROVE  FineInv'
<1> DEFINE e == Adapter!Delta(pos[r] + 1)
<1>1. Domains /\ Fine(r) /\ node' = node /\ phase[r] = "streaming" /\ pos[r] \in Nat
      /\ UNCHANGED <<phase, attempt, ending>>
  BY DEF FineInv, Domains, chatVars, Adapter!Receive
<1>2. e \in Event /\ e.type = "delta"
  BY <1>1 DEF Adapter!Delta, Event
<1>3. MayFollow(e, stream[r]) /\ Shape(stream[r])
  BY <1>1, <1>2 DEF Fine, Streamed, MayFollow
<1>4. Emit(r, <<e>>)
  BY DEF Adapter!Receive, Emit
<1> HIDE DEF e
<1>5. /\ stream' \in [Requests -> Seq(Event)] /\ Shape(stream'[r])
      /\ \A q \in Requests \ {r} : stream'[q] = stream[q]
      /\ \A k : Without(stream'[r], k) <=> Without(stream[r], k) /\ e.type # k
  BY <1>1, <1>2, <1>3, <1>4, Emits
<1>6. /\ chunks' \in [Requests -> Seq(Nat)] /\ pos' \in [Requests -> Nat]
      /\ \A q \in Requests \ {r} : chunks'[q] = chunks[q] /\ pos'[q] = pos[q]
      /\ chunks'[r] \in Seq(1 .. AnswerLen) /\ pos'[r] \in 0 .. AnswerLen
      /\ Len(chunks'[r]) <= (attempt'[r] - 1) * AnswerLen + pos'[r]
  BY <1>1, CollectOne DEF Adapter!Receive
<1>7. AgentStep(r)
  BY <1>1, <1>5, <1>6 DEF AgentStep, Domains
<1>8. Collected(r)'
  BY <1>1, <1>6 DEF Fine, Collected, Early
<1>9. Streamed(r)'
  BY <1>1, <1>2, <1>5 DEF Fine, Streamed, Early
<1> QED
  BY <1>7, <1>8, <1>9, AgentKeeps

\* The attempt ends, in order or to be repeated: nothing is told.
LEMMA QuietKeeps ==
    ASSUME FineInv, NEW r \in Requests, node[r] = "adapter",
           UNCHANGED <<storeVars, chatVars>>, phase[r] = "streaming",
           Adapter!Finish(r) \/ Adapter!Retry(r)
    PROVE  FineInv'
<1>1. Domains /\ Fine(r) /\ node' = node
  BY DEF FineInv, chatVars
<1>2. PICK p \in {"returned", "backoff"} :
        /\ phase' = [phase EXCEPT ![r] = p]
        /\ p = "backoff" => attempt[r] < MaxAttempts
  BY DEF Adapter!Finish, Adapter!Retry, Adapter!Return
<1>3. UNCHANGED <<attempt, pos, chunks, stream>> /\ DOMAIN ending' = Requests
      /\ \A q \in Requests \ {r} : ending'[q] = ending[q]
  BY <1>1 DEF Domains, Adapter!Finish, Adapter!Retry, Adapter!Return
<1>4. AgentStep(r) /\ phase'[r] = p
  BY <1>1, <1>2, <1>3 DEF AgentStep, Domains, Adapter!Phases
<1>5. Collected(r)'
  BY <1>1, <1>2, <1>3, <1>4 DEF Fine, Collected, Early
<1>6. Streamed(r)'
  BY <1>1, <1>3, <1>4 DEF Fine, Streamed, Early
<1> QED
  BY <1>4, <1>5, <1>6, AgentKeeps

\* The error is told, and the node returns.
LEMMA GiveUpKeeps ==
    ASSUME FineInv, NEW r \in Requests, node[r] = "adapter",
           UNCHANGED <<storeVars, chatVars>>, phase[r] = "streaming", Adapter!GiveUp(r)
    PROVE  FineInv'
<1> DEFINE e == Ev("error", "DOWNSTREAM_ERROR")
<1>1. Domains /\ Fine(r) /\ node' = node
  BY DEF FineInv, chatVars
<1>2. e \in Event /\ e.type = "error"
  BY DEF Ev, Adapter!Ev, Event
<1>3. MayFollow(e, stream[r]) /\ Shape(stream[r])
  BY <1>1, <1>2 DEF Fine, Streamed, MayFollow
<1>4. Emit(r, <<e>>)
  BY DEF Adapter!GiveUp, Emit, Ev
<1> HIDE DEF e
<1>5. /\ stream' \in [Requests -> Seq(Event)] /\ Shape(stream'[r])
      /\ \A q \in Requests \ {r} : stream'[q] = stream[q]
      /\ \A k : Without(stream'[r], k) <=> Without(stream[r], k) /\ e.type # k
  BY <1>1, <1>2, <1>3, <1>4, Emits
<1>6. /\ phase' = [phase EXCEPT ![r] = "returned"]
      /\ ending' = [ending EXCEPT ![r] = "error"]
      /\ UNCHANGED <<attempt, pos, chunks>>
  BY DEF Adapter!GiveUp, Adapter!Return
<1>7. AgentStep(r) /\ phase'[r] = "returned"
  BY <1>1, <1>5, <1>6 DEF AgentStep, Domains, Adapter!Phases
<1>8. Collected(r)'
  BY <1>1, <1>6, <1>7 DEF Fine, Collected, Early
<1>9. Streamed(r)'
  BY <1>1, <1>2, <1>5, <1>7 DEF Fine, Streamed, Early
<1> QED
  BY <1>7, <1>8, <1>9, AgentKeeps

\* The next attempt starts.
LEMMA WakeKeeps ==
    ASSUME FineInv, NEW r \in Requests, node[r] = "adapter",
           UNCHANGED <<storeVars, chatVars>>, Adapter!Wake(r)
    PROVE  FineInv'
<1>1. Domains /\ Fine(r) /\ node' = node
  BY DEF FineInv, chatVars
<1>2. /\ phase[r] = "backoff" /\ phase' = [phase EXCEPT ![r] = "streaming"]
      /\ attempt' = [attempt EXCEPT ![r] = attempt[r] + 1]
      /\ pos' = [pos EXCEPT ![r] = 0]
      /\ UNCHANGED <<chunks, ending, stream>>
  BY DEF Adapter!Wake
<1>3. /\ attempt[r] \in 1 .. MaxAttempts /\ attempt[r] < MaxAttempts
      /\ pos[r] \in 0 .. AnswerLen /\ chunks[r] \in Seq(1 .. AnswerLen)
      /\ Len(chunks[r]) <= (attempt[r] - 1) * AnswerLen + pos[r]
  BY <1>1, <1>2 DEF Fine, Collected
<1>4. attempt[r] \in Nat /\ attempt[r] + 1 \in 1 .. MaxAttempts /\ 0 \in 0 .. AnswerLen
  BY <1>3, AnswerLenNat, MaxAttemptsPositive
<1>5. AgentStep(r) /\ phase'[r] = "streaming" /\ attempt'[r] = attempt[r] + 1 /\ pos'[r] = 0
  BY <1>1, <1>2, <1>4 DEF AgentStep, Domains, Adapter!Phases
<1> DEFINE room == (attempt[r] - 1) * AnswerLen
<1>6. room \in Int /\ Len(chunks[r]) \in Nat
  BY <1>3, <1>4, AnswerLenNat
<1>7. Len(chunks[r]) <= room + pos[r]
  BY <1>3
<1> HIDE DEF room
<1>8. Len(chunks[r]) <= room + AnswerLen
  BY <1>3, <1>6, <1>7, AnswerLenNat
<1>9. (attempt'[r] - 1) * AnswerLen + pos'[r] = room + AnswerLen
  BY <1>4, <1>5, OneMore, AnswerLenNat DEF room
<1>10. Len(chunks'[r]) <= (attempt'[r] - 1) * AnswerLen + pos'[r]
  BY <1>2, <1>8, <1>9
<1>11. Collected(r)'
  BY <1>1, <1>2, <1>3, <1>4, <1>5, <1>10 DEF Collected, Early
<1>12. Streamed(r)'
  BY <1>1, <1>2, <1>5 DEF Fine, Streamed, Early
<1> QED
  BY <1>5, <1>11, <1>12, AgentKeeps

\* Any step of the node.
LEMMA AdapterStepKeeps ==
    ASSUME FineInv, NEW r \in Requests, AdapterStep(r)
    PROVE  FineInv'
<1>1. node[r] = "adapter" /\ UNCHANGED <<storeVars, chatVars>>
  BY DEF AdapterStep
<1>2. CASE Adapter!Begin(r)
  BY <1>1, <1>2, BeginKeeps
<1>3. CASE Adapter!Receive(r)
  BY <1>1, <1>3, ReceiveKeeps
<1>4. CASE Adapter!Finish(r)
  BY <1>1, <1>4, QuietKeeps DEF Adapter!Finish
<1>5. CASE Adapter!Raise(r) \/ \E retryable \in RetryableFlags : Adapter!ErrorEvent(r, retryable)
  <2>1. phase[r] = "streaming" /\ (Adapter!Retry(r) \/ Adapter!GiveUp(r))
    BY <1>5 DEF Adapter!Raise, Adapter!ErrorEvent
  <2> QED
    BY <1>1, <2>1, QuietKeeps, GiveUpKeeps
<1>6. CASE Adapter!Wake(r)
  BY <1>1, <1>6, WakeKeeps
<1> QED
  BY <1>2, <1>3, <1>4, <1>5, <1>6 DEF AdapterStep, Adapter!Step

----------------------------------------------------------------------------
(* Cancellation.                                                           *)

\* The request is closed where it is.
LEMMA CloseKeeps ==
    ASSUME FineInv, NEW r \in Requests, Goto(r, "closed"), AgentStep(r),
           UNCHANGED <<stream, rejected, visit, conns>>, DOMAIN result' = Requests,
           \/ pc' = [pc EXCEPT ![r] = "ended"]
           \/ pc' = pc /\ pc[r] \in {"between", "ended"},
           r \notin conns, Collected(r)',
           r \in rejected => phase'[r] = phase[r]
    PROVE  FineInv'
<1>1. Domains /\ Fine(r)
  BY DEF FineInv
<1>2. /\ node' = [node EXCEPT ![r] = "closed"] /\ "closed" \in Nodes
      /\ "ended" \in Store!Places
  BY DEF Goto, Nodes, Store!Places
<1>3. /\ pc' \in [Requests -> Store!Places] /\ pc'[r] \in {"between", "ended"}
      /\ \A q \in Requests \ {r} : pc'[q] = pc[q]
      /\ node' \in [Requests -> Nodes] /\ node'[r] = "closed"
      /\ \A q \in Requests \ {r} : node'[q] = node[q]
  BY <1>1, <1>2 DEF Domains
<1>4. Domains'
  BY <1>1, <1>3 DEF Domains, AgentStep
<1>5. OnlyRequest(r)
  BY <1>3, <1>4 DEF OnlyRequest, AgentStep
<1>6. Control(r)'
  BY <1>3 DEF Control, Store!InStore
<1>7. Streamed(r)' /\ Refused(r)'
  BY <1>1, <1>3 DEF Fine, Streamed, Refused, Early
<1> QED
  BY <1>5, <1>6, <1>7, OthersStay DEF Fine

\* A cancellation the adapter node catches: what it has is kept.
LEMMA CaughtEffect ==
    ASSUME FineInv, NEW r \in Requests, node[r] = "adapter", Adapter!CancelStreaming(r),
           UNCHANGED <<stream, rejected>>,
           NEW n \in {"persist", "closed"}, node'[r] = n
    PROVE  AgentStep(r) /\ (Collected(r) /\ Streamed(r) /\ Refused(r))'
<1>1. Domains /\ Fine(r)
  BY DEF FineInv
<1>2. /\ phase[r] = "streaming" /\ phase' = [phase EXCEPT ![r] = "returned"]
      /\ ending' = [ending EXCEPT ![r] = "cancelled"] /\ attempt' = attempt
  BY DEF Adapter!CancelStreaming
<1>3. phase'[r] = "returned" /\ phase' \in [Requests -> Adapter!Phases]
      /\ \A q \in Requests \ {r} : phase'[q] = phase[q] /\ ending'[q] = ending[q]
      /\ DOMAIN ending' = Requests
  BY <1>1, <1>2 DEF Domains, Adapter!Phases
<1>4. /\ chunks' \in [Requests -> Seq(Nat)] /\ pos' \in [Requests -> Nat]
      /\ \A q \in Requests \ {r} : chunks'[q] = chunks[q] /\ pos'[q] = pos[q]
      /\ chunks'[r] \in Seq(1 .. AnswerLen) /\ pos'[r] \in 0 .. AnswerLen
      /\ Len(chunks'[r]) <= (attempt'[r] - 1) * AnswerLen + pos'[r]
  <2>1. CASE UNCHANGED <<pos, chunks>>
    BY <1>1, <1>2, <2>1 DEF Domains, Fine, Collected
  <2>2. CASE pos[r] < AnswerLen /\ pos' = [pos EXCEPT ![r] = @ + 1]
             /\ Adapter!Collect(r, pos[r] + 1)
    BY <1>2, <2>2, CollectOne
  <2> QED
    BY <2>1, <2>2 DEF Adapter!CancelStreaming
<1>5. AgentStep(r)
  BY <1>1, <1>2, <1>3, <1>4 DEF AgentStep, Domains
<1>6. Collected(r)'
  BY <1>1, <1>2, <1>3, <1>4 DEF Fine, Collected, Early
<1>7. Streamed(r)' /\ Refused(r)'
  BY <1>1, <1>2, <1>3 DEF Fine, Streamed, Refused, Early
<1> QED
  BY <1>5, <1>6, <1>7

\* The request's task is cancelled.
LEMMA CancelKeeps ==
    ASSUME FineInv, NEW r \in Requests, Cancel(r)
    PROVE  FineInv'
<1>1. Domains /\ Fine(r) /\ UNCHANGED <<stream, rejected>>
  BY DEF FineInv, Cancel
<1>2. CASE Store!AbortVisit(r, "cancelled") /\ UNCHANGED <<adapterVars, node>>
  BY <1>1, <1>2, StatementKeeps
<1>3. CASE Store!AbortWait(r, "cancelled") /\ Goto(r, "closed") /\ UNCHANGED adapterVars
  <2>1. /\ pc[r] = "waiting" /\ UNCHANGED <<conns, visit>>
        /\ pc' = [pc EXCEPT ![r] = "ended"] /\ DOMAIN result' = Requests
    BY <1>1, <1>3 DEF Store!AbortWait, Store!Goto, Domains
  <2>2. r \notin conns
    BY <1>1, <2>1 DEF Fine, Control, Store!InStore
  <2>3. node'[r] = "closed" /\ AgentStep(r) /\ phase' = phase
    BY <1>1, <1>3 DEF Goto, Domains, AgentStep, adapterVars
  <2>4. Collected(r)'
    BY <1>1, <1>3, <2>3 DEF Fine, Collected, Early, adapterVars
  <2> QED
    BY <1>1, <1>3, <2>1, <2>2, <2>3, <2>4, CloseKeeps
<1>4. CASE node[r] = "adapter" /\ Adapter!CancelStreaming(r)
           /\ Goto(r, "persist") /\ Store!Enter(r)
  <2>1. node'[r] = "persist" /\ "persist" \in Nodes
    BY <1>1, <1>4 DEF Goto, Domains, Nodes
  <2>2. AgentStep(r) /\ (Collected(r) /\ Streamed(r) /\ Refused(r))'
    BY <1>1, <1>4, <2>1, CaughtEffect
  <2> QED
    BY <1>1, <1>4, <2>1, <2>2, EnterKeeps
<1>5. CASE node[r] = "adapter" /\ Adapter!CancelStreaming(r)
           /\ Goto(r, "closed") /\ UNCHANGED storeVars
  <2>1. node'[r] = "closed"
    BY <1>1, <1>5 DEF Goto, Domains
  <2>2. AgentStep(r) /\ Collected(r)'
    BY <1>1, <1>5, <2>1, CaughtEffect
  <2>3. pc[r] = "between" /\ r \notin conns /\ r \notin rejected
    BY <1>1, <1>5 DEF Fine, Control, Refused, Store!InStore
  <2>4. UNCHANGED <<visit, conns, pc>> /\ DOMAIN result' = Requests
    BY <1>1, <1>5 DEF storeVars, Domains
  <2> QED
    BY <1>1, <1>5, <2>2, <2>3, <2>4, CloseKeeps
<1>6. CASE node[r] = "adapter" /\ Adapter!CancelUncaught(r)
           /\ Goto(r, "closed") /\ UNCHANGED storeVars
  <2>1. node'[r] = "closed"
    BY <1>1, <1>6 DEF Goto, Domains
  <2>2. /\ phase[r] \in {"backoff", "streaming"} /\ phase' = [phase EXCEPT ![r] = "killed"]
        /\ UNCHANGED <<attempt, pos, chunks, ending, stream>>
    BY <1>6 DEF Adapter!CancelUncaught
  <2>3. AgentStep(r) /\ phase'[r] = "killed"
    BY <1>1, <2>2 DEF AgentStep, Domains, Adapter!Phases
  <2>4. Collected(r)'
    BY <1>1, <2>1, <2>2, <2>3 DEF Fine, Collected, Early
  <2>5. pc[r] = "between" /\ r \notin conns /\ r \notin rejected
    BY <1>1, <1>6 DEF Fine, Control, Refused, Store!InStore
  <2>6. UNCHANGED <<visit, conns, pc>> /\ DOMAIN result' = Requests
    BY <1>1, <1>6 DEF storeVars, Domains
  <2> QED
    BY <1>1, <1>6, <2>3, <2>4, <2>5, <2>6, CloseKeeps
<1>7. CASE CancelElsewhere(r)
  <2>1. /\ pc[r] \in {"between", "ended"} /\ Goto(r, "closed") /\ node'[r] = "closed"
        /\ UNCHANGED <<storeVars, adapterVars>>
    BY <1>1, <1>7 DEF CancelElsewhere, Goto, Domains
  <2>2. r \notin conns
    BY <1>1, <2>1 DEF Fine, Control, Store!InStore
  <2>3. AgentStep(r) /\ phase' = phase /\ UNCHANGED <<visit, conns, pc>>
        /\ DOMAIN result' = Requests
    BY <1>1, <2>1 DEF AgentStep, Domains, adapterVars, storeVars
  <2>4. Collected(r)'
    BY <1>1, <2>1 DEF Fine, Collected, Early, adapterVars
  <2> QED
    BY <1>1, <2>1, <2>2, <2>3, <2>4, CloseKeeps
<1> QED
  BY <1>2, <1>3, <1>4, <1>5, <1>6, <1>7 DEF Cancel, CancelInStore, CancelInAdapter

----------------------------------------------------------------------------
(* Every step.                                                             *)

\* No step disturbs FineInv.
LEMMA FineKept ==
    ASSUME FineInv, [Next]_vars
    PROVE  FineInv'
<1>1. CASE UNCHANGED vars
  BY <1>1 DEF FineInv, Domains, Fine, Control, Collected, Streamed, Refused, vars, storeVars,
              adapterVars, chatVars
<1>2. ASSUME NEW r \in Requests, Advance(r) PROVE FineInv'
  <2>1. CASE \E code \in {"TOPIC_NOT_FOUND", "BAD_REQUEST"} : Refuse(r, code)
    BY <2>1, RefuseKeeps
  <2>2. CASE Accept(r)
    BY <2>2, AcceptKeeps
  <2>3. CASE InsertUserMessage(r) \/ StoreStep(r) \/ LoadHistory(r) \/ InsertAnswer(r)
    BY <2>3, StatementKeeps DEF InsertUserMessage, StoreStep, LoadHistory, InsertAnswer, chatVars
  <2>4. CASE VisitEnds(r)
    BY <2>4, VisitEndsKeeps
  <2>5. CASE EnterLoad(r)
    BY <2>5, EnterLoadKeeps
  <2>6. CASE \E passed \in BOOLEAN : Auth(r, passed)
    BY <2>6, AuthKeeps
  <2>7. CASE Reject(r)
    BY <2>7, RejectKeeps
  <2>8. CASE Enrich(r)
    BY <2>8, EnrichKeeps
  <2>9. CASE PluginRaises(r)
    BY <2>9, PluginRaisesKeeps
  <2>10. CASE \E route \in Routes \cup {DefaultRoute} : Intent(r, route)
    BY <2>10, IntentKeeps
  <2>11. CASE AdapterStep(r)
    BY <2>11, AdapterStepKeeps
  <2>12. CASE AdapterReturns(r)
    BY <2>12, AdapterReturnsKeeps
  <2>13. CASE Finish(r)
    BY <2>13, FinishKeeps
  <2>14. CASE Fail(r)
    BY <2>14, FailKeeps
  <2> QED
    BY <1>2, <2>1, <2>2, <2>3, <2>4, <2>5, <2>6, <2>7, <2>8, <2>9, <2>10, <2>11, <2>12,
       <2>13, <2>14 DEF Advance
<1>3. ASSUME NEW r \in Requests, StoreFails(r) PROVE FineInv'
  BY <1>3, StoreFailsKeeps
<1>4. ASSUME NEW r \in Requests, Cancel(r) PROVE FineInv'
  BY <1>4, CancelKeeps
<1> QED
  BY <1>1, <1>2, <1>3, <1>4 DEF Next

----------------------------------------------------------------------------
(* What is stored.                                                         *)

\* Once the answer is complete it is not changed, and the request only goes on.
AnswerKept(r) ==
    node[r] \in Over =>
        node'[r] \in Over /\ chunks'[r] = chunks[r] /\ ending'[r] = ending[r]

\* A step of r that does not add to the answer.
LEMMA GotoKeepsAnswer ==
    ASSUME FineInv, NEW r \in Requests, NEW n, Goto(r, n),
           UNCHANGED <<chunks, ending>>, node[r] \in Over => n \in Over,
           NEW q \in Requests
    PROVE  AnswerKept(q)
  BY DEF FineInv, Domains, Goto, AnswerKept

\* A step of r that adds to the answer, which is not complete.
LEMMA AnswerGrows ==
    ASSUME FineInv, NEW r \in Requests, NEW n, Goto(r, n) \/ UNCHANGED node,
           node[r] \notin Over,
           \/ UNCHANGED chunks \/ \E s : chunks' = [chunks EXCEPT ![r] = s],
           \/ UNCHANGED ending \/ \E s : ending' = [ending EXCEPT ![r] = s],
           NEW q \in Requests
    PROVE  AnswerKept(q)
  BY DEF FineInv, Domains, Goto, AnswerKept

\* The end of a visit does not change the answer.
LEMMA VisitKeepsAnswer ==
    ASSUME FineInv, NEW r \in Requests, NEW res, pc[r] \in Visiting, AfterVisit(r, res),
           UNCHANGED adapterVars, NEW q \in Requests
    PROVE  AnswerKept(q)
<1>1. PICK n \in {"load", "auth", "done", "failed", "closed"} :
             /\ Goto(r, n) /\ node'[r] = n
             /\ n = "load" => node[r] = "user" /\ visit[r] = "user" /\ res = "ok"
             /\ n = "auth" => node[r] = "load" /\ visit[r] = "load" /\ res = "ok"
  BY AfterVisitEffect
<1>2. UNCHANGED <<chunks, ending>>
  BY DEF adapterVars
<1>3. node[r] \in Over => n \in Over
  BY <1>1 DEF Over
<1> QED
  BY <1>1, <1>2, <1>3, GotoKeepsAnswer

\* The adapter node works on an answer that is not complete.
LEMMA AdapterKeepsAnswer ==
    ASSUME FineInv, NEW r \in Requests, node[r] = "adapter",
           \/ Adapter!Begin(r) \/ Adapter!Step(r)
           \/ Adapter!CancelStreaming(r) \/ Adapter!CancelUncaught(r),
           UNCHANGED node \/ \E n : Goto(r, n),
           NEW q \in Requests
    PROVE  AnswerKept(q)
<1>1. \/ UNCHANGED chunks
      \/ \E s : chunks' = [chunks EXCEPT ![r] = s]
  BY DEF Adapter!Begin, Adapter!Step, Adapter!CancelStreaming, Adapter!CancelUncaught,
         Adapter!Receive, Adapter!Collect, Adapter!Finish, Adapter!Return, Adapter!ErrorEvent,
         Adapter!Raise, Adapter!Retry, Adapter!GiveUp, Adapter!Wake
<1>2. \/ UNCHANGED ending
      \/ \E s : ending' = [ending EXCEPT ![r] = s]
  BY DEF Adapter!Begin, Adapter!Step, Adapter!CancelStreaming, Adapter!CancelUncaught,
         Adapter!Receive, Adapter!Collect, Adapter!Finish, Adapter!Return, Adapter!ErrorEvent,
         Adapter!Raise, Adapter!Retry, Adapter!GiveUp, Adapter!Wake
<1>3. node[r] \notin Over
  BY DEF Over
<1> QED
  BY <1>1, <1>2, <1>3, AnswerGrows

\* No step changes an answer that is complete.
LEMMA AnswersKept ==
    ASSUME FineInv, [Next]_vars, NEW q \in Requests
    PROVE  AnswerKept(q)
<1>1. CASE UNCHANGED vars
  BY <1>1 DEF vars, adapterVars, chatVars, AnswerKept
<1>2. ASSUME NEW r \in Requests, Advance(r) PROVE AnswerKept(q)
  <2>1. CASE \/ \E code \in {"TOPIC_NOT_FOUND", "BAD_REQUEST"} : Refuse(r, code)
             \/ Accept(r) \/ \E passed \in BOOLEAN : Auth(r, passed)
             \/ Enrich(r) \/ PluginRaises(r) \/ AdapterReturns(r) \/ Finish(r) \/ Fail(r)
             \/ \E route \in Routes \cup {DefaultRoute} : Intent(r, route)
    <3>1. UNCHANGED <<chunks, ending>>
      BY <2>1 DEF Refuse, Accept, Auth, Enrich, PluginRaises, AdapterReturns, Finish, Fail,
                  Intent, adapterVars
    <3>2. \E n : Goto(r, n) /\ (node[r] \in Over => n \in Over)
      BY <2>1 DEF Refuse, Accept, Auth, Enrich, PluginRaises, AdapterReturns, Finish, Fail,
                  Intent, Over
    <3> QED
      BY <3>1, <3>2, GotoKeepsAnswer
  <2>2. CASE InsertUserMessage(r) \/ StoreStep(r) \/ EnterLoad(r) \/ LoadHistory(r)
             \/ InsertAnswer(r)
    BY <2>2 DEF InsertUserMessage, StoreStep, EnterLoad, LoadHistory, InsertAnswer, chatVars,
                adapterVars, AnswerKept
  <2>3. CASE VisitEnds(r)
    BY <2>3, VisitKeepsAnswer DEF VisitEnds, Store!Release, Visiting, Store!InStore
  <2>4. CASE Reject(r)
    <3>1. node[r] \notin Over
      BY <2>4 DEF Reject, Over
    <3> QED
      BY <2>4, <3>1, AnswerGrows DEF Reject
  <2>5. CASE AdapterStep(r)
    BY <2>5, AdapterKeepsAnswer DEF AdapterStep, chatVars
  <2> QED
    BY <1>2, <2>1, <2>2, <2>3, <2>4, <2>5 DEF Advance
<1>3. ASSUME NEW r \in Requests, StoreFails(r) PROVE AnswerKept(q)
  <2>1. CASE UNCHANGED <<node, adapterVars>>
    BY <2>1 DEF adapterVars, AnswerKept
  <2>2. CASE Store!AbortWait(r, "dberror") /\ AfterVisit(r, "dberror") /\ UNCHANGED adapterVars
    BY <2>2, VisitKeepsAnswer DEF Store!AbortWait, Visiting
  <2> QED
    BY <1>3, <2>1, <2>2 DEF StoreFails
<1>4. ASSUME NEW r \in Requests, Cancel(r) PROVE AnswerKept(q)
  <2>1. CASE UNCHANGED <<node, adapterVars>>
    BY <2>1 DEF adapterVars, AnswerKept
  <2>2. CASE Goto(r, "closed") /\ UNCHANGED adapterVars
    BY <2>2, GotoKeepsAnswer DEF adapterVars, Over
  <2>3. CASE CancelInAdapter(r)
    BY <2>3, AdapterKeepsAnswer DEF CancelInAdapter
  <2> QED
    BY <1>4, <2>1, <2>2, <2>3 DEF Cancel, CancelInStore, CancelElsewhere
<1> QED
  BY <1>1, <1>2, <1>3, <1>4 DEF Next
\* The store's part of every step: the rows are the same, or one more.
LEMMA RowsEffect ==
    ASSUME FineInv, [Next]_vars
    PROVE  /\ ask' = ask
           /\ \/ messages' = messages
              \/ \E r \in Requests : InsertUserMessage(r) \/ InsertAnswer(r)
<1>1. CASE UNCHANGED vars
  BY <1>1 DEF vars, storeVars
<1>2. ASSUME NEW r \in Requests, Advance(r) \/ StoreFails(r) \/ Cancel(r),
             ~ InsertUserMessage(r), ~ InsertAnswer(r)
      PROVE  ask' = ask /\ messages' = messages
  <2>1. CASE UNCHANGED storeVars
    BY <2>1 DEF storeVars
  <2>2. CASE \/ Store!Enter(r) \/ Store!Acquire(r) \/ Store!SelectSession(r)
             \/ Store!InsertSession(r) \/ Store!ReselectSession(r) \/ Store!SelectMaxSeq(r)
             \/ Store!SessionRepository_touch(r) \/ Store!ListRecent(r) \/ Store!Release(r)
             \/ \E why : Store!AbortVisit(r, why) \/ Store!AbortWait(r, why)
    BY <2>2 DEF Store!Enter, Store!Acquire, Store!SelectSession, Store!InsertSession,
                Store!ReselectSession, Store!SelectMaxSeq, Store!SessionRepository_touch,
                Store!ListRecent, Store!Release, Store!AbortVisit, Store!AbortWait,
                Store!tables
  <2>3. CASE Advance(r)
    BY <1>2, <2>1, <2>2, <2>3 DEF Advance, Refuse, Accept, StoreStep, VisitEnds, EnterLoad,
        LoadHistory, Auth, Reject, Enrich, PluginRaises, Intent, AdapterStep, AdapterReturns,
        Finish, Fail
  <2>4. CASE StoreFails(r)
    BY <2>2, <2>4 DEF StoreFails
  <2>5. CASE Cancel(r)
    BY <2>1, <2>2, <2>5 DEF Cancel, CancelInStore, CancelInAdapter, CancelElsewhere
  <2> QED
    BY <1>2, <2>3, <2>4, <2>5
<1>3. ASSUME NEW r \in Requests, InsertUserMessage(r) \/ InsertAnswer(r) PROVE ask' = ask
  BY <1>3 DEF InsertUserMessage, InsertAnswer, Store!InsertMessage
<1> QED
  BY <1>1, <1>2, <1>3 DEF Next

\* No step disturbs AnswersTold.
LEMMA AnswersToldKept ==
    ASSUME FineInv, AnswersTold, [Next]_vars
    PROVE  AnswersTold'
<1>1. ask' = ask /\ \A q \in Requests : AnswerKept(q)
  BY RowsEffect, AnswersKept
<1>2. CASE messages' = messages
  BY <1>1, <1>2 DEF AnswersTold, AnswerKept
<1>3. ASSUME NEW r \in Requests, InsertUserMessage(r) \/ InsertAnswer(r) PROVE AnswersTold'
  <2> DEFINE t == Store!Thread(r)
             k == Store!NextSeq(r)
  <2>1. t \in Threads
    BY DEF AnswersTold, Store!Thread
  <2>2. PICK body :
          /\ \/ messages' = messages
             \/ messages' = [messages EXCEPT ![t] =
                    Store!WithRow(t, k, [req |-> r, role |-> Store!Role(r), body |-> body])]
          /\ \/ node[r] = "user" /\ Store!Role(r) = "user"
             \/ node[r] = "persist" /\ body = [status |-> Status(r), chunks |-> chunks[r]]
    <3>1. CASE InsertUserMessage(r)
      <4>1. node[r] = "user" /\ visit[r] = "user"
        BY <3>1 DEF InsertUserMessage, FineInv, Fine, Control
      <4> QED
        BY <3>1, <4>1 DEF InsertUserMessage, Store!InsertMessage, Store!Role
    <3>2. CASE InsertAnswer(r)
      BY <3>2 DEF InsertAnswer, Store!InsertMessage
    <3> QED
      BY <1>3, <3>1, <3>2
  <2>3. CASE messages' = messages
    BY <1>2, <2>3
  <2> DEFINE m == [req |-> r, role |-> Store!Role(r), body |-> body]
  <2>4. CASE messages' = [messages EXCEPT ![t] = Store!WithRow(t, k, m)]
    <3>1. DOMAIN messages' = Threads /\ messages'[t] = Store!WithRow(t, k, m)
          /\ \A u \in Threads \ {t} : messages'[u] = messages[u]
      BY <2>1, <2>4 DEF AnswersTold
    <3>2. \A n \in DOMAIN messages'[t] :
             \/ messages'[t][n] = m
             \/ n \in DOMAIN messages[t] /\ messages'[t][n] = messages[t][n]
      BY <3>1 DEF Store!WithRow
    <3>3. m.role = "assistant" =>
            /\ m.req \in Requests /\ node'[m.req] \in Over
            /\ m.body.status = "complete" =>
                    chunks'[m.req] # <<>> /\ ending'[m.req] # "cancelled"
            /\ m.body.chunks = chunks'[m.req]
      BY <1>1, <2>2 DEF AnswerKept, Over, Status
    <3> HIDE DEF m, t, k
    <3>4. ASSUME NEW u \in Threads, NEW n \in DOMAIN messages'[u],
                 messages'[u][n].role = "assistant"
          PROVE  LET w == messages'[u][n]
                 IN  /\ w.req \in Requests /\ node'[w.req] \in Over
                     /\ w.body.status = "complete" =>
                             chunks'[w.req] # <<>> /\ ending'[w.req] # "cancelled"
                     /\ w.body.chunks = chunks'[w.req]
      <4>1. CASE n \in DOMAIN messages[u] /\ messages'[u][n] = messages[u][n]
        BY <1>1, <3>4, <4>1 DEF AnswersTold, AnswerKept
      <4>2. CASE messages'[u][n] = m
        BY <3>3, <3>4, <4>2
      <4> QED
        BY <3>1, <3>2, <4>1, <4>2
    <3> QED
      BY <1>1, <3>1, <3>4 DEF AnswersTold
  <2> QED
    BY <2>2, <2>3, <2>4
<1> QED
  BY <1>2, <1>3, RowsEffect

\* ChatInv holds at the start, and in every state.
LEMMA ChatInvInit == Init => ChatInv
<1> SUFFICES ASSUME Init PROVE ChatInv
  OBVIOUS
<1>1. /\ ask \in [Requests -> [thread : Threads, topic : Topics]]
      /\ messages = [t \in Threads |-> <<>>] /\ conns = {} /\ rejected = {}
      /\ visit = [r \in Requests |-> "none"] /\ pc = [r \in Requests |-> "between"]
      /\ DOMAIN result = Requests
  BY DEF Init, Store!Init
<1>2. /\ phase = [r \in Requests |-> "idle"] /\ attempt = [r \in Requests |-> 0]
      /\ pos = [r \in Requests |-> 0] /\ chunks = [r \in Requests |-> <<>>]
      /\ DOMAIN ending = Requests /\ stream = [r \in Requests |-> <<>>]
      /\ node = [r \in Requests |-> "arrive"]
  BY DEF Init, Adapter!Init
<1>3. Domains
  BY <1>1, <1>2 DEF Domains, Nodes, Store!Visits, Store!Places, Adapter!Phases
<1>4. \A r \in Requests : Control(r) /\ Collected(r)
  BY <1>1, <1>2 DEF Control, Collected, Early, Store!InStore
<1>5. \A r \in Requests : Streamed(r) /\ Refused(r)
  BY <1>1, <1>2 DEF Streamed, Refused, Shape, Without, Early
<1>6. AnswersTold
  BY <1>1 DEF AnswersTold
<1> QED
  BY <1>3, <1>4, <1>5, <1>6 DEF ChatInv, FineInv, Fine

\* Every behaviour of ChatService stays in ChatInv.
THEOREM ChatInvariant == Spec => []ChatInv
<1>1. ChatInv /\ [Next]_vars => ChatInv'
  BY FineKept, AnswersToldKept DEF ChatInv
<1> QED
  BY <1>1, ChatInvInit, PTL DEF Spec

\* Every stream has the agreed shape: meta first, done last, an error before
\* the done and no answer after it, whatever fails and whoever is cancelled.
THEOREM StreamsHaveShape == Spec => []StreamShape
<1>1. ChatInv => StreamShape
  BY DEF ChatInv, FineInv, Fine, Streamed, Shape, Without, StreamShape, Positions
<1> QED
  BY <1>1, ChatInvariant, PTL

\* A request that is refused by auth_node reaches no further plugin and no agent.
THEOREM RefusedStays == Spec => []RejectedGoesNoFurther
<1>1. ChatInv => RejectedGoesNoFurther
  BY DEF ChatInv, FineInv, Domains, Fine, Refused, RefusalOnly, RejectedGoesNoFurther, Positions
<1> QED
  BY <1>1, ChatInvariant, PTL

\* No connection is held outside the three visits.
THEOREM ConnectionsOnlyInVisits == Spec => []NoConnectionWhileStreaming
<1>1. ASSUME ChatInv, NEW r \in conns PROVE node[r] \in {"user", "load", "persist"}
  <2>1. r \in Requests /\ Control(r) /\ node[r] \in Nodes
    BY <1>1 DEF ChatInv, FineInv, Domains, Fine
  <2>2. pc[r] \in Store!InStore
    BY <1>1, <2>1 DEF Control
  <2> QED
    BY <2>1, <2>2 DEF Control, Nodes, Store!InStore
<1>2. ChatInv => NoConnectionWhileStreaming
  BY <1>1 DEF NoConnectionWhileStreaming
<1> QED
  BY <1>2, ChatInvariant, PTL
----------------------------------------------------------------------------
(* The store is used as ThreadStore allows.                                *)

\* Attempts bring at most MaxAttempts answers.
LEMMA RoomForAll ==
    ASSUME NEW a \in 1 .. MaxAttempts, NEW p \in 0 .. AnswerLen, NEW n \in Nat,
           n <= (a - 1) * AnswerLen + p
    PROVE  n <= AnswerLen * MaxAttempts
<1>1. AnswerLen \in Nat /\ MaxAttempts \in Nat /\ a \in Nat /\ p \in Nat
  BY AnswerLenNat, MaxAttemptsPositive
<1>2. (a - 1) * AnswerLen + AnswerLen = a * AnswerLen
  BY <1>1, SMT
<1>3. a * AnswerLen <= MaxAttempts * AnswerLen
  <2>1. PICK d \in Nat : MaxAttempts = a + d
    <3>1. MaxAttempts - a \in Nat /\ MaxAttempts = a + (MaxAttempts - a)
      BY <1>1
    <3> QED
      BY <3>1
  <2>2. (a + d) * AnswerLen = a * AnswerLen + d * AnswerLen
    BY <1>1, SMT
  <2>3. d * AnswerLen \in Nat /\ a * AnswerLen \in Nat
    BY <1>1
  <2> QED
    BY <2>1, <2>2, <2>3
<1>4. MaxAttempts * AnswerLen = AnswerLen * MaxAttempts
  BY <1>1, SMT
<1>5. /\ (a - 1) * AnswerLen \in Int /\ a * AnswerLen \in Int
      /\ MaxAttempts * AnswerLen \in Int
  BY <1>1
<1>6. (a - 1) * AnswerLen + p <= (a - 1) * AnswerLen + AnswerLen
  BY <1>1, <1>5
<1> QED
  BY <1>1, <1>2, <1>3, <1>4, <1>5, <1>6

\* What a request has collected is an answer ThreadStore knows.
LEMMA ChunksAreAnswers ==
    ASSUME FineInv, NEW r \in Requests
    PROVE  chunks[r] \in Answers
<1> DEFINE most == AnswerLen * MaxAttempts
<1>1. Collected(r) /\ Domains /\ most \in Nat
  BY AnswerLenNat, MaxAttemptsPositive DEF FineInv, Fine
<1>2. ASSUME NEW s \in Seq(1 .. AnswerLen), Len(s) <= most PROVE s \in Answers
  <2> HIDE DEF most
  <2>1. Len(s) \in Nat /\ s \in [1 .. Len(s) -> 1 .. AnswerLen]
    BY <1>2, LenProperties
  <2>2. Len(s) \in 0 .. most
    BY <1>1, <1>2, <2>1
  <2>3. s \in BoundedSeq(1 .. AnswerLen, most)
    BY <2>1, <2>2 DEF BoundedSeq, SeqOf
  <2> QED
    BY <2>3 DEF Answers, most
<1>3. <<>> \in Seq(1 .. AnswerLen) /\ Len(<<>>) <= most
  BY <1>1
<1>4. CASE phase[r] = "idle"
  BY <1>1, <1>2, <1>3, <1>4 DEF Collected, Answers
<1>5. CASE phase[r] # "idle"
  <2>1. /\ attempt[r] \in 1 .. MaxAttempts /\ pos[r] \in 0 .. AnswerLen
        /\ chunks[r] \in Seq(1 .. AnswerLen)
        /\ Len(chunks[r]) <= (attempt[r] - 1) * AnswerLen + pos[r]
    BY <1>1, <1>5 DEF Collected
  <2>2. Len(chunks[r]) <= most
    BY <2>1, RoomForAll
  <2> QED
    BY <1>2, <2>1, <2>2
<1> QED
  BY <1>4, <1>5

\* Every step is a step of ThreadStore or leaves the tables alone.
LEMMA StoreStepSimulation ==
    ASSUME FineInv, [Next]_vars
    PROVE  [Store!Next]_(Store!vars)
<1>1. CASE UNCHANGED storeVars
  BY <1>1 DEF storeVars, Store!vars
<1>2. ASSUME NEW r \in Requests,
             Store!Enter(r) \/ Store!Work(r)
             \/ \E why \in Store!Failures : Store!AbortVisit(r, why) \/ Store!AbortWait(r, why)
      PROVE  Store!Next
  BY <1>2 DEF Store!Next
<1>3. ASSUME NEW r \in Requests, Advance(r) PROVE [Store!Next]_(Store!vars)
  <2>1. CASE InsertUserMessage(r)
    <3>1. UserBody \in Bodies
      <4>1. <<>> \in [1 .. 0 -> 1 .. AnswerLen] /\ 0 \in 0 .. AnswerLen * MaxAttempts
        BY AnswerLenNat, MaxAttemptsPositive
      <4>2. <<>> \in Answers
        BY <4>1 DEF Answers, BoundedSeq, SeqOf
      <4> QED
        BY <4>2 DEF UserBody, Bodies
    <3> QED
      BY <1>2, <2>1, <3>1 DEF InsertUserMessage, Store!Work
  <2>2. CASE InsertAnswer(r)
    <3>1. [status |-> Status(r), chunks |-> chunks[r]] \in Bodies
      BY ChunksAreAnswers DEF Status, Bodies
    <3> QED
      BY <1>2, <2>2, <3>1 DEF InsertAnswer, Store!Work
  <2>3. CASE StoreStep(r) \/ LoadHistory(r) \/ VisitEnds(r)
    BY <1>2, <2>3 DEF StoreStep, LoadHistory, VisitEnds, Store!Work
  <2>4. CASE Accept(r) \/ EnterLoad(r) \/ Reject(r) \/ AdapterReturns(r)
    BY <1>2, <2>4 DEF Accept, EnterLoad, Reject, AdapterReturns
  <2>5. CASE ~ (\/ InsertUserMessage(r) \/ InsertAnswer(r) \/ StoreStep(r) \/ LoadHistory(r)
                \/ VisitEnds(r) \/ Accept(r) \/ EnterLoad(r) \/ Reject(r) \/ AdapterReturns(r))
    BY <1>1, <1>3, <2>5 DEF Advance, Refuse, Auth, Enrich, PluginRaises, Intent, AdapterStep,
                            Finish, Fail
  <2> QED
    BY <2>1, <2>2, <2>3, <2>4, <2>5
<1>4. ASSUME NEW r \in Requests, StoreFails(r) PROVE Store!Next
  BY <1>2, <1>4 DEF StoreFails, Store!Failures
<1>5. ASSUME NEW r \in Requests, Cancel(r) PROVE [Store!Next]_(Store!vars)
  BY <1>1, <1>2, <1>5 DEF Cancel, CancelInStore, CancelInAdapter, CancelElsewhere, Store!Failures
<1> QED
  BY <1>1, <1>3, <1>4, <1>5 DEF Next, vars

\* ChatService implements ThreadStore: whatever is proved of the store's rows
\* and connections holds of the requests ChatService serves.
THEOREM ChatUsesStore == Spec => ImplementsStore
<1>1. Init => Store!Init
  BY DEF Init
<1>2. ChatInv /\ [Next]_vars => [Store!Next]_(Store!vars)
  BY StoreStepSimulation DEF ChatInv
<1> QED
  BY <1>1, <1>2, ChatInvariant, PTL DEF Spec, ImplementsStore, Store!Spec

----------------------------------------------------------------------------
(* What is collected is what was streamed.                                 *)

\* The chunks of request r are the deltas of its stream; after a cancellation
\* there may be the one piece more that was being forwarded.
Tracks(r) ==
    LET d == Adapter!DeltasOf(stream[r])
    IN  /\ d \in Seq(Nat)
        /\ ending[r] \in Adapter!Endings
        /\ ending[r] # "none" => phase[r] = "returned"
        /\ \/ d = chunks[r]
           \/ ending[r] = "cancelled" /\ \E p \in Nat : chunks[r] = Append(d, p)

TrackInv == ending \in [Requests -> Adapter!Endings] /\ \A r \in Requests : Tracks(r)

\* Request r is told nothing of the answer.
Quiet(r) ==
    \/ stream' = stream
    \/ \E e \in Event : e.type # "delta" /\ Emit(r, <<e>>)
    \/ \E e, f \in Event : e.type # "delta" /\ f.type # "delta" /\ Emit(r, <<e, f>>)

\* Then the deltas are those of before.
LEMMA QuietKeepsDeltas ==
    ASSUME Domains, NEW r \in Requests, Quiet(r), NEW q \in Requests
    PROVE  Adapter!DeltasOf(stream'[q]) = Adapter!DeltasOf(stream[q])
<1>1. stream \in [Requests -> Seq(Event)]
  BY DEF Domains
<1>2. CASE stream' = stream
  BY <1>2
<1>3. ASSUME NEW e \in Event, e.type # "delta", Emit(r, <<e>>)
      PROVE  Adapter!DeltasOf(stream'[q]) = Adapter!DeltasOf(stream[q])
  <2>1. stream'[q] = IF q = r THEN stream[r] \o <<e>> ELSE stream[q]
    BY <1>1, <1>3 DEF Emit, Adapter!Emit
  <2>2. Adapter!DeltasOf(stream[r] \o <<e>>) = Adapter!DeltasOf(stream[r])
    BY <1>1, <1>3, DeltasOfMore
  <2> QED
    BY <2>1, <2>2
<1>4. ASSUME NEW e \in Event, NEW f \in Event, e.type # "delta", f.type # "delta",
             Emit(r, <<e, f>>)
      PROVE  Adapter!DeltasOf(stream'[q]) = Adapter!DeltasOf(stream[q])
  <2>1. stream'[q] = IF q = r THEN stream[r] \o <<e, f>> ELSE stream[q]
    BY <1>1, <1>4 DEF Emit, Adapter!Emit
  <2>2. stream[r] \o <<e, f>> = (stream[r] \o <<e>>) \o <<f>> /\ stream[r] \o <<e>> \in Seq(Event)
    BY <1>1, EmitTwo
  <2>3. Adapter!DeltasOf(stream[r] \o <<e>>) = Adapter!DeltasOf(stream[r])
    BY <1>1, <1>4, DeltasOfMore
  <2>4. Adapter!DeltasOf((stream[r] \o <<e>>) \o <<f>>) = Adapter!DeltasOf(stream[r] \o <<e>>)
    BY <1>4, <2>2, DeltasOfMore
  <2> QED
    BY <2>1, <2>2, <2>3, <2>4
<1> QED
  BY <1>2, <1>3, <1>4 DEF Quiet

\* The events handle and its nodes tell of themselves are no deltas.
LEMMA OwnEvents ==
    /\ \A code \in {"INTERNAL", "BAD_REQUEST", "TOPIC_NOT_FOUND", "DOWNSTREAM_ERROR"} :
          Error(code) \in Event /\ Error(code).type # "delta"
    /\ \A status \in {"failed", "complete"} :
          Done(status) \in Event /\ Done(status).type # "delta"
    /\ \A name \in {"auth", "enrich", "intent"}, type \in {"thinking", "progress"} :
          Ev(type, name) \in Event /\ Ev(type, name).type # "delta"
    /\ Ev("meta", "none") \in Event /\ Ev("meta", "none").type # "delta"
BY DEF Error, Done, Ev, Adapter!Ev, Event

\* Outside the agent's exchange and the refusal nothing is told of an answer.
LEMMA QuietSteps ==
    ASSUME NEW r \in Requests, Advance(r) \/ StoreFails(r) \/ Cancel(r),
           ~ Reject(r), ~ AdapterStep(r)
    PROVE  Quiet(r)
<1>1. CASE \E code \in {"TOPIC_NOT_FOUND", "BAD_REQUEST"} : Refuse(r, code)
  BY <1>1, OwnEvents DEF Refuse, Quiet
<1>2. CASE Accept(r)
  BY <1>2, OwnEvents DEF Accept, Quiet
<1>3. CASE (\E passed \in BOOLEAN : Auth(r, passed)) \/ Enrich(r)
           \/ \E route \in Routes \cup {DefaultRoute} : Intent(r, route)
  <2>1. PICK name \in {"auth", "enrich", "intent"} : Emit(r, Step(name))
    BY <1>3 DEF Auth, Enrich, Intent
  <2>2. Emit(r, <<Ev("thinking", name), Ev("progress", name)>>)
    BY <2>1 DEF Step
  <2> QED
    BY <2>2, OwnEvents DEF Quiet
<1>4. CASE PluginRaises(r)
  BY <1>4, OwnEvents DEF PluginRaises, Quiet
<1>5. CASE Finish(r)
  BY <1>5, OwnEvents DEF Finish, Quiet
<1>6. CASE Fail(r)
  BY <1>6, OwnEvents DEF Fail, Quiet
<1>7. ASSUME NEW res, AfterVisit(r, res) PROVE Quiet(r)
  BY <1>7, OwnEvents DEF AfterVisit, AfterUserVisit, AfterNodeVisit, Quiet
<1>8. CASE UNCHANGED stream
  BY <1>8 DEF Quiet
<1> QED
  BY <1>1, <1>2, <1>3, <1>4, <1>5, <1>6, <1>7, <1>8
     DEF Advance, StoreFails, Cancel, InsertUserMessage, StoreStep, VisitEnds, EnterLoad,
         LoadHistory, AdapterReturns, InsertAnswer

\* A piece is told and collected.
LEMMA PieceTracked ==
    ASSUME Domains, TrackInv, NEW r \in Requests, NEW p \in Nat,
           Emit(r, <<Adapter!Delta(p)>>), chunks' = [chunks EXCEPT ![r] = Append(@, p)],
           ending' = ending, ending[r] = "none",
           \A q \in Requests \ {r} : phase'[q] = phase[q]
    PROVE  TrackInv'
<1> DEFINE e == Adapter!Delta(p)
<1>1. e \in Event /\ e.type = "delta" /\ e.piece = p
  BY DEF Adapter!Delta, Event
<1> HIDE DEF e
<1>2. /\ stream'[r] = stream[r] \o <<e>> /\ stream[r] \in Seq(Event)
      /\ chunks'[r] = Append(chunks[r], p)
      /\ \A q \in Requests \ {r} : stream'[q] = stream[q] /\ chunks'[q] = chunks[q]
  BY DEF Domains, Emit, Adapter!Emit, e
<1>3. Adapter!DeltasOf(stream'[r]) = Append(Adapter!DeltasOf(stream[r]), p)
  BY <1>1, <1>2, DeltasOfMore
<1>4. Adapter!DeltasOf(stream[r]) \in Seq(Nat) /\ Adapter!DeltasOf(stream[r]) = chunks[r]
  BY DEF TrackInv, Tracks
<1>5. Tracks(r)'
  <2>1. Append(chunks[r], p) \in Seq(Nat)
    BY <1>4
  <2> QED
    BY <1>2, <1>3, <1>4, <2>1 DEF Tracks, Adapter!Endings
<1>6. ASSUME NEW q \in Requests \ {r} PROVE Tracks(q)'
  <2>1. /\ chunks'[q] = chunks[q] /\ phase'[q] = phase[q] /\ ending'[q] = ending[q]
        /\ stream'[q] = stream[q] /\ Tracks(q)
    BY <1>2 DEF TrackInv
  <2> QED
    BY <2>1 DEF Tracks
<1> QED
  BY <1>5, <1>6 DEF TrackInv

\* Nothing is told, and nothing is collected.
LEMMA NothingTracked ==
    ASSUME Domains, TrackInv, NEW r \in Requests, Quiet(r), chunks' = chunks,
           \A q \in Requests \ {r} : ending'[q] = ending[q] /\ phase'[q] = phase[q],
           ending' \in [Requests -> Adapter!Endings], ending'[r] # "none" => phase'[r] = "returned",
           ending[r] = "cancelled" => ending'[r] = "cancelled"
    PROVE  TrackInv'
<1>1. \A q \in Requests : Adapter!DeltasOf(stream'[q]) = Adapter!DeltasOf(stream[q])
  BY QuietKeepsDeltas
<1>2. ASSUME NEW q \in Requests PROVE Tracks(q)'
  <2>1. CASE q = r
    BY <1>1, <2>1 DEF TrackInv, Tracks
  <2>2. CASE q # r
    BY <1>1, <2>2 DEF TrackInv, Tracks
  <2> QED
    BY <2>1, <2>2
<1> QED
  BY <1>2 DEF TrackInv

\* A piece was collected that is not told any more.
LEMMA LastPieceTracked ==
    ASSUME Domains, TrackInv, NEW r \in Requests, Adapter!CancelStreaming(r), stream' = stream
    PROVE  TrackInv'
<1>1. /\ phase[r] = "streaming" /\ phase' = [phase EXCEPT ![r] = "returned"]
      /\ ending' = [ending EXCEPT ![r] = "cancelled"]
  BY DEF Adapter!CancelStreaming
<1>2. /\ phase'[r] = "returned" /\ ending'[r] = "cancelled"
      /\ \A q \in Requests \ {r} : phase'[q] = phase[q] /\ ending'[q] = ending[q]
  BY <1>1 DEF Domains
<1>3. CASE chunks' = chunks
  BY <1>1, <1>2, <1>3, NothingTracked DEF Quiet, Adapter!Endings, TrackInv, Tracks
<1>4. CASE Adapter!Collect(r, pos[r] + 1)
  <2>1. /\ chunks'[r] = Append(chunks[r], pos[r] + 1) /\ pos[r] + 1 \in Nat
        /\ \A q \in Requests \ {r} : chunks'[q] = chunks[q]
    BY <1>4 DEF Domains, Adapter!Collect
  <2>2. Adapter!DeltasOf(stream[r]) = chunks[r] /\ chunks[r] \in Seq(Nat)
    BY <1>1 DEF TrackInv, Tracks
  <2>3. Tracks(r)'
    BY <1>2, <2>1, <2>2 DEF Tracks, Adapter!Endings
  <2>4. ASSUME NEW q \in Requests \ {r} PROVE Tracks(q)'
    <3>1. /\ chunks'[q] = chunks[q] /\ phase'[q] = phase[q] /\ ending'[q] = ending[q]
          /\ stream'[q] = stream[q] /\ Tracks(q)
      BY <1>2, <2>1 DEF TrackInv
    <3> QED
      BY <3>1 DEF Tracks
  <2>5. ending' \in [Requests -> Adapter!Endings]
    BY <1>1 DEF TrackInv, Adapter!Endings
  <2> QED
    BY <2>3, <2>4, <2>5 DEF TrackInv
<1> QED
  BY <1>3, <1>4 DEF Adapter!CancelStreaming

\* A step of the agent's exchange.
LEMMA ExchangeTracked ==
    ASSUME Domains, TrackInv, NEW r \in Requests, Adapter!Begin(r) \/ Adapter!Step(r)
    PROVE  TrackInv'
<1>1. phase[r] \in {"idle", "streaming", "backoff"}
  BY DEF Adapter!Begin, Adapter!Step, Adapter!Receive, Adapter!Finish, Adapter!ErrorEvent,
         Adapter!Raise, Adapter!Wake
<1>2. ending[r] = "none"
  BY <1>1 DEF TrackInv, Tracks
<1>3. ASSUME NEW p, phase' = [phase EXCEPT ![r] = p]
      PROVE  phase'[r] = p /\ \A q \in Requests \ {r} : phase'[q] = phase[q]
  BY <1>3 DEF Domains
<1>4. ASSUME NEW p, phase' = [phase EXCEPT ![r] = p], UNCHANGED <<chunks, ending, stream>>
      PROVE  TrackInv'
  BY <1>2, <1>3, <1>4, NothingTracked DEF Quiet, TrackInv, Tracks
<1>5. ASSUME NEW why \in {"finished", "error"}, Adapter!Return(r, why), Quiet(r) PROVE TrackInv'
  <2>1. /\ phase'[r] = "returned" /\ ending'[r] = why
        /\ \A q \in Requests \ {r} : phase'[q] = phase[q] /\ ending'[q] = ending[q]
    BY <1>5 DEF Domains, Adapter!Return
  <2>2. ending' \in [Requests -> Adapter!Endings]
    BY <1>5 DEF Adapter!Return, Adapter!Endings, TrackInv
  <2> QED
    BY <1>2, <1>5, <2>1, <2>2, NothingTracked DEF Adapter!Return
<1>6. CASE Adapter!Begin(r) \/ Adapter!Wake(r)
  BY <1>4, <1>6 DEF Adapter!Begin, Adapter!Wake
<1>7. CASE Adapter!Receive(r)
  <2>1. pos[r] + 1 \in Nat /\ Emit(r, <<Adapter!Delta(pos[r] + 1)>>)
    BY <1>7 DEF Domains, Adapter!Receive, Emit
  <2> QED
    BY <1>2, <1>7, <2>1, PieceTracked DEF Adapter!Receive, Adapter!Collect
<1>8. CASE Adapter!Finish(r)
  BY <1>5, <1>8 DEF Adapter!Finish, Quiet
<1>9. ASSUME Adapter!Retry(r) PROVE TrackInv'
  BY <1>4, <1>9 DEF Adapter!Retry
<1>10. ASSUME Adapter!GiveUp(r) PROVE TrackInv'
  <2>1. Adapter!Return(r, "error") /\ Emit(r, <<Error("DOWNSTREAM_ERROR")>>)
    BY <1>10 DEF Adapter!GiveUp, Emit, Error, Ev
  <2> QED
    BY <1>5, <2>1, OwnEvents DEF Quiet
<1> QED
  BY <1>6, <1>7, <1>8, <1>9, <1>10 DEF Adapter!Step, Adapter!ErrorEvent, Adapter!Raise

\* Every step keeps what is collected in step with what is streamed.
LEMMA TracksKept ==
    ASSUME FineInv, TrackInv, [Next]_vars
    PROVE  TrackInv'
<1>1. Domains
  BY DEF FineInv
<1>2. CASE UNCHANGED vars
  BY <1>2 DEF vars, adapterVars, TrackInv, Tracks
<1>3. ASSUME NEW r \in Requests, Quiet(r), UNCHANGED adapterVars PROVE TrackInv'
  BY <1>1, <1>3, NothingTracked DEF adapterVars, TrackInv, Tracks
<1>4. ASSUME NEW r \in Requests, Advance(r) PROVE TrackInv'
  <2>1. CASE Reject(r)
    <3>1. node[r] = "reject" /\ phase[r] = "idle" /\ chunks[r] = <<>>
      BY <2>1 DEF Reject, FineInv, Fine, Collected, Early
    <3>2. ending[r] = "none"
      BY <3>1 DEF TrackInv, Tracks
    <3>3. chunks' = [chunks EXCEPT ![r] = Append(@, 0)] /\ ending' = ending /\ phase' = phase
          /\ Emit(r, <<Adapter!Delta(0)>>)
      BY <2>1, <3>1 DEF Reject
    <3> QED
      BY <1>1, <3>2, <3>3, PieceTracked
  <2>2. CASE AdapterStep(r)
    BY <1>1, <2>2, ExchangeTracked DEF AdapterStep
  <2>3. CASE ~ Reject(r) /\ ~ AdapterStep(r)
    <3>1. UNCHANGED adapterVars
      BY <1>4, <2>3 DEF Advance, Refuse, Accept, InsertUserMessage, StoreStep, VisitEnds,
            EnterLoad, LoadHistory, Auth, Enrich, PluginRaises, Intent, AdapterReturns,
            InsertAnswer, Finish, Fail
    <3> QED
      BY <1>3, <1>4, <2>3, <3>1, QuietSteps
  <2> QED
    BY <2>1, <2>2, <2>3
<1>5. ASSUME NEW r \in Requests, StoreFails(r) PROVE TrackInv'
  <2>1. ~ Reject(r) /\ ~ AdapterStep(r)
    BY <1>5 DEF StoreFails, Store!AbortVisit, Store!AbortWait, AfterVisit, Reject, AdapterStep,
                FineInv, Fine, Control, Store!InStore
  <2> QED
    BY <1>3, <1>5, <2>1, QuietSteps DEF StoreFails
<1>6. ASSUME NEW r \in Requests, Cancel(r) PROVE TrackInv'
  <2>1. stream' = stream
    BY <1>6 DEF Cancel
  <2>2. CASE UNCHANGED adapterVars
    BY <1>3, <2>1, <2>2 DEF Quiet
  <2>3. CASE Adapter!CancelStreaming(r)
    BY <1>1, <2>1, <2>3, LastPieceTracked
  <2>4. CASE Adapter!CancelUncaught(r)
    <3>1. phase[r] # "returned" /\ phase' = [phase EXCEPT ![r] = "killed"]
          /\ UNCHANGED <<chunks, ending>>
      BY <2>4 DEF Adapter!CancelUncaught
    <3>2. ending[r] = "none" /\ \A q \in Requests \ {r} : phase'[q] = phase[q]
      BY <1>1, <3>1 DEF TrackInv, Tracks, Domains
    <3> QED
      BY <1>1, <2>1, <3>1, <3>2, NothingTracked DEF Quiet, TrackInv, Tracks
  <2> QED
    BY <1>6, <2>2, <2>3, <2>4 DEF Cancel, CancelInStore, CancelInAdapter, CancelElsewhere
<1> QED
  BY <1>2, <1>4, <1>5, <1>6 DEF Next

----------------------------------------------------------------------------
(* What ThreadStore guarantees holds of the requests ChatService serves.   *)

SP == INSTANCE ThreadStoreProofs

\* The operators of the libraries are the same in both modules.
LEMMA SameOperators ==
    /\ \A S : SP!IsFiniteSet(S) <=> IsFiniteSet(S)
    /\ \A S : SP!IsFiniteSet(S) <=> Store!IsFiniteSet(S)
    /\ \A S : SP!Cardinality(S) = Store!Cardinality(S)
    /\ \A S : SP!Max(S) = Store!Max(S)
<1>1. ASSUME NEW S
      PROVE  (SP!IsFiniteSet(S) <=> IsFiniteSet(S)) /\ (SP!IsFiniteSet(S) <=> Store!IsFiniteSet(S))
  BY DEF IsFiniteSet, SP!IsFiniteSet, Store!IsFiniteSet
<1>2. ASSUME NEW S PROVE SP!Cardinality(S) = Store!Cardinality(S)
  BY DEF Store!Cardinality, SP!Cardinality
<1>3. ASSUME NEW S PROVE SP!Max(S) = Store!Max(S)
  BY DEF Store!Max, SP!Max
<1> QED
  BY <1>1, <1>2, <1>3

\* So are the statements, one by one.
LEMMA SameWork ==
    ASSUME NEW r \in Requests, Store!Work(r)
    PROVE  SP!Work(r)
<1> USE DEF Store!Goto, SP!Goto, Store!Thread, SP!Thread, Store!EndVisit, SP!EndVisit,
            Store!tables, SP!tables
<1>1. Store!Acquire(r) => SP!Acquire(r)
  BY SameOperators DEF Store!Acquire, SP!Acquire
<1>2. Store!SelectMaxSeq(r) => SP!SelectMaxSeq(r)
  BY SameOperators DEF Store!SelectMaxSeq, SP!SelectMaxSeq, Store!MaxSeqOf, SP!MaxSeqOf
<1>3. Store!SelectSession(r) => SP!SelectSession(r)
  BY DEF Store!SelectSession, SP!SelectSession, Store!AfterGetOrCreate, SP!AfterGetOrCreate,
         Store!Topic, SP!Topic
<1>4. Store!InsertSession(r) => SP!InsertSession(r)
  BY DEF Store!InsertSession, SP!InsertSession, Store!Topic, SP!Topic
<1>5. Store!ReselectSession(r) => SP!ReselectSession(r)
  BY DEF Store!ReselectSession, SP!ReselectSession, Store!AfterGetOrCreate, SP!AfterGetOrCreate
<1>6. ASSUME NEW body \in Bodies, Store!InsertMessage(r, body) PROVE SP!InsertMessage(r, body)
  BY <1>6 DEF Store!InsertMessage, SP!InsertMessage, Store!NextSeq, SP!NextSeq, Store!SeqFree,
              SP!SeqFree, Store!WithRow, SP!WithRow, Store!Role, SP!Role
<1>7. Store!ListRecent(r) => SP!ListRecent(r)
  BY DEF Store!ListRecent, SP!ListRecent
<1>8. Store!SessionRepository_touch(r) => SP!SessionRepository_touch(r)
  BY DEF Store!SessionRepository_touch, SP!SessionRepository_touch
<1>9. Store!Release(r) => SP!Release(r)
  BY DEF Store!Release, SP!Release
<1> QED
  BY <1>1, <1>2, <1>3, <1>4, <1>5, <1>6, <1>7, <1>8, <1>9 DEF Store!Work, SP!Work

\* So the two specifications are one.
LEMMA SameStore ==
    /\ Store!Init => SP!Init
    /\ [Store!Next]_(Store!vars) => [SP!Next]_(SP!vars)
<1>1. Store!Init => SP!Init
  BY DEF Store!Init, SP!Init
<1>2. ASSUME NEW r \in Requests
      PROVE  /\ Store!Enter(r) => SP!Enter(r)
             /\ Store!Leave(r) => SP!Leave(r)
             /\ \A why : Store!AbortVisit(r, why) => SP!AbortVisit(r, why)
             /\ \A why : Store!AbortWait(r, why) => SP!AbortWait(r, why)
  BY DEF Store!Enter, SP!Enter, Store!Leave, SP!Leave, Store!AbortVisit, SP!AbortVisit,
         Store!AbortWait, SP!AbortWait, Store!Goto, SP!Goto, Store!tables, SP!tables,
         Store!EndVisit, SP!EndVisit, Store!NextVisit, SP!NextVisit, Store!InStore, SP!InStore
<1>3. Store!Next => SP!Next
  BY <1>2, SameWork DEF Store!Next, SP!Next, Store!Failures, SP!Failures
<1>4. UNCHANGED Store!vars => UNCHANGED SP!vars
  BY DEF SP!vars, Store!vars
<1> QED
  BY <1>1, <1>3, <1>4

\* What is used of ThreadStore's inductive invariant here: types, logs, rows that stand
\* in the thread of their request, and rows that were acknowledged.
StoreFacts ==
    /\ Store!TypeOK
    /\ messages \in [Threads -> Seq(Store!Message)]
    /\ \A t \in Threads : \A n \in DOMAIN messages[t] : ask[messages[t][n].req].thread = t
    /\ Store!AcknowledgedStored

\* ThreadStoreProofs gives them.
LEMMA StoreFactsHold == SP!IInv => StoreFacts
<1>1. SP!Message = Store!Message
  BY DEF SP!Message, Store!Message
<1>2. SP!TypeOK => Store!TypeOK
  BY <1>1, SameOperators DEF SP!TypeOK, Store!TypeOK, SP!Visits, Store!Visits, SP!Places,
     Store!Places, SP!InStore, Store!InStore, SP!Results, Store!Results
<1>3. SP!AcknowledgedStored => Store!AcknowledgedStored
  BY DEF SP!AcknowledgedStored, Store!AcknowledgedStored, SP!HasRow, Store!HasRow,
         SP!Thread, Store!Thread
<1> QED
  BY <1>1, <1>2, <1>3 DEF SP!IInv, StoreFacts, SP!RowsAreLog, SP!RowsMatchControl,
     SP!RowMatchesControl, SP!Thread

\* They hold in every state of ChatService.
THEOREM StoreIsSound == Spec => []StoreFacts
<1>1. SP!Spec => []SP!IInv
  BY SP!InductiveInvariant, SameOperators, RequestsFinite, NoTopicIsNone, PoolMaxPositive
<1>2. Spec => Store!Spec
  BY ChatUsesStore DEF ImplementsStore
<1>3. Store!Spec => SP!Spec
  BY SameStore, PTL DEF Store!Spec, SP!Spec
<1> QED
  BY <1>1, <1>2, <1>3, StoreFactsHold, PTL

----------------------------------------------------------------------------
(* What is given to the model.                                             *)

\* Rows are never changed or removed.
LEMMA RowsStay ==
    ASSUME FineInv, StoreFacts, [Next]_vars, NEW t \in Threads, NEW n \in DOMAIN messages[t]
    PROVE  n \in DOMAIN messages'[t] /\ messages'[t][n] = messages[t][n]
<1>1. CASE messages' = messages
  BY <1>1
<1>2. ASSUME NEW r \in Requests, InsertUserMessage(r) \/ InsertAnswer(r)
      PROVE  n \in DOMAIN messages'[t] /\ messages'[t][n] = messages[t][n]
  <2>1. PICK body : Store!InsertMessage(r, body)
    BY <1>2 DEF InsertUserMessage, InsertAnswer
  <2> DEFINE u == Store!Thread(r)
             k == Store!NextSeq(r)
             m == [req |-> r, role |-> Store!Role(r), body |-> body]
  <2>2. \/ messages' = messages
        \/ k \notin DOMAIN messages[u]
           /\ messages' = [messages EXCEPT ![u] = Store!WithRow(u, k, m)]
    BY <2>1 DEF Store!InsertMessage, Store!SeqFree
  <2> HIDE DEF u, k, m
  <2>3. DOMAIN messages = Threads
    BY DEF StoreFacts
  <2> QED
    BY <2>2, <2>3 DEF Store!WithRow
<1> QED
  BY <1>1, <1>2, RowsEffect

\* Message m is the one of role that request q has stored, complete.
StoredAs(m, role, q) == m.role = role /\ m.req = q /\ m.body.status = "complete"

\* A turn given to the model for request r: its question and its answer stand next to
\* each other in r's thread, complete.
Complete(r, turn) ==
    /\ turn[2] \in Requests
    /\ \E j \in Nat :
        /\ j \in DOMAIN messages[ask[r].thread] /\ j + 1 \in DOMAIN messages[ask[r].thread]
        /\ StoredAs(messages[ask[r].thread][j], "user", turn[1])
        /\ StoredAs(messages[ask[r].thread][j + 1], "assistant", turn[2])

Given(r, turns) == Len(turns) <= MaxTurns /\ \A i \in DOMAIN turns : Complete(r, turns[i])

HistoryInv ==
    /\ DOMAIN history = Requests
    /\ cancelled \subseteq Requests
    /\ \A r \in Requests : Given(r, history[r])

\* What load_session reads.
LEMMA LoadedIsComplete ==
    ASSUME StoreFacts, HistoryInv, NEW r \in Requests, LoadHistory(r)
    PROVE  \E turns : Given(r, turns) /\ history' = [history EXCEPT ![r] = turns]
<1> DEFINE t == ask[r].thread
           rows == messages[t]
           RowOf(m) == [role |-> m.role, status |-> m.body.status, req |-> m.req]
           all == [i \in 1 .. Len(rows) |-> RowOf(rows[i])]
           Rs == {RowOf(rows[i]) : i \in 1 .. Len(rows)}
           window == Recent(all, Window(MaxTurns))
           read == HistoryOf(window, MaxTurns)
<1>1. t \in Threads /\ rows \in Seq(Store!Message) /\ DOMAIN rows = 1 .. Len(rows)
      /\ Len(rows) \in Nat
  BY DEF StoreFacts, Store!TypeOK
<1>2. history' = [history EXCEPT ![r] = read]
  BY DEF LoadHistory
<1>3. /\ window \in Seq(Rs)
      /\ \E k \in Nat : \A j \in 1 .. Len(window) :
            k + j \in 1 .. Len(rows) /\ window[j] = RowOf(rows[k + j])
  <2>1. Window(MaxTurns) \in Nat
    BY MaxTurnsPositive DEF Window
  <2>2. all \in Seq(Rs) /\ Len(all) = Len(rows)
        /\ \A n \in 1 .. Len(rows) : all[n] = RowOf(rows[n])
    BY <1>1
  <2> HIDE DEF all, Rs, RowOf
  <2>3. \E k \in Nat : \A j \in 1 .. Len(window) :
            k + j \in 1 .. Len(all) /\ window[j] = all[k + j]
    BY <2>1, <2>2, RecentAreLast
  <2> QED
    BY <2>1, <2>2, <2>3, RecentAreRows
<1> HIDE DEF window
<1>4. /\ read \in Seq({TurnOf(window, j) : j \in TurnsAt(window)})
      /\ Cardinality(TurnsAt(window)) \in Nat
      /\ Len(read) = IF Cardinality(TurnsAt(window)) > MaxTurns THEN MaxTurns
                     ELSE Cardinality(TurnsAt(window))
  <2> HIDE DEF Rs
  <2> QED
    BY <1>3, HistoryFacts, TurnsFinite, MaxTurnsPositive
<1> HIDE DEF read
<1>5. Len(read) <= MaxTurns /\ DOMAIN read = 1 .. Len(read)
  BY <1>4, MaxTurnsPositive
<1>6. ASSUME NEW i \in DOMAIN read PROVE Complete(r, read[i])
  <2>1. PICK j \in TurnsAt(window) : read[i] = TurnOf(window, j)
    BY <1>4
  <2>2. /\ j \in 1 .. Len(window) /\ j + 1 \in 1 .. Len(window)
        /\ window[j].role = "user" /\ window[j].status = "complete"
        /\ window[j + 1].role = "assistant" /\ window[j + 1].status = "complete"
    BY <1>3, <2>1 DEF TurnsAt, IsTurn
  <2>3. PICK k \in Nat : \A n \in 1 .. Len(window) :
            k + n \in 1 .. Len(rows) /\ window[n] = RowOf(rows[k + n])
    BY <1>3
  <2> DEFINE n == k + j
  <2>4. /\ n \in Nat /\ n + 1 = k + (j + 1) /\ n \in 1 .. Len(rows) /\ n + 1 \in 1 .. Len(rows)
        /\ window[j] = RowOf(rows[n]) /\ window[j + 1] = RowOf(rows[n + 1])
    BY <2>2, <2>3
  <2> HIDE DEF n
  <2>5. read[i][1] = rows[n].req /\ read[i][2] = rows[n + 1].req
    BY <2>1, <2>4 DEF TurnOf
  <2>6. StoredAs(rows[n], "user", read[i][1]) /\ StoredAs(rows[n + 1], "assistant", read[i][2])
    BY <2>2, <2>4, <2>5 DEF StoredAs
  <2>7. rows[n + 1] \in Store!Message
    BY <1>1, <2>4
  <2>8. read[i][2] \in Requests
    BY <2>5, <2>7 DEF Store!Message
  <2> QED
    BY <1>1, <2>4, <2>6, <2>8 DEF Complete
<1> QED
  BY <1>2, <1>5, <1>6 DEF Given

\* No step makes a history incomplete.
LEMMA HistoryKept ==
    ASSUME FineInv, StoreFacts, HistoryInv, [Next]_vars
    PROVE  HistoryInv'
<1>1. ask' = ask
  BY RowsEffect
<1>2. ASSUME NEW r \in Requests, NEW turns, Given(r, turns) PROVE Given(r, turns)'
  <2>1. ASSUME NEW i \in DOMAIN turns PROVE Complete(r, turns[i])'
    <3> DEFINE t == ask[r].thread
    <3>1. Complete(r, turns[i]) /\ t \in Threads
      BY <1>2 DEF Given, StoreFacts, Store!TypeOK
    <3>2. PICK j \in Nat : /\ j \in DOMAIN messages[t] /\ j + 1 \in DOMAIN messages[t]
                           /\ StoredAs(messages[t][j], "user", turns[i][1])
                           /\ StoredAs(messages[t][j + 1], "assistant", turns[i][2])
      BY <3>1 DEF Complete
    <3>3. /\ j \in DOMAIN messages'[t] /\ messages'[t][j] = messages[t][j]
          /\ j + 1 \in DOMAIN messages'[t] /\ messages'[t][j + 1] = messages[t][j + 1]
      BY <3>1, <3>2, RowsStay
    <3> QED
      BY <1>1, <3>1, <3>2, <3>3 DEF Complete, StoredAs
  <2> QED
    BY <1>2, <2>1 DEF Given
<1>3. cancelled' \subseteq Requests
  BY DEF HistoryInv, Next, vars, chatVars, Advance, Refuse, Accept, InsertUserMessage, StoreStep,
         VisitEnds, StoreFails, EnterLoad, LoadHistory, Auth, Reject, Enrich, PluginRaises,
         Intent, AdapterStep, AdapterReturns, InsertAnswer, Finish, Fail, Cancel
<1>4. CASE history' = history
  BY <1>2, <1>3, <1>4 DEF HistoryInv
<1>5. ASSUME NEW r \in Requests, LoadHistory(r) PROVE HistoryInv'
  <2>1. PICK turns : Given(r, turns) /\ history' = [history EXCEPT ![r] = turns]
    BY <1>5, LoadedIsComplete
  <2>2. Given(r, turns)'
    BY <1>2, <2>1
  <2>3. ASSUME NEW q \in Requests \ {r} PROVE Given(q, history[q])' /\ history'[q] = history[q]
    <3>1. history'[q] = history[q] /\ Given(q, history[q])
      BY <2>1 DEF HistoryInv
    <3>2. PICK old : old = history[q]
      OBVIOUS
    <3> QED
      BY <1>2, <3>1, <3>2
  <2>4. DOMAIN history' = Requests /\ history'[r] = turns
    BY <2>1 DEF HistoryInv
  <2> QED
    BY <1>3, <2>2, <2>3, <2>4 DEF HistoryInv
<1>6. ASSUME NEW r \in Requests, Advance(r) \/ StoreFails(r) \/ Cancel(r), ~ LoadHistory(r)
      PROVE  history' = history
  BY <1>6 DEF Advance, Refuse, Accept, InsertUserMessage, StoreStep, VisitEnds, StoreFails,
         EnterLoad, Auth, Reject, Enrich, PluginRaises, Intent, AdapterStep, AdapterReturns,
         InsertAnswer, Finish, Fail, Cancel, chatVars
<1> QED
  BY <1>4, <1>5, <1>6 DEF Next, vars, chatVars

----------------------------------------------------------------------------
(* The queue, and the done of a stream.                                    *)

\* Only a request that is cancelled leaves pieces in the queue or has its answer cut.
QueueInv ==
    /\ unread \in [Requests -> 0 .. AnswerLen * MaxAttempts + 1]
    /\ \A r \in Requests \ cancelled : unread[r] = 0 /\ ending[r] # "cancelled"

\* There is no more in the queue than an answer has.
LEMMA RoomInQueue ==
    ASSUME FineInv, TrackInv, NEW r \in Requests
    PROVE  Len(Pieces(r)) \in 0 .. AnswerLen * MaxAttempts + 1
<1>1. Tracks(r) /\ chunks[r] \in Answers /\ chunks[r] \in Seq(Nat)
  BY ChunksAreAnswers DEF TrackInv, FineInv, Domains
<1> DEFINE d == Adapter!DeltasOf(stream[r])
           most == AnswerLen * MaxAttempts
<1>2. /\ d \in Seq(Nat)
      /\ d = chunks[r] \/ \E p \in Nat : chunks[r] = Append(d, p)
  BY <1>1 DEF Tracks
<1>3. most \in Nat
  BY AnswerLenNat, MaxAttemptsPositive
<1> HIDE DEF d, most
<1>4. Len(d) \in Nat /\ Len(d) <= Len(chunks[r])
  BY <1>2
<1>5. Len(chunks[r]) \in Nat /\ Len(chunks[r]) <= most + 1
  <2>1. CASE chunks[r] = <<0>>
    BY <1>3, <2>1
  <2>2. CASE chunks[r] \in BoundedSeq(1 .. AnswerLen, most)
    <3>1. PICK n \in 0 .. most : chunks[r] \in [1 .. n -> 1 .. AnswerLen]
      BY <2>2 DEF BoundedSeq, SeqOf
    <3>2. DOMAIN chunks[r] = 1 .. n /\ n \in Nat
      BY <1>3, <3>1
    <3>3. Len(chunks[r]) = n
      BY <1>1, <3>2, LenProperties
    <3> QED
      BY <1>3, <3>1, <3>3
  <2> QED
    BY <1>1, <2>1, <2>2 DEF Answers, most
<1> QED
  BY <1>3, <1>4, <1>5 DEF Pieces, d, most

\* Cancelling is the only step that leaves pieces behind or cuts an answer.
LEMMA QueueKept ==
    ASSUME FineInv, TrackInv, QueueInv, [Next]_vars
    PROVE  QueueInv'
<1>1. CASE UNCHANGED <<unread, cancelled, ending>>
  BY <1>1 DEF QueueInv
<1>2. ASSUME NEW r \in Requests, NEW why \in {"finished", "error"}, Adapter!Return(r, why),
             UNCHANGED <<unread, cancelled>>
      PROVE  QueueInv'
  BY <1>2 DEF QueueInv, TrackInv, Adapter!Return
<1>3. ASSUME NEW r \in Requests, AdapterStep(r) PROVE QueueInv'
  <2>1. \/ UNCHANGED ending
        \/ \E why \in {"finished", "error"} : Adapter!Return(r, why)
    BY <1>3 DEF AdapterStep, Adapter!Begin, Adapter!Step, Adapter!Receive, Adapter!Finish,
         Adapter!ErrorEvent, Adapter!Raise, Adapter!Retry, Adapter!GiveUp, Adapter!Wake
  <2> QED
    BY <1>1, <1>2, <1>3, <2>1 DEF AdapterStep, chatVars
<1>4. ASSUME NEW r \in Requests, Advance(r) \/ StoreFails(r), ~ AdapterStep(r)
      PROVE  UNCHANGED <<unread, cancelled, ending>>
  BY <1>4 DEF Advance, Refuse, Accept, InsertUserMessage, StoreStep, VisitEnds, StoreFails,
         EnterLoad, LoadHistory, Auth, Reject, Enrich, PluginRaises, Intent, AdapterReturns,
         InsertAnswer, Finish, Fail, chatVars, adapterVars
<1>5. ASSUME NEW r \in Requests, Cancel(r) PROVE QueueInv'
  <2>1. PICK n \in 0 .. Len(Pieces(r)) : unread' = [unread EXCEPT ![r] = n]
    BY <1>5 DEF Cancel
  <2>2. n \in 0 .. AnswerLen * MaxAttempts + 1
    <3>1. PICK len : len = Len(Pieces(r))
      OBVIOUS
    <3>2. PICK most : most = AnswerLen * MaxAttempts + 1
      OBVIOUS
    <3>3. len \in 0 .. most /\ n \in 0 .. len /\ most \in Nat
      BY <2>1, <3>1, <3>2, RoomInQueue, AnswerLenNat, MaxAttemptsPositive
    <3> QED
      BY <3>2, <3>3
  <2>3. cancelled' = cancelled \cup {r}
    BY <1>5 DEF Cancel
  <2>4. UNCHANGED ending \/ ending' = [ending EXCEPT ![r] = "cancelled"]
    BY <1>5 DEF Cancel, CancelInStore, CancelInAdapter, CancelElsewhere, adapterVars,
         Adapter!CancelStreaming, Adapter!CancelUncaught
  <2>5. \A q \in Requests \ {r} : ending'[q] = ending[q]
    BY <2>4 DEF TrackInv
  <2>6. unread' \in [Requests -> 0 .. AnswerLen * MaxAttempts + 1]
    BY <2>1, <2>2 DEF QueueInv
  <2>7. \A q \in Requests \ {r} : unread'[q] = unread[q]
    BY <2>1 DEF QueueInv
  <2> QED
    BY <2>3, <2>5, <2>6, <2>7 DEF QueueInv
<1> QED
  BY <1>1, <1>3, <1>4, <1>5 DEF Next, vars, chatVars, adapterVars

\* The request ends, or has ended, with done and without an error.
EndsWell(r) ==
    \/ node[r] = "done"
    \/ node[r] = "closed" /\ Without(stream[r], "error") /\ ~ Without(stream[r], "done")

\* Then its last visit was persist, and it went well.
DoneInv ==
    \A r \in Requests : EndsWell(r) => visit[r] = "persist" /\ result[r] = "ok"

\* A step of r leaves the others where they are.
LEMMA OthersAsBefore ==
    ASSUME FineInv, NEW r \in Requests, Advance(r) \/ StoreFails(r) \/ Cancel(r),
           NEW q \in Requests \ {r}
    PROVE  /\ node'[q] = node[q] /\ stream'[q] = stream[q]
           /\ visit'[q] = visit[q] /\ result'[q] = result[q]
<1>1. Domains
  BY DEF FineInv
<1>2. ASSUME NEW res, AfterVisit(r, res)
      PROVE  (\E n : Goto(r, n)) /\ (UNCHANGED stream \/ \E es : Emit(r, es))
  BY <1>2 DEF AfterVisit, AfterUserVisit, AfterNodeVisit
<1>3. UNCHANGED node \/ \E n : Goto(r, n)
  BY <1>2 DEF Advance, Refuse, Accept, InsertUserMessage, StoreStep, VisitEnds, StoreFails,
         EnterLoad, LoadHistory, Auth, Reject, Enrich, PluginRaises, Intent, AdapterStep,
         AdapterReturns, InsertAnswer, Finish, Fail, Cancel, CancelInStore, CancelInAdapter,
         CancelElsewhere, chatVars
<1>4. ASSUME Adapter!Begin(r) \/ Adapter!Step(r)
      PROVE  UNCHANGED stream \/ \E es : Emit(r, es)
  BY <1>4 DEF Adapter!Begin, Adapter!Step, Adapter!Receive, Adapter!Finish,
         Adapter!ErrorEvent, Adapter!Raise, Adapter!Retry, Adapter!GiveUp, Adapter!Wake, Emit
<1>5. UNCHANGED stream \/ \E es : Emit(r, es)
  BY <1>2, <1>4 DEF Advance, Refuse, Accept, InsertUserMessage, StoreStep, VisitEnds, StoreFails,
         EnterLoad, LoadHistory, Auth, Reject, Enrich, PluginRaises, Intent, AdapterStep,
         AdapterReturns, InsertAnswer, Finish, Fail, Cancel
<1>6. /\ UNCHANGED visit \/ \E v : visit' = [visit EXCEPT ![r] = v]
      /\ UNCHANGED result \/ \E v : result' = [result EXCEPT ![r] = v]
  <2>1. CASE UNCHANGED storeVars
    BY <2>1 DEF storeVars
  <2>2. CASE \/ Store!Enter(r) \/ Store!Acquire(r) \/ Store!SelectSession(r)
             \/ Store!InsertSession(r) \/ Store!ReselectSession(r) \/ Store!SelectMaxSeq(r)
             \/ Store!SessionRepository_touch(r) \/ Store!ListRecent(r) \/ Store!Release(r)
             \/ \E body : Store!InsertMessage(r, body)
             \/ \E why : Store!AbortVisit(r, why) \/ Store!AbortWait(r, why)
    BY <2>2 DEF Store!Enter, Store!Acquire, Store!SelectSession, Store!InsertSession,
                Store!ReselectSession, Store!SelectMaxSeq, Store!SessionRepository_touch,
                Store!ListRecent, Store!Release, Store!AbortVisit, Store!AbortWait,
                Store!InsertMessage, Store!EndVisit
  <2>3. CASE Advance(r)
    BY <2>1, <2>2, <2>3 DEF Advance, Refuse, Accept, InsertUserMessage, StoreStep, VisitEnds,
        EnterLoad, LoadHistory, Auth, Reject, Enrich, PluginRaises, Intent, AdapterStep,
        AdapterReturns, InsertAnswer, Finish, Fail
  <2>4. CASE StoreFails(r)
    BY <2>2, <2>4 DEF StoreFails
  <2>5. CASE Cancel(r)
    BY <2>1, <2>2, <2>5 DEF Cancel, CancelInStore, CancelInAdapter, CancelElsewhere
  <2> QED
    BY <2>3, <2>4, <2>5
<1> QED
  BY <1>1, <1>3, <1>5, <1>6 DEF Domains, Goto, Emit, Adapter!Emit

\* An error that is streamed is in the stream.
LEMMA ErrorIsSeen ==
    ASSUME Domains, NEW r \in Requests, NEW e \in Event, NEW f \in Event, e.type = "error",
           Emit(r, <<e, f>>)
    PROVE  ~ Without(stream'[r], "error")
<1>1. stream[r] \in Seq(Event) /\ stream'[r] = stream[r] \o <<e, f>>
  BY DEF Domains, Emit, Adapter!Emit
<1> DEFINE s == stream[r]
           n == Len(s) + 1
<1>2. n \in DOMAIN (s \o <<e, f>>) /\ (s \o <<e, f>>)[n] = e
  BY <1>1
<1> HIDE DEF s, n
<1>3. ~ Without(s \o <<e, f>>, "error")
  BY <1>2 DEF Without
<1> QED
  BY <1>1, <1>3 DEF s

\* A step after which r ends well comes after persist went well.
LEMMA EndsWellAfterPersist ==
    ASSUME FineInv, DoneInv, NEW r \in Requests, Advance(r) \/ StoreFails(r) \/ Cancel(r),
           EndsWell(r)'
    PROVE  visit'[r] = "persist" /\ result'[r] = "ok"
<1>1. Domains /\ Control(r) /\ Streamed(r)
  BY DEF FineInv, Fine
<1>2. node'[r] \in {"done", "closed"}
  BY DEF EndsWell
<1>3. ASSUME NEW e \in Event, NEW f \in Event, e.type = "error", Emit(r, <<e, f>>),
             node'[r] = "closed"
      PROVE  FALSE
  BY <1>1, <1>3, ErrorIsSeen DEF EndsWell
<1>4. ASSUME UNCHANGED stream, node'[r] = "closed", node[r] # "closed"
      PROVE  FALSE
  BY <1>1, <1>4 DEF EndsWell, Streamed
<1>5. ASSUME node'[r] = node[r], pc[r] \in Visiting PROVE FALSE
  BY <1>1, <1>2, <1>5 DEF Control, Visiting, Store!InStore
<1>6. ASSUME NEW n, Goto(r, n) PROVE node'[r] = n
  BY <1>1, <1>6 DEF Goto, Domains
<1>7. ASSUME NEW res, AfterVisit(r, res)
      PROVE  node'[r] = "done" /\ node[r] = "persist" /\ res = "ok"
  <2>1. CASE node[r] = "user" /\ AfterUserVisit(r, res)
    BY <1>2, <1>3, <1>4, <1>6, <2>1, OwnEvents DEF AfterUserVisit, Error, Ev, Adapter!Ev
  <2>2. CASE node[r] = "load" /\ AfterNodeVisit(r, res, "auth")
    BY <1>2, <1>4, <1>6, <2>2 DEF AfterNodeVisit
  <2>3. CASE node[r] = "persist" /\ AfterNodeVisit(r, res, "done")
    BY <1>2, <1>4, <1>6, <2>3 DEF AfterNodeVisit
  <2> QED
    BY <1>7, <2>1, <2>2, <2>3 DEF AfterVisit
<1>8. CASE VisitEnds(r)
  <2>1. node[r] = "persist" /\ result[r] = "ok" /\ UNCHANGED <<visit, result>>
    BY <1>7, <1>8 DEF VisitEnds, Store!Release
  <2> QED
    BY <1>1, <2>1 DEF Control
<1>9. CASE StoreFails(r)
  BY <1>5, <1>7, <1>9 DEF StoreFails, Store!AbortVisit, Visiting
<1>10. CASE Cancel(r)
  <2>1. UNCHANGED stream
    BY <1>10 DEF Cancel
  <2>2. CASE CancelInStore(r)
    <3>1. pc[r] \in Visiting /\ node[r] # "closed"
      BY <1>1, <2>2 DEF CancelInStore, Store!AbortVisit, Store!AbortWait, Visiting, Control,
             Store!InStore
    <3> QED
      BY <1>4, <1>5, <1>6, <2>1, <2>2, <3>1 DEF CancelInStore
  <2>3. CASE CancelInAdapter(r)
    BY <1>2, <1>4, <1>6, <2>1, <2>3 DEF CancelInAdapter
  <2>4. CASE CancelElsewhere(r)
    BY <1>2, <1>4, <1>6, <2>1, <2>4 DEF CancelElsewhere
  <2> QED
    BY <1>10, <2>2, <2>3, <2>4 DEF Cancel
<1>11. CASE Finish(r)
  BY <1>11 DEF Finish, storeVars, DoneInv, EndsWell
<1>12. CASE Fail(r) \/ \E code \in {"TOPIC_NOT_FOUND", "BAD_REQUEST"} : Refuse(r, code)
  BY <1>3, <1>6, <1>12, OwnEvents DEF Fail, Refuse, Error, Ev, Adapter!Ev
<1>13. CASE InsertUserMessage(r) \/ StoreStep(r) \/ LoadHistory(r) \/ InsertAnswer(r)
  <2>1. node'[r] = node[r] /\ pc[r] \in Visiting
    BY <1>13 DEF InsertUserMessage, StoreStep, LoadHistory, InsertAnswer, chatVars,
         Store!Acquire, Store!SelectSession, Store!InsertSession, Store!ReselectSession,
         Store!SelectMaxSeq, Store!SessionRepository_touch, Store!ListRecent,
         Store!InsertMessage, Visiting, Store!InStore
  <2> QED
    BY <1>5, <2>1
<1>14. CASE \/ Accept(r) \/ EnterLoad(r) \/ \E passed \in BOOLEAN : Auth(r, passed)
            \/ Reject(r) \/ Enrich(r) \/ PluginRaises(r) \/ AdapterStep(r) \/ AdapterReturns(r)
            \/ \E route \in Routes \cup {DefaultRoute} : Intent(r, route)
  BY <1>2, <1>6, <1>14 DEF Accept, EnterLoad, Auth, AfterAuth, Reject, Enrich, PluginRaises,
         AdapterStep, AdapterReturns, Intent, chatVars
<1> QED
  BY <1>8, <1>9, <1>10, <1>11, <1>12, <1>13, <1>14 DEF Advance

\* No step makes a request end well that has not persisted its answer.
LEMMA DoneKept ==
    ASSUME FineInv, DoneInv, [Next]_vars
    PROVE  DoneInv'
<1>1. CASE UNCHANGED vars
  BY <1>1 DEF vars, chatVars, storeVars, DoneInv, EndsWell
<1>2. ASSUME NEW r \in Requests, Advance(r) \/ StoreFails(r) \/ Cancel(r) PROVE DoneInv'
  <2> SUFFICES ASSUME NEW q \in Requests, EndsWell(q)'
               PROVE  visit'[q] = "persist" /\ result'[q] = "ok"
    BY DEF DoneInv
  <2>1. CASE q = r
    BY <1>2, <2>1, EndsWellAfterPersist
  <2>2. CASE q # r
    BY <1>2, <2>2, OthersAsBefore DEF EndsWell, DoneInv
  <2> QED
    BY <2>1, <2>2
<1> QED
  BY <1>1, <1>2 DEF Next

----------------------------------------------------------------------------
(* Answers and histories.                                                  *)

\* At first nothing is streamed and no history loaded.
LEMMA TrackInit == Init => TrackInv /\ HistoryInv /\ QueueInv /\ DoneInv
<1> SUFFICES ASSUME Init PROVE TrackInv /\ HistoryInv /\ QueueInv /\ DoneInv
  OBVIOUS
<1>1. /\ phase = [r \in Requests |-> "idle"] /\ ending = [r \in Requests |-> "none"]
      /\ chunks = [r \in Requests |-> <<>>] /\ stream = [r \in Requests |-> <<>>]
  BY DEF Init, Adapter!Init
<1>2. ASSUME NEW r \in Requests PROVE Tracks(r)
  <2>1. /\ stream[r] = <<>> /\ chunks[r] = <<>> /\ ending[r] = "none"
        /\ Adapter!DeltasOf(stream[r]) = <<>>
    BY <1>1, NoDeltasYet
  <2>2. Adapter!DeltasOf(stream[r]) \in Seq(Nat)
    <3>1. \A d : d = <<>> => d \in Seq(Nat)
      OBVIOUS
    <3> QED
      BY <2>1, <3>1
  <2> QED
    BY <2>1, <2>2 DEF Tracks, Adapter!Endings
<1>3. HistoryInv /\ ending \in [Requests -> Adapter!Endings]
  BY <1>1, MaxTurnsPositive DEF Init, HistoryInv, Given, Adapter!Endings
<1>4. QueueInv
  <2>1. AnswerLen * MaxAttempts \in Nat
    BY AnswerLenNat, MaxAttemptsPositive
  <2> QED
    BY <1>1, <2>1 DEF Init, QueueInv
<1>5. DoneInv
  BY DEF Init, DoneInv, EndsWell
<1> QED
  BY <1>2, <1>3, <1>4, <1>5 DEF TrackInv

\* All of the invariants together.
AllInv == ChatInv /\ StoreFacts /\ TrackInv /\ HistoryInv /\ QueueInv /\ DoneInv

\* They hold in every reachable state.
THEOREM AllInvariant == Spec => []AllInv
<1>1. ChatInv /\ TrackInv /\ [Next]_vars => TrackInv'
  BY TracksKept DEF ChatInv
<1>2. ChatInv /\ StoreFacts /\ HistoryInv /\ [Next]_vars => HistoryInv'
  BY HistoryKept DEF ChatInv
<1>3. ChatInv /\ TrackInv /\ QueueInv /\ DoneInv /\ [Next]_vars => QueueInv' /\ DoneInv'
  BY QueueKept, DoneKept DEF ChatInv
<1> QED
  BY <1>1, <1>2, <1>3, TrackInit, ChatInvariant, StoreIsSound, PTL DEF Spec, AllInv

\* Types: of the tables, of where each request is and of what it has collected;
\* and a history has no more than max_turns turns.
THEOREM TypeCorrect == Spec => []TypeOK
<1>1. ASSUME AllInv PROVE TypeOK
  <2>1. Domains /\ FineInv /\ Store!TypeOK /\ HistoryInv
    BY <1>1 DEF AllInv, ChatInv, FineInv, StoreFacts
  <2>2. ASSUME NEW r \in Requests
        PROVE  /\ attempt[r] \in 0 .. MaxAttempts /\ pos[r] \in 0 .. AnswerLen
               /\ chunks[r] \in Answers /\ ending[r] \in Adapter!Endings
    <3>1. Collected(r) /\ Tracks(r)
      BY <1>1 DEF AllInv, ChatInv, FineInv, Fine, TrackInv
    <3>2. chunks[r] \in Answers
      BY <2>1, ChunksAreAnswers
    <3> QED
      BY <3>1, <3>2, AnswerLenNat, MaxAttemptsPositive DEF Collected, Tracks
  <2>3. /\ attempt \in [Requests -> 0 .. MaxAttempts] /\ pos \in [Requests -> 0 .. AnswerLen]
        /\ chunks \in [Requests -> Answers] /\ ending \in [Requests -> Adapter!Endings]
    <3>1. /\ attempt = [r \in Requests |-> attempt[r]] /\ pos = [r \in Requests |-> pos[r]]
          /\ chunks = [r \in Requests |-> chunks[r]]
      BY <2>1 DEF Domains
    <3>2. ending \in [Requests -> Adapter!Endings]
      BY <1>1 DEF AllInv, TrackInv
    <3> QED
      BY <2>2, <3>1, <3>2
  <2>4. unread \in [Requests -> 0 .. AnswerLen * MaxAttempts + 1]
    BY <1>1 DEF AllInv, QueueInv
  <2> QED
    BY <2>1, <2>3, <2>4 DEF TypeOK, Domains, HistoryInv, Given
<1> QED
  BY <1>1, AllInvariant, PTL

\* A stored answer is what its request has collected.
LEMMA AnswerIsCollected ==
    ASSUME AllInv, NEW r \in Requests, NEW m \in AnswerRows(r)
    PROVE  m.body.chunks = chunks[r]
<1>1. ask[r].thread \in Threads /\ AnswersTold
  BY DEF AllInv, ChatInv, AnswersTold
<1>2. PICK n \in DOMAIN messages[ask[r].thread] : m = messages[ask[r].thread][n]
  BY DEF AnswerRows, Range
<1>3. m.req = r /\ m.role = "assistant"
  BY DEF AnswerRows
<1> QED
  BY <1>1, <1>2, <1>3 DEF AnswersTold

\* The answer that is stored is the one the consumer was shown, for any number of attempts
\* and any length of answers; for a request that was cancelled, wherever it was and however
\* far behind its consumer was, all that was shown is stored, and no more is stored than the
\* agent's answer so far.
THEOREM AnswersAreStreamed == Spec => []StoredIsStreamed
<1>1. ASSUME AllInv, NEW r \in Requests, NEW m \in AnswerRows(r)
      PROVE  /\ IsPrefix(Shown(r), m.body.chunks)
             /\ r \notin cancelled => m.body.chunks = Shown(r)
             /\ Len(m.body.chunks) <=
                   Len(Pieces(r)) + (IF ending[r] = "cancelled" THEN 1 ELSE 0)
  <2> DEFINE d == Adapter!DeltasOf(stream[r])
             k == Len(d) - unread[r]
  <2>1. m.body.chunks = chunks[r]
    BY <1>1, AnswerIsCollected
  <2>2. /\ d \in Seq(Nat)
        /\ \/ d = chunks[r]
           \/ ending[r] = "cancelled" /\ \E p \in Nat : chunks[r] = Append(d, p)
    BY <1>1 DEF AllInv, TrackInv, Tracks
  <2>3. /\ unread[r] \in Nat
        /\ r \notin cancelled => unread[r] = 0 /\ ending[r] # "cancelled"
    BY <1>1 DEF AllInv, QueueInv
  <2>4. Pieces(r) = d /\ Shown(r) = SubSeq(d, 1, k)
    BY DEF Pieces, Shown
  <2> HIDE DEF d
  <2>5. Len(d) \in Nat /\ k \in Int /\ k <= Len(d)
    BY <2>2, <2>3
  <2>6. r \notin cancelled => chunks[r] = SubSeq(d, 1, k)
    <3>1. SubSeq(d, 1, Len(d)) = d
      BY <2>2
    <3> QED
      BY <2>2, <2>3, <2>5, <3>1
  <2> HIDE DEF k
  <2>7. ASSUME NEW c \in Seq(Nat), c = d \/ \E p \in Nat : c = Append(d, p)
        PROVE  IsPrefix(SubSeq(d, 1, k), c)
    <3>1. /\ Len(c) \in Nat /\ Len(d) <= Len(c)
          /\ \A i \in 1 .. Len(d) : c[i] = d[i]
      <4>1. CASE c = d
        BY <2>2, <4>1
      <4>2. ASSUME NEW p \in Nat, c = Append(d, p)
            PROVE  /\ Len(c) \in Nat /\ Len(d) <= Len(c)
                   /\ \A i \in 1 .. Len(d) : c[i] = d[i]
        BY <2>2, <2>5, <4>2
      <4> QED
        BY <2>7, <4>1, <4>2
    <3>2. CASE k <= 0
      <4>1. SubSeq(d, 1, k) = <<>> /\ SubSeq(c, 1, 0) = <<>>
        BY <2>2, <2>5, <2>7, <3>2
      <4> DEFINE none == SubSeq(d, 1, k)
      <4>2. none = <<>>
        BY <4>1
      <4> HIDE DEF none
      <4>3. Len(none) = 0 /\ SubSeq(none, 1, 0) = <<>>
        BY <4>2
      <4>4. IsPrefix(none, c)
        BY <3>1, <4>1, <4>3 DEF IsPrefix
      <4> QED
        BY <4>4 DEF none
    <3>3. CASE k > 0
      <4> DEFINE s == SubSeq(d, 1, k)
      <4>1. s \in Seq(Nat) /\ Len(s) = k /\ \A i \in 1 .. k : s[i] = d[i]
        BY <2>2, <2>5, <3>3
      <4>2. /\ SubSeq(c, 1, k) \in Seq(Nat) /\ Len(SubSeq(c, 1, k)) = k
            /\ \A i \in 1 .. k : SubSeq(c, 1, k)[i] = c[i]
        BY <2>5, <2>7, <3>1, <3>3
      <4> HIDE DEF s
      <4>3. SubSeq(s, 1, k) = s
        BY <4>1, <3>3
      <4>4. SubSeq(c, 1, k) = s
        BY <2>5, <3>1, <3>3, <4>1, <4>2, SeqEqual
      <4> QED
        BY <2>5, <3>1, <4>1, <4>3, <4>4 DEF IsPrefix, s
    <3> QED
      BY <2>5, <3>2, <3>3
  <2>8. chunks[r] \in Seq(Nat)
    BY <1>1 DEF AllInv, ChatInv, FineInv, Domains
  <2>9. Len(chunks[r]) <= Len(d) + (IF ending[r] = "cancelled" THEN 1 ELSE 0)
    <3>1. \A p \in Nat : Len(Append(d, p)) = Len(d) + 1
      BY <2>2
    <3> QED
      BY <2>2, <2>5, <3>1
  <2> QED
    BY <2>1, <2>2, <2>4, <2>6, <2>7, <2>8, <2>9
<1>2. AllInv => StoredIsStreamed
  BY <1>1 DEF StoredIsStreamed
<1> QED
  BY <1>2, AllInvariant, PTL

\* Whatever fails and wherever: a stream that ends with done and without an error is the
\* stream of an answer that is stored, with every piece of it.
THEOREM DoneMeansStored == Spec => []DoneIsStored
<1>1. ASSUME AllInv, NEW r \in Requests \ cancelled, node[r] = "closed",
             Done("complete") \in Range(stream[r]), Positions(r, "error") = {}
      PROVE  \E m \in AnswerRows(r) : m.body.chunks = Pieces(r)
  <2>1. EndsWell(r)
    <3>1. Without(stream[r], "error")
      BY <1>1 DEF Positions, Without
    <3>2. PICK i \in DOMAIN stream[r] : stream[r][i] = Done("complete")
      BY <1>1 DEF Range
    <3>3. stream[r][i].type = "done"
      BY <3>2 DEF Done, Ev, Adapter!Ev
    <3> QED
      BY <1>1, <3>1, <3>2, <3>3 DEF EndsWell, Without
  <2>2. Store!HasRow(r, "assistant")
    BY <1>1, <2>1 DEF AllInv, DoneInv, StoreFacts, Store!AcknowledgedStored
  <2>3. PICK n \in DOMAIN messages[ask[r].thread] :
              messages[ask[r].thread][n].req = r /\ messages[ask[r].thread][n].role = "assistant"
    BY <2>2 DEF Store!HasRow, Store!Thread
  <2> DEFINE m == messages[ask[r].thread][n]
  <2>4. m \in AnswerRows(r)
    <3>1. m \in Range(messages[ask[r].thread])
      BY DEF Range
    <3> QED
      BY <2>3, <3>1 DEF AnswerRows
  <2> HIDE DEF m
  <2>5. m.body.chunks = chunks[r]
    BY <1>1, <2>4, AnswerIsCollected
  <2>6. chunks[r] = Pieces(r)
    BY <1>1 DEF AllInv, TrackInv, Tracks, QueueInv, Pieces
  <2> QED
    BY <2>4, <2>5, <2>6
<1>2. AllInv => DoneIsStored
  BY <1>1 DEF DoneIsStored
<1> QED
  BY <1>2, AllInvariant, PTL

\* Every turn given to the model is a question and the answer next to it, both stored
\* complete in the thread of the request, and not an answer a cancellation has cut, whatever
\* the other requests of the thread do.
THEOREM HistoriesAreComplete == Spec => []HistoryIsComplete
<1>1. ASSUME AllInv, NEW r \in Requests, NEW i \in DOMAIN history[r]
      PROVE  LET rows == messages[ask[r].thread]
                 turn == history[r][i]
             IN  /\ \E j \in 1 .. Len(rows) - 1 :
                       /\ StoredAs(rows[j], "user", turn[1])
                       /\ StoredAs(rows[j + 1], "assistant", turn[2])
                 /\ ending[turn[2]] # "cancelled"
  <2> DEFINE t == ask[r].thread
             rows == messages[t]
             turn == history[r][i]
  <2>1. Complete(r, turn)
    BY <1>1 DEF AllInv, HistoryInv, Given
  <2>2. PICK j \in Nat : /\ j \in DOMAIN rows /\ j + 1 \in DOMAIN rows
                         /\ StoredAs(rows[j], "user", turn[1])
                         /\ StoredAs(rows[j + 1], "assistant", turn[2])
    BY <2>1 DEF Complete
  <2>3. t \in Threads /\ rows \in Seq(Store!Message)
    BY <1>1 DEF AllInv, StoreFacts, Store!TypeOK
  <2>4. j \in 1 .. Len(rows) - 1
    BY <2>2, <2>3
  <2>5. ending[turn[2]] # "cancelled"
    BY <1>1, <2>2, <2>3 DEF AllInv, ChatInv, AnswersTold, StoredAs
  <2> QED
    BY <2>2, <2>4, <2>5
<1>2. AllInv => HistoryIsComplete
  BY <1>1 DEF HistoryIsComplete, StoredAs
<1> QED
  BY <1>2, AllInvariant, PTL
=============================================================================
