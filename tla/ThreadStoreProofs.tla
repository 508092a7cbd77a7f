------------------------- MODULE ThreadStoreProofs -------------------------
(***************************************************************************)
(* Proofs about ThreadStore, for any set of requests, threads, topics and  *)
(* bodies and any pool size.                                               *)
(***************************************************************************)
EXTENDS ThreadStore, FiniteSetTheorems, TLAPS

----------------------------------------------------------------------------
(* Lemmas about the operators.                                             *)

\* When the rows of a thread are a log, MAX(seq) is its length.
LEMMA MaxSeqIsLen ==
    ASSUME NEW t \in Threads, messages[t] \in Seq(Message)
    PROVE  MaxSeqOf(t) = Len(messages[t])
<1> DEFINE S == {0} \cup DOMAIN messages[t]
           n == Len(messages[t])
<1>1. n \in Nat /\ DOMAIN messages[t] = 1 .. n
  OBVIOUS
<1>2. S = 0 .. n
  BY <1>1
<1>3. n \in S /\ \A y \in S : n >= y
  BY <1>1, <1>2
<1>4. \A x \in S : (\A y \in S : x >= y) => x = n
  BY <1>1, <1>2, <1>3
<1>5. Max(S) = n
  BY <1>3, <1>4 DEF Max
<1> QED
  BY <1>5 DEF MaxSeqOf

\* A number that was read when the log was no longer than now, and is still
\* free, is the next number of the log; the row is then an append.
LEMMA FreeSeqAppends ==
    ASSUME NEW t \in Threads, messages[t] \in Seq(Message),
           NEW k \in Nat, k <= Len(messages[t]),
           k + 1 \notin DOMAIN messages[t],
           NEW m \in Message
    PROVE  /\ k = Len(messages[t])
           /\ WithRow(t, k + 1, m) = Append(messages[t], m)
<1> DEFINE s == messages[t]
           n == Len(messages[t])
<1>1. n \in Nat /\ DOMAIN s = 1 .. n
  OBVIOUS
<1>2. k = n
  BY <1>1
<1>3. DOMAIN s \cup {n + 1} = 1 .. n + 1
  BY <1>1
<1>4. Append(s, m) = [i \in 1 .. n + 1 |-> IF i = n + 1 THEN m ELSE s[i]]
  BY <1>1
<1> QED
  BY <1>2, <1>3, <1>4 DEF WithRow

----------------------------------------------------------------------------
(* Each action preserves the inductive invariant.                          *)

USE DEF Thread, Topic, Goto, EndVisit, InStore

\* A request that calls acquire() has written nothing for this visit yet.
LEMMA EnterKeeps ==
    ASSUME IInv, NEW r \in Requests, Enter(r)
    PROVE  IInv'
<1>1. TypeOK'
  BY DEF IInv, TypeOK, Enter, tables, NextVisit, Visits, Places, Results
<1>2. ControlOK'
  BY DEF IInv, TypeOK, ControlOK, Enter, NextVisit, Visits
<1>3. PoolSound'
  BY DEF IInv, TypeOK, PoolSound, Enter
<1>4. RowsAreLog' /\ QuestionBeforeAnswer'
  BY DEF IInv, RowsAreLog, QuestionBeforeAnswer, Enter, tables
<1>5. ReadOK'
  BY DEF IInv, TypeOK, ReadOK, Enter, tables
<1>6. BoundFirst'
  BY DEF IInv, TypeOK, ControlOK, BoundFirst, Enter, tables, NextVisit, Visits
<1>7. RowsMatchControl'
  BY DEF IInv, TypeOK, ControlOK, RowsMatchControl, RowMatchesControl, Enter, tables, NextVisit, Visits, Message
<1>8. AcknowledgedStored'
  BY DEF IInv, TypeOK, ControlOK, AcknowledgedStored, HasRow, Enter, tables, NextVisit, Visits
<1>9. AnswerBeforeTouch'
  BY DEF IInv, TypeOK, AnswerBeforeTouch, HasRow, Enter, tables
<1> QED
  BY <1>1, <1>2, <1>3, <1>4, <1>5, <1>6, <1>7, <1>8, <1>9 DEF IInv

\* A connection is handed out only when one is free.
LEMMA AcquireKeeps ==
    ASSUME IInv, NEW r \in Requests, Acquire(r)
    PROVE  IInv'
<1>1. TypeOK'
  BY DEF IInv, TypeOK, Acquire, tables, Places, Results
<1>2. ControlOK'
  BY DEF IInv, TypeOK, ControlOK, Acquire, Visits
<1>3. PoolSound'
  <2>1. IsFiniteSet(conns) /\ r \notin conns
    BY RequestsFinite, FS_Subset DEF IInv, TypeOK, PoolSound, Acquire
  <2>2. Cardinality(conns \cup {r}) = Cardinality(conns) + 1
    BY <2>1, FS_AddElement
  <2>3. Cardinality(conns) \in Nat /\ PoolMax \in Nat
    BY <2>1, FS_CardinalityType, PoolMaxPositive
  <2>4. Cardinality(conns') <= PoolMax
    BY <2>2, <2>3 DEF Acquire
  <2> QED
    BY <2>4 DEF IInv, TypeOK, PoolSound, Acquire
<1>4. RowsAreLog' /\ QuestionBeforeAnswer'
  BY DEF IInv, RowsAreLog, QuestionBeforeAnswer, Acquire, tables
<1>5. ReadOK'
  BY DEF IInv, TypeOK, ReadOK, Acquire, tables
<1>6. BoundFirst'
  BY DEF IInv, TypeOK, ControlOK, BoundFirst, Acquire, tables
<1>7. RowsMatchControl'
  BY DEF IInv, TypeOK, ControlOK, RowsMatchControl, RowMatchesControl, Acquire, tables, Message
<1>8. AcknowledgedStored'
  BY DEF IInv, TypeOK, ControlOK, AcknowledgedStored, HasRow, Acquire, tables
<1>9. AnswerBeforeTouch'
  BY DEF IInv, TypeOK, AnswerBeforeTouch, HasRow, Acquire, tables
<1> QED
  BY <1>1, <1>2, <1>3, <1>4, <1>5, <1>6, <1>7, <1>8, <1>9 DEF IInv

\* The connection is given back exactly once, at the end of a visit.
LEMMA ReleaseKeeps ==
    ASSUME IInv, NEW r \in Requests, Release(r)
    PROVE  IInv'
<1>1. TypeOK'
  BY DEF IInv, TypeOK, Release, tables, Places, Results
<1>2. ControlOK'
  BY DEF IInv, TypeOK, ControlOK, Release, Visits
<1>3. PoolSound'
  <2>1. IsFiniteSet(conns) /\ r \in conns
    BY RequestsFinite, FS_Subset DEF IInv, TypeOK, PoolSound, Release
  <2>2. Cardinality(conns \ {r}) = Cardinality(conns) - 1
    BY <2>1, FS_RemoveElement
  <2>3. Cardinality(conns) \in Nat /\ PoolMax \in Nat
    BY <2>1, FS_CardinalityType, PoolMaxPositive
  <2>4. Cardinality(conns') <= PoolMax
    BY <2>2, <2>3 DEF IInv, PoolSound, Release
  <2> QED
    BY <2>4 DEF IInv, TypeOK, PoolSound, Release
<1>4. RowsAreLog' /\ QuestionBeforeAnswer'
  BY DEF IInv, RowsAreLog, QuestionBeforeAnswer, Release, tables
<1>5. ReadOK'
  BY DEF IInv, TypeOK, ReadOK, Release, tables
<1>6. BoundFirst'
  BY DEF IInv, TypeOK, ControlOK, BoundFirst, Release, tables
<1>7. RowsMatchControl'
  BY DEF IInv, TypeOK, ControlOK, RowsMatchControl, RowMatchesControl, Release, tables, Message
<1>8. AcknowledgedStored'
  BY DEF IInv, TypeOK, ControlOK, AcknowledgedStored, HasRow, Release, tables
<1>9. AnswerBeforeTouch'
  BY DEF IInv, TypeOK, AnswerBeforeTouch, HasRow, Release, tables
<1> QED
  BY <1>1, <1>2, <1>3, <1>4, <1>5, <1>6, <1>7, <1>8, <1>9 DEF IInv

\* A visit goes on without an INSERT only where a session was found.
LEMMA SelectSessionKeeps ==
    ASSUME IInv, NEW r \in Requests, SelectSession(r)
    PROVE  IInv'
<1>1. TypeOK'
  BY DEF IInv, TypeOK, SelectSession, tables, Places, Results, AfterGetOrCreate
<1>2. ControlOK'
  BY DEF IInv, TypeOK, ControlOK, SelectSession, AfterGetOrCreate
<1>3. PoolSound'
  BY DEF IInv, TypeOK, PoolSound, SelectSession, tables, AfterGetOrCreate
<1>4. RowsAreLog' /\ QuestionBeforeAnswer'
  BY DEF IInv, RowsAreLog, QuestionBeforeAnswer, SelectSession, tables
<1>5. ReadOK'
  BY DEF IInv, TypeOK, ReadOK, SelectSession, tables, AfterGetOrCreate
<1>6. BoundFirst'
  BY NoTopicIsNone
  DEF IInv, TypeOK, ControlOK, BoundFirst, SelectSession, tables, AfterGetOrCreate
<1>7. RowsMatchControl'
  BY DEF IInv, TypeOK, ControlOK, RowsMatchControl, RowMatchesControl, SelectSession, tables, Message, AfterGetOrCreate
<1>8. AcknowledgedStored'
  BY DEF IInv, TypeOK, ControlOK, AcknowledgedStored, HasRow, SelectSession, tables, AfterGetOrCreate
<1>9. AnswerBeforeTouch'
  BY DEF IInv, TypeOK, AnswerBeforeTouch, HasRow, SelectSession, tables, AfterGetOrCreate
<1> QED
  BY <1>1, <1>2, <1>3, <1>4, <1>5, <1>6, <1>7, <1>8, <1>9 DEF IInv

\* After the INSERT the thread is bound, by this request or another.
LEMMA InsertSessionKeeps ==
    ASSUME IInv, NEW r \in Requests, InsertSession(r)
    PROVE  IInv'
<1>1. TypeOK'
  BY DEF IInv, TypeOK, InsertSession, tables, Places, Results
<1>2. ControlOK'
  BY DEF IInv, TypeOK, ControlOK, InsertSession
<1>3. PoolSound'
  BY DEF IInv, TypeOK, PoolSound, InsertSession, tables
<1>4. RowsAreLog' /\ QuestionBeforeAnswer'
  BY DEF IInv, RowsAreLog, QuestionBeforeAnswer, InsertSession, tables
<1>5. ReadOK'
  BY DEF IInv, TypeOK, ReadOK, InsertSession, tables
<1>6. BoundFirst'
  BY NoTopicIsNone DEF IInv, TypeOK, ControlOK, BoundFirst, InsertSession
<1>7. RowsMatchControl'
  BY DEF IInv, TypeOK, ControlOK, RowsMatchControl, RowMatchesControl, InsertSession, tables, Message
<1>8. AcknowledgedStored'
  BY DEF IInv, TypeOK, ControlOK, AcknowledgedStored, HasRow, InsertSession, tables
<1>9. AnswerBeforeTouch'
  BY DEF IInv, TypeOK, AnswerBeforeTouch, HasRow, InsertSession, tables
<1> QED
  BY <1>1, <1>2, <1>3, <1>4, <1>5, <1>6, <1>7, <1>8, <1>9 DEF IInv

\* The second SELECT changes no table.
LEMMA ReselectSessionKeeps ==
    ASSUME IInv, NEW r \in Requests, ReselectSession(r)
    PROVE  IInv'
<1>1. TypeOK'
  BY DEF IInv, TypeOK, ReselectSession, tables, Places, Results, AfterGetOrCreate
<1>2. ControlOK'
  BY DEF IInv, TypeOK, ControlOK, ReselectSession, AfterGetOrCreate
<1>3. PoolSound'
  BY DEF IInv, TypeOK, PoolSound, ReselectSession, tables, AfterGetOrCreate
<1>4. RowsAreLog' /\ QuestionBeforeAnswer'
  BY DEF IInv, RowsAreLog, QuestionBeforeAnswer, ReselectSession, tables
<1>5. ReadOK'
  BY DEF IInv, TypeOK, ReadOK, ReselectSession, tables, AfterGetOrCreate
<1>6. BoundFirst'
  BY DEF IInv, TypeOK, ControlOK, BoundFirst, ReselectSession, tables, AfterGetOrCreate
<1>7. RowsMatchControl'
  BY DEF IInv, TypeOK, ControlOK, RowsMatchControl, RowMatchesControl, ReselectSession, tables, Message, AfterGetOrCreate
<1>8. AcknowledgedStored'
  BY DEF IInv, TypeOK, ControlOK, AcknowledgedStored, HasRow, ReselectSession, tables, AfterGetOrCreate
<1>9. AnswerBeforeTouch'
  BY DEF IInv, TypeOK, AnswerBeforeTouch, HasRow, ReselectSession, tables, AfterGetOrCreate
<1> QED
  BY <1>1, <1>2, <1>3, <1>4, <1>5, <1>6, <1>7, <1>8, <1>9 DEF IInv

\* A persist visit that ends well has stored its answer before.
LEMMA TouchKeeps ==
    ASSUME IInv, NEW r \in Requests, SessionRepository_touch(r)
    PROVE  IInv'
<1>1. TypeOK'
  BY DEF IInv, TypeOK, SessionRepository_touch, tables, Places, Results
<1>2. ControlOK'
  BY DEF IInv, TypeOK, ControlOK, SessionRepository_touch
<1>3. PoolSound'
  BY DEF IInv, TypeOK, PoolSound, SessionRepository_touch, tables
<1>4. RowsAreLog' /\ QuestionBeforeAnswer'
  BY DEF IInv, RowsAreLog, QuestionBeforeAnswer, SessionRepository_touch, tables
<1>5. ReadOK'
  BY DEF IInv, TypeOK, ReadOK, SessionRepository_touch, tables
<1>6. BoundFirst'
  BY DEF IInv, TypeOK, ControlOK, BoundFirst, SessionRepository_touch, tables
<1>7. RowsMatchControl'
  BY DEF IInv, TypeOK, ControlOK, RowsMatchControl, RowMatchesControl, SessionRepository_touch, tables, Message
<1>8. AcknowledgedStored'
  BY DEF IInv, TypeOK, ControlOK, AcknowledgedStored, AnswerBeforeTouch, HasRow,
         SessionRepository_touch
<1>9. AnswerBeforeTouch'
  BY DEF IInv, TypeOK, AnswerBeforeTouch, HasRow, SessionRepository_touch, tables
<1> QED
  BY <1>1, <1>2, <1>3, <1>4, <1>5, <1>6, <1>7, <1>8, <1>9 DEF IInv

\* Reading the history changes no table.
LEMMA ListRecentKeeps ==
    ASSUME IInv, NEW r \in Requests, ListRecent(r)
    PROVE  IInv'
<1>1. TypeOK'
  BY DEF IInv, TypeOK, ListRecent, tables, Places, Results
<1>2. ControlOK'
  BY DEF IInv, TypeOK, ControlOK, ListRecent
<1>3. PoolSound'
  BY DEF IInv, TypeOK, PoolSound, ListRecent, tables
<1>4. RowsAreLog' /\ QuestionBeforeAnswer'
  BY DEF IInv, RowsAreLog, QuestionBeforeAnswer, ListRecent, tables
<1>5. ReadOK'
  BY DEF IInv, TypeOK, ReadOK, ListRecent, tables
<1>6. BoundFirst'
  BY DEF IInv, TypeOK, ControlOK, BoundFirst, ListRecent, tables
<1>7. RowsMatchControl'
  BY DEF IInv, TypeOK, ControlOK, RowsMatchControl, RowMatchesControl, ListRecent, tables, Message
<1>8. AcknowledgedStored'
  BY DEF IInv, TypeOK, ControlOK, AcknowledgedStored, HasRow, ListRecent, tables
<1>9. AnswerBeforeTouch'
  BY DEF IInv, TypeOK, AnswerBeforeTouch, HasRow, ListRecent, tables
<1> QED
  BY <1>1, <1>2, <1>3, <1>4, <1>5, <1>6, <1>7, <1>8, <1>9 DEF IInv

\* The number read is the length of the log at that moment.
LEMMA SelectMaxSeqKeeps ==
    ASSUME IInv, NEW r \in Requests, SelectMaxSeq(r)
    PROVE  IInv'
<1>0. MaxSeqOf(Thread(r)) = Len(messages[Thread(r)])
  BY MaxSeqIsLen DEF IInv, TypeOK, RowsAreLog
<1>1. TypeOK'
  <2>1. Len(messages[Thread(r)]) \in Nat
    BY DEF IInv, TypeOK, RowsAreLog
  <2> QED
    BY <1>0, <2>1 DEF IInv, TypeOK, SelectMaxSeq, tables, Places
<1>2. ControlOK'
  BY DEF IInv, TypeOK, ControlOK, SelectMaxSeq
<1>3. PoolSound'
  BY DEF IInv, TypeOK, PoolSound, SelectMaxSeq, tables
<1>4. RowsAreLog' /\ QuestionBeforeAnswer'
  BY DEF IInv, RowsAreLog, QuestionBeforeAnswer, SelectMaxSeq, tables
<1>5. ReadOK'
  <2>1. Len(messages[Thread(r)]) \in Nat
    BY DEF IInv, TypeOK, RowsAreLog
  <2> QED
    BY <1>0, <2>1 DEF IInv, TypeOK, ReadOK, SelectMaxSeq, tables
<1>6. BoundFirst'
  BY DEF IInv, TypeOK, ControlOK, BoundFirst, SelectMaxSeq, tables
<1>7. RowsMatchControl'
  BY DEF IInv, TypeOK, ControlOK, RowsMatchControl, RowMatchesControl, SelectMaxSeq, tables, Message
<1>8. AcknowledgedStored'
  BY DEF IInv, TypeOK, ControlOK, AcknowledgedStored, HasRow, SelectMaxSeq, tables
<1>9. AnswerBeforeTouch'
  BY DEF IInv, TypeOK, AnswerBeforeTouch, HasRow, SelectMaxSeq, tables
<1> QED
  BY <1>1, <1>2, <1>3, <1>4, <1>5, <1>6, <1>7, <1>8, <1>9 DEF IInv

\* A request that stops between two visits holds no connection.
LEMMA LeaveKeeps ==
    ASSUME IInv, NEW r \in Requests, Leave(r)
    PROVE  IInv'
<1>1. TypeOK'
  BY DEF IInv, TypeOK, Leave, tables, Places, Results
<1>2. ControlOK'
  BY DEF IInv, TypeOK, ControlOK, Leave
<1>3. PoolSound'
  BY DEF IInv, TypeOK, PoolSound, Leave, tables
<1>4. RowsAreLog' /\ QuestionBeforeAnswer'
  BY DEF IInv, RowsAreLog, QuestionBeforeAnswer, Leave, tables
<1>5. ReadOK'
  BY DEF IInv, TypeOK, ReadOK, Leave, tables
<1>6. BoundFirst'
  BY DEF IInv, TypeOK, ControlOK, BoundFirst, Leave, tables
<1>7. RowsMatchControl'
  BY DEF IInv, TypeOK, ControlOK, RowsMatchControl, RowMatchesControl, Leave, tables, Message
<1>8. AcknowledgedStored'
  BY DEF IInv, TypeOK, ControlOK, AcknowledgedStored, HasRow, Leave, tables
<1>9. AnswerBeforeTouch'
  BY DEF IInv, TypeOK, AnswerBeforeTouch, HasRow, Leave, tables
<1> QED
  BY <1>1, <1>2, <1>3, <1>4, <1>5, <1>6, <1>7, <1>8, <1>9 DEF IInv

\* A failed or cancelled statement keeps the connection for Release.
LEMMA AbortVisitKeeps ==
    ASSUME IInv, NEW r \in Requests, NEW why \in Failures, AbortVisit(r, why)
    PROVE  IInv'
<1>1. TypeOK'
  BY DEF IInv, TypeOK, AbortVisit, tables, Places, Results, Failures
<1>2. ControlOK'
  BY DEF IInv, TypeOK, ControlOK, AbortVisit, Failures
<1>3. PoolSound'
  BY DEF IInv, TypeOK, PoolSound, AbortVisit, tables, Failures
<1>4. RowsAreLog' /\ QuestionBeforeAnswer'
  BY DEF IInv, RowsAreLog, QuestionBeforeAnswer, AbortVisit, tables
<1>5. ReadOK'
  BY DEF IInv, TypeOK, ReadOK, AbortVisit, tables, Failures
<1>6. BoundFirst'
  BY DEF IInv, TypeOK, ControlOK, BoundFirst, AbortVisit, tables, Failures
<1>7. RowsMatchControl'
  BY DEF IInv, TypeOK, ControlOK, RowsMatchControl, RowMatchesControl, AbortVisit, tables, Message, Failures
<1>8. AcknowledgedStored'
  BY DEF IInv, TypeOK, ControlOK, AcknowledgedStored, HasRow, AbortVisit, tables, Failures
<1>9. AnswerBeforeTouch'
  BY DEF IInv, TypeOK, AnswerBeforeTouch, HasRow, AbortVisit, tables, Failures
<1> QED
  BY <1>1, <1>2, <1>3, <1>4, <1>5, <1>6, <1>7, <1>8, <1>9 DEF IInv

\* A request that stops while it waits holds no connection.
LEMMA AbortWaitKeeps ==
    ASSUME IInv, NEW r \in Requests, NEW why \in Failures, AbortWait(r, why)
    PROVE  IInv'
<1>1. TypeOK'
  BY DEF IInv, TypeOK, AbortWait, tables, Places, Results, Failures
<1>2. ControlOK'
  BY DEF IInv, TypeOK, ControlOK, AbortWait, Failures
<1>3. PoolSound'
  BY DEF IInv, TypeOK, PoolSound, AbortWait, tables, Failures
<1>4. RowsAreLog' /\ QuestionBeforeAnswer'
  BY DEF IInv, RowsAreLog, QuestionBeforeAnswer, AbortWait, tables
<1>5. ReadOK'
  BY DEF IInv, TypeOK, ReadOK, AbortWait, tables, Failures
<1>6. BoundFirst'
  BY DEF IInv, TypeOK, ControlOK, BoundFirst, AbortWait, tables, Failures
<1>7. RowsMatchControl'
  BY DEF IInv, TypeOK, ControlOK, RowsMatchControl, RowMatchesControl, AbortWait, tables, Message, Failures
<1>8. AcknowledgedStored'
  BY DEF IInv, TypeOK, ControlOK, AcknowledgedStored, HasRow, AbortWait, tables, Failures
<1>9. AnswerBeforeTouch'
  BY DEF IInv, TypeOK, AnswerBeforeTouch, HasRow, AbortWait, tables, Failures
<1> QED
  BY <1>1, <1>2, <1>3, <1>4, <1>5, <1>6, <1>7, <1>8, <1>9 DEF IInv

\* The seq is taken: UniqueViolationError, no row.
LEMMA InsertMessageRefusedKeeps ==
    ASSUME IInv, NEW r \in Requests, NEW body \in Bodies, InsertMessage(r, body),
           ~ SeqFree(Thread(r), NextSeq(r))
    PROVE  IInv'
<1>0. /\ pc[r] = "row"
      /\ pc' = [pc EXCEPT ![r] = "release"]
      /\ result' = [result EXCEPT ![r] = "duplicate"]
      /\ UNCHANGED <<ask, sessions, messages, touched, conns, visit, maxSeq>>
  BY DEF InsertMessage
<1>1. TypeOK'
  BY <1>0 DEF IInv, TypeOK, Places, Results
<1>2. ControlOK'
  BY <1>0 DEF IInv, TypeOK, ControlOK
<1>3. PoolSound'
  BY <1>0 DEF IInv, TypeOK, PoolSound
<1>4. RowsAreLog' /\ QuestionBeforeAnswer'
  BY <1>0 DEF IInv, RowsAreLog, QuestionBeforeAnswer
<1>5. ReadOK'
  BY <1>0 DEF IInv, TypeOK, ReadOK
<1>6. BoundFirst'
  BY <1>0 DEF IInv, TypeOK, ControlOK, BoundFirst
<1>7. RowsMatchControl'
  BY <1>0 DEF IInv, TypeOK, RowsMatchControl, RowMatchesControl, Message
<1>8. AcknowledgedStored'
  BY <1>0 DEF IInv, TypeOK, AcknowledgedStored, HasRow
<1>9. AnswerBeforeTouch'
  BY <1>0 DEF IInv, TypeOK, AnswerBeforeTouch, HasRow
<1> QED
  BY <1>1, <1>2, <1>3, <1>4, <1>5, <1>6, <1>7, <1>8, <1>9 DEF IInv

\* The seq is free: then it is the next one of the log, and the row an append.
LEMMA InsertMessageIsAppend ==
    ASSUME IInv, NEW r \in Requests, NEW body \in Bodies, InsertMessage(r, body),
           SeqFree(Thread(r), NextSeq(r))
    PROVE  LET t == Thread(r)
               m == [req |-> r, role |-> Role(r), body |-> body]
           IN  /\ t \in Threads
               /\ m \in Message
               /\ messages' = [messages EXCEPT ![t] = Append(messages[t], m)]
<1> DEFINE t == Thread(r)
           m == [req |-> r, role |-> Role(r), body |-> body]
<1>1. t \in Threads /\ m \in Message
  BY DEF IInv, TypeOK, Message, Role
<1>2. /\ messages[t] \in Seq(Message)
      /\ maxSeq[r] \in Nat
      /\ maxSeq[r] <= Len(messages[t])
      /\ maxSeq[r] + 1 \notin DOMAIN messages[t]
  BY <1>1 DEF IInv, TypeOK, RowsAreLog, ReadOK, InsertMessage, SeqFree, NextSeq
<1>3. WithRow(t, maxSeq[r] + 1, m) = Append(messages[t], m)
  BY <1>1, <1>2, FreeSeqAppends
<1>4. messages' = [messages EXCEPT ![t] = WithRow(t, maxSeq[r] + 1, m)]
  BY DEF InsertMessage, NextSeq
<1> QED
  BY <1>1, <1>3, <1>4

\* The row is stored: it is the visit's own and comes after its question.
LEMMA InsertMessageStoredKeeps ==
    ASSUME IInv, NEW r \in Requests, NEW body \in Bodies, InsertMessage(r, body),
           SeqFree(Thread(r), NextSeq(r))
    PROVE  IInv'
<1> DEFINE t == Thread(r)
           m == [req |-> r, role |-> Role(r), body |-> body]
           n == Len(messages[t])
<1>0. /\ pc[r] = "row" /\ visit[r] \in {"user", "persist"} /\ result[r] = "none"
      /\ pc' = [pc EXCEPT ![r] = IF visit[r] = "user" THEN "release" ELSE "touch"]
      /\ result' = [result EXCEPT ![r] = IF visit[r] = "user" THEN "ok" ELSE "none"]
      /\ UNCHANGED <<ask, sessions, touched, conns, visit, maxSeq>>
  BY DEF IInv, TypeOK, ControlOK, InsertMessage
<1>a. /\ t \in Threads /\ m \in Message
      /\ messages' = [messages EXCEPT ![t] = Append(messages[t], m)]
  BY InsertMessageIsAppend
<1>b. /\ messages \in [Threads -> Seq(Message)]
      /\ messages' \in [Threads -> Seq(Message)]
  BY <1>a DEF IInv, TypeOK, RowsAreLog
<1>c. /\ n \in Nat
      /\ DOMAIN messages[t] = 1 .. n
      /\ DOMAIN messages'[t] = 1 .. n + 1
      /\ messages'[t][n + 1] = m
      /\ \A i \in 1 .. n : messages'[t][i] = messages[t][i]
      /\ \A u \in Threads \ {t} : messages'[u] = messages[u]
  BY <1>a, <1>b
<1>d. \A u \in Threads : \A i \in DOMAIN messages[u] :
         i \in DOMAIN messages'[u] /\ messages'[u][i] = messages[u][i]
  <2> TAKE u \in Threads
  <2>1. CASE u = t
    BY <2>1, <1>c
  <2>2. CASE u # t
    BY <2>2, <1>c
  <2> QED
    BY <2>1, <2>2
<1>e. \A u \in Threads : \A i \in DOMAIN messages'[u] :
         ~ (u = t /\ i = n + 1) =>
            i \in DOMAIN messages[u] /\ messages'[u][i] = messages[u][i]
  <2> TAKE u \in Threads
  <2>1. CASE u = t
    BY <2>1, <1>c
  <2>2. CASE u # t
    BY <2>2, <1>c
  <2> QED
    BY <2>1, <2>2
<1>f. \A q \in Requests, role \in {"user", "assistant"} :
         HasRow(q, role) => HasRow(q, role)'
  <2> SUFFICES ASSUME NEW q \in Requests, NEW role \in {"user", "assistant"},
                      HasRow(q, role)
               PROVE  HasRow(q, role)'
    OBVIOUS
  <2>1. Thread(q) \in Threads /\ Thread(q)' = Thread(q)
    BY <1>0 DEF IInv, TypeOK
  <2>2. PICK i \in DOMAIN messages[Thread(q)] :
           messages[Thread(q)][i].req = q /\ messages[Thread(q)][i].role = role
    BY DEF HasRow
  <2>3. i \in DOMAIN messages'[Thread(q)] /\ messages'[Thread(q)][i] = messages[Thread(q)][i]
    BY <2>1, <1>d
  <2> QED
    BY <2>1, <2>2, <2>3 DEF HasRow
<1>g. HasRow(r, Role(r))'
  <2>1. t' = t /\ Role(r)' = Role(r)
    BY <1>0 DEF Role
  <2>2. n + 1 \in DOMAIN messages'[t] /\ messages'[t][n + 1].req = r
        /\ messages'[t][n + 1].role = Role(r)
    BY <1>c
  <2> QED
    BY <2>1, <2>2 DEF HasRow
<1>1. TypeOK'
  <2>1. \A u \in Threads :
           /\ DOMAIN messages'[u] \subseteq Nat \ {0}
           /\ IsFiniteSet(DOMAIN messages'[u])
           /\ \A i \in DOMAIN messages'[u] : messages'[u][i] \in Message
    <3> SUFFICES ASSUME NEW u \in Threads
                 PROVE  /\ DOMAIN messages'[u] \subseteq Nat \ {0}
                        /\ IsFiniteSet(DOMAIN messages'[u])
                        /\ \A i \in DOMAIN messages'[u] : messages'[u][i] \in Message
      OBVIOUS
    <3>1. messages'[u] \in Seq(Message)
      BY <1>b
    <3>2. DOMAIN messages'[u] = 1 .. Len(messages'[u]) /\ Len(messages'[u]) \in Nat
      BY <3>1
    <3>3. IsFiniteSet(1 .. Len(messages'[u]))
      BY <3>2, FS_Interval
    <3> QED
      BY <3>1, <3>2, <3>3
  <2>2. DOMAIN messages' = Threads
    BY <1>b
  <2> QED
    BY <1>0, <2>1, <2>2 DEF IInv, TypeOK, Places, Results
<1>2. ControlOK'
  BY <1>0 DEF IInv, TypeOK, ControlOK
<1>3. PoolSound'
  BY <1>0 DEF IInv, TypeOK, PoolSound
<1>4. RowsAreLog'
  BY <1>b DEF RowsAreLog
<1>5. ReadOK'
  BY <1>0, <1>c DEF IInv, TypeOK, ReadOK
<1>6. BoundFirst'
  BY <1>0 DEF IInv, TypeOK, ControlOK, BoundFirst
<1>7. RowsMatchControl'
  <2> SUFFICES ASSUME NEW u \in Threads, NEW i \in DOMAIN messages'[u]
               PROVE  RowMatchesControl(u, messages[u][i])'
    BY DEF RowsMatchControl
  <2>1. CASE u = t /\ i = n + 1
    <3>1. messages'[u][i].req = r /\ messages'[u][i].role = Role(r) /\ u = t
      BY <2>1, <1>c
    <3>2. ask' = ask /\ visit' = visit
      BY <1>0
    <3>3. Role(r) = "user" => visit[r] = "user" /\ pc'[r] = "release"
      BY <1>0 DEF IInv, TypeOK, Role
    <3>4. Role(r) = "assistant" => visit[r] = "persist" /\ pc'[r] = "touch"
      BY <1>0 DEF IInv, TypeOK, Role
    <3> QED
      BY <3>1, <3>2, <3>3, <3>4, <1>0 DEF RowMatchesControl
  <2>2. CASE ~ (u = t /\ i = n + 1)
    <3>1. i \in DOMAIN messages[u] /\ messages'[u][i] = messages[u][i]
      BY <2>2, <1>e
    <3>2. messages[u][i] \in Message /\ messages[u][i].req \in Requests
      BY <3>1 DEF IInv, TypeOK, Message
    <3>3. RowMatchesControl(u, messages[u][i])
      BY <3>1 DEF IInv, RowsMatchControl
    <3> QED
      BY <3>1, <3>2, <3>3, <1>0 DEF IInv, TypeOK, RowMatchesControl
  <2> QED
    BY <2>1, <2>2
<1>8. AcknowledgedStored'
  BY <1>f, <1>g, <1>0 DEF IInv, TypeOK, AcknowledgedStored, Role
<1>9. AnswerBeforeTouch'
  BY <1>f, <1>g, <1>0 DEF IInv, TypeOK, AnswerBeforeTouch, Role
<1>10. QuestionBeforeAnswer'
  <2> SUFFICES ASSUME NEW u \in Threads, NEW j \in DOMAIN messages'[u],
                      messages'[u][j].role = "assistant"
               PROVE  \E i \in DOMAIN messages'[u] :
                         /\ i < j
                         /\ messages'[u][i].role = "user"
                         /\ messages'[u][i].req = messages'[u][j].req
    BY DEF QuestionBeforeAnswer
  <2>1. CASE u = t /\ j = n + 1
    <3>1. visit[r] = "persist"
      BY <2>1, <1>0, <1>c DEF Role
    <3>2. PICK i \in DOMAIN messages[t] :
             messages[t][i].req = r /\ messages[t][i].role = "user"
      BY <3>1 DEF IInv, AcknowledgedStored, HasRow
    <3>3. i \in DOMAIN messages'[t] /\ i < n + 1 /\ messages'[t][i] = messages[t][i]
      BY <1>a, <1>c
    <3> QED
      BY <2>1, <3>2, <3>3, <1>c
  <2>2. CASE ~ (u = t /\ j = n + 1)
    <3>1. j \in DOMAIN messages[u] /\ messages'[u][j] = messages[u][j]
      BY <2>2, <1>e
    <3>2. PICK i \in DOMAIN messages[u] :
             /\ i < j
             /\ messages[u][i].role = "user"
             /\ messages[u][i].req = messages[u][j].req
      BY <3>1 DEF IInv, QuestionBeforeAnswer
    <3>3. i \in DOMAIN messages'[u] /\ messages'[u][i] = messages[u][i]
      BY <1>d
    <3> QED
      BY <3>1, <3>2, <3>3
  <2> QED
    BY <2>1, <2>2
<1> QED
  BY <1>1, <1>2, <1>3, <1>4, <1>5, <1>6, <1>7, <1>8, <1>9, <1>10 DEF IInv

----------------------------------------------------------------------------
(* The invariant is inductive.                                             *)

\* The invariant holds for empty tables and an idle pool.
LEMMA InitEstablishes == Init => IInv
<1> SUFFICES ASSUME Init PROVE IInv
  OBVIOUS
<1>1. DOMAIN <<>> = {} /\ <<>> \in Seq(Message)
  OBVIOUS
<1>2. TypeOK
  BY <1>1, FS_EmptySet DEF Init, TypeOK, Visits, Places, Results
<1>3. RowsAreLog
  BY <1>1 DEF Init, RowsAreLog
<1>4. PoolSound
  BY FS_EmptySet, PoolMaxPositive DEF Init, PoolSound
<1>5. RowsMatchControl /\ QuestionBeforeAnswer
  BY <1>1 DEF Init, RowsMatchControl, QuestionBeforeAnswer
<1>6. ControlOK /\ ReadOK /\ BoundFirst /\ AcknowledgedStored /\ AnswerBeforeTouch
  BY DEF Init, ControlOK, ReadOK, BoundFirst, AcknowledgedStored, AnswerBeforeTouch
<1> QED
  BY <1>2, <1>3, <1>4, <1>5, <1>6 DEF IInv

\* A stuttering step keeps it.
LEMMA StutterKeeps == IInv /\ UNCHANGED vars => IInv'
<1> SUFFICES ASSUME IInv, UNCHANGED vars PROVE IInv'
  OBVIOUS
<1>1. TypeOK' /\ ControlOK' /\ PoolSound' /\ RowsAreLog' /\ BoundFirst'
  BY DEF IInv, TypeOK, ControlOK, PoolSound, RowsAreLog, BoundFirst, vars
<1>2. ReadOK' /\ RowsMatchControl' /\ QuestionBeforeAnswer'
  BY DEF IInv, ReadOK, RowsMatchControl, RowMatchesControl, QuestionBeforeAnswer, vars
<1>3. AcknowledgedStored' /\ AnswerBeforeTouch'
  BY DEF IInv, AcknowledgedStored, AnswerBeforeTouch, HasRow, vars
<1> QED
  BY <1>1, <1>2, <1>3 DEF IInv

\* Every action keeps it: one lemma for each.
LEMMA NextKeeps == IInv /\ [Next]_vars => IInv'
<1> SUFFICES ASSUME IInv, [Next]_vars PROVE IInv'
  OBVIOUS
<1>1. ASSUME NEW r \in Requests, Enter(r) PROVE IInv'
  BY <1>1, EnterKeeps
<1>2. ASSUME NEW r \in Requests, Work(r) PROVE IInv'
  <2>1. CASE Acquire(r)
    BY <2>1, AcquireKeeps
  <2>2. CASE SelectSession(r)
    BY <2>2, SelectSessionKeeps
  <2>3. CASE InsertSession(r)
    BY <2>3, InsertSessionKeeps
  <2>4. CASE ReselectSession(r)
    BY <2>4, ReselectSessionKeeps
  <2>5. CASE SelectMaxSeq(r)
    BY <2>5, SelectMaxSeqKeeps
  <2>6. ASSUME NEW body \in Bodies, InsertMessage(r, body) PROVE IInv'
    BY <2>6, InsertMessageStoredKeeps, InsertMessageRefusedKeeps
  <2>7. CASE ListRecent(r)
    BY <2>7, ListRecentKeeps
  <2>8. CASE SessionRepository_touch(r)
    BY <2>8, TouchKeeps
  <2>9. CASE Release(r)
    BY <2>9, ReleaseKeeps
  <2> QED
    BY <1>2, <2>1, <2>2, <2>3, <2>4, <2>5, <2>6, <2>7, <2>8, <2>9 DEF Work
<1>3. ASSUME NEW r \in Requests, NEW why \in Failures, AbortVisit(r, why) PROVE IInv'
  BY <1>3, AbortVisitKeeps
<1>4. ASSUME NEW r \in Requests, NEW why \in Failures, AbortWait(r, why) PROVE IInv'
  BY <1>4, AbortWaitKeeps
<1>5. ASSUME NEW r \in Requests, Leave(r) PROVE IInv'
  BY <1>5, LeaveKeeps
<1>6. CASE UNCHANGED vars
  BY <1>6, StutterKeeps
<1> QED
  BY <1>1, <1>2, <1>3, <1>4, <1>5, <1>6 DEF Next

\* The inductive invariant holds in every reachable state.
THEOREM InductiveInvariant == Spec => []IInv
<1>1. Init => IInv
  BY InitEstablishes
<1>2. IInv /\ [Next]_vars => IInv'
  BY NextKeeps
<1> QED
  BY <1>1, <1>2, PTL DEF Spec

----------------------------------------------------------------------------
(* What a reader of the store relies on.                                   *)

\* Type correctness of the two tables, the pool and the control of a visit.
THEOREM TypeCorrect == Spec => []TypeOK
<1>1. IInv => TypeOK
  BY DEF IInv
<1> QED
  BY <1>1, InductiveInvariant, PTL

\* Rows of a thread are numbered 1..n without gap, for any number of
\* concurrent appenders: the two-statement append of MessageRepository relies
\* on UNIQUE (thread_id, seq) alone.
THEOREM SeqsAreContiguous == Spec => []SeqsContiguous
<1>1. IInv => SeqsContiguous
  <2> SUFFICES ASSUME IInv, NEW t \in Threads
               PROVE  DOMAIN messages[t] = 1 .. MaxSeqOf(t)
    BY DEF SeqsContiguous
  <2>1. messages[t] \in Seq(Message)
    BY DEF IInv, RowsAreLog
  <2>2. MaxSeqOf(t) = Len(messages[t])
    BY <2>1, MaxSeqIsLen
  <2> QED
    BY <2>1, <2>2
<1> QED
  BY <1>1, InductiveInvariant, PTL

\* No connection leaks and the pool is never overdrawn, whatever fails.
THEOREM PoolIsSound == Spec => []PoolSound
<1>1. IInv => PoolSound
  BY DEF IInv
<1> QED
  BY <1>1, InductiveInvariant, PTL

\* A row whose append was acknowledged is never lost or overwritten.
THEOREM AcknowledgedIsStored == Spec => []AcknowledgedStored
<1>1. IInv => AcknowledgedStored
  BY DEF IInv
<1> QED
  BY <1>1, InductiveInvariant, PTL

\* An answer never precedes its question in a thread.
THEOREM QuestionComesFirst == Spec => []QuestionBeforeAnswer
<1>1. IInv => QuestionBeforeAnswer
  BY DEF IInv
<1> QED
  BY <1>1, InductiveInvariant, PTL

----------------------------------------------------------------------------
(* ThreadStore implements ThreadLog.                                       *)

\* Empty tables are the empty abstract thread.
LEMMA StoreInitRefines == Init => Log!Init
  BY DEF Init, Log!Init

\* The row being inserted is not in any thread yet.
LEMMA NotPostedBefore ==
    ASSUME IInv, NEW r \in Requests, NEW body \in Bodies, pc[r] = "row"
    PROVE  ~ Log!Posted([req |-> r, role |-> Role(r), body |-> body])
<1> SUFFICES ASSUME NEW t \in Threads, NEW i \in DOMAIN messages[t],
                    messages[t][i].req = r, messages[t][i].role = Role(r)
             PROVE  FALSE
  BY DEF Log!Posted
<1>1. RowMatchesControl(t, messages[t][i])
  BY DEF IInv, RowsMatchControl
<1>2. visit[r] = "user" => Role(r) = "user"
  BY DEF Role
<1>3. visit[r] # "user" => Role(r) = "assistant"
  BY DEF Role
<1> QED
  BY <1>1, <1>2, <1>3 DEF RowMatchesControl

\* Each step of the store is a step of the abstract thread or changes nothing
\* a reader of the thread can see.
LEMMA StoreNextRefines == IInv /\ [Next]_vars => [Log!Next]_(Log!vars)
<1> SUFFICES ASSUME IInv, [Next]_vars PROVE [Log!Next]_(Log!vars)
  OBVIOUS
<1>1. ASSUME NEW r \in Requests, InsertSession(r)
      PROVE  [Log!Next]_(Log!vars)
  <2>1. Thread(r) \in Threads /\ Topic(r) \in Topics
    BY DEF IInv, TypeOK
  <2>2. CASE sessions[Thread(r)] = NoTopic
    <3>1. Log!Bind(Thread(r), Topic(r))
      BY <1>1, <2>2 DEF InsertSession, IInv, TypeOK, Log!Bind
    <3> QED
      BY <3>1, <2>1 DEF Log!Next
  <2>3. CASE sessions[Thread(r)] # NoTopic
    <3>1. UNCHANGED <<sessions, messages>>
      BY <1>1, <2>3 DEF InsertSession, IInv, TypeOK
    <3> QED
      BY <3>1 DEF Log!vars
  <2> QED
    BY <2>2, <2>3
<1>2. ASSUME NEW r \in Requests, NEW body \in Bodies, InsertMessage(r, body)
      PROVE  [Log!Next]_(Log!vars)
  <2>1. CASE ~ SeqFree(Thread(r), NextSeq(r))
    BY <1>2, <2>1 DEF InsertMessage, Log!vars
  <2>2. CASE SeqFree(Thread(r), NextSeq(r))
    <3> DEFINE t == Thread(r)
               m == [req |-> r, role |-> Role(r), body |-> body]
    <3>1. /\ t \in Threads /\ m \in Message
          /\ messages' = [messages EXCEPT ![t] = Append(messages[t], m)]
      BY <1>2, <2>2, InsertMessageIsAppend
    <3>2. pc[r] = "row" /\ UNCHANGED sessions
      BY <1>2 DEF InsertMessage
    <3>3. sessions[t] # NoTopic
      BY <3>2 DEF IInv, BoundFirst
    <3>4. ~ Log!Posted(m)
      BY <3>2, NotPostedBefore
    <3>5. Log!Post(t, m)
      BY <3>1, <3>2, <3>3, <3>4 DEF Log!Post
    <3> QED
      BY <3>1, <3>5 DEF Log!Next
  <2> QED
    BY <2>1, <2>2
<1>3. ASSUME NEW r \in Requests,
             \/ Enter(r) \/ Acquire(r) \/ Release(r) \/ SelectSession(r)
             \/ ReselectSession(r) \/ SelectMaxSeq(r) \/ ListRecent(r)
             \/ SessionRepository_touch(r) \/ Leave(r)
             \/ \E why \in Failures : AbortVisit(r, why) \/ AbortWait(r, why)
      PROVE  UNCHANGED <<sessions, messages>>
  BY <1>3 DEF Enter, Acquire, Release, SelectSession, ReselectSession, SelectMaxSeq,
              ListRecent, SessionRepository_touch, Leave, AbortVisit, AbortWait, tables
<1>4. CASE UNCHANGED vars
  BY <1>4 DEF vars, Log!vars
<1> QED
  BY <1>1, <1>2, <1>3, <1>4 DEF Next, Work, Log!vars

\* The repositories implement the abstract thread: no interleaving of their
\* statements rebinds a thread, posts twice or changes a row already posted.
THEOREM StoreImplementsLog == Spec => RefinesThreadLog
<1>1. Init => Log!Init
  BY StoreInitRefines
<1>2. IInv /\ [Next]_vars => [Log!Next]_(Log!vars)
  BY StoreNextRefines
<1> QED
  BY <1>1, <1>2, InductiveInvariant, PTL DEF Spec, RefinesThreadLog, Log!Spec
=============================================================================
