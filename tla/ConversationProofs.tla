------------------------- MODULE ConversationProofs -------------------------
(***************************************************************************)
(* Proofs about Conversation, for any number of asks and any max_turns.    *)
(***************************************************************************)
EXTENDS Conversation, HistoryProofs

Rows == [req : 1 .. Asks, role : {"user", "assistant"}, status : {"complete", "partial"}]

\* An empty thread satisfies the invariant.
LEMMA InitEstablishes == Init => IInv
BY AsksNat DEF Init, IInv, TypeOK, QuestionsStored, AnswersFollow

\* A row at the end leaves the others where they are.
LEMMA AppendFacts ==
    ASSUME rows \in Seq(Rows), NEW row \in Rows, rows' = Append(rows, row)
    PROVE  /\ rows' \in Seq(Rows)
           /\ Len(rows') = Len(rows) + 1
           /\ DOMAIN rows' = 1 .. Len(rows) + 1
           /\ DOMAIN rows = 1 .. Len(rows)
           /\ rows'[Len(rows) + 1] = row
           /\ \A i \in DOMAIN rows : rows'[i] = rows[i]
OBVIOUS

\* The question of a new ask.
LEMMA QuestionKeeps == IInv /\ Question => IInv'
<1> SUFFICES ASSUME IInv, Question PROVE IInv'
  OBVIOUS
<1> USE AsksNat
<1> DEFINE row == Row(asked + 1, "user", "complete")
<1>1. row \in Rows /\ asked' = asked + 1 /\ asked \in 0 .. Asks - 1
  BY DEF IInv, TypeOK, Question, Row, Rows
<1>2. rows \in Seq(Rows) /\ rows' = Append(rows, row)
  BY DEF IInv, TypeOK, Question, Rows
<1>3. /\ rows' \in Seq(Rows) /\ DOMAIN rows' = 1 .. Len(rows) + 1
      /\ DOMAIN rows = 1 .. Len(rows) /\ Len(rows) \in Nat
      /\ rows'[Len(rows) + 1] = row
      /\ \A i \in DOMAIN rows : rows'[i] = rows[i]
  BY <1>1, <1>2, AppendFacts
<1>4. TypeOK'
  BY <1>1, <1>3 DEF IInv, TypeOK, Question, Rows
<1>5. QuestionsStored'
  <2> SUFFICES ASSUME NEW r \in 1 .. asked'
               PROVE  \E j \in DOMAIN rows' : rows'[j].role = "user" /\ rows'[j].req = r
    BY DEF QuestionsStored
  <2>1. CASE r = asked + 1
    <3>1. row.role = "user" /\ row.req = r
      BY <2>1 DEF Row
    <3> QED
      BY <1>3, <3>1
  <2>2. CASE r \in 1 .. asked
    BY <1>3, <2>2 DEF IInv, QuestionsStored
  <2> QED
    BY <1>1, <2>1, <2>2
<1>6. AnswersFollow'
  <2> SUFFICES ASSUME NEW i \in DOMAIN rows', rows'[i].role = "assistant"
               PROVE  \E j \in 1 .. i - 1 :
                          rows'[j].role = "user" /\ rows'[j].req = rows'[i].req
    BY DEF AnswersFollow
  <2>1. row.role # "assistant"
    BY DEF Row
  <2>2. i \in DOMAIN rows
    BY <1>3, <2>1
  <2> QED
    BY <1>3, <2>2 DEF IInv, AnswersFollow
<1> QED
  BY <1>4, <1>5, <1>6 DEF IInv

\* An answer: its question is among the rows that are there.
LEMMA AnswerKeeps ==
    ASSUME IInv, NEW r \in 1 .. Asks, NEW status \in {"complete", "partial"},
           Answer(r, status)
    PROVE  IInv'
<1> USE AsksNat
<1> DEFINE row == Row(r, "assistant", status)
<1>1. row \in Rows /\ asked' = asked /\ r \in 1 .. asked
  BY DEF IInv, TypeOK, Answer, Pending, Row, Rows
<1>2. rows \in Seq(Rows) /\ rows' = Append(rows, row)
  BY DEF IInv, TypeOK, Answer, Rows
<1>3. /\ rows' \in Seq(Rows) /\ DOMAIN rows' = 1 .. Len(rows) + 1
      /\ DOMAIN rows = 1 .. Len(rows) /\ Len(rows) \in Nat
      /\ rows'[Len(rows) + 1] = row
      /\ \A i \in DOMAIN rows : rows'[i] = rows[i]
  BY <1>1, <1>2, AppendFacts
<1>4. TypeOK'
  BY <1>1, <1>3 DEF IInv, TypeOK, Answer, Rows
<1>5. QuestionsStored'
  BY <1>1, <1>3 DEF IInv, QuestionsStored
<1>6. AnswersFollow'
  <2> SUFFICES ASSUME NEW i \in DOMAIN rows', rows'[i].role = "assistant"
               PROVE  \E j \in 1 .. i - 1 :
                          rows'[j].role = "user" /\ rows'[j].req = rows'[i].req
    BY DEF AnswersFollow
  <2>1. CASE i = Len(rows) + 1
    <3>1. PICK j \in DOMAIN rows : rows[j].role = "user" /\ rows[j].req = r
      BY <1>1 DEF IInv, QuestionsStored
    <3>2. row.req = r
      BY DEF Row
    <3> QED
      BY <1>3, <2>1, <3>1, <3>2
  <2>2. CASE i \in DOMAIN rows
    BY <1>3, <2>2 DEF IInv, AnswersFollow
  <2> QED
    BY <1>3, <2>1, <2>2
<1> QED
  BY <1>4, <1>5, <1>6 DEF IInv

\* Every step keeps the invariant.
LEMMA NextKeeps == IInv /\ [Next]_vars => IInv'
<1> SUFFICES ASSUME IInv, [Next]_vars PROVE IInv'
  OBVIOUS
<1>1. CASE Question
  BY <1>1, QuestionKeeps
<1>2. ASSUME NEW r \in 1 .. Asks, Lose(r) PROVE IInv'
  BY <1>2 DEF Lose, Pending, IInv, TypeOK, QuestionsStored, AnswersFollow
<1>3. ASSUME NEW r \in 1 .. Asks, NEW status \in {"complete", "partial"}, Answer(r, status)
      PROVE  IInv'
  BY <1>3, AnswerKeeps
<1>4. CASE UNCHANGED vars
  BY <1>4 DEF vars, IInv, TypeOK, QuestionsStored, AnswersFollow
<1> QED
  BY <1>1, <1>2, <1>3, <1>4 DEF Next

\* A mixed turn needs overlapping asks: the answer's question is before the
\* answer, and it is not the question it is paired with.
LEMMA AnswersFollowSuffices == IInv => MixedTurnsOverlap
<1> SUFFICES ASSUME IInv, NEW i \in TurnsAt(rows), rows[i].req # rows[i + 1].req
             PROVE  \E j \in 1 .. i - 1 :
                        rows[j].role = "user" /\ rows[j].req = rows[i + 1].req
  BY DEF MixedTurnsOverlap
<1>1. rows \in Seq(Rows)
  BY DEF IInv, TypeOK, Rows
<1>2. /\ i \in 1 .. Len(rows) - 1 /\ i + 1 \in DOMAIN rows
      /\ rows[i + 1].role = "assistant"
  BY <1>1 DEF TurnsAt, IsTurn
<1>3. PICK j \in 1 .. (i + 1) - 1 : rows[j].role = "user" /\ rows[j].req = rows[i + 1].req
  BY <1>2 DEF IInv, AnswersFollow
<1>4. j # i
  BY <1>3
<1> QED
  BY <1>2, <1>3, <1>4

\* In every thread, a turn joins the question of one ask and the answer of
\* another only if the other's question came first: asks one after the other
\* are never mixed, for any number of asks.
THEOREM MixedTurnsNeedOverlap == Spec => []MixedTurnsOverlap
<1>1. Spec => []IInv
  BY InitEstablishes, NextKeeps, PTL DEF Spec
<1> QED
  BY <1>1, AnswersFollowSuffices, PTL

----------------------------------------------------------------------------
(* The history of a thread.                                                *)

\* The smaller of two numbers.
LEMMA MinOfTwo ==
    ASSUME NEW a \in Nat, NEW b \in Nat
    PROVE  Min({a, b}) = IF b > a THEN a ELSE b
<1> DEFINE m == IF b > a THEN a ELSE b
<1>1. m \in {a, b} /\ \A x \in {a, b} : m <= x
  OBVIOUS
<1>2. \A y \in {a, b} : (\A x \in {a, b} : y <= x) => y = m
  OBVIOUS
<1> HIDE DEF m
<1>3. Min({a, b}) = m
  BY <1>1, <1>2 DEF Min
<1> QED
  BY <1>3 DEF m

\* The window is the end of the thread, or all of it.
LEMMA WindowFacts ==
    ASSUME IInv, NEW n \in TurnLimits
    PROVE  LET window == Recent(rows, Window(n))
           IN  /\ n \in Nat \ {0} /\ window \in Seq(Rows)
               /\ window = rows \/ Len(window) = 4 * n
<1>1. n \in Nat \ {0} /\ Window(n) = 4 * n
  BY TurnLimitsPositive DEF Window
<1>2. rows \in Seq(Rows) /\ Len(rows) \in Nat
  BY DEF IInv, TypeOK, Rows
<1> DEFINE from == IF Len(rows) > 4 * n THEN Len(rows) - 4 * n + 1 ELSE 1
<1>3. from \in 1 .. Len(rows) + 1 /\ Recent(rows, Window(n)) = SubSeq(rows, from, Len(rows))
  BY <1>1, <1>2 DEF Recent
<1>4. CASE Len(rows) > 4 * n
  <2>1. from = Len(rows) - 4 * n + 1
    BY <1>4
  <2> HIDE DEF from
  <2>2. /\ SubSeq(rows, from, Len(rows)) \in Seq(Rows)
        /\ Len(SubSeq(rows, from, Len(rows))) = Len(rows) - from + 1
    BY <1>2, <1>3
  <2>3. Len(rows) - from + 1 = 4 * n
    BY <1>1, <1>2, <2>1
  <2> QED
    BY <1>1, <1>3, <2>2, <2>3
<1>5. CASE ~ (Len(rows) > 4 * n)
  <2>1. SubSeq(rows, 1, Len(rows)) = rows
    BY <1>2
  <2> QED
    BY <1>1, <1>2, <1>3, <1>5, <2>1
<1> QED
  BY <1>4, <1>5

\* Every history is the newest turns of the window.
LEMMA HistoryFromTurns == IInv => HistoryIsNewestTurns
<1> SUFFICES ASSUME IInv, NEW n \in TurnLimits
             PROVE  LET window  == Recent(rows, Window(n))
                        history == HistoryOf(window, n)
                    IN  /\ Len(history) = Min({n, Cardinality(TurnsAt(window))})
                        /\ \A k \in DOMAIN history : \E i \in TurnsAt(window) :
                            /\ history[k] = <<window[i].req, window[i + 1].req>>
                            /\ Cardinality({j \in TurnsAt(window) : j > i}) = Len(history) - k
  BY DEF HistoryIsNewestTurns
<1> DEFINE window == Recent(rows, Window(n))
           history == HistoryOf(window, n)
<1>1. n \in Nat \ {0} /\ window \in Seq(Rows)
  BY WindowFacts
<1>2. Cardinality(TurnsAt(window)) \in Nat
  <2> HIDE DEF window
  <2> QED
    BY <1>1, TurnsFinite
<1> HIDE DEF window
<1>3. /\ history \in Seq({TurnOf(window, j) : j \in TurnsAt(window)})
      /\ Len(history) = IF Cardinality(TurnsAt(window)) > n THEN n
                        ELSE Cardinality(TurnsAt(window))
      /\ \A k \in 1 .. Len(history) : \E i \in TurnsAt(window) :
            /\ history[k] = TurnOf(window, i)
            /\ Cardinality({j \in TurnsAt(window) : j > i}) = Len(history) - k
  BY <1>1, HistoryFacts
<1> HIDE DEF history
<1>4. Len(history) = Min({n, Cardinality(TurnsAt(window))})
  BY <1>1, <1>2, <1>3, MinOfTwo
<1>5. DOMAIN history = 1 .. Len(history)
  BY <1>3
<1> QED
  BY <1>3, <1>4, <1>5 DEF window, history, TurnOf

\* In every thread, what is given to the model is what the docstring of load_session
\* says, for any number of asks, of failures and of turns wanted.
THEOREM HistoriesAreNewestTurns == Spec => []HistoryIsNewestTurns
<1>1. Spec => []IInv
  BY InitEstablishes, NextKeeps, PTL DEF Spec
<1> QED
  BY <1>1, HistoryFromTurns, PTL

\* The rows of the turns are at most two for each.
LEMMA RowsOfTurns ==
    ASSUME NEW msgs \in Seq(Rows)
    PROVE  LET inTurn == UNION {{i, i + 1} : i \in TurnsAt(msgs)}
           IN  /\ inTurn \subseteq DOMAIN msgs /\ IsFiniteSet(inTurn)
               /\ Cardinality(inTurn) <= 2 * Cardinality(TurnsAt(msgs))
<1> DEFINE T == TurnsAt(msgs)
           after == {i + 1 : i \in T}
           inTurn == UNION {{i, i + 1} : i \in T}
<1>1. IsFiniteSet(T) /\ Cardinality(T) \in Nat
  BY TurnsFinite
<1>2. IsFiniteSet(after) /\ Cardinality(after) <= Cardinality(T)
  <2> DEFINE f == [i \in T |-> i + 1]
  <2>1. f \in Surjection(T, after)
    BY DEF Surjection
  <2> HIDE DEF f, after, T
  <2> QED
    BY <1>1, <2>1, FS_Surjection
<1>3. inTurn = T \cup after
  OBVIOUS
<1>4. IsFiniteSet(T \cap after)
  BY <1>1, FS_Subset
<1>5. /\ IsFiniteSet(T \cup after)
      /\ Cardinality(T \cup after) = Cardinality(T) + Cardinality(after) - Cardinality(T \cap after)
      /\ Cardinality(after) \in Nat /\ Cardinality(T \cap after) \in Nat
  <2> HIDE DEF T, after
  <2> QED
    BY <1>1, <1>2, <1>4, FS_Union, FS_CardinalityType
<1>6. T \subseteq DOMAIN msgs /\ after \subseteq DOMAIN msgs
  BY DEF TurnsAt
<1> HIDE DEF T, after, inTurn
<1>7. Cardinality(T \cup after) <= 2 * Cardinality(T)
  BY <1>1, <1>2, <1>5
<1> QED
  BY <1>3, <1>5, <1>6, <1>7 DEF inTurn, T

\* A window of four rows for each turn is enough.
LEMMA WindowIsWide == IInv => WindowSuffices
<1> SUFFICES ASSUME IInv, NEW n \in TurnLimits,
                    Len(HistoryOf(Recent(rows, Window(n)), n))
                        < Min({n, Cardinality(TurnsAt(rows))})
             PROVE  Cardinality(DOMAIN Recent(rows, Window(n)) \
                        UNION {{i, i + 1} : i \in TurnsAt(Recent(rows, Window(n)))}) > 2 * n
  BY DEF WindowSuffices
<1> DEFINE window == Recent(rows, Window(n))
           turns == Cardinality(TurnsAt(window))
           inTurn == UNION {{i, i + 1} : i \in TurnsAt(window)}
<1>1. n \in Nat \ {0} /\ window \in Seq(Rows) /\ (window = rows \/ Len(window) = 4 * n)
  BY WindowFacts
<1>2. rows \in Seq(Rows)
  BY DEF IInv, TypeOK, Rows
<1> HIDE DEF window
<1>3. turns \in Nat /\ Cardinality(TurnsAt(rows)) \in Nat
  BY <1>1, <1>2, TurnsFinite
<1>4. Len(HistoryOf(window, n)) = IF turns > n THEN n ELSE turns
  BY <1>1, HistoryFacts
<1>5. Min({n, Cardinality(TurnsAt(rows))})
        = IF Cardinality(TurnsAt(rows)) > n THEN n ELSE Cardinality(TurnsAt(rows))
  BY <1>1, <1>3, MinOfTwo
<1>6. Len(HistoryOf(window, n)) < Min({n, Cardinality(TurnsAt(rows))})
  BY DEF window
<1>7. turns < n /\ turns # Cardinality(TurnsAt(rows))
  BY <1>1, <1>3, <1>4, <1>5, <1>6
<1>8. Len(window) = 4 * n
  BY <1>1, <1>7
<1>9. inTurn \subseteq DOMAIN window /\ IsFiniteSet(inTurn) /\ Cardinality(inTurn) <= 2 * turns
  BY <1>1, RowsOfTurns
<1> HIDE DEF inTurn, turns
<1>10. DOMAIN window = 1 .. 4 * n /\ 4 * n \in Nat
  BY <1>1, <1>8
<1>11. IsFiniteSet(DOMAIN window) /\ Cardinality(DOMAIN window) = 4 * n
  BY <1>10, FS_Interval
<1>12. Cardinality(DOMAIN window \ inTurn) = 4 * n - Cardinality(inTurn)
  <2>1. DOMAIN window \cap inTurn = inTurn
    BY <1>9
  <2>2. Cardinality(DOMAIN window \ inTurn)
          = Cardinality(DOMAIN window) - Cardinality(DOMAIN window \cap inTurn)
    BY <1>11, FS_Difference
  <2> QED
    BY <1>11, <2>1, <2>2
<1>13. Cardinality(inTurn) \in Nat
  BY <1>9, FS_CardinalityType
<1>14. Cardinality(DOMAIN window \ inTurn) > 2 * n
  <2> DEFINE c == Cardinality(DOMAIN window \ inTurn)
  <2>1. c = 4 * n - Cardinality(inTurn)
    BY <1>12
  <2> HIDE DEF c
  <2>2. c > 2 * n
    BY <1>1, <1>3, <1>7, <1>9, <1>13, <2>1
  <2> QED
    BY <2>2 DEF c
<1> QED
  BY <1>14 DEF window, inTurn

\* A history is shorter than it could be only if more than half of the window is
\* rows of no turn, for any number of asks and of turns wanted.
THEOREM WindowsSuffice == Spec => []WindowSuffices
<1>1. Spec => []IInv
  BY InitEstablishes, NextKeeps, PTL DEF Spec
<1> QED
  BY <1>1, WindowIsWide, PTL
=============================================================================
