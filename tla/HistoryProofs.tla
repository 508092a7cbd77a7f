--------------------------- MODULE HistoryProofs ----------------------------
(***************************************************************************)
(* Proofs about History, for any rows and any max_turns: what the scan of  *)
(* load_session finds.  Inductions are by a least counterexample.          *)
(***************************************************************************)
EXTENDS History, FiniteSetTheorems, WellFoundedInduction, TLAPS

\* A set of numbers that is not empty has a least one.
LEMMA LeastExists ==
    ASSUME NEW S \in SUBSET Nat, S # {}
    PROVE  \E n \in S : \A k \in Nat : k < n => k \notin S
<1> DEFINE R == {ss \in Nat \X Nat : ss[1] < ss[2]}
<1>1. IsWellFoundedOn(R, Nat)
  BY NatLessThanWellFounded, Zenon DEF OpToRel
<1>2. PICK n \in S : \A k \in S : <<k, n>> \notin R
  <2> HIDE DEF R
  <2> QED
    BY <1>1, WFMin
<1>3. ASSUME NEW k \in Nat, k < n PROVE k \notin S
  <2>1. <<k, n>> \in R
    BY <1>3
  <2> QED
    BY <1>2, <2>1
<1> QED
  BY <1>2, <1>3

----------------------------------------------------------------------------
(* The scan.                                                               *)

\* What the scan gives at row i if it gives scan at later rows.
AtRow(msgs, scan, i) ==
    IF i >= Len(msgs) THEN <<>>
    ELSE IF IsTurn(msgs, i)
         THEN <<<<msgs[i].req, msgs[i + 1].req>>>> \o scan[i + 2]
         ELSE scan[i + 1]

\* The last n rows can be scanned.
Scanned(msgs, n) ==
    \E scan : \A i \in Nat : i + n >= Len(msgs) => scan[i] = AtRow(msgs, scan, i)

\* However many rows there are, they can be scanned.
LEMMA ScanExists ==
    ASSUME NEW R, NEW msgs \in Seq(R), NEW n \in Nat
    PROVE  Scanned(msgs, n)
<1> DEFINE Bad == {k \in Nat : ~ Scanned(msgs, k)}
<1> SUFFICES ASSUME Bad # {} PROVE FALSE
  OBVIOUS
<1>1. PICK k \in Bad : \A j \in Nat : j < k => j \notin Bad
  <2>1. Bad \in SUBSET Nat
    OBVIOUS
  <2> HIDE DEF Bad
  <2> QED
    BY <2>1, LeastExists
<1>2. Len(msgs) \in Nat
  OBVIOUS
<1>3. CASE k = 0
  <2> DEFINE scan == [i \in Nat |-> <<>>]
  <2>1. \A i \in Nat : i + 0 >= Len(msgs) => scan[i] = AtRow(msgs, scan, i)
    BY <1>2 DEF AtRow
  <2> QED
    BY <1>3, <2>1 DEF Scanned
<1>4. CASE k # 0
  <2>1. k - 1 \in Nat /\ k - 1 < k
    BY <1>4
  <2>2. Scanned(msgs, k - 1)
    BY <1>1, <2>1
  <2>3. PICK scan : \A i \in Nat : i + (k - 1) >= Len(msgs) => scan[i] = AtRow(msgs, scan, i)
    BY <2>2 DEF Scanned
  <2> DEFINE more == [i \in Nat |-> IF i + k >= Len(msgs) THEN AtRow(msgs, scan, i) ELSE <<>>]
  <2>4. ASSUME NEW i \in Nat, i + k >= Len(msgs) PROVE more[i] = AtRow(msgs, more, i)
    <3>1. ASSUME NEW j \in Nat, j > i PROVE more[j] = scan[j]
      <4>1. j + (k - 1) >= Len(msgs) /\ j + k >= Len(msgs)
        BY <1>2, <2>4, <3>1
      <4> QED
        BY <2>3, <4>1
    <3>2. more[i + 1] = scan[i + 1] /\ more[i + 2] = scan[i + 2]
      BY <3>1
    <3>3. more[i] = AtRow(msgs, scan, i)
      BY <2>4
    <3> HIDE DEF more
    <3> QED
      BY <3>2, <3>3 DEF AtRow
  <2> HIDE DEF more
  <2> QED
    BY <2>4 DEF Scanned
<1> QED
  BY <1>3, <1>4

\* So the scan is what its equations say.
LEMMA ScanEquation ==
    ASSUME NEW R, NEW msgs \in Seq(R), NEW i \in Nat
    PROVE  Scan(msgs)[i] = AtRow(msgs, Scan(msgs), i)
<1> DEFINE IsScan(scan) == scan = [j \in Nat |-> AtRow(msgs, scan, j)]
<1>1. Len(msgs) \in Nat /\ Scanned(msgs, Len(msgs))
  BY ScanExists
<1>2. PICK f : \A j \in Nat : j + Len(msgs) >= Len(msgs) => f[j] = AtRow(msgs, f, j)
  BY <1>1 DEF Scanned
<1> DEFINE g == [j \in Nat |-> f[j]]
<1>3. \A j \in Nat : g[j] = AtRow(msgs, g, j)
  <2>1. TAKE j \in Nat
  <2>2. g[j] = f[j] /\ g[j + 1] = f[j + 1] /\ g[j + 2] = f[j + 2]
    OBVIOUS
  <2>3. f[j] = AtRow(msgs, f, j)
    BY <1>1, <1>2
  <2> HIDE DEF g
  <2> QED
    BY <2>2, <2>3 DEF AtRow
<1>4. g = [j \in Nat |-> AtRow(msgs, g, j)]
  <2>1. g = [j \in Nat |-> g[j]]
    OBVIOUS
  <2> HIDE DEF g
  <2> QED
    BY <1>3, <2>1
<1>5. \E scan : IsScan(scan)
  <2> HIDE DEF g
  <2> QED
    BY <1>4
<1>6. Scan(msgs) = CHOOSE scan : IsScan(scan)
  BY DEF Scan, AtRow
<1>7. IsScan(Scan(msgs))
  BY <1>5, <1>6
<1> QED
  BY <1>7

----------------------------------------------------------------------------
(* What it finds.                                                          *)

TurnOf(msgs, i) == <<msgs[i].req, msgs[i + 1].req>>

TurnsSince(msgs, i) == {j \in TurnsAt(msgs) : j >= i}

\* From row i on every turn is found once, in order.
Found(msgs, i) ==
    LET s == Scan(msgs)[i]
    IN  /\ s \in Seq({TurnOf(msgs, j) : j \in TurnsAt(msgs)})
        /\ Len(s) = Cardinality(TurnsSince(msgs, i))
        /\ \A k \in 1 .. Len(s) : \E j \in TurnsSince(msgs, i) :
            /\ s[k] = TurnOf(msgs, j)
            /\ Cardinality({h \in TurnsAt(msgs) : h > j}) = Len(s) - k

\* There are finitely many turns.
LEMMA TurnsFinite ==
    ASSUME NEW R, NEW msgs \in Seq(R)
    PROVE  /\ IsFiniteSet(TurnsAt(msgs))
           /\ \A T \in SUBSET TurnsAt(msgs) : IsFiniteSet(T) /\ Cardinality(T) \in Nat
<1>1. Len(msgs) - 1 \in Int
  OBVIOUS
<1>2. IsFiniteSet(1 .. Len(msgs) - 1)
  BY <1>1, FS_Interval
<1> QED
  BY <1>2, FS_Subset, FS_CardinalityType DEF TurnsAt

\* Nothing is found after the last row but one, where no turn begins.
LEMMA NothingAtTheEnd ==
    ASSUME NEW R, NEW msgs \in Seq(R), NEW i \in Nat, i >= Len(msgs)
    PROVE  Found(msgs, i)
<1>1. Scan(msgs)[i] = <<>>
  BY ScanEquation DEF AtRow
<1>2. TurnsSince(msgs, i) = {}
  BY DEF TurnsSince, TurnsAt
<1>3. Cardinality({}) = 0
  BY FS_EmptySet
<1> QED
  BY <1>1, <1>2, <1>3 DEF Found

\* A row that begins no turn is skipped.
LEMMA SkippedAlone ==
    ASSUME NEW R, NEW msgs \in Seq(R), NEW i \in Nat, i < Len(msgs), ~ IsTurn(msgs, i),
           Found(msgs, i + 1)
    PROVE  Found(msgs, i)
<1>1. Scan(msgs)[i] = Scan(msgs)[i + 1]
  <2>1. Scan(msgs)[i] = AtRow(msgs, Scan(msgs), i) /\ ~ (i >= Len(msgs))
    BY ScanEquation
  <2> QED
    BY <2>1 DEF AtRow
<1>2. TurnsSince(msgs, i) = TurnsSince(msgs, i + 1)
  BY DEF TurnsSince, TurnsAt
<1> QED
  BY <1>1, <1>2 DEF Found

\* A turn is taken: the row after it begins none.
LEMMA TakenOnce ==
    ASSUME NEW R, NEW msgs \in Seq(R), NEW i \in Nat \ {0}, i < Len(msgs), IsTurn(msgs, i),
           Found(msgs, i + 2)
    PROVE  Found(msgs, i)
<1> DEFINE Turns == {TurnOf(msgs, j) : j \in TurnsAt(msgs)}
           rest == Scan(msgs)[i + 2]
           s == Scan(msgs)[i]
           later == TurnsSince(msgs, i + 2)
<1>1. i \in TurnsAt(msgs) /\ TurnOf(msgs, i) \in Turns
  BY DEF TurnsAt
<1>2. rest \in Seq(Turns) /\ Len(rest) = Cardinality(later)
  BY DEF Found
<1>3. s = <<TurnOf(msgs, i)>> \o rest
  <2>1. Scan(msgs)[i] = AtRow(msgs, Scan(msgs), i) /\ ~ (i >= Len(msgs))
    BY ScanEquation
  <2> QED
    BY <2>1 DEF AtRow, TurnOf
<1>4. ASSUME NEW j \in TurnsAt(msgs), j > i PROVE j >= i + 2
  <2>1. j # i + 1
    BY <1>4 DEF TurnsAt, IsTurn
  <2> QED
    BY <1>4, <2>1 DEF TurnsAt
<1>5. TurnsSince(msgs, i) = later \cup {i} /\ i \notin later
      /\ {h \in TurnsAt(msgs) : h > i} = later
  <2>1. \A j \in TurnsAt(msgs) : j \in Nat
    BY DEF TurnsAt
  <2> QED
    BY <1>1, <1>4, <2>1 DEF TurnsSince
<1>6. Cardinality(TurnsSince(msgs, i)) = Cardinality(later) + 1
  <2>1. IsFiniteSet(later)
    BY TurnsFinite DEF TurnsSince
  <2> QED
    BY <1>5, <2>1, FS_AddElement
<1> HIDE DEF Turns, rest, s, later
<1>7. /\ s \in Seq(Turns) /\ Len(s) = Len(rest) + 1 /\ Len(rest) \in Nat
      /\ s[1] = TurnOf(msgs, i) /\ \A k \in 2 .. Len(s) : s[k] = rest[k - 1]
  BY <1>1, <1>2, <1>3
<1>8. ASSUME NEW k \in 1 .. Len(s)
      PROVE  \E j \in TurnsSince(msgs, i) :
                 /\ s[k] = TurnOf(msgs, j)
                 /\ Cardinality({h \in TurnsAt(msgs) : h > j}) = Len(s) - k
  <2>1. CASE k = 1
    <3>1. Cardinality({h \in TurnsAt(msgs) : h > i}) = Cardinality(later)
      BY <1>5, Zenon
    <3>2. i \in TurnsSince(msgs, i) /\ s[k] = TurnOf(msgs, i)
      BY <1>5, <1>7, <2>1
    <3>3. Len(s) - k = Cardinality(later)
      BY <1>2, <1>7, <2>1
    <3> QED
      BY <3>1, <3>2, <3>3
  <2>2. CASE k # 1
    <3>1. k - 1 \in 1 .. Len(rest) /\ k \in 2 .. Len(s)
      BY <1>7, <2>2
    <3>2. PICK j \in later :
            /\ rest[k - 1] = TurnOf(msgs, j)
            /\ Cardinality({h \in TurnsAt(msgs) : h > j}) = Len(rest) - (k - 1)
      BY <3>1 DEF Found, rest, later
    <3>3. j \in TurnsSince(msgs, i) /\ s[k] = TurnOf(msgs, j)
      BY <1>5, <1>7, <3>1, <3>2
    <3>4. Cardinality({h \in TurnsAt(msgs) : h > j}) = Len(s) - k
      BY <1>7, <3>2
    <3> QED
      BY <3>3, <3>4
  <2> QED
    BY <2>1, <2>2
<1> QED
  BY <1>2, <1>6, <1>7, <1>8 DEF Found, s, Turns

\* The scan finds every turn, whatever half turns are between them.
LEMMA AllFound ==
    ASSUME NEW R, NEW msgs \in Seq(R), NEW i \in Nat \ {0}
    PROVE  Found(msgs, i)
<1> DEFINE Bad == {k \in Nat : \E h \in Nat \ {0} : h + k >= Len(msgs) /\ ~ Found(msgs, h)}
<1>1. Len(msgs) \in Nat
  OBVIOUS
<1> SUFFICES ASSUME ~ Found(msgs, i) PROVE FALSE
  OBVIOUS
<1>2. Len(msgs) \in Bad
  BY <1>1
<1>3. PICK k \in Bad : \A j \in Nat : j < k => j \notin Bad
  <2>1. Bad \in SUBSET Nat
    OBVIOUS
  <2> HIDE DEF Bad
  <2> QED
    BY <1>2, <2>1, LeastExists
<1>4. PICK h \in Nat \ {0} : h + k >= Len(msgs) /\ ~ Found(msgs, h)
  OBVIOUS
<1>5. h < Len(msgs)
  BY <1>1, <1>4, NothingAtTheEnd
<1>6. k - 1 \in Nat /\ k - 1 < k
  BY <1>1, <1>4, <1>5
<1>7. Found(msgs, h + 1) /\ Found(msgs, h + 2)
  <2>1. h + 1 \in Nat \ {0} /\ (h + 1) + (k - 1) >= Len(msgs)
    BY <1>1, <1>4
  <2>2. h + 2 \in Nat \ {0} /\ (h + 2) + (k - 1) >= Len(msgs)
    BY <1>1, <1>4
  <2> QED
    BY <1>3, <1>6, <2>1, <2>2
<1> HIDE DEF Bad
<1> QED
  BY <1>4, <1>5, <1>7, SkippedAlone, TakenOnce

----------------------------------------------------------------------------
(* The history.                                                            *)

\* load_session's docstring: the newest maxTurns turns, oldest first, each once and
\* none skipped.
LEMMA HistoryFacts ==
    ASSUME NEW R, NEW msgs \in Seq(R), NEW n \in Nat \ {0}
    PROVE  LET history == HistoryOf(msgs, n)
               all == Cardinality(TurnsAt(msgs))
           IN  /\ history \in Seq({TurnOf(msgs, j) : j \in TurnsAt(msgs)})
               /\ Len(history) = IF all > n THEN n ELSE all
               /\ \A k \in 1 .. Len(history) : \E i \in TurnsAt(msgs) :
                    /\ history[k] = TurnOf(msgs, i)
                    /\ Cardinality({j \in TurnsAt(msgs) : j > i}) = Len(history) - k
<1> DEFINE Turns == {TurnOf(msgs, j) : j \in TurnsAt(msgs)}
           s == Scan(msgs)[1]
           first == IF Len(s) > n THEN Len(s) - n + 1 ELSE 1
           history == SubSeq(s, first, Len(s))
<1>1. TurnsSince(msgs, 1) = TurnsAt(msgs)
  BY DEF TurnsSince, TurnsAt
<1>2. Found(msgs, 1)
  BY AllFound
<1>3. HistoryOf(msgs, n) = history
  BY DEF HistoryOf, LastN, TurnsFrom
<1>4. s \in Seq(Turns) /\ Len(s) = Cardinality(TurnsAt(msgs)) /\ Len(s) \in Nat
  BY <1>1, <1>2 DEF Found
<1> HIDE DEF s, Turns
<1>5. /\ history \in Seq(Turns)
      /\ Len(history) = IF Len(s) > n THEN n ELSE Len(s)
      /\ first \in Nat /\ Len(history) = Len(s) - first + 1
      /\ \A k \in 1 .. Len(history) :
            first + k - 1 \in 1 .. Len(s) /\ history[k] = s[first + k - 1]
  BY <1>4
<1> HIDE DEF first, history
<1>6. ASSUME NEW k \in 1 .. Len(history)
      PROVE  \E i \in TurnsAt(msgs) :
                 /\ history[k] = TurnOf(msgs, i)
                 /\ Cardinality({j \in TurnsAt(msgs) : j > i}) = Len(history) - k
  <2>1. first + k - 1 \in 1 .. Len(s) /\ history[k] = s[first + k - 1]
    BY <1>5
  <2>2. PICK i \in TurnsAt(msgs) :
          /\ s[first + k - 1] = TurnOf(msgs, i)
          /\ Cardinality({j \in TurnsAt(msgs) : j > i}) = Len(s) - (first + k - 1)
    BY <1>1, <1>2, <2>1 DEF Found, s
  <2>3. Len(s) - (first + k - 1) = Len(history) - k
    BY <1>4, <1>5
  <2> QED
    BY <2>1, <2>2, <2>3
<1> QED
  BY <1>3, <1>4, <1>5, <1>6 DEF Turns

\* What is read of a thread are rows of it.
LEMMA RecentAreRows ==
    ASSUME NEW R, NEW msgs \in Seq(R), NEW limit \in Nat
    PROVE  Recent(msgs, limit) \in Seq(R)
<1>1. Len(msgs) \in Nat
  OBVIOUS
<1> DEFINE first == IF Len(msgs) > limit THEN Len(msgs) - limit + 1 ELSE 1
<1>2. first \in 1 .. Len(msgs) + 1
  BY <1>1
<1> HIDE DEF first
<1>3. SubSeq(msgs, first, Len(msgs)) \in Seq(R)
  BY <1>1, <1>2
<1> QED
  BY <1>3 DEF Recent, first

\* They are the last rows of it, in their order.
LEMMA RecentAreLast ==
    ASSUME NEW R, NEW msgs \in Seq(R), NEW limit \in Nat
    PROVE  \E k \in Nat : \A j \in 1 .. Len(Recent(msgs, limit)) :
              k + j \in 1 .. Len(msgs) /\ Recent(msgs, limit)[j] = msgs[k + j]
<1>1. Len(msgs) \in Nat
  OBVIOUS
<1> DEFINE first == IF Len(msgs) > limit THEN Len(msgs) - limit + 1 ELSE 1
<1>2. first \in 1 .. Len(msgs) + 1 /\ first - 1 \in Nat
  BY <1>1
<1> HIDE DEF first
<1>3. \A j \in 1 .. Len(SubSeq(msgs, first, Len(msgs))) :
         /\ (first - 1) + j \in 1 .. Len(msgs)
         /\ SubSeq(msgs, first, Len(msgs))[j] = msgs[(first - 1) + j]
  BY <1>1, <1>2
<1> QED
  BY <1>2, <1>3 DEF Recent, first
=============================================================================
