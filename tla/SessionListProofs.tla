------------------------- MODULE SessionListProofs --------------------------
(***************************************************************************)
(* Proofs about SessionList, for any sessions, owners, topics, limits, lag *)
(* and clock: what a reader of all pages can miss and what it sees twice.  *)
(***************************************************************************)
EXTENDS SessionList, FiniteSetTheorems, TLAPS

----------------------------------------------------------------------------
(* Smallest elements.                                                      *)

\* Every set of numbers has a smallest one, and Min is it.
LEMMA MinIsLeast ==
    ASSUME NEW S \in SUBSET Nat, S # {}
    PROVE  Min(S) \in S /\ \A x \in S : Min(S) <= x
<1> DEFINE R == {ss \in Nat \X Nat : ss[1] < ss[2]}
<1>1. IsWellFoundedOn(R, Nat)
  BY NatLessThanWellFounded, Zenon DEF OpToRel
<1>2. PICK n \in S : \A x \in S : <<x, n>> \notin R
  <2> HIDE DEF R
  <2> QED
    BY <1>1, WFMin
<1>3. ASSUME NEW x \in S PROVE n <= x
  <2>1. x \in Nat /\ n \in Nat /\ <<x, n>> \in Nat \X Nat
    OBVIOUS
  <2>2. ~ (x < n)
    BY <1>2, <2>1
  <2> QED
    BY <2>1, <2>2
<1> QED
  BY <1>3 DEF Min

----------------------------------------------------------------------------
(* The inductive invariant.                                                *)

\* Values the reader's variables take.
ReaderOK ==
    /\ request.limit \in Nat \ {0}
    /\ seen \in [Sessions -> 0 .. 2]
    /\ \A s \in DOMAIN row : row[s] \in [created : Nat, last : Nat]
    /\ \A s \in Sessions : seen[s] > 0 => s \in DOMAIN row
    /\ reading = "no" => before = 0 /\ used = {} /\ \A s \in Sessions : seen[s] = 0
    /\ reading = "pages" => before # 0

\* What was shown and did not move is not on the pages that are left.
ShownIsBehind ==
    reading = "pages" =>
        \A s \in DOMAIN row : seen[s] > 0 /\ s \notin fresh => row[s].last >= before

\* What was not shown and did not move is on the pages that are left, or was
\* missed for a reason.
UnshownIsAhead ==
    reading = "pages" =>
        \A s \in DOMAIN row :
            InScope(s) /\ seen[s] = 0 /\ s \notin fresh
            => row[s].last = 0 \/ row[s].last \in used \/ row[s].last \in 1 .. before - 1

IInv == TypeOK /\ ReaderOK /\ ShownIsBehind /\ UnshownIsAhead /\ MissesOnlyMoving

\* At first there is no session, and nothing was read.
LEMMA InitEstablishes == Init => IInv
<1> SUFFICES ASSUME Init PROVE IInv
  OBVIOUS
<1>1. DOMAIN row = {}
  BY DEF Init
<1>2. request.limit \in Nat \ {0}
  BY LimitsPositive DEF Init
<1> QED
  BY <1>1, <1>2, MaxTimePositive
     DEF Init, IInv, TypeOK, ReaderOK, ShownIsBehind, UnshownIsAhead, MissesOnlyMoving

\* A session that is created or touched becomes fresh, and nothing else moves.
LEMMA MovingKeeps ==
    ASSUME IInv, NEW s \in Sessions, NEW r, Put(s, r), fresh' = fresh \cup {s},
           UNCHANGED <<clock, readerVars>>,
           r \in [created : 1 .. clock, last : 0 .. clock]
    PROVE  IInv'
<1>1. DOMAIN row' = DOMAIN row \cup {s} /\ row'[s] = r
  BY DEF Put
<1>2. \A t \in DOMAIN row : t # s => row'[t] = row[t]
  BY DEF Put
<1>3. \A t \in Sessions : InScope(t)' <=> InScope(t)
  BY DEF InScope, readerVars
<1>4. clock \in Nat /\ s \in fresh'
  BY DEF IInv, TypeOK
<1>5. r.created \in 1 .. clock /\ r.last \in 0 .. clock /\ r \in [created : Nat, last : Nat]
  BY <1>4
<1>6. ASSUME NEW t \in DOMAIN row'
      PROVE  /\ t \in Sessions /\ row'[t] \in [created : Nat, last : Nat]
             /\ row'[t].last \in 0 .. clock /\ row'[t].created \in 1 .. clock
             /\ seen[t] > 0 /\ t = s => s \in DOMAIN row
  <2>1. CASE t = s
    BY <1>1, <1>5, <2>1 DEF IInv, ReaderOK
  <2>2. CASE t # s
    BY <1>1, <1>2, <2>2 DEF IInv, TypeOK, ReaderOK
  <2> QED
    BY <2>1, <2>2
<1>7. TypeOK'
  <2>1. ASSUME NEW t \in DOMAIN row', seen'[t] > 0 PROVE InScope(t)'
    <3>1. t \in Sessions /\ t \in DOMAIN row
      BY <1>1, <1>6, <2>1 DEF IInv, ReaderOK, readerVars
    <3> QED
      BY <1>3, <2>1, <3>1 DEF IInv, TypeOK, readerVars
  <2> QED
    BY <1>1, <1>6, <2>1 DEF IInv, TypeOK, readerVars
<1>8. ReaderOK'
  BY <1>1, <1>6 DEF IInv, ReaderOK, readerVars
<1>9. ASSUME NEW t \in DOMAIN row', t \notin fresh' PROVE t \in DOMAIN row /\ row'[t] = row[t]
  BY <1>1, <1>2, <1>9
<1>10. ShownIsBehind'
  BY <1>9 DEF IInv, ShownIsBehind, readerVars
<1>11. UnshownIsAhead' /\ MissesOnlyMoving'
  BY <1>3, <1>6, <1>9 DEF IInv, UnshownIsAhead, MissesOnlyMoving, readerVars
<1> QED
  BY <1>7, <1>8, <1>10, <1>11 DEF IInv

\* Time alone moves nothing.
LEMMA TickKeeps == IInv /\ Tick => IInv'
<1> SUFFICES ASSUME IInv, Tick PROVE IInv'
  OBVIOUS
<1>1. clock \in 1 .. MaxTime /\ clock' \in 1 .. MaxTime /\ clock' = clock + 1
  BY MaxTimePositive DEF IInv, TypeOK, Tick
<1>2. \A n : (n \in 0 .. clock => n \in 0 .. clock') /\ (n \in 1 .. clock => n \in 1 .. clock')
  BY <1>1, MaxTimePositive
<1>3. \A t : InScope(t)' <=> InScope(t)
  BY DEF InScope, Tick, readerVars
<1>4. TypeOK'
  BY <1>1, <1>2, <1>3 DEF IInv, TypeOK, Tick, readerVars
<1> QED
  BY <1>3, <1>4 DEF IInv, ReaderOK, ShownIsBehind, UnshownIsAhead, MissesOnlyMoving, Tick, readerVars

----------------------------------------------------------------------------
(* Reading a page.                                                         *)

\* What a page is: rows in scope and older than the last one; when it is not full it
\* is all of them, and no row that is left out is newer than one that is in it.
LEMMA WhatAPageIs ==
    ASSUME IInv, NEW page, IsPage(page)
    PROVE  /\ page \subseteq Matching /\ IsFiniteSet(page)
           /\ Cardinality(page) \in Nat
           /\ Cardinality(page) < request.limit => page = Matching
           /\ \A s \in page, t \in Matching \ page : row[t].last <= row[s].last
<1>1. IsFiniteSet(Matching) /\ Matching \subseteq DOMAIN row /\ page \subseteq Matching
  BY SessionsFinite, FS_Subset DEF IInv, TypeOK, Matching, IsPage
<1>2. IsFiniteSet(page) /\ Cardinality(page) \in Nat /\ Cardinality(Matching) \in Nat
  BY <1>1, FS_Subset, FS_CardinalityType
<1>3. ASSUME Cardinality(page) < request.limit PROVE page = Matching
  <2>1. {request.limit, Cardinality(Matching)} \in SUBSET Nat
    BY <1>2 DEF IInv, ReaderOK
  <2>2. Cardinality(page) \in {request.limit, Cardinality(Matching)}
    BY <2>1, MinIsLeast DEF IsPage
  <2>3. Cardinality(page) = Cardinality(Matching)
    BY <1>2, <1>3, <2>2 DEF IInv, ReaderOK
  <2> QED
    BY <1>1, <2>3, FS_Subset
<1>4. ASSUME NEW s \in page, NEW t \in Matching \ page PROVE row[t].last <= row[s].last
  <2>1. row[s].last \in Nat /\ row[t].last \in Nat
    BY <1>1 DEF IInv, ReaderOK
  <2>2. ~ (row[t].last > row[s].last)
    BY DEF IsPage, Precedes
  <2> QED
    BY <2>1, <2>2
<1> QED
  BY <1>1, <1>2, <1>3, <1>4

\* Where the next page begins: at the oldest row of the page, which is older than
\* where this page began.
LEMMA WhereNextBegins ==
    ASSUME IInv, NEW page, IsPage(page), reading # "done",
           Cardinality(page) >= request.limit, 0 \notin {row[s].last : s \in page}
    PROVE  LET oldest == Min({row[s].last : s \in page})
           IN  /\ \E s \in page : row[s].last = oldest
               /\ \A s \in page : oldest <= row[s].last
               /\ oldest \in 1 .. clock
               /\ reading = "pages" => oldest < before
<1> DEFINE times == {row[s].last : s \in page}
           oldest == Min(times)
<1>1. page \subseteq Matching /\ Cardinality(page) \in Nat
  BY WhatAPageIs
<1>2. page # {}
  <2>1. ASSUME page = {} PROVE FALSE
    <3>1. Cardinality(page) = 0
      BY <2>1, FS_EmptySet
    <3> QED
      BY <3>1 DEF IInv, ReaderOK
  <2> QED
    BY <2>1
<1>3. clock \in Nat /\ before \in Nat
  BY DEF IInv, TypeOK
<1>4. \A s \in page : row[s].last \in 0 .. clock
  BY <1>1 DEF IInv, TypeOK, Matching
<1>5. times \in SUBSET Nat /\ times # {}
  BY <1>2, <1>3, <1>4
<1>6. oldest \in times /\ \A n \in times : oldest <= n
  BY <1>5, MinIsLeast
<1>7. PICK s \in page : row[s].last = oldest
  BY <1>6
<1>8. oldest \in 1 .. clock
  BY <1>3, <1>4, <1>6, <1>7
<1>9. ASSUME reading = "pages" PROVE oldest < before
  <2>1. Older(s, before) /\ before # 0
    BY <1>1, <1>7, <1>9 DEF Matching, IInv, ReaderOK
  <2> QED
    BY <1>3, <1>7, <1>8, <2>1 DEF Older
<1> HIDE DEF oldest
<1> QED
  BY <1>6, <1>7, <1>8, <1>9 DEF oldest

\* What is shown counts once more, up to two; the rest counts as before.
LEMMA WhatReadShows ==
    ASSUME IInv, NEW page, Read(page)
    PROVE  /\ page \subseteq DOMAIN row /\ seen' \in [Sessions -> 0 .. 2]
           /\ \A s \in page : seen'[s] > 0 /\ InScope(s)
           /\ \A s \in Sessions \ page : seen'[s] = seen[s]
           /\ fresh' \cap page = {} /\ fresh' \subseteq fresh
           /\ reading = "pages" => fresh' = fresh \ page
           /\ \A s : InScope(s)' <=> InScope(s)
<1>1. \A s \in Sessions : Min({2, seen[s] + 1}) \in 1 .. 2
  <2>1. TAKE s \in Sessions
  <2>2. seen[s] + 1 \in Nat \ {0} /\ {2, seen[s] + 1} \in SUBSET Nat
    BY DEF IInv, ReaderOK
  <2>3. Min({2, seen[s] + 1}) \in {2, seen[s] + 1} /\ Min({2, seen[s] + 1}) <= 2
    BY <2>2, MinIsLeast
  <2> QED
    BY <2>2, <2>3
<1>2. page \subseteq DOMAIN row /\ \A s \in page : InScope(s)
  BY DEF Read, IsPage, Matching
<1>3. page \subseteq Sessions
  BY <1>2 DEF IInv, TypeOK
<1>4. \A s \in Sessions : seen'[s] = IF s \in page THEN Min({2, seen[s] + 1}) ELSE seen[s]
  BY DEF Read
<1>5. seen' \in [Sessions -> 0 .. 2]
  <2>1. \A s \in Sessions : (IF s \in page THEN Min({2, seen[s] + 1}) ELSE seen[s]) \in 0 .. 2
    BY <1>1 DEF IInv, ReaderOK
  <2> QED
    BY <2>1 DEF Read
<1>6. \A s : InScope(s)' <=> InScope(s)
  BY DEF InScope, Read
<1>7. /\ fresh' \cap page = {} /\ fresh' \subseteq fresh
      /\ reading = "pages" => fresh' = fresh \ page
  BY DEF Read
<1>8. ASSUME NEW s \in page PROVE seen'[s] > 0 /\ InScope(s)
  <2>1. seen'[s] \in 1 .. 2
    BY <1>1, <1>3, <1>4
  <2> QED
    BY <1>2, <2>1
<1>9. \A s \in Sessions \ page : seen'[s] = seen[s]
  BY <1>4
<1> QED
  BY <1>2, <1>5, <1>6, <1>7, <1>8, <1>9

\* A session that is in scope, was not shown and did not move is on this page, or
\* it would be on the next.
LEMMA UnshownMatches ==
    ASSUME IInv, NEW page, Read(page), NEW s \in DOMAIN row,
           InScope(s), seen'[s] = 0, s \notin fresh',
           row[s].last # 0, row[s].last \notin used
    PROVE  s \in Matching \ page
<1>1. s \notin page /\ seen[s] = 0
  BY WhatReadShows DEF IInv, TypeOK
<1>2. reading \in {"no", "pages"}
  BY DEF Read, IInv, TypeOK
<1>3. CASE reading = "no"
  BY <1>1, <1>3 DEF IInv, ReaderOK, Matching, Older
<1>4. CASE reading = "pages"
  <2>1. s \notin fresh
    BY <1>1, <1>4, WhatReadShows
  <2> QED
    BY <1>1, <1>4, <2>1 DEF IInv, UnshownIsAhead, Matching, Older
<1> QED
  BY <1>2, <1>3, <1>4

\* The last page: nothing that matches is left out, or only what has no answer yet.
LEMMA LastPageKeeps ==
    ASSUME IInv, NEW page, Read(page),
           Cardinality(page) < request.limit \/ 0 \in {row[s].last : s \in page}
    PROVE  IInv'
<1>1. IsPage(page) /\ reading' = "done" /\ UNCHANGED <<clock, row, request, before, used>>
  BY DEF Read
<1>2. TypeOK'
  <2>1. ASSUME NEW s \in DOMAIN row, seen'[s] > 0 PROVE InScope(s)
    BY <2>1, WhatReadShows DEF IInv, TypeOK
  <2> QED
    BY <1>1, <2>1, WhatReadShows DEF IInv, TypeOK
<1>3. ReaderOK'
  BY <1>1, WhatReadShows DEF IInv, ReaderOK, TypeOK
<1>4. MissesOnlyMoving'
  <2> SUFFICES ASSUME NEW s \in DOMAIN row, InScope(s), seen'[s] = 0, s \notin fresh',
                      row[s].last # 0, row[s].last \notin used
               PROVE  FALSE
    BY <1>1, WhatReadShows DEF MissesOnlyMoving
  <2>1. s \in Matching \ page
    BY UnshownMatches
  <2>2. PICK t \in page : row[t].last = 0
    BY <1>1, <2>1, WhatAPageIs
  <2>3. row[s].last <= 0 /\ row[s].last \in Nat
    BY <1>1, <2>1, <2>2, WhatAPageIs DEF IInv, ReaderOK
  <2> QED
    BY <2>3
<1> QED
  BY <1>1, <1>2, <1>3, <1>4 DEF IInv, ShownIsBehind, UnshownIsAhead

\* A page after which there are more.
LEMMA FullPageKeeps ==
    ASSUME IInv, NEW page, Read(page),
           ~ (Cardinality(page) < request.limit \/ 0 \in {row[s].last : s \in page})
    PROVE  IInv'
<1>1. /\ IsPage(page) /\ reading # "done" /\ reading' = "pages"
      /\ UNCHANGED <<clock, row, request>>
      /\ before' = Min({row[s].last : s \in page}) /\ used' = used \cup {before'}
  BY DEF Read
<1>2. Cardinality(page) >= request.limit
  BY <1>1, WhatAPageIs DEF IInv, ReaderOK
<1>3. /\ \E s \in page : row[s].last = before'
      /\ \A s \in page : before' <= row[s].last
      /\ before' \in 1 .. clock
      /\ reading = "pages" => before' < before
  BY <1>1, <1>2, WhereNextBegins
<1>4. TypeOK'
  <2>1. ASSUME NEW s \in DOMAIN row, seen'[s] > 0 PROVE InScope(s)
    BY <2>1, WhatReadShows DEF IInv, TypeOK
  <2> QED
    BY <1>1, <1>3, <2>1, WhatReadShows DEF IInv, TypeOK
<1>5. ReaderOK'
  BY <1>1, <1>3, WhatReadShows DEF IInv, ReaderOK, TypeOK
<1>6. \A s \in DOMAIN row : row[s].last \in Nat
  BY DEF IInv, ReaderOK
<1>7. clock \in Nat /\ before \in Nat
  BY DEF IInv, TypeOK
<1>8. ShownIsBehind'
  <2> SUFFICES ASSUME NEW s \in DOMAIN row, seen'[s] > 0, s \notin fresh'
               PROVE  row[s].last >= before'
    BY <1>1 DEF ShownIsBehind
  <2>1. CASE s \in page
    BY <1>3, <1>6, <1>7, <2>1
  <2>2. CASE s \notin page
    <3>1. seen[s] > 0 /\ s \in Sessions
      BY <2>2, WhatReadShows DEF IInv, TypeOK
    <3>2. reading = "pages"
      BY <1>1, <3>1 DEF IInv, ReaderOK, TypeOK
    <3>3. s \notin fresh
      BY <2>2, <3>2, WhatReadShows
    <3> QED
      BY <1>3, <1>6, <1>7, <3>1, <3>2, <3>3 DEF IInv, ShownIsBehind
  <2> QED
    BY <2>1, <2>2
<1>9. UnshownIsAhead'
  <2> SUFFICES ASSUME NEW s \in DOMAIN row, InScope(s), seen'[s] = 0, s \notin fresh',
                      row[s].last # 0, row[s].last \notin used'
               PROVE  row[s].last \in 1 .. before' - 1
    BY <1>1, WhatReadShows DEF UnshownIsAhead
  <2>1. s \in Matching \ page
    BY <1>1, UnshownMatches
  <2>2. PICK t \in page : row[t].last = before'
    BY <1>3
  <2>3. row[s].last <= before' /\ row[s].last # before'
    BY <1>1, <2>1, <2>2, WhatAPageIs
  <2> QED
    BY <1>3, <1>6, <1>7, <2>3
<1> QED
  BY <1>1, <1>4, <1>5, <1>8, <1>9 DEF IInv, MissesOnlyMoving

\* Every step keeps the invariant.
LEMMA StepKeeps == IInv /\ [Next]_vars => IInv'
<1> SUFFICES ASSUME IInv, [Next]_vars PROVE IInv'
  OBVIOUS
<1>1. CASE Tick
  BY <1>1, TickKeeps
<1>2. ASSUME NEW s \in Sessions, Create(s) PROVE IInv'
  <2>1. [created |-> clock, last |-> 0] \in [created : 1 .. clock, last : 0 .. clock]
    BY DEF IInv, TypeOK
  <2> QED
    BY <1>2, <2>1, MovingKeeps DEF Create
<1>3. ASSUME NEW s \in Sessions, NEW now \in 1 .. clock, Touch(s, now) PROVE IInv'
  <2>1. row[s].created \in 1 .. clock /\ row[s] \in [created : Nat, last : Nat] /\ clock \in Nat
    BY <1>3 DEF IInv, TypeOK, ReaderOK, Touch
  <2>2. [row[s] EXCEPT !.last = now] \in [created : 1 .. clock, last : 0 .. clock]
    BY <2>1
  <2> QED
    BY <1>3, <2>2, MovingKeeps DEF Touch
<1>4. ASSUME NEW page, Read(page) PROVE IInv'
  BY <1>4, LastPageKeeps, FullPageKeeps
<1>5. CASE UNCHANGED vars
  <2>1. \A s : InScope(s)' <=> InScope(s)
    BY <1>5 DEF vars, InScope
  <2> QED
    BY <1>5, <2>1
       DEF vars, IInv, TypeOK, ReaderOK, ShownIsBehind, UnshownIsAhead, MissesOnlyMoving
<1> QED
  BY <1>1, <1>2, <1>3, <1>4, <1>5 DEF Next, ReadPage

\* The invariant holds in every reachable state.
THEOREM Invariance == Spec => []IInv
BY InitEstablishes, StepKeeps, PTL DEF Spec

----------------------------------------------------------------------------
(* The theorems.                                                           *)

\* list_by_user: the variables keep their types, and no page shows a session of
\* another user or of a topic that was not asked for.
THEOREM TypeCorrect == Spec => []TypeOK
<1>1. IInv => TypeOK
  BY DEF IInv
<1> QED
  BY Invariance, <1>1, PTL

\* A client that reads all pages misses only sessions that moved while it read, that
\* have no answer yet, or that share their time with the end of a page.
THEOREM ReaderMissesOnlyMoving == Spec => []MissesOnlyMoving
<1>1. IInv => MissesOnlyMoving
  BY DEF IInv
<1> QED
  BY Invariance, <1>1, PTL

\* A client that reads all pages sees a session on a second page only if the session
\* was touched after the first.
THEOREM ReaderListsOnce == Spec => ListedOnce
<1> DEFINE Once == \A s \in Sessions : seen'[s] > 1 /\ seen'[s] # seen[s] => s \in fresh
<1>1. ASSUME IInv, Next PROVE Once
  <2> SUFFICES ASSUME NEW s \in Sessions, seen'[s] > 1, seen'[s] # seen[s], s \notin fresh
               PROVE  FALSE
    OBVIOUS
  <2>1. PICK page : Read(page)
    BY <1>1 DEF Next, ReadPage, Tick, Create, Touch, readerVars
  <2>2. s \in page /\ s \in Matching
    BY <1>1, <2>1, WhatReadShows DEF Read, IsPage
  <2>3. seen[s] > 0
    <3>1. seen'[s] = Min({2, seen[s] + 1}) /\ seen[s] \in Nat /\ {2, seen[s] + 1} \in SUBSET Nat
      BY <1>1, <2>1, <2>2 DEF Read, IInv, ReaderOK
    <3>2. Min({2, seen[s] + 1}) \in Nat /\ Min({2, seen[s] + 1}) <= seen[s] + 1
      BY <3>1, MinIsLeast
    <3> QED
      BY <3>1, <3>2
  <2>4. reading = "pages"
    BY <1>1, <2>1, <2>3 DEF Read, IInv, TypeOK, ReaderOK
  <2>5. before \in Nat /\ row[s].last \in Nat /\ row[s].last >= before /\ before # 0
    BY <1>1, <2>2, <2>3, <2>4 DEF IInv, TypeOK, ReaderOK, ShownIsBehind, Matching
  <2> QED
    BY <2>2, <2>5 DEF Matching, Older
<1>2. IInv /\ [Next]_vars => [Once]_vars
  BY <1>1
<1> QED
  BY Invariance, <1>2, PTL DEF Spec, ListedOnce

\* Every page but the first begins before the one before it: reading cannot go in
\* a circle, however often sessions are touched meanwhile, and takes at most as
\* many pages as there are times.  It is the safety part of ReadingEnds.
PagesGoBack ==
    [][reading = "pages" /\ ReadPage => reading' = "done" \/ before' \in 1 .. before - 1]_vars

\* list_by_user: `last_message_at < before` makes the reader go back in time.
THEOREM ReadingGoesBack == Spec => PagesGoBack
<1> DEFINE Back == reading = "pages" /\ ReadPage => reading' = "done" \/ before' \in 1 .. before - 1
<1>1. ASSUME IInv, reading = "pages", NEW page, Read(page), reading' # "done"
      PROVE  before' \in 1 .. before - 1
  <2>1. /\ IsPage(page) /\ before' = Min({row[s].last : s \in page})
        /\ ~ (Cardinality(page) < request.limit) /\ 0 \notin {row[s].last : s \in page}
    BY <1>1 DEF Read
  <2>2. Cardinality(page) >= request.limit
    BY <1>1, <2>1, WhatAPageIs DEF IInv, ReaderOK
  <2>3. before' \in 1 .. clock /\ before' < before
    BY <1>1, <2>1, <2>2, WhereNextBegins
  <2> QED
    BY <1>1, <2>3 DEF IInv, TypeOK
<1>2. IInv /\ [Next]_vars => [Back]_vars
  BY <1>1 DEF ReadPage
<1> QED
  BY Invariance, <1>2, PTL DEF Spec, PagesGoBack
=============================================================================
