------------------------ MODULE WsConnectionProofs -------------------------
(***************************************************************************)
(* Proofs about WsConnection, for any set of asks and ids and any limit.   *)
(***************************************************************************)
EXTENDS WsConnection, FiniteSetTheorems, TLAPS

----------------------------------------------------------------------------
(* What the operations of ConnectionManager do to the table.               *)

\* Remove(k) frees the slot of k and leaves the others alone.
LEMMA RemoveFacts ==
    ASSUME NEW k
    PROVE  /\ DOMAIN Remove(k) = DOMAIN active \ {k}
           /\ \A j \in DOMAIN active \ {k} : Remove(k)[j] = active[j]
BY DEF Remove, Restrict

\* A table that keeps some of its slots is finite and within the limit.
LEMMA FewerSlots ==
    ASSUME IInv, NEW S, S \subseteq DOMAIN active
    PROVE  IsFiniteSet(S) /\ Cardinality(S) <= MaxConcurrent
<1>1. IsFiniteSet(DOMAIN active) /\ Cardinality(DOMAIN active) <= MaxConcurrent
  BY DEF IInv, TypeOK, SlotsKnowTheirIds
<1>2. IsFiniteSet(S) /\ Cardinality(S) <= Cardinality(DOMAIN active)
  BY <1>1, FS_Subset
<1>3. Cardinality(S) \in Nat /\ Cardinality(DOMAIN active) \in Nat
  BY <1>1, <1>2, FS_CardinalityType
<1> QED
  BY <1>1, <1>2, <1>3, MaxConcurrentNat

\* The table after an Add under the limit.
LEMMA AddFacts ==
    ASSUME IInv, CanAccept, NEW k, NEW a
    PROVE  /\ DOMAIN Add(k, a) = DOMAIN active \cup {k}
           /\ Add(k, a)[k] = a
           /\ \A j \in DOMAIN active \ {k} : Add(k, a)[j] = active[j]
           /\ IsFiniteSet(DOMAIN Add(k, a))
           /\ Cardinality(DOMAIN Add(k, a)) <= MaxConcurrent
<1>1. /\ DOMAIN Add(k, a) = DOMAIN active \cup {k}
      /\ Add(k, a)[k] = a
      /\ \A j \in DOMAIN active \ {k} : Add(k, a)[j] = active[j]
  BY DEF Add
<1>2. IsFiniteSet(DOMAIN active) /\ Cardinality(DOMAIN active) < MaxConcurrent
  BY DEF IInv, SlotsKnowTheirIds, CanAccept
<1>3. /\ IsFiniteSet(DOMAIN active \cup {k})
      /\ Cardinality(DOMAIN active \cup {k}) <= Cardinality(DOMAIN active) + 1
  <2>1. Cardinality(DOMAIN active) \in Nat
    BY <1>2, FS_CardinalityType
  <2> QED
    BY <1>2, <2>1, FS_AddElement
<1>4. Cardinality(DOMAIN active) \in Nat /\ Cardinality(DOMAIN active \cup {k}) \in Nat
  BY <1>2, <1>3, FS_CardinalityType
<1> QED
  BY <1>1, <1>2, <1>3, <1>4, MaxConcurrentNat

\* With distinct ids each task that is served holds a slot of its own, and
\* there are at most MaxConcurrent slots.
LEMMA ServingWithinLimit ==
    ASSUME IInv, DistinctIds
    PROVE  WithinLimit
<1> DEFINE slot == [a \in Serving |-> id[a]]
<1>1. \A a \in Serving : id[a] \in DOMAIN active /\ active[id[a]] = a
  BY DEF IInv, Tracked
<1>2. slot \in Injection(Serving, DOMAIN active)
  <2>1. slot \in [Serving -> DOMAIN active]
    BY <1>1
  <2>2. \A a, b \in Serving : slot[a] = slot[b] => a = b
    BY <1>1
  <2> QED
    BY <2>1, <2>2 DEF Injection, IsInjective
<1>3. IsFiniteSet(DOMAIN active) /\ Cardinality(DOMAIN active) <= MaxConcurrent
  BY DEF IInv, TypeOK, SlotsKnowTheirIds
<1>4. IsFiniteSet(Serving) /\ Cardinality(Serving) <= Cardinality(DOMAIN active)
  BY <1>2, <1>3, FS_Injection
<1>5. Cardinality(Serving) \in Nat /\ Cardinality(DOMAIN active) \in Nat
  BY <1>3, <1>4, FS_CardinalityType
<1> QED
  BY <1>3, <1>4, <1>5, MaxConcurrentNat DEF WithinLimit

----------------------------------------------------------------------------
(* The invariant is established and kept.                                  *)

\* The table of a new connection is empty.
LEMMA InitEstablishes == Init => IInv
<1> SUFFICES ASSUME Init PROVE IInv
  OBVIOUS
<1> USE DEF Init
<1>1. DOMAIN active = {} /\ IsFiniteSet({}) /\ Cardinality({}) = 0
  BY FS_EmptySet
<1>2. TypeOK
  BY <1>1, MaxConcurrentNat DEF TypeOK, Keys
<1>3. Accepted = {} /\ Serving = {}
  BY DEF Accepted, Serving, Live
<1> QED
  BY <1>1, <1>2, <1>3 DEF IInv, SlotsHeldByLiveTasks, SlotsKnowTheirIds,
                          CancelledHaveNoSlot, Tracked

\* Ids that are distinct after a step were distinct before it, if the step
\* keeps the ids of the accepted asks.
LEMMA DistinctBefore ==
    ASSUME Accepted \subseteq Accepted', \A a \in Accepted : id'[a] = id[a],
           DistinctIds'
    PROVE  DistinctIds
BY DEF DistinctIds

\* A new task gets the slot of its key, which no other task with distinct ids
\* can lose.
LEMMA AskKeeps ==
    ASSUME IInv, NEW a \in Asks, NEW k \in Keys, Ask(a, k)
    PROVE  IInv'
<1> USE DEF Ask
<1>1. /\ DOMAIN active' = DOMAIN active \cup {k}
      /\ active'[k] = a
      /\ \A j \in DOMAIN active \ {k} : active'[j] = active[j]
      /\ IsFiniteSet(DOMAIN active')
      /\ Cardinality(DOMAIN active') <= MaxConcurrent
  <2> DEFINE after == Add(k, a)
  <2>1. CanAccept /\ active' = after
    OBVIOUS
  <2>2. /\ DOMAIN after = DOMAIN active \cup {k}
        /\ after[k] = a
        /\ \A j \in DOMAIN active \ {k} : after[j] = active[j]
        /\ IsFiniteSet(DOMAIN after)
        /\ Cardinality(DOMAIN after) <= MaxConcurrent
    BY <2>1, AddFacts
  <2> HIDE DEF after
  <2> QED
    BY <2>1, <2>2
<1>2. /\ task' = [task EXCEPT ![a] = "created"]
      /\ id' = [id EXCEPT ![a] = k]
      /\ task[a] = "unsent"
      /\ task \in [Asks -> {"unsent", "refused", "ended"} \cup Live]
      /\ id \in [Asks -> Keys]
  BY DEF IInv, TypeOK
<1>3. TypeOK'
  BY <1>1, <1>2 DEF IInv, TypeOK, Live
<1>4. a \notin Accepted /\ Accepted' = Accepted \cup {a}
  BY <1>2 DEF Accepted, Live
<1>5. SlotsHeldByLiveTasks'
  BY <1>1, <1>2 DEF IInv, TypeOK, SlotsHeldByLiveTasks, Live
<1>6. SlotsKnowTheirIds'
  <2>1. ASSUME NEW j \in DOMAIN active'
        PROVE  active'[j] \in Accepted' /\ id'[active'[j]] = j
    <3>1. CASE j = k
      BY <3>1, <1>1, <1>2, <1>4
    <3>2. CASE j # k
      <4>1. j \in DOMAIN active /\ active'[j] = active[j]
        BY <3>2, <1>1
      <4>2. active[j] \in Accepted /\ id[active[j]] = j /\ active[j] \in Asks
        BY <4>1 DEF IInv, SlotsKnowTheirIds, Accepted
      <4> QED
        BY <4>1, <4>2, <1>2, <1>4
    <3> QED
      BY <3>1, <3>2
  <2> QED
    BY <1>1, <2>1 DEF SlotsKnowTheirIds
<1>7. Tracked'
  <2> SUFFICES ASSUME DistinctIds', NEW b \in Serving'
               PROVE  id'[b] \in DOMAIN active' /\ active'[id'[b]] = b
    BY DEF Tracked
  <2>1. DistinctIds
    BY <1>2, <1>4, DistinctBefore DEF Accepted
  <2>2. CASE b = a
    BY <2>2, <1>1, <1>2
  <2>3. CASE b # a
    <3>1. b \in Serving /\ b \in Accepted /\ id'[b] = id[b]
      BY <2>3, <1>2 DEF Serving, Accepted, Live
    <3>2. id[b] \in DOMAIN active /\ active[id[b]] = b
      BY <2>1, <3>1 DEF IInv, Tracked
    <3>3. id[b] # k
      <4>1. a \in Accepted' /\ b \in Accepted'
        BY <1>4, <3>1
      <4> QED
        BY <4>1, <2>3, <3>1, <1>2 DEF DistinctIds
    <3> QED
      BY <3>1, <3>2, <3>3, <1>1
  <2> QED
    BY <2>2, <2>3
<1>8. CancelledHaveNoSlot'
  <2>1. cancelled' = cancelled /\ cancelled \subseteq Accepted
    BY DEF IInv, CancelledHaveNoSlot
  <2> QED
    BY <2>1, <1>1, <1>4 DEF IInv, CancelledHaveNoSlot
<1> QED
  BY <1>3, <1>5, <1>6, <1>7, <1>8 DEF IInv

\* A refused ask has no task and no slot.
LEMMA RefuseKeeps ==
    ASSUME IInv, NEW a \in Asks, NEW k \in Keys, Refuse(a, k)
    PROVE  IInv'
<1> USE DEF Refuse
<1>1. /\ task' = [task EXCEPT ![a] = "refused"]
      /\ id' = [id EXCEPT ![a] = k]
      /\ task[a] = "unsent"
      /\ task \in [Asks -> {"unsent", "refused", "ended"} \cup Live]
      /\ id \in [Asks -> Keys]
      /\ UNCHANGED <<loop, active, cancelling, cancelled>>
  BY DEF IInv, TypeOK
<1>2. TypeOK'
  BY <1>1 DEF IInv, TypeOK, Live
<1>3. Accepted' = Accepted /\ a \notin Accepted /\ Serving' = Serving
  BY <1>1 DEF Accepted, Serving, Live
<1>4. \A b \in Accepted : id'[b] = id[b]
  BY <1>1, <1>3
<1>5. SlotsHeldByLiveTasks'
  BY <1>1 DEF IInv, TypeOK, SlotsHeldByLiveTasks, Live
<1>6. SlotsKnowTheirIds'
  BY <1>1, <1>3, <1>4 DEF IInv, SlotsKnowTheirIds
<1>7. Tracked'
  <2>1. DistinctIds' => DistinctIds
    BY <1>3, <1>4, DistinctBefore
  <2>2. Serving \subseteq Accepted
    BY DEF Serving, Accepted
  <2> QED
    BY <2>1, <2>2, <1>1, <1>3, <1>4 DEF IInv, Tracked
<1>8. CancelledHaveNoSlot'
  BY <1>1, <1>3 DEF IInv, CancelledHaveNoSlot
<1> QED
  BY <1>2, <1>5, <1>6, <1>7, <1>8 DEF IInv

\* A cancel frame frees the slot of a task that is then served no longer.
LEMMA CancelKeeps ==
    ASSUME IInv, NEW k \in Keys, Cancel(k)
    PROVE  IInv'
<1> USE DEF Cancel
<1>1. /\ DOMAIN active' = DOMAIN active \ {k}
      /\ \A j \in DOMAIN active \ {k} : active'[j] = active[j]
      /\ k \in DOMAIN active
      /\ UNCHANGED <<loop, id, task>>
  BY RemoveFacts
<1>2. IsFiniteSet(DOMAIN active') /\ Cardinality(DOMAIN active') <= MaxConcurrent
  BY <1>1, FewerSlots
<1>3. /\ cancelled \subseteq cancelled'
      /\ cancelling' \subseteq cancelled' /\ cancelled' \subseteq Asks
      /\ task[active[k]] \in Live => active[k] \in cancelled'
  BY <1>1 DEF CancelTasks, IInv, TypeOK
<1>4. TypeOK'
  BY <1>1, <1>2, <1>3 DEF IInv, TypeOK
<1>5. SlotsHeldByLiveTasks'
  BY <1>1 DEF IInv, SlotsHeldByLiveTasks
<1>6. Accepted' = Accepted
  BY <1>1 DEF Accepted
<1>7. SlotsKnowTheirIds'
  BY <1>1, <1>2, <1>6 DEF IInv, SlotsKnowTheirIds
<1>8. Tracked'
  <2> SUFFICES ASSUME DistinctIds', NEW b \in Serving'
               PROVE  id'[b] \in DOMAIN active' /\ active'[id'[b]] = b
    BY DEF Tracked
  <2>1. b \in Serving /\ task[b] \in Live /\ b \notin cancelled'
    BY <1>1, <1>3 DEF Serving
  <2>2. id[b] \in DOMAIN active /\ active[id[b]] = b
    BY <2>1, <1>1, <1>6, DistinctBefore DEF IInv, Tracked
  <2>3. id[b] # k
    BY <2>1, <2>2, <1>3
  <2> QED
    BY <2>2, <2>3, <1>1
<1>9. CancelledHaveNoSlot'
  <2>1. cancelled' \subseteq cancelled \cup {active[k]} /\ active[k] \in Accepted
    BY <1>1 DEF CancelTasks, IInv, SlotsKnowTheirIds
  <2>2. \A j \in DOMAIN active' : active'[j] # active[k]
    BY <1>1 DEF IInv, SlotsKnowTheirIds
  <2> QED
    BY <2>1, <2>2, <1>1, <1>6 DEF IInv, CancelledHaveNoSlot
<1> QED
  BY <1>4, <1>5, <1>7, <1>8, <1>9 DEF IInv

\* When the loop is left every task of the table is cancelled.
LEMMA LeaveKeeps ==
    ASSUME IInv, Leave
    PROVE  IInv'
<1> USE DEF Leave
<1>1. DOMAIN active' = {} /\ loop' = "left" /\ UNCHANGED <<id, task>>
  BY DEF Restrict
<1>2. IsFiniteSet(DOMAIN active') /\ Cardinality(DOMAIN active') <= MaxConcurrent
  BY <1>1, FewerSlots
<1>3. /\ cancelling' \subseteq cancelled' /\ cancelled' \subseteq Asks
      /\ cancelled \subseteq cancelled'
      /\ \A j \in DOMAIN active : task[active[j]] \in Live => active[j] \in cancelled'
  BY DEF CancelTasks, Range, IInv, TypeOK
<1>4. TypeOK'
  BY <1>1, <1>2, <1>3 DEF IInv, TypeOK
<1>5. SlotsHeldByLiveTasks' /\ SlotsKnowTheirIds'
  BY <1>1, <1>2 DEF SlotsHeldByLiveTasks, SlotsKnowTheirIds
<1>6. Tracked'
  <2> SUFFICES ASSUME DistinctIds', NEW b \in Serving'
               PROVE  FALSE
    BY DEF Tracked
  <2>1. b \in Serving /\ task[b] \in Live /\ b \notin cancelled'
    BY <1>1, <1>3 DEF Serving
  <2>2. Accepted' = Accepted /\ id' = id
    BY <1>1 DEF Accepted
  <2>3. id[b] \in DOMAIN active /\ active[id[b]] = b
    BY <2>1, <2>2, DistinctBefore DEF IInv, Tracked
  <2> QED
    BY <2>1, <2>3, <1>3
<1>7. CancelledHaveNoSlot'
  <2>1. cancelled' \subseteq cancelled \cup Range(active)
    BY DEF CancelTasks
  <2>2. Range(active) \subseteq Accepted /\ Accepted' = Accepted
    BY <1>1 DEF Range, Accepted, IInv, SlotsKnowTheirIds
  <2> QED
    BY <2>1, <2>2, <1>1 DEF IInv, CancelledHaveNoSlot
<1> QED
  BY <1>4, <1>5, <1>6, <1>7 DEF IInv

\* A task that ends gives back the slot of its id, whoever holds it by then.
LEMMA EndsKeeps ==
    ASSUME IInv, NEW a \in Asks, task[a] = "running", Ends(a),
           cancelling' \subseteq cancelling
    PROVE  IInv'
<1> USE DEF Ends
<1>1. /\ task' = [task EXCEPT ![a] = "ended"]
      /\ task \in [Asks -> {"unsent", "refused", "ended"} \cup Live]
      /\ UNCHANGED <<loop, id, cancelled>>
  BY DEF IInv, TypeOK
<1>2. /\ DOMAIN active' = DOMAIN active \ ({id[a]} \cap Ids)
      /\ \A j \in DOMAIN active' : active'[j] = active[j]
  <2>1. id[a] \in Keys
    BY DEF IInv, TypeOK
  <2>2. CASE id[a] = NoId
    BY <2>2, NoIdIsNone
  <2>3. CASE id[a] # NoId
    BY <2>1, <2>3, RemoveFacts DEF Keys
  <2> QED
    BY <2>2, <2>3
<1>3. IsFiniteSet(DOMAIN active') /\ Cardinality(DOMAIN active') <= MaxConcurrent
  BY <1>2, FewerSlots
<1>4. TypeOK'
  BY <1>1, <1>2, <1>3 DEF IInv, TypeOK
<1>5. Accepted' = Accepted /\ Serving' = Serving \ {a}
  BY <1>1 DEF Accepted, Serving, Live
<1>6. SlotsHeldByLiveTasks'
  <2> SUFFICES ASSUME NEW j \in DOMAIN active' \ {NoId}
               PROVE  task'[active'[j]] \in Live
    BY DEF SlotsHeldByLiveTasks
  <2>1. j \in DOMAIN active /\ active'[j] = active[j] /\ j \in Ids
    BY <1>2 DEF IInv, TypeOK, Keys
  <2>2. id[active[j]] = j /\ task[active[j]] \in Live /\ active[j] \in Asks
    BY <2>1 DEF IInv, TypeOK, SlotsKnowTheirIds, SlotsHeldByLiveTasks
  <2>3. active[j] # a
    BY <2>1, <2>2, <1>2
  <2> QED
    BY <2>1, <2>2, <2>3, <1>1
<1>7. SlotsKnowTheirIds'
  BY <1>1, <1>2, <1>3, <1>5 DEF IInv, SlotsKnowTheirIds
<1>8. Tracked'
  <2> SUFFICES ASSUME DistinctIds', NEW b \in Serving'
               PROVE  id'[b] \in DOMAIN active' /\ active'[id'[b]] = b
    BY DEF Tracked
  <2>1. DistinctIds
    BY <1>1, <1>5, DistinctBefore
  <2>2. b \in Serving /\ b # a
    BY <1>5
  <2>3. a \in Accepted /\ b \in Accepted
    BY <2>2, <1>1 DEF Accepted, Serving, Live
  <2>4. id[b] # id[a]
    BY <2>1, <2>2, <2>3 DEF DistinctIds
  <2>5. id[b] \in DOMAIN active /\ active[id[b]] = b
    BY <2>1, <2>2 DEF IInv, Tracked
  <2> QED
    BY <2>4, <2>5, <1>1, <1>2
<1>9. CancelledHaveNoSlot'
  BY <1>1, <1>2, <1>5 DEF IInv, CancelledHaveNoSlot
<1> QED
  BY <1>4, <1>6, <1>7, <1>8, <1>9 DEF IInv

\* A task that starts keeps its slot.
LEMMA StartKeeps ==
    ASSUME IInv, NEW a \in Asks, Start(a)
    PROVE  IInv'
<1>1. /\ task' = [task EXCEPT ![a] = "running"]
      /\ task[a] = "created"
      /\ task \in [Asks -> {"unsent", "refused", "ended"} \cup Live]
      /\ UNCHANGED <<loop, active, id, cancelling, cancelled>>
  BY DEF Start, IInv, TypeOK
<1>2. TypeOK'
  BY <1>1 DEF IInv, TypeOK, Live
<1>3. Accepted' = Accepted /\ Serving' = Serving
  BY <1>1 DEF Accepted, Serving, Live
<1>4. DistinctIds' <=> DistinctIds
  BY <1>1, <1>3 DEF DistinctIds
<1>5. SlotsHeldByLiveTasks'
  BY <1>1 DEF IInv, TypeOK, SlotsHeldByLiveTasks, Live
<1> QED
  BY <1>1, <1>2, <1>3, <1>4, <1>5 DEF IInv, SlotsKnowTheirIds, CancelledHaveNoSlot,
                                         Tracked

\* A task that was cancelled before its first step has no slot to give back.
LEMMA DropUnstartedKeeps ==
    ASSUME IInv, NEW a \in Asks, DropUnstarted(a)
    PROVE  IInv'
<1>1. /\ task' = [task EXCEPT ![a] = "ended"]
      /\ cancelling' = cancelling \ {a}
      /\ task[a] = "created" /\ a \in cancelled
      /\ task \in [Asks -> {"unsent", "refused", "ended"} \cup Live]
      /\ UNCHANGED <<loop, active, id, cancelled>>
  BY DEF DropUnstarted, IInv, TypeOK
<1>2. TypeOK'
  BY <1>1 DEF IInv, TypeOK
<1>3. Accepted' = Accepted /\ Serving' = Serving
  BY <1>1 DEF Accepted, Serving, Live
<1>4. DistinctIds' <=> DistinctIds
  BY <1>1, <1>3 DEF DistinctIds
<1>5. SlotsHeldByLiveTasks'
  <2>1. \A k \in DOMAIN active : active[k] # a
    BY <1>1 DEF IInv, CancelledHaveNoSlot
  <2> QED
    BY <2>1, <1>1 DEF IInv, TypeOK, SlotsHeldByLiveTasks
<1> QED
  BY <1>1, <1>2, <1>3, <1>4, <1>5 DEF IInv, SlotsKnowTheirIds, CancelledHaveNoSlot,
                                      Tracked

\* A delivered cancel that is caught leaves everything but `cancelling` alone.
LEMMA CaughtKeeps ==
    ASSUME IInv, cancelling' \subseteq cancelling,
           UNCHANGED <<loop, active, id, task, cancelled>>
    PROVE  IInv'
<1>1. Accepted' = Accepted /\ Serving' = Serving
  BY DEF Accepted, Serving
<1>2. DistinctIds' <=> DistinctIds
  BY <1>1 DEF DistinctIds
<1> QED
  BY <1>1, <1>2 DEF IInv, TypeOK, SlotsHeldByLiveTasks, SlotsKnowTheirIds,
                    CancelledHaveNoSlot, Tracked

\* The handshake: the table is empty before and after it.
LEMMA HandshakeKeeps ==
    ASSUME IInv, Handshake
    PROVE  IInv'
<1> USE DEF Handshake
<1>1. loop' \in {"receive", "left"} /\ UNCHANGED <<active, id, task, cancelling, cancelled>>
  OBVIOUS
<1>2. DOMAIN active' = {}
  BY <1>1 DEF IInv, SlotsKnowTheirIds
<1>3. TypeOK'
  BY <1>1 DEF IInv, TypeOK
<1>4. SlotsHeldByLiveTasks' /\ CancelledHaveNoSlot' /\ Tracked'
  BY <1>1 DEF IInv, SlotsHeldByLiveTasks, CancelledHaveNoSlot, Tracked, DistinctIds,
              Serving, Accepted
<1>5. SlotsKnowTheirIds'
  BY <1>1, <1>2 DEF IInv, SlotsKnowTheirIds, Accepted
<1> QED
  BY <1>3, <1>4, <1>5 DEF IInv

\* The heartbeat timeout only moves the loop on.
LEMMA TimeoutKeeps ==
    ASSUME IInv, Timeout
    PROVE  IInv'
<1>1. loop' = "closing" /\ UNCHANGED <<active, id, task, cancelling, cancelled>>
  BY DEF Timeout
<1>2. Accepted' = Accepted /\ Serving' = Serving
  BY <1>1 DEF Accepted, Serving
<1>3. DistinctIds' <=> DistinctIds
  BY <1>1, <1>2 DEF DistinctIds
<1> QED
  BY <1>1, <1>2, <1>3 DEF IInv, TypeOK, SlotsHeldByLiveTasks, SlotsKnowTheirIds,
                          CancelledHaveNoSlot, Tracked

\* No step of the loop or of a task breaks the invariant.
LEMMA NextKeeps == IInv /\ [Next]_vars => IInv'
<1> SUFFICES ASSUME IInv, [Next]_vars PROVE IInv'
  OBVIOUS
<1>1. ASSUME NEW a \in Asks, NEW k \in Keys, Ask(a, k) \/ Refuse(a, k)
      PROVE  IInv'
  BY <1>1, AskKeeps, RefuseKeeps
<1>2. ASSUME NEW k \in Keys, Cancel(k) PROVE IInv'
  BY <1>2, CancelKeeps
<1>3. CASE Timeout
  BY <1>3, TimeoutKeeps
<1>4. CASE Leave
  BY <1>4, LeaveKeeps
<1>5. ASSUME NEW a \in Asks, TaskStep(a) PROVE IInv'
  <2>1. CASE Start(a)
    BY <2>1, StartKeeps
  <2>2. CASE Finish(a)
    <3>1. task[a] = "running" /\ Ends(a) /\ cancelling' \subseteq cancelling
      BY <2>2 DEF Finish
    <3> QED
      BY <3>1, EndsKeeps
  <2>3. CASE DeliverCancel(a)
    <3>1. task[a] = "running" /\ cancelling' \subseteq cancelling
      BY <2>3 DEF DeliverCancel
    <3>2. CASE Ends(a)
      BY <3>1, <3>2, EndsKeeps
    <3>3. CASE UNCHANGED <<loop, active, id, task, cancelled>>
      BY <3>1, <3>3, CaughtKeeps
    <3> QED
      BY <2>3, <3>2, <3>3 DEF DeliverCancel
  <2>4. CASE DropUnstarted(a)
    BY <2>4, DropUnstartedKeeps
  <2> QED
    BY <1>5, <2>1, <2>2, <2>3, <2>4 DEF TaskStep
<1>6. CASE Handshake
  BY <1>6, HandshakeKeeps
<1>7. CASE UNCHANGED vars
  BY <1>7, CaughtKeeps DEF vars
<1> QED
  BY <1>1, <1>2, <1>3, <1>4, <1>5, <1>6, <1>7 DEF Next

----------------------------------------------------------------------------
(* What a connection guarantees.                                           *)

\* The invariant holds in every reachable state.
THEOREM InductiveInvariant == Spec => []IInv
BY InitEstablishes, NextKeeps, PTL DEF Spec

\* The connection, its slots and its tasks keep their types in every state.
THEOREM TypeCorrect == Spec => []TypeOK
<1>1. IInv => TypeOK
  BY DEF IInv
<1> QED
  BY <1>1, InductiveInvariant, PTL

\* A slot taken under a request_id is never lost, whatever the client sends.
THEOREM NoSlotIsLost == Spec => []SlotsHeldByLiveTasks
<1>1. IInv => SlotsHeldByLiveTasks
  BY DEF IInv
<1> QED
  BY <1>1, InductiveInvariant, PTL

\* The limit of concurrent asks holds for a client whose ids are distinct.
THEOREM LimitHolds == Spec => []DistinctIdsWithinLimit
<1>1. IInv => DistinctIdsWithinLimit
  BY ServingWithinLimit DEF DistinctIdsWithinLimit
<1> QED
  BY <1>1, InductiveInvariant, PTL

\* A connection that is over leaves no task of such a client uncancelled.
THEOREM NoneIsLeft == Spec => []DistinctIdsNoneLeft
<1>1. IInv => DistinctIdsNoneLeft
  BY DEF IInv, Tracked, SlotsKnowTheirIds, DistinctIdsNoneLeft, NoneLeftServing
<1> QED
  BY <1>1, InductiveInvariant, PTL
=============================================================================
