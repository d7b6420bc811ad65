--------------------------- MODULE FairnessProofs ---------------------------
(* Theorems about FairnessScheduler, for every value of its constants. *)
EXTENDS FairnessScheduler, TLAPS, SequenceTheorems, FiniteSetTheorems

\* Rewriting the entries of a sequence in their places keeps it a sequence
LEMMA PlaceWise ==
  ASSUME NEW X, NEW s \in Seq(X), NEW t,
         t = [i \in 1 .. Len(s) |-> t[i]], \A i \in 1 .. Len(s) : t[i] \in X
  PROVE  t \in Seq(X) /\ Len(t) = Len(s)
<1>1. Len(s) \in Nat /\ t \in [1 .. Len(s) -> X]
  OBVIOUS
<1> QED
  BY <1>1

LEMMA Removal ==
  ASSUME NEW X, NEW s \in Seq(X), NEW i \in 1 .. Len(s)
  PROVE  /\ SubSeq(s, 1, i - 1) \o SubSeq(s, i + 1, Len(s)) \in Seq(X)
         /\ Len(SubSeq(s, 1, i - 1) \o SubSeq(s, i + 1, Len(s))) = Len(s) - 1
<1>1. /\ SubSeq(s, 1, i - 1) \in Seq(X) /\ Len(SubSeq(s, 1, i - 1)) = i - 1
      /\ SubSeq(s, i + 1, Len(s)) \in Seq(X)
      /\ Len(SubSeq(s, i + 1, Len(s))) = Len(s) - i
  BY SubSeqProperties
<1> DEFINE a == SubSeq(s, 1, i - 1)
           b == SubSeq(s, i + 1, Len(s))
<1>2. a \o b \in Seq(X) /\ Len(a \o b) = Len(a) + Len(b)
  BY <1>1, ConcatProperties
<1>3. Len(s) \in Nat /\ i \in Nat /\ 1 =< i /\ i =< Len(s)
  OBVIOUS
<1>4. (i - 1) + (Len(s) - i) = Len(s) - 1
  BY <1>3
<1> QED
  BY <1>1, <1>2, <1>4

LEMMA TurnSize ==
  ASSUME queue \in Seq(Entry), NEW S \in SUBSET Due
  PROVE  Cardinality(S) \in Nat
<1>1. IsFiniteSet(1 .. Len(queue))
  BY FS_Interval
<1>2. S \subseteq 1 .. Len(queue)
  BY DEF Due, Places
<1> QED
  BY <1>1, <1>2, FS_Subset, FS_CardinalityType

\* A batch leases the rows of S and changes nothing else of the table
LEMMA BatchLeases ==
  ASSUME queue \in Seq(Entry), NEW S \in SUBSET Due,
         queue' = [i \in Places |-> IF i \in S THEN [queue[i] EXCEPT !.leased = TRUE]
                                               ELSE queue[i]]
  PROVE  /\ queue' \in Seq(Entry) /\ Len(queue') = Len(queue)
         /\ \A i \in Due : queue'[i].leased <=> i \in S
<1>1. \A i \in 1 .. Len(queue) : queue[i] \in Entry
  OBVIOUS
<1>2. ASSUME NEW i \in 1 .. Len(queue)
      PROVE  queue'[i] \in Entry /\ (i \in Due => (queue'[i].leased <=> i \in S))
  BY <1>1, <1>2 DEF Entry, Due, Places
<1>3. queue' = [i \in 1 .. Len(queue) |-> queue'[i]]
  BY DEF Places
<1>4. queue' \in Seq(Entry) /\ Len(queue') = Len(queue)
  BY <1>2, <1>3, PlaceWise
<1> QED
  BY <1>2, <1>4 DEF Due, Places

-----------------------------------------------------------------------------
LEMMA Numbers ==
  /\ \A desc \in BOOLEAN : Limit(desc) \in Nat /\ 0 < Limit(desc)
  /\ Ages \in Nat /\ MaxReturns \in Nat
<1>1. HighBatch \in Nat \ {0} /\ LowBatch \in Nat \ {0}
  BY SchedulerAssumption DEF SchedulerAssumption
<1>2. Ages \in Nat /\ MaxReturns \in Nat
  BY SchedulerAssumption DEF SchedulerAssumption
<1>3. ASSUME NEW desc \in BOOLEAN PROVE Limit(desc) \in Nat /\ 0 < Limit(desc)
  <2>1. Limit(desc) \in {HighBatch, LowBatch}
    BY DEF Limit
  <2> QED
    BY <1>1, <2>1
<1> QED
  BY <1>2, <1>3

LEMMA SchedulerTypeInit == Init => TypeOK
<1> SUFFICES ASSUME Init PROVE TypeOK
  OBVIOUS
<1>1. TRUE \in BOOLEAN /\ FALSE \in BOOLEAN
  OBVIOUS
<1>2. 0 < Limit(TRUE)
  BY <1>1, Numbers
<1>3. queue \in Seq(Entry)
  BY EmptySeq DEF Init
<1>4. sinceFlip \in Nat /\ sinceFlip < Limit(descending)
  BY <1>2 DEF Init
<1>5. descending \in BOOLEAN /\ followed \in BOOLEAN
  BY <1>1 DEF Init
<1> QED
  BY <1>3, <1>4, <1>5 DEF TypeOK

LEMMA AlternateType ==
  ASSUME TypeOK, NEW n \in Nat, Alternate(n)
  PROVE  /\ descending' \in BOOLEAN
         /\ sinceFlip' \in Nat /\ sinceFlip' < Limit(descending')
<1>1. CASE sinceFlip + n >= Limit(descending)
  <2>1. sinceFlip' = 0 /\ descending' = ~descending
    BY <1>1 DEF Alternate
  <2>2. descending' \in BOOLEAN
    BY <2>1
  <2> QED
    BY <2>1, <2>2, Numbers
<1>2. CASE ~(sinceFlip + n >= Limit(descending))
  <2>1. sinceFlip' = sinceFlip + n /\ descending' = descending
    BY <1>2 DEF Alternate
  <2>2. descending \in BOOLEAN /\ Limit(descending) \in Nat /\ sinceFlip \in Nat
    BY Numbers DEF TypeOK
  <2>3. sinceFlip + n \in Nat /\ sinceFlip + n < Limit(descending)
    BY <1>2, <2>2
  <2> QED
    BY <2>1, <2>2, <2>3
<1> QED
  BY <1>1, <1>2

LEMMA NextBatchType ==
  ASSUME TypeOK, NEW n, NextBatch(n)
  PROVE  TypeOK'
<1>1. PICK S \in SUBSET Due :
        /\ queue' = [i \in Places |-> IF i \in S THEN [queue[i] EXCEPT !.leased = TRUE]
                                                 ELSE queue[i]]
        /\ Alternate(Cardinality(S)) /\ UNCHANGED followed
  BY DEF NextBatch
<1>2. queue' \in Seq(Entry)
  BY <1>1, BatchLeases DEF TypeOK
<1>3. Cardinality(S) \in Nat
  BY TurnSize DEF TypeOK
<1> QED
  BY <1>1, <1>2, <1>3, AlternateType DEF TypeOK

\* Growing older or coming back rewrites one entry and leases nothing
LEMMA Rewritten ==
  TypeOK => \A i \in Places : Grow(i) \/ GiveBack(i) =>
    \E e \in Entry : queue' = [queue EXCEPT ![i] = e] /\ (e.leased => queue[i].leased)
<1> SUFFICES ASSUME TypeOK, NEW i \in Places, Grow(i) \/ GiveBack(i)
             PROVE  \E e \in Entry : queue' = [queue EXCEPT ![i] = e]
                                      /\ (e.leased => queue[i].leased)
  OBVIOUS
<1>1. queue \in Seq(Entry) /\ i \in 1 .. Len(queue)
  BY DEF TypeOK, Places
<1>2. queue[i] \in Entry
  BY <1>1
<1>3. Ages \in Nat /\ MaxReturns \in Nat
  BY Numbers
<1>4. CASE Grow(i)
  <2> DEFINE e == [queue[i] EXCEPT !.age = @ + 1]
  <2>1. queue[i].age \in 0 .. Ages /\ queue[i].age < Ages
    BY <1>2, <1>4 DEF Grow, Entry
  <2>2. queue[i].age + 1 \in 0 .. Ages
    BY <1>3, <2>1
  <2>3. e \in Entry /\ e.leased = queue[i].leased
    BY <1>2, <2>2 DEF Entry
  <2>4. queue' = [queue EXCEPT ![i] = e]
    BY <1>4 DEF Grow
  <2> QED
    BY <2>3, <2>4
<1>5. CASE GiveBack(i)
  <2> DEFINE e == [queue[i] EXCEPT !.leased = FALSE, !.returns = @ + 1]
  <2>1. queue[i].returns \in 0 .. MaxReturns /\ queue[i].returns < MaxReturns
    BY <1>2, <1>5 DEF GiveBack, Entry
  <2>2. queue[i].returns + 1 \in 0 .. MaxReturns
    BY <1>3, <2>1
  <2>3. e \in Entry /\ e.leased = FALSE
    BY <1>2, <2>2 DEF Entry
  <2>4. queue' = [queue EXCEPT ![i] = e]
    BY <1>1, <1>2, <1>5 DEF GiveBack, Entry
  <2> QED
    BY <2>3, <2>4
<1> QED
  BY <1>4, <1>5

LEMMA SchedulerTypeNext == TypeOK /\ [Next]_svars => TypeOK'
<1> SUFFICES ASSUME TypeOK, [Next]_svars PROVE TypeOK'
  OBVIOUS
<1>1. CASE PollDequeue \/ Refill
  BY <1>1, NextBatchType DEF PollDequeue, Refill
<1>2. ASSUME NEW k \in Kinds, NEW m \in BOOLEAN, Enqueue(k, m) PROVE TypeOK'
  <2>1. [kind |-> k, age |-> 0, leased |-> FALSE, returns |-> 0, marked |-> m] \in Entry
    BY Numbers DEF Entry
  <2> QED
    BY <1>2, <2>1 DEF Enqueue, TypeOK
<1>3. ASSUME NEW i \in Places, Grow(i) \/ GiveBack(i) PROVE TypeOK'
  <2>1. PICK e \in Entry : queue' = [queue EXCEPT ![i] = e]
    BY <1>3, Rewritten
  <2>2. queue' \in Seq(Entry)
    BY <2>1, ExceptSeq DEF Places, TypeOK
  <2> QED
    BY <1>3, <2>2 DEF Grow, GiveBack, TypeOK
<1>4. ASSUME NEW i \in Places, Finish(i) PROVE TypeOK'
  <2>1. queue' \in Seq(Entry)
    BY <1>4, Removal DEF Finish, Places, TypeOK
  <2> QED
    BY <1>4, <2>1 DEF Finish, TypeOK
<1>5. CASE UNCHANGED svars
  BY <1>5 DEF svars, TypeOK
<1> QED
  BY <1>1, <1>2, <1>3, <1>4, <1>5 DEF Next

\* The scheduler's state stays in its types, and a turn always has room left:
\* items_since_flip is below the limit of the present direction.
THEOREM SchedulerTypes == Spec => []TypeOK
BY SchedulerTypeInit, SchedulerTypeNext, PTL DEF Spec

-----------------------------------------------------------------------------
LEMMA NothingTaken ==
  ASSUME TypeOK,
         \/ \E k \in Kinds, m \in BOOLEAN : Enqueue(k, m)
         \/ \E i \in Places : Grow(i) \/ Finish(i) \/ GiveBack(i)
         \/ UNCHANGED svars
  PROVE  Taken = {}
<1>1. CASE \E k \in Kinds, m \in BOOLEAN : Enqueue(k, m)
  BY <1>1 DEF Enqueue, Taken, TypeOK
<1>2. ASSUME NEW i \in Places, Grow(i) \/ GiveBack(i) PROVE Taken = {}
  <2>1. PICK e \in Entry : queue' = [queue EXCEPT ![i] = e] /\ (e.leased => queue[i].leased)
    BY <1>2, Rewritten
  <2>2. \A j \in 1 .. Len(queue) : queue'[j] = IF j = i THEN e ELSE queue[j]
    BY <2>1, ExceptSeq DEF Places, TypeOK
  <2>3. \A j \in Due : ~queue'[j].leased
    BY <2>1, <2>2 DEF Due, Places
  <2> QED
    BY <2>3 DEF Taken
<1>3. ASSUME NEW i \in Places, Finish(i) PROVE Taken = {}
  <2>1. queue \in Seq(Entry) /\ i \in 1 .. Len(queue)
    BY DEF TypeOK, Places
  <2>2. Len(queue') = Len(queue) - 1
    BY <1>3, <2>1, Removal DEF Finish
  <2>3. Len(queue) \in Nat
    BY <2>1
  <2> QED
    BY <2>2, <2>3 DEF Taken
<1>4. CASE UNCHANGED svars
  BY <1>4 DEF svars, Taken, Due
<1> QED
  BY <1>1, <1>2, <1>3, <1>4

LEMMA BatchTakesDeletes ==
  ASSUME TypeOK, NEW n, NextBatch(n),
         NEW i \in Taken, NEW j \in Due \ Taken, queue[j].kind.urgent
  PROVE  queue[i].kind.urgent
<1>1. PICK S \in SUBSET Due :
        /\ First(S, n, descending)
        /\ queue' = [p \in Places |-> IF p \in S THEN [queue[p] EXCEPT !.leased = TRUE]
                                                 ELSE queue[p]]
  BY DEF NextBatch
<1>2. Len(queue') = Len(queue) /\ \A p \in Due : queue'[p].leased <=> p \in S
  BY <1>1, BatchLeases DEF TypeOK
<1>3. i \in S /\ j \in Due \ S
  BY <1>2 DEF Taken
<1>4. Before(i, j, descending)
  BY <1>1, <1>3 DEF First
<1>5. queue[i] \in Entry /\ queue[j] \in Entry
  BY DEF TypeOK, Taken, Due, Places
<1>6. queue[i].kind.urgent \in BOOLEAN /\ queue[j].kind.urgent \in BOOLEAN
  BY <1>5, SchedulerAssumption DEF Entry, SchedulerAssumption, Kind
<1> QED
  BY <1>4, <1>6 DEF Before

\* Whatever the kinds of items, the batch sizes and the direction of the pass,
\* no dequeue leases an item while a delete that is due is left behind.
THEOREM DeletesFirst == Spec => DeletesComeFirst
<1> DEFINE A == \A i \in Taken, j \in Due \ Taken :
                  queue[j].kind.urgent => queue[i].kind.urgent
<1>1. TypeOK /\ [Next]_svars => A
  <2> SUFFICES ASSUME TypeOK, [Next]_svars PROVE A
    OBVIOUS
  <2>1. CASE PollDequeue \/ Refill
    BY <2>1, BatchTakesDeletes DEF PollDequeue, Refill
  <2>2. CASE ~(PollDequeue \/ Refill)
    BY <2>2, NothingTaken DEF Next
  <2> QED
    BY <2>1, <2>2
<1>2. TypeOK /\ [Next]_svars => [A]_svars
  BY <1>1
<1> QED
  BY <1>2, SchedulerTypes, PTL DEF Spec, DeletesComeFirst
=============================================================================
