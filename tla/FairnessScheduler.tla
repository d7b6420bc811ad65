------------------------- MODULE FairnessScheduler --------------------------
(***************************************************************************)
(* The order in which rows of the unified queue are leased: the ORDER BY of *)
(* the dequeue query, and the fairness scheduler that flips its direction   *)
(* so that items of inactive projects get a turn.                           *)
(*                                                                         *)
(* Rows are kept in the order of their creation, so a place in the sequence *)
(* stands for created_at; the age of a row is the class the query puts it   *)
(* in.  A leased row stays in the table, and keeps its creation time when   *)
(* it is given back.                                                        *)
(***************************************************************************)
EXTENDS Naturals, Sequences, FiniteSets

CONSTANTS
  Kinds,          \* what a row is, as far as the query tells rows apart
  BatchSize,      \* config.batch_size, asked for by the poll loop
  MaxConcurrent,  \* config.max_concurrent_items, whose free slots are refilled
  HighBatch,      \* config.high_priority_batch
  LowBatch,       \* config.low_priority_batch
  Ages,           \* classes of the age promotion, 0 .. 2 in the query
  MaxReturns,     \* times a row comes back: its retries
  Cap             \* bound: rows in the table

\* urgent: delete and reset; registers: tenant/add; active: rules and active
\* projects; weight: the rest of the operations
Kind == [urgent : BOOLEAN, registers : BOOLEAN, active : BOOLEAN, weight : Nat]

ASSUME SchedulerAssumption ==
  /\ Kinds \subseteq Kind
  /\ BatchSize \in Nat \ {0} /\ MaxConcurrent \in Nat \ {0}
  /\ HighBatch \in Nat \ {0} /\ LowBatch \in Nat \ {0}
  /\ Ages \in Nat /\ MaxReturns \in Nat /\ Cap \in Nat

VARIABLES
  queue,       \* the rows
  descending,  \* AlternationState.use_priority_descending
  sinceFlip,   \* AlternationState.items_since_flip
  followed     \* history: was a row picked out to be followed?

svars == <<queue, descending, sinceFlip, followed>>

Entry == [kind : Kinds, age : 0 .. Ages, leased : BOOLEAN, returns : 0 .. MaxReturns,
          marked : BOOLEAN]

Places == 1 .. Len(queue)
Due    == {i \in Places : ~queue[i].leased}
Leases == {i \in Places : queue[i].leased}

Limit(desc) == IF desc THEN HighBatch ELSE LowBatch

TypeOK ==
  /\ queue \in Seq(Entry)
  /\ descending \in BOOLEAN
  /\ sinceFlip \in Nat /\ sinceFlip < Limit(descending)
  /\ followed \in BOOLEAN

Init ==
  /\ queue = <<>> /\ descending = TRUE /\ sinceFlip = 0 /\ followed = FALSE

-----------------------------------------------------------------------------
(* The ORDER BY of the dequeue query *)

Bit(b) == IF b THEN 1 ELSE 0

\* i comes before j where x(i) is greater, or smaller in the ascending pass
Ahead(x, y, desc) == IF desc THEN x > y ELSE x < y

\* Mutant: among equals the newest comes first in both directions
LifoMutant(i, j, desc) == i > j

\* created_at: first in, first out; last in, first out in the ascending pass
Earlier(i, j, desc) == Ahead(j, i, desc)

\* The order among rows that are urgent alike
Outranks(i, j, desc) ==
  LET a == queue[i]  b == queue[j] IN
  IF a.kind.registers # b.kind.registers THEN a.kind.registers
  ELSE IF a.age # b.age THEN Ahead(a.age, b.age, desc)
  ELSE IF a.kind.active # b.kind.active THEN a.kind.active = desc
  ELSE IF a.kind.weight # b.kind.weight THEN a.kind.weight > b.kind.weight
  ELSE Earlier(i, j, desc)

\* Mutant: a delete waits like any other row
BeforeMutant(i, j, desc) == Outranks(i, j, desc)

\* build_dequeue_query
Before(i, j, desc) ==
  IF queue[i].kind.urgent # queue[j].kind.urgent THEN queue[i].kind.urgent
                                                 ELSE Outranks(i, j, desc)

\* LIMIT n
First(S, n, desc) ==
  /\ S \subseteq Due
  /\ \A i \in S, j \in Due \ S : Before(i, j, desc)
  /\ Cardinality(S) = n \/ (S = Due /\ Cardinality(S) =< n)

-----------------------------------------------------------------------------
(* The scheduler *)

\* Mutant: one item too many before the flip
LateMutant(taken) ==
  LET n == sinceFlip + taken IN
  IF n > Limit(descending)
  THEN sinceFlip' = 0 /\ descending' = ~descending
  ELSE sinceFlip' = n /\ UNCHANGED descending

Alternate(taken) ==
  LET n == sinceFlip + taken IN
  IF n >= Limit(descending)
  THEN sinceFlip' = 0 /\ descending' = ~descending
  ELSE sinceFlip' = n /\ UNCHANGED descending

\* dequeue_next_batch: all that was asked for, whatever is left of the turn
NextBatch(wanted) ==
  \E S \in SUBSET Due :
    /\ First(S, wanted, descending) /\ S # {}
    /\ queue' = [i \in Places |-> IF i \in S THEN [queue[i] EXCEPT !.leased = TRUE]
                                             ELSE queue[i]]
    /\ Alternate(Cardinality(S))
    /\ UNCHANGED followed

\* The poll loop dequeues when the last batch has drained ...
PollDequeue == Leases = {} /\ NextBatch(BatchSize)

\* ... and refills the slots that are free while some item still runs
Refill == /\ Leases # {} /\ Cardinality(Leases) < MaxConcurrent
          /\ NextBatch(MaxConcurrent - Cardinality(Leases))

-----------------------------------------------------------------------------
(* The rows *)

Enqueue(k, marked) ==
  /\ Len(queue) < Cap /\ (marked => ~followed)
  /\ queue' = Append(queue, [kind |-> k, age |-> 0, leased |-> FALSE, returns |-> 0,
                              marked |-> marked])
  /\ followed' = (followed \/ marked)
  /\ UNCHANGED <<descending, sinceFlip>>

\* Time passes: a row crosses a threshold no later than those created after it
Grow(i) ==
  /\ queue[i].age < Ages
  /\ \A j \in 1 .. i - 1 : queue[j].age > queue[i].age
  /\ queue' = [queue EXCEPT ![i].age = @ + 1]
  /\ UNCHANGED <<descending, sinceFlip, followed>>

\* The item is done and its row deleted
Finish(i) ==
  /\ queue[i].leased
  /\ queue' = SubSeq(queue, 1, i - 1) \o SubSeq(queue, i + 1, Len(queue))
  /\ UNCHANGED <<descending, sinceFlip, followed>>

\* The item is given back, or its retry has become due
GiveBack(i) ==
  /\ queue[i].leased /\ queue[i].returns < MaxReturns
  /\ queue' = [queue EXCEPT ![i].leased = FALSE, ![i].returns = @ + 1]
  /\ UNCHANGED <<descending, sinceFlip, followed>>

Next ==
  \/ PollDequeue \/ Refill
  \/ \E k \in Kinds, m \in BOOLEAN : Enqueue(k, m)
  \/ \E i \in Places : Grow(i) \/ Finish(i) \/ GiveBack(i)

Spec == Init /\ [][Next]_svars

\* The loop polls, items end, time passes; nobody has to enqueue or give back
Fairness == /\ WF_svars(PollDequeue)
            /\ WF_svars(\E i \in Places : Finish(i))
            /\ WF_svars(\E i \in Places : Grow(i))

FairSpec == Spec /\ Fairness

-----------------------------------------------------------------------------
(* Properties *)

Taken == {i \in Due : Len(queue') = Len(queue) /\ queue'[i].leased}

\* "delete takes precedence over all other operations regardless of which
\* priority direction is active": no dequeue of either direction, for a batch
\* or for a free slot, passes over a delete.
DeletesComeFirst ==
  [][\A i \in Taken, j \in Due \ Taken :
       queue[j].kind.urgent => queue[i].kind.urgent]_svars

Plain    == {k \in Kinds : ~k.urgent /\ ~k.registers}
TopKinds == {k \in Plain : k.active /\ \A c \in Plain : c.weight =< k.weight}
Inactive == {k \in Plain : ~k.active}

\* The row that is followed is one of the kinds K and waits to be leased
Waits(K) == \E i \in Due : queue[i].marked /\ queue[i].kind \in K

\* An item of an active project whose operation no other outranks is leased in
\* the end, however many items keep arriving, as long as deletes and
\* registrations cease to.
TopIsServed ==
  <>[](\A i \in Due : queue[i].kind \in Plain)
    => (Waits(TopKinds) ~> ~Waits(TopKinds))

\* "Periodically, low priority (inactive projects/libraries) get a turn": items of
\* active projects that never cease to arrive do not keep the last item of an
\* inactive one from its turn.  The alternation gives it one where no age promotion
\* is in reach (Ages = 0).  With it, fresh items win the ascending pass and aged
\* items of active projects the descending one.
InactiveGetsATurn ==
  <>[](\A i \in Due : queue[i].kind \in Inactive => queue[i].marked)
    => (Waits(Inactive) ~> ~Waits(Inactive))
=============================================================================
