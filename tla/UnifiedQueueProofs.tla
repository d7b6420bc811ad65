------------------------- MODULE UnifiedQueueProofs -------------------------
(* Theorems about UnifiedQueue, for every value of its constants: types, owners, *)
(* side effects, and the count of retries.                                       *)
EXTENDS UnifiedQueue, TLAPS, SequenceTheorems

-----------------------------------------------------------------------------
(* The statements on a row, and the writes built from them *)

LEMMA RowStatements ==
  /\ NoRow \in Row /\ NewRow \in Row
  /\ \A r \in Row : /\ Leased(r) \in Row /\ Parked(r) \in Row
                    /\ Recovered(r) \in Row /\ AtStartup(r) \in Row
                    /\ Decided(r) \in Row /\ UserRetried(r) \in Row
                    /\ ExplicitlyMarked(r) \in Row /\ Resolved(r) \in Row
                    /\ [r EXCEPT !.lease = "past"] \in Row
<1> USE DEF Row, Status, Sink, Lease, Errors, NoRow
<1>1. NoRow \in Row /\ NewRow \in Row
  BY DEF NewRow
<1>2. ASSUME NEW r \in Row
      PROVE  /\ Leased(r) \in Row /\ Parked(r) \in Row
             /\ Recovered(r) \in Row /\ AtStartup(r) \in Row
             /\ Decided(r) \in Row /\ UserRetried(r) \in Row
             /\ ExplicitlyMarked(r) \in Row /\ Resolved(r) \in Row
             /\ [r EXCEPT !.lease = "past"] \in Row
  <2>1. Leased(r) \in Row /\ Parked(r) \in Row
    BY DEF Leased, Parked
  <2>2. Recovered(r) \in Row /\ AtStartup(r) \in Row
    BY DEF Recovered, AtStartup, Unorphaned, Orphan
  <2>3. Decided(r) \in Row /\ UserRetried(r) \in Row
    BY DEF Decided, UserRetried, Blank
  <2>4. ExplicitlyMarked(r) \in Row
    BY DEF ExplicitlyMarked, Explicit
  <2>5. Resolved(r) \in Row
    BY DEF Resolved, Verdict
  <2>6. [r EXCEPT !.lease = "past"] \in Row
    OBVIOUS
  <2> QED
    BY <2>1, <2>2, <2>3, <2>4, <2>5, <2>6
<1> QED
  BY <1>1, <1>2

LEMMA SinkStatement ==
  \A r \in Row, sink \in Sinks, s \in Sink : WithSink(r, sink, s) \in Row
BY DEF WithSink, Row, Sinks

LEMMA FailureStatement ==
  ASSUME NEW r \in Row, NEW n \in Nat, NEW e \in Errors, NEW max \in Nat
  PROVE  MarkedFailed(r, n, e, max) \in Row
<1> USE DEF Row, Status, Sink, Lease
<1>1. n + 1 \in Nat
  OBVIOUS
<1>2. CASE e # "permanent" /\ n + 1 < max
  BY <1>1, <1>2 DEF MarkedFailed, Blank
<1>3. CASE ~(e # "permanent" /\ n + 1 < max)
  BY <1>1, <1>3 DEF MarkedFailed, Blank
<1> QED
  BY <1>2, <1>3

LEMMA ResurrectionStatement ==
  ASSUME NEW r \in Row, NEW max \in Nat
  PROVE  Resurrected(r, max) \in Row
<1> USE DEF Row, Status, Sink, Lease, Errors
<1>1. r.revived \in Nat /\ r.revived + 1 \in Nat
  OBVIOUS
<1>2. CASE r.revived >= max
  BY <1>2 DEF Resurrected
<1>3. CASE ~(r.revived >= max)
  BY <1>1, <1>3 DEF Resurrected, Blank
<1> QED
  BY <1>2, <1>3

LEMMA WriteType ==
  ASSUME rows \in [Keys -> Row], NEW x, NEW r \in Row, Write(x, r)
  PROVE  rows' \in [Keys -> Row]
BY DEF Write

-----------------------------------------------------------------------------
(* The type invariant in the parts that change together *)

RowsOK  == rows \in [Keys -> Row]
TasksOK == /\ tasks \in [Slots -> Task]
           /\ \A w \in Slots : tasks[w].pc # "idle" => tasks[w].key \in Keys
FilesOK == tracked \in [Keys -> Tracked] /\ synced \in [Keys -> BOOLEAN]
BatchOK == /\ chan \in Seq(Work) /\ batch \in Seq(Work) /\ writer \in Writer
           /\ writer.pc # "collect" => batch # <<>>
OwedOK  == owed \in [Keys -> SUBSET Sinks]
CountOK == /\ qid \in [Keys -> Nat] /\ effects \in [Keys -> Nat]
           /\ upsets \in Nat /\ overruns \in Nat

LEMMA TypeParts ==
  /\ TypeOK <=> RowsOK /\ TasksOK /\ FilesOK /\ BatchOK /\ OwedOK /\ CountOK
  /\ TypeOK' <=> (RowsOK /\ TasksOK /\ FilesOK /\ BatchOK /\ OwedOK /\ CountOK)'
BY DEF TypeOK, RowsOK, TasksOK, FilesOK, BatchOK, OwedOK, CountOK

LEMMA IdleType == Idle \in Task /\ Idle.pc = "idle" /\ Collect \in Writer
BY DEF Idle, Task, PCs, Errors, Collect, Writer

LEMMA TaskType ==
  ASSUME NEW t \in Task
  PROVE  /\ t.pc \in PCs /\ t.id \in Nat /\ t.seen \in Nat /\ t.err \in Errors
         /\ t.key \in Keys \cup {NoKey}
BY DEF Task

\* One task is replaced by another, active on a key or idle
LEMMA TaskReplaced ==
  ASSUME TasksOK, NEW w \in Slots, NEW t \in Task,
         t.pc # "idle" => t.key \in Keys, tasks' = [tasks EXCEPT ![w] = t]
  PROVE  TasksOK'
BY DEF TasksOK

LEMMA GotoType ==
  ASSUME TasksOK, NEW w \in Slots, tasks[w].pc # "idle",
         NEW to \in PCs, Goto(w, to)
  PROVE  TasksOK'
<1> DEFINE t == [tasks[w] EXCEPT !.pc = to]
<1>1. tasks[w] \in Task /\ tasks[w].key \in Keys
  BY DEF TasksOK
<1>2. t \in Task /\ t.key = tasks[w].key
  BY <1>1 DEF Task
<1>3. tasks' = [tasks EXCEPT ![w] = t]
  BY DEF Goto
<1> HIDE DEF t
<1> QED
  BY <1>1, <1>2, <1>3, TaskReplaced

LEMMA LeaveType ==
  ASSUME TasksOK, NEW w \in Slots, Leave(w) PROVE TasksOK'
BY IdleType, TaskReplaced DEF Leave

\* ... on its way to the failure bookkeeping it keeps an error or a count
LEMMA MarkedType ==
  ASSUME TasksOK, NEW w \in Slots, tasks[w].pc # "idle", NEW n \in Nat,
         NEW e \in Errors,
         \/ tasks' = [tasks EXCEPT ![w].pc = "markselect", ![w].err = e]
         \/ tasks' = [tasks EXCEPT ![w].pc = "mark", ![w].seen = n]
  PROVE  TasksOK'
<1> DEFINE s == [tasks[w] EXCEPT !.pc = "markselect", !.err = e]
           m == [tasks[w] EXCEPT !.pc = "mark", !.seen = n]
<1>1. tasks[w] \in Task /\ tasks[w].key \in Keys
  BY DEF TasksOK
<1>2. /\ s \in Task /\ s.key = tasks[w].key
      /\ m \in Task /\ m.key = tasks[w].key
  BY <1>1 DEF Task, PCs
<1>3. tasks' = [tasks EXCEPT ![w] = s] \/ tasks' = [tasks EXCEPT ![w] = m]
  OBVIOUS
<1> HIDE DEF s, m
<1> QED
  BY <1>1, <1>2, <1>3, TaskReplaced

\* What a handler's own write of a sink leaves behind
LEMMA SetSinkType ==
  ASSUME RowsOK, TasksOK, upsets \in Nat, NEW w \in Slots,
         tasks[w].pc # "idle", NEW sink \in Sinks, NEW s \in Sink,
         NEW to \in PCs, SetSink(w, sink, s, to)
  PROVE  RowsOK' /\ TasksOK' /\ upsets' \in Nat
<1>1. WithSink(RowOf(w), sink, s) \in Row
  BY SinkStatement DEF RowOf, RowsOK, TasksOK
<1>2. RowsOK' /\ upsets' \in Nat
  BY <1>1, WriteType DEF SetSink, HandlerWrites, Upset, RowsOK
<1> QED
  BY <1>2, GotoType DEF SetSink

LEMMA DeleteType ==
  ASSUME CountOK, NEW x, x.key \in Keys, DeleteRow(x)
  PROVE  effects' \in [Keys -> Nat]
<1>1. effects \in [Keys -> Nat] /\ effects[x.key] + 1 \in Nat
  BY DEF CountOK
<1> QED
  BY <1>1 DEF DeleteRow

LEMMA GenerationType ==
  ASSUME FilesOK, OwedOK, NEW w \in Slots, Generation(w)
  PROVE  FilesOK' /\ OwedOK'
BY DEF FilesOK, OwedOK, Generation, Pays, Tracked

LEMMA SendType ==
  ASSUME TasksOK, CountOK, BatchOK, NEW w \in Slots, tasks[w].pc # "idle",
         Send(w), UNCHANGED <<batch, writer>>
  PROVE  BatchOK'
<1>1. [key |-> tasks[w].key, id |-> tasks[w].id] \in Work
  BY TaskType DEF TasksOK, Work
<1> QED
  BY <1>1 DEF BatchOK, Send

-----------------------------------------------------------------------------
(* The steps of one leased item keep the types *)

LEMMA HandlerType ==
  ASSUME TypeOK, NEW w \in Slots, Handler(w)
  PROVE  TypeOK'
<1> USE DEF At, others, rest, budget, files
<1>1. RowsOK /\ TasksOK /\ FilesOK /\ BatchOK /\ OwedOK /\ CountOK
  BY TypeParts
<1>2. upsets \in Nat /\ (Upset => upsets' \in Nat)
  BY <1>1 DEF CountOK, Upset
<1>3. \A v \in {"finalize", "research", "dispatch", "purge", "upsert", "settle",
               "ingest", "markq", "search", "ftsdone", "ftsfailed", "share",
               "sharesend", "shareq", "remove", "park"} : v \in PCs
  BY DEF PCs
<1>4. \A sink \in {"qdrant", "search"} : sink \in Sinks
  BY DEF Sinks
<1>5. \A s \in {"done", "failed", "in_progress"} : s \in Sink
  BY DEF Sink
<1>6. CASE PlainOk(w)
  <2>1. TasksOK'
    BY <1>1, <1>3, <1>6, GotoType DEF PlainOk
  <2>2. OwedOK'
    BY <1>1, <1>6 DEF PlainOk, Vouches, OwedOK
  <2> QED
    BY <1>1, <1>6, <2>1, <2>2, TypeParts
       DEF PlainOk, RowsOK, FilesOK, BatchOK, OwedOK, CountOK
<1>7. CASE FileGone(w) \/ FileVoid(w)
  <2>1. RowsOK' /\ TasksOK' /\ upsets' \in Nat
    BY <1>1, <1>2, <1>3, <1>4, <1>5, <1>7, SetSinkType DEF FileGone, FileVoid
  <2>2. FilesOK' /\ OwedOK'
    BY <1>1, <1>7
       DEF FileGone, FileVoid, Vouches, FilesOK, OwedOK, Tracked
  <2> QED
    BY <1>1, <1>7, <2>1, <2>2, TypeParts DEF FileGone, FileVoid, BatchOK, CountOK
<1>8. CASE Skip(w)
  <2>1. RowsOK' /\ TasksOK' /\ upsets' \in Nat
    BY <1>1, <1>2, <1>3, <1>4, <1>5, <1>8, SetSinkType DEF Skip
  <2> QED
    BY <1>1, <1>8, <2>1, TypeParts
       DEF Skip, Pays, FilesOK, BatchOK, OwedOK, CountOK
<1>9. CASE Decide(w)
  <2>1. RowsOK' /\ upsets' \in Nat
    BY <1>1, <1>2, <1>9, RowStatements, WriteType
       DEF Decide, HandlerWrites, RowOf, RowsOK, TasksOK
  <2>2. TasksOK'
    BY <1>1, <1>3, <1>9, GotoType DEF Decide
  <2> QED
    BY <1>1, <1>9, <2>1, <2>2, TypeParts
       DEF Decide, FilesOK, BatchOK, OwedOK, CountOK
<1>10. CASE Purge(w)
  <2>1. TasksOK'
    BY <1>1, <1>3, <1>10, GotoType DEF Purge, AfterPreparing
  <2>2. FilesOK'
    BY <1>1, <1>10 DEF Purge, FilesOK, Tracked
  <2> QED
    BY <1>1, <1>10, <2>1, <2>2, TypeParts
       DEF Purge, RowsOK, BatchOK, OwedOK, CountOK
<1>11. CASE PrepareUntracked(w)
  <2>1. TasksOK'
    BY <1>1, <1>3, <1>11, GotoType DEF PrepareUntracked, AfterPreparing
  <2> QED
    BY <1>1, <1>11, <2>1, TypeParts
       DEF PrepareUntracked, RowsOK, FilesOK, BatchOK, OwedOK, CountOK
<1>12. CASE Upsert(w) \/ ShareGeneration(w)
  <2>1. TasksOK'
    BY <1>1, <1>3, <1>12, GotoType DEF Upsert, ShareGeneration
  <2>2. FilesOK' /\ OwedOK'
    BY <1>1, <1>12, GenerationType DEF Upsert, ShareGeneration
  <2> QED
    BY <1>1, <1>12, <2>1, <2>2, TypeParts
       DEF Upsert, ShareGeneration, RowsOK, BatchOK, CountOK
<1>13. CASE UpsertFails(w)
  <2>1. TasksOK'
    BY <1>1, <1>13, MarkedType DEF UpsertFails, Errors
  <2>2. RowsOK'
    BY <1>1, <1>4, <1>5, <1>13, SinkStatement, WriteType
       DEF UpsertFails, RowOf, RowsOK, TasksOK
  <2> QED
    BY <1>1, <1>2, <1>13, <2>1, <2>2, TypeParts
       DEF UpsertFails, FilesOK, BatchOK, OwedOK, CountOK
<1>14. CASE \/ RetrySearch(w) \/ StartIngest(w) \/ MarkQdrant(w)
            \/ StartSearch(w) \/ SettleSearch(w) \/ ShareSearch(w)
            \/ ShareQdrant(w)
  <2>1. \E sink \in Sinks, s \in Sink, to \in PCs : SetSink(w, sink, s, to)
    BY <1>3, <1>4, <1>5, <1>14
       DEF RetrySearch, StartIngest, MarkQdrant, StartSearch, SettleSearch,
           ShareSearch, ShareQdrant
  <2>2. tasks[w].pc # "idle"
    BY <1>14 DEF RetrySearch, StartIngest, MarkQdrant, StartSearch,
                 SettleSearch, ShareSearch, ShareQdrant
  <2>3. RowsOK' /\ TasksOK' /\ upsets' \in Nat
    BY <1>1, <1>2, <2>1, <2>2, SetSinkType
  <2>4. UNCHANGED <<others, files>> /\ OwedOK'
    BY <1>1, <1>14
       DEF RetrySearch, StartIngest, MarkQdrant, StartSearch, SettleSearch,
           ShareSearch, ShareQdrant, Pays, OwedOK
  <2> QED
    BY <1>1, <2>3, <2>4, TypeParts DEF FilesOK, BatchOK, CountOK
<1>15. CASE DispatchEnqueued(w) \/ ShareSent(w)
  <2>1. TasksOK'
    BY <1>1, <1>3, <1>15, GotoType DEF DispatchEnqueued, ShareSent
  <2>2. BatchOK'
    BY <1>1, <1>15, SendType DEF DispatchEnqueued, ShareSent
  <2> QED
    BY <1>1, <1>15, <2>1, <2>2, TypeParts
       DEF DispatchEnqueued, ShareSent, RowsOK, FilesOK, OwedOK, CountOK
<1>16. CASE DispatchSkipped(w)
  <2>1. TasksOK'
    BY <1>1, <1>3, <1>16, GotoType DEF DispatchSkipped
  <2> QED
    BY <1>1, <1>16, <2>1, TypeParts
       DEF DispatchSkipped, Pays, RowsOK, FilesOK, BatchOK, OwedOK, CountOK
<1>17. CASE DispatchFails(w)
  <2>1. TasksOK'
    BY <1>1, <1>3, <1>17, GotoType DEF DispatchFails
  <2> QED
    BY <1>1, <1>2, <1>17, <2>1, TypeParts
       DEF DispatchFails, RowsOK, FilesOK, BatchOK, OwedOK, CountOK
<1>18. CASE ShareRefused(w)
  <2>1. TasksOK'
    BY <1>1, <1>3, <1>18, GotoType DEF ShareRefused
  <2>2. RowsOK'
    BY <1>1, <1>4, <1>5, <1>18, SinkStatement, WriteType
       DEF ShareRefused, RowOf, RowsOK, TasksOK
  <2> QED
    BY <1>1, <1>2, <1>18, <2>1, <2>2, TypeParts
       DEF ShareRefused, FilesOK, BatchOK, OwedOK, CountOK
<1>19. CASE HandlerFails(w)
  <2>1. tasks[w].pc # "idle"
    BY <1>19 DEF HandlerFails
  <2>2. TasksOK'
    BY <1>1, <1>3, <1>19, <2>1, GotoType, MarkedType DEF HandlerFails, Errors
  <2> QED
    BY <1>1, <1>2, <1>19, <2>2, TypeParts
       DEF HandlerFails, RowsOK, FilesOK, BatchOK, OwedOK, CountOK
<1> QED
  BY <1>6, <1>7, <1>8, <1>9, <1>10, <1>11, <1>12, <1>13, <1>14, <1>15, <1>16,
     <1>17, <1>18, <1>19 DEF Handler

LEMMA EndingType ==
  ASSUME TypeOK, NEW w \in Slots, Ending(w)
  PROVE  TypeOK'
<1> USE DEF At, others, rest, budget, files
<1>1. RowsOK /\ TasksOK /\ FilesOK /\ BatchOK /\ OwedOK /\ CountOK
  BY TypeParts
<1>2. upsets \in Nat /\ (Upset => upsets' \in Nat)
  BY <1>1 DEF CountOK, Upset
<1>3. tasks[w].pc # "idle"
  BY DEF Ending, Finalize, Refused, Delete, MarkSelect, Mark, Park,
         TaskDies, Running, Endings
<1>4. RowOf(w) \in Row /\ tasks[w].seen \in Nat /\ tasks[w].err \in Errors
  BY <1>1, <1>3, TaskType DEF RowOf, RowsOK, TasksOK
<1>5. CASE Finalize(w)
  <2>1. TasksOK'
    <3>1. CASE Leave(w) \/ Goto(w, "delete")
      BY <1>1, <1>3, <3>1, LeaveType, GotoType DEF PCs
    <3>2. CASE tasks' = [tasks EXCEPT ![w].pc = "markselect", ![w].err = "plain"]
      BY <1>1, <1>3, <3>2, MarkedType DEF Errors
    <3> QED
      BY <1>5, <3>1, <3>2 DEF Finalize
  <2>2. ExplicitlyMarked(RowOf(w)) \in Row
    BY <1>4, RowStatements
  <2>3. Resolved(ExplicitlyMarked(RowOf(w))) \in Row
    BY <2>2, RowStatements
  <2>4. RowsOK'
    BY <1>1, <1>5, <2>3, WriteType DEF Finalize, RowsOK
  <2> QED
    BY <1>1, <1>5, <2>1, <2>4, TypeParts
       DEF Finalize, FilesOK, BatchOK, OwedOK, CountOK
<1>6. CASE Refused(w) \/ TaskDies(w)
  <2>1. TasksOK'
    BY <1>1, <1>6, LeaveType DEF Refused, TaskDies
  <2> QED
    BY <1>1, <1>2, <1>6, <2>1, TypeParts
       DEF Refused, TaskDies, RowsOK, FilesOK, BatchOK, OwedOK, CountOK
<1>7. CASE Delete(w)
  <2>1. TasksOK' /\ RowsOK'
    BY <1>1, <1>7, LeaveType, RowStatements, WriteType
       DEF Delete, DeleteRow, RowsOK
  <2>2. effects' \in [Keys -> Nat]
    BY <1>1, <1>3, <1>7, DeleteType DEF Delete, TasksOK
  <2> QED
    BY <1>1, <1>7, <2>1, <2>2, TypeParts
       DEF Delete, FilesOK, BatchOK, OwedOK, CountOK
<1>8. CASE MarkSelect(w)
  <2>1. RowOf(w).retry \in Nat /\ tasks[w].err \in Errors
    BY <1>4 DEF Row
  <2>2. TasksOK'
    BY <1>1, <1>3, <1>8, <2>1, LeaveType, MarkedType DEF MarkSelect
  <2> QED
    BY <1>1, <1>8, <2>2, TypeParts
       DEF MarkSelect, RowsOK, FilesOK, BatchOK, OwedOK, CountOK
<1>9. CASE Mark(w) \/ Park(w)
  <2>1. TasksOK'
    BY <1>1, <1>9, LeaveType DEF Mark, Park
  <2>2. MarkedFailed(RowOf(w), tasks[w].seen, tasks[w].err, MaxRetries) \in Row
    BY <1>4, FailureStatement, ConstantsAssumption DEF ConstantsAssumption
  <2>3. RowsOK'
    BY <1>1, <1>4, <1>9, <2>2, RowStatements, WriteType DEF Mark, Park, RowsOK
  <2> QED
    BY <1>1, <1>9, <2>1, <2>3, TypeParts
       DEF Mark, Park, FilesOK, BatchOK, OwedOK, CountOK
<1> QED
  BY <1>5, <1>6, <1>7, <1>8, <1>9 DEF Ending

LEMMA PollLoopType ==
  ASSUME TypeOK, NEW w \in Slots,
         \/ Start(w) \/ ReLeasePending(w) \/ \E k \in Keys : Dequeue(w, k)
  PROVE  TypeOK'
<1> USE DEF At, budget, files
<1>1. RowsOK /\ TasksOK /\ FilesOK /\ BatchOK /\ OwedOK /\ CountOK
  BY TypeParts
<1>2. CASE Start(w)
  <2>1. TasksOK'
    BY <1>1, <1>2, GotoType DEF Start, PCs
  <2> QED
    BY <1>1, <1>2, <2>1, TypeParts
       DEF Start, RowsOK, FilesOK, BatchOK, OwedOK, CountOK
<1>3. CASE ReLeasePending(w)
  <2>1. TasksOK'
    BY <1>1, <1>3, LeaveType DEF ReLeasePending
  <2>2. RowOf(w) \in Row
    BY <1>1, <1>3 DEF ReLeasePending, RowOf, RowsOK, TasksOK
  <2>3. RowsOK'
    BY <1>1, <1>3, <2>2, RowStatements, WriteType DEF ReLeasePending, RowsOK
  <2> QED
    BY <1>1, <1>3, <2>1, <2>3, TypeParts
       DEF ReLeasePending, Upset, FilesOK, BatchOK, OwedOK, CountOK
<1>4. ASSUME NEW k \in Keys, Dequeue(w, k) PROVE TypeOK'
  <2> DEFINE t == [Idle EXCEPT !.pc = "leased", !.key = k, !.id = qid[k],
                               !.snap = (rows[k].qdrant = "done")]
  <2>1. qid[k] \in Nat
    BY <1>1 DEF CountOK
  <2>2. t \in Task /\ t.key \in Keys
    BY <2>1 DEF Idle, Task, PCs, Errors
  <2>3. tasks' = [tasks EXCEPT ![w] = t]
    BY <1>4 DEF Dequeue
  <2> HIDE DEF t
  <2>4. TasksOK'
    BY <1>1, <2>2, <2>3, TaskReplaced
  <2>5. RowsOK'
    BY <1>1, <1>4, RowStatements DEF Dequeue, RowsOK
  <2> QED
    BY <1>1, <1>4, <2>4, <2>5, TypeParts
       DEF Dequeue, FilesOK, BatchOK, OwedOK, CountOK
<1> QED
  BY <1>2, <1>3, <1>4

-----------------------------------------------------------------------------
(* ... and so do the batch writer's *)

LEMMA WriterType ==
  ASSUME TypeOK, WriterStep
  PROVE  TypeOK'
<1> USE DEF budget, files
<1>1. RowsOK /\ TasksOK /\ FilesOK /\ BatchOK /\ OwedOK /\ CountOK
  BY TypeParts
<1>2. upsets \in Nat /\ (Upset => upsets' \in Nat)
  BY <1>1 DEF CountOK, Upset
<1>3. ASSUME NEW n \in 1 .. Len(chan), NEW ok \in BOOLEAN, Flush(n, ok)
      PROVE  TypeOK'
  <2>1. /\ SubSeq(chan, 1, n) \in Seq(Work) /\ SubSeq(chan, 1, n) # <<>>
        /\ SubSeq(chan, n + 1, Len(chan)) \in Seq(Work)
    BY <1>1 DEF BatchOK
  <2>2. [Collect EXCEPT !.pc = "resolve", !.ok = ok] \in Writer
    BY DEF Collect, Writer
  <2>3. BatchOK'
    BY <1>3, <2>1, <2>2 DEF Flush, BatchOK
  <2>4. synced' \in [Keys -> BOOLEAN]
    BY <1>1, <1>3 DEF Flush, FilesOK
  <2>5. OwedOK'
    BY <1>1, <1>3 DEF Flush, OwedOK
  <2>6. upsets' \in Nat
    BY <1>2, <1>3 DEF Flush
  <2> QED
    BY <1>1, <1>3, <2>3, <2>4, <2>5, <2>6, TypeParts
       DEF Flush, RowsOK, TasksOK, FilesOK, CountOK
<1>4. ASSUME writer.pc # "collect"
      PROVE  /\ Item \in Work /\ rows[Item.key] \in Row
             /\ UNCHANGED chan /\ NextWork => BatchOK'
  <2>1. batch \in Seq(Work) /\ batch # <<>>
    BY <1>1, <1>4 DEF BatchOK
  <2>2. Item \in Work /\ Tail(batch) \in Seq(Work)
    BY <2>1 DEF Item
  <2>3. Len(batch) # 1 => Tail(batch) # <<>>
    <3>1. Len(batch) \in Nat \ {0}
      BY <2>1, EmptySeq
    <3>2. Len(Tail(batch)) = Len(batch) - 1
      BY <2>1, HeadTailProperties
    <3>3. Tail(batch) = <<>> => Len(Tail(batch)) = 0
      BY EmptySeq
    <3> QED
      BY <3>1, <3>2, <3>3
  <2>4. [writer EXCEPT !.pc = "resolve"] \in Writer
    BY <1>1 DEF BatchOK, Writer
  <2>5. rows[Item.key] \in Row
    BY <1>1, <2>2 DEF RowsOK, Work
  <2>6. UNCHANGED chan /\ NextWork => BatchOK'
    <3>1. CASE Len(batch) = 1
      BY <1>1, <2>2, <3>1, IdleType DEF BatchOK, NextWork, Collect
    <3>2. CASE Len(batch) # 1
      BY <1>1, <2>2, <2>3, <2>4, <3>2 DEF BatchOK, NextWork
    <3> QED
      BY <3>1, <3>2
  <2> QED
    BY <2>2, <2>5, <2>6
<1>5. ASSUME writer.pc # "collect", NEW to \in {"delete", "markselect"},
             WriterAt(to), UNCHANGED chan
      PROVE  BatchOK'
  <2>1. [writer EXCEPT !.pc = to] \in Writer
    BY <1>1 DEF BatchOK, Writer
  <2> QED
    BY <1>1, <1>5, <2>1 DEF BatchOK, WriterAt
<1>6. CASE FtsResolve
  <2> DEFINE s == WithSink(rows[Item.key], "search",
                           IF writer.ok THEN "done" ELSE "failed")
  <2>1. s \in Row
    BY <1>4, <1>6, SinkStatement DEF FtsResolve, Sinks, Sink
  <2> HIDE DEF s
  <2>2. Resolved(s) \in Row
    BY <2>1, RowStatements
  <2>3. Write(Item, Resolved(s))
    BY <1>6 DEF FtsResolve, s
  <2>4. RowsOK'
    BY <1>1, <2>2, <2>3, WriteType DEF RowsOK
  <2>5. BatchOK'
    BY <1>4, <1>5, <1>6 DEF FtsResolve
  <2> QED
    BY <1>1, <1>6, <2>4, <2>5, TypeParts
       DEF FtsResolve, TasksOK, FilesOK, OwedOK, CountOK
<1>7. CASE FtsRefused
  BY <1>1, <1>2, <1>4, <1>7, TypeParts
     DEF FtsRefused, RowsOK, TasksOK, FilesOK, OwedOK, CountOK
<1>8. CASE FtsDelete
  <2>1. RowsOK'
    BY <1>1, <1>8, RowStatements, WriteType DEF FtsDelete, DeleteRow, RowsOK
  <2>2. effects' \in [Keys -> Nat] /\ BatchOK'
    BY <1>1, <1>4, <1>8, DeleteType DEF FtsDelete, Work
  <2> QED
    BY <1>1, <1>8, <2>1, <2>2, TypeParts
       DEF FtsDelete, TasksOK, FilesOK, OwedOK, CountOK
<1>9. CASE FtsMarkSelect
  <2>1. rows[Item.key].retry \in Nat
    BY <1>4, <1>9 DEF FtsMarkSelect, Row
  <2>2. [writer EXCEPT !.pc = "mark", !.seen = rows[Item.key].retry] \in Writer
    BY <1>1, <2>1 DEF BatchOK, Writer
  <2>3. BatchOK'
    BY <1>1, <1>4, <1>9, <2>2 DEF FtsMarkSelect, BatchOK
  <2> QED
    BY <1>1, <1>9, <2>3, TypeParts
       DEF FtsMarkSelect, RowsOK, TasksOK, FilesOK, OwedOK, CountOK
<1>10. CASE FtsMark
  <2>1. rows[Item.key] \in Row /\ writer.seen \in Nat
    BY <1>1, <1>4, <1>10 DEF FtsMark, BatchOK, Writer
  <2>2. MarkedFailed(rows[Item.key], writer.seen, "transient", FtsMaxRetries) \in Row
    BY <2>1, FailureStatement, ConstantsAssumption
       DEF ConstantsAssumption, Errors
  <2>3. RowsOK'
    BY <1>1, <1>10, <2>2, WriteType DEF FtsMark, RowsOK
  <2> QED
    BY <1>1, <1>4, <1>10, <2>3, TypeParts
       DEF FtsMark, TasksOK, FilesOK, OwedOK, CountOK
<1> QED
  BY <1>3, <1>6, <1>7, <1>8, <1>9, <1>10 DEF WriterStep

LEMMA KeyType ==
  ASSUME TypeOK, NEW k \in Keys, KeyStep(k)
  PROVE  TypeOK'
<1> USE DEF TypeOK, memory, files, budget
<1>1. CASE Enqueue(k)
  BY <1>1, RowStatements DEF Enqueue
<1>2. CASE EditFile(k)
  BY <1>2 DEF EditFile, Tracked, Upset
<1>3. CASE UserRetry(k)
  <2>1. UserRetried(rows[k]) \in Row
    BY RowStatements
  <2>2. rows' = [rows EXCEPT ![k] = UserRetried(rows[k])]
    BY <1>3 DEF UserRetry
  <2> QED
    BY <1>3, <2>1, <2>2 DEF UserRetry, Upset, Overtake
<1>4. CASE Discard(k)
  BY <1>4, RowStatements DEF Discard, Upset, Overtake
<1>5. CASE LeaseExpires(k)
  <2>1. rows' \in [Keys -> Row]
    <3> DEFINE r == [rows[k] EXCEPT !.lease = "past"]
    <3>1. r \in Row
      BY RowStatements
    <3>2. rows' = [rows EXCEPT ![k] = r]
      BY <1>5 DEF LeaseExpires
    <3> HIDE DEF r
    <3> QED
      BY <3>1, <3>2
  <2> QED
    BY <1>5, <2>1 DEF LeaseExpires, Overtake
<1>6. CASE Reap(k)
  BY <1>6, RowStatements DEF Reap
<1>7. CASE Resurrect(k)
  BY <1>7, ResurrectionStatement, ConstantsAssumption
     DEF Resurrect, ConstantsAssumption
<1>8. CASE Triage(k)
  BY <1>8, RowStatements DEF Triage
<1> QED
  BY <1>1, <1>2, <1>3, <1>4, <1>5, <1>6, <1>7, <1>8 DEF KeyStep

LEMMA RestartType ==
  ASSUME TypeOK, CrashRestart
  PROVE  TypeOK'
<1>1. RowsOK'
  <2>1. PICK old \in SUBSET {k \in Keys : rows[k].status \in {"done", "failed"}} :
          rows' = [k \in Keys |-> IF k \in old THEN NoRow ELSE AtStartup(rows[k])]
    BY DEF CrashRestart
  <2>2. \A k \in Keys : AtStartup(rows[k]) \in Row
    BY RowStatements DEF TypeOK
  <2> QED
    BY <2>1, <2>2, RowStatements DEF RowsOK
<1>2. TasksOK'
  BY IdleType DEF CrashRestart, TasksOK
<1>3. BatchOK'
  BY IdleType DEF CrashRestart, BatchOK, Collect
<1> QED
  BY <1>1, <1>2, <1>3, TypeParts
     DEF CrashRestart, Upset, files, FilesOK, OwedOK, CountOK

-----------------------------------------------------------------------------
LEMMA InitType == Init => TypeOK
<1> SUFFICES ASSUME Init PROVE TypeOK
  OBVIOUS
<1>1. FilesOK
  BY ConstantsAssumption DEF Init, ConstantsAssumption, FilesOK, Tracked
<1>2. TasksOK /\ BatchOK
  BY IdleType DEF Init, TasksOK, BatchOK, Collect
<1> QED
  BY <1>1, <1>2, RowStatements, TypeParts DEF Init, RowsOK, OwedOK, CountOK

LEMMA NextType == TypeOK /\ [Next]_vars => TypeOK'
<1> SUFFICES ASSUME TypeOK, [Next]_vars PROVE TypeOK'
  OBVIOUS
<1>1. ASSUME NEW w \in Slots, TaskStep(w) PROVE TypeOK'
  BY <1>1, HandlerType, EndingType, PollLoopType DEF TaskStep
<1>2. CASE UNCHANGED vars \/ Quiet
  BY <1>2 DEF Quiet, vars, TypeOK
<1> QED
  BY <1>1, <1>2, PollLoopType, KeyType, WriterType, RestartType DEF Next

\* Every variable keeps its type, whatever the interleaving of the workers,
\* the batch writer, the reaper, the idle passes, crashes and user commands:
\* in particular the batch writer never reads past the batch it resolves.
THEOREM TypesHold == Spec => []TypeOK
BY InitType, NextType, PTL DEF Spec

-----------------------------------------------------------------------------
(* Who may act on a row: no item is leased twice while its lease holds, and *)
(* the side effects of a completed row run once.  Both rest on one fact     *)
(* about the statements of QueueRows: whatever a holder of a row writes,    *)
(* the row stays out of the reach of the next dequeue.                      *)

\* No dequeue takes the row, and no reaper gives it back
Guarded(r) == r.status \in {"absent", "failed", "done"} \/ r.lease = "ahead"

Active(w) == tasks[w].pc # "idle"

Same(v, w) == tasks[v].key = tasks[w].key /\ tasks[v].id = tasks[w].id

\* The inductive strengthening of SingleOwner
OwnerInv ==
  overruns = 0 =>
    \A w \in Slots : Active(w) =>
      /\ tasks[w].id =< qid[tasks[w].key]
      /\ tasks[w].id = qid[tasks[w].key] => Guarded(rows[tasks[w].key])
      /\ \A v \in Slots : Active(v) /\ v # w => ~Same(v, w)

\* ... and of SideEffectsOnce
EffectInv == \A k \in Keys : effects[k] =< 1 /\ (effects[k] = 1 => ~Present(k))

\* What the holder of x does to the table and to the side effects
Acts(x) ==
  \/ UNCHANGED <<rows, effects>>
  \/ DeleteRow(x)
  \/ /\ UNCHANGED effects
     /\ \E r \in Row : (Guarded(rows[x.key]) => Guarded(r)) /\ Write(x, r)

-----------------------------------------------------------------------------
(* The statements of a holder keep a row guarded *)

LEMMA GuardedStatements ==
  ASSUME NEW r \in Row
  PROVE  /\ Guarded(NoRow) /\ Guarded(Parked(r)) /\ Guarded(Leased(r))
         /\ Guarded(r) => /\ Guarded(Decided(r)) /\ Guarded(ExplicitlyMarked(r))
                          /\ Guarded(Resolved(r))
<1> USE DEF Row, Guarded
<1>1. Guarded(NoRow)
  BY DEF NoRow
<1>2. Guarded(Parked(r)) /\ Guarded(Leased(r))
  BY DEF Parked, Leased
<1>3. Guarded(r) => Guarded(Decided(r))
  BY DEF Decided, Blank
<1>4. Guarded(r) => Guarded(ExplicitlyMarked(r))
  BY DEF ExplicitlyMarked
<1>5. Guarded(r) => Guarded(Resolved(r))
  BY DEF Resolved, Verdict
<1> QED
  BY <1>1, <1>2, <1>3, <1>4, <1>5

LEMMA GuardedSink ==
  ASSUME NEW r \in Row, NEW sink, NEW s, Guarded(r)
  PROVE  Guarded(WithSink(r, sink, s))
BY DEF Row, Guarded, WithSink

LEMMA GuardedFailure ==
  ASSUME NEW r \in Row, NEW n, NEW e, NEW max
  PROVE  Guarded(MarkedFailed(r, n, e, max))
BY DEF Row, Guarded, MarkedFailed, Blank

LEMMA GuardedResurrection ==
  ASSUME NEW r \in Row, NEW max, Resurrectable(r)
  PROVE  Guarded(Resurrected(r, max))
BY DEF Row, Guarded, Resurrectable, Resurrected, Blank

-----------------------------------------------------------------------------
(* Every step of an item or of the batch writer is an act of its holder *)

LEMMA TaskActs ==
  ASSUME TypeOK, NEW w \in Slots, TaskStep(w)
  PROVE  Acts(tasks[w]) /\ tasks[w].key \in Keys
<1> USE DEF At, others, rest, budget, files
<1>1. Active(w)
  BY DEF TaskStep, Start, ReLeasePending, Handler, Ending, PlainOk, FileGone,
         FileVoid, Skip, Decide, Purge, PrepareUntracked, RetrySearch,
         StartIngest, Upsert, UpsertFails, MarkQdrant, StartSearch,
         DispatchEnqueued, DispatchSkipped, DispatchFails, SettleSearch,
         ShareGeneration, ShareSearch, ShareSent, ShareRefused, ShareQdrant,
         HandlerFails, Finalize, Refused, Delete, MarkSelect, Mark, Park,
         TaskDies, Running, Endings, Active
<1>2. /\ tasks[w].key \in Keys /\ RowOf(w) \in Row
      /\ RowOf(w) = rows[tasks[w].key]
      /\ tasks[w].seen \in Nat /\ tasks[w].err \in Errors
  BY <1>1, TypeParts, TaskType DEF Active, RowsOK, TasksOK, RowOf
<1>3. ASSUME NEW sink \in Sinks, NEW s \in Sink,
             Write(tasks[w], WithSink(RowOf(w), sink, s)), UNCHANGED effects
      PROVE  Acts(tasks[w])
  BY <1>2, <1>3, SinkStatement, GuardedSink DEF Acts
<1>4. ASSUME NEW sink \in {"qdrant", "search"},
             NEW s \in {"done", "failed", "in_progress"}, NEW to,
             SetSink(w, sink, s, to), UNCHANGED effects
      PROVE  Acts(tasks[w])
  <2>1. sink \in Sinks /\ s \in Sink
    BY DEF Sinks, Sink
  <2> QED
    BY <1>3, <1>4, <2>1 DEF SetSink, HandlerWrites, Acts
<1>5. CASE \/ Start(w) \/ PlainOk(w) \/ Purge(w) \/ PrepareUntracked(w)
           \/ Upsert(w) \/ DispatchEnqueued(w) \/ DispatchSkipped(w)
           \/ DispatchFails(w) \/ ShareGeneration(w) \/ ShareSent(w)
           \/ HandlerFails(w) \/ Refused(w) \/ MarkSelect(w) \/ TaskDies(w)
  BY <1>2, <1>5
     DEF Acts, Start, PlainOk, Purge, PrepareUntracked, Upsert,
         DispatchEnqueued, DispatchSkipped, DispatchFails, ShareGeneration,
         ShareSent, HandlerFails, Refused, MarkSelect, TaskDies
<1>6. CASE \/ FileGone(w) \/ FileVoid(w) \/ Skip(w) \/ RetrySearch(w)
           \/ StartIngest(w) \/ MarkQdrant(w) \/ StartSearch(w)
           \/ SettleSearch(w) \/ ShareSearch(w) \/ ShareQdrant(w)
  <2>1. UNCHANGED effects
    BY <1>6 DEF FileGone, FileVoid, Skip, RetrySearch, StartIngest, MarkQdrant,
                StartSearch, SettleSearch, ShareSearch, ShareQdrant
  <2>2. \E sink \in {"qdrant", "search"}, s \in {"done", "failed", "in_progress"},
           to \in PCs : SetSink(w, sink, s, to)
    BY <1>6 DEF FileGone, FileVoid, Skip, RetrySearch, StartIngest, MarkQdrant,
                StartSearch, SettleSearch, ShareSearch, ShareQdrant, PCs
  <2> QED
    BY <1>2, <1>4, <2>1, <2>2
<1>7. CASE Decide(w)
  BY <1>2, <1>7, RowStatements, GuardedStatements
     DEF Decide, HandlerWrites, Acts
<1>8. CASE UpsertFails(w) \/ ShareRefused(w)
  <2>1. \E sink \in {"qdrant", "search"} :
          Write(tasks[w], WithSink(RowOf(w), sink, "failed")) \/ UNCHANGED rows
    BY <1>8 DEF UpsertFails, ShareRefused
  <2>2. UNCHANGED effects
    BY <1>8 DEF UpsertFails, ShareRefused
  <2> QED
    BY <1>2, <1>3, <2>1, <2>2 DEF Sinks, Sink, Acts
<1>9. CASE ReLeasePending(w) \/ Park(w)
  BY <1>2, <1>9, RowStatements, GuardedStatements DEF ReLeasePending, Park, Acts
<1>10. CASE Finalize(w)
  <2> DEFINE r == Resolved(ExplicitlyMarked(RowOf(w)))
  <2>1. r \in Row /\ (Guarded(RowOf(w)) => Guarded(r))
    BY <1>2, RowStatements, GuardedStatements
  <2>2. Write(tasks[w], r) /\ UNCHANGED effects
    BY <1>10 DEF Finalize
  <2> HIDE DEF r
  <2> QED
    BY <1>2, <2>1, <2>2 DEF Acts
<1>11. CASE Delete(w)
  BY <1>2, <1>11 DEF Delete, Acts
<1>12. CASE Mark(w)
  <2> DEFINE r == MarkedFailed(RowOf(w), tasks[w].seen, tasks[w].err, MaxRetries)
  <2>1. r \in Row /\ Guarded(r)
    BY <1>2, FailureStatement, GuardedFailure, ConstantsAssumption
       DEF ConstantsAssumption
  <2>2. Write(tasks[w], r) /\ UNCHANGED effects
    BY <1>12 DEF Mark
  <2> HIDE DEF r
  <2> QED
    BY <1>2, <2>1, <2>2 DEF Acts
<1> QED
  BY <1>2, <1>5, <1>6, <1>7, <1>8, <1>9, <1>10, <1>11, <1>12
     DEF TaskStep, Handler, Ending

LEMMA WriterActs ==
  ASSUME TypeOK, WriterStep
  PROVE  UNCHANGED <<rows, effects>> \/ (Item.key \in Keys /\ Acts(Item))
<1> USE DEF budget, files
<1>1. ASSUME writer.pc # "collect"
      PROVE  Item.key \in Keys /\ rows[Item.key] \in Row
  <2>1. batch \in Seq(Work) /\ batch # <<>>
    BY <1>1 DEF TypeOK
  <2>2. Item \in Work
    BY <2>1 DEF Item
  <2> QED
    BY <2>2 DEF TypeOK, Work
<1>2. CASE FtsResolve
  <2> DEFINE s == WithSink(rows[Item.key], "search",
                           IF writer.ok THEN "done" ELSE "failed")
  <2>1. Item.key \in Keys /\ rows[Item.key] \in Row
    BY <1>1, <1>2 DEF FtsResolve
  <2>2. s \in Row /\ (Guarded(rows[Item.key]) => Guarded(s))
    BY <2>1, SinkStatement, GuardedSink DEF Sinks, Sink
  <2>3. Write(Item, Resolved(s)) /\ UNCHANGED effects
    BY <1>2 DEF FtsResolve
  <2> HIDE DEF s
  <2>4. Resolved(s) \in Row /\ (Guarded(s) => Guarded(Resolved(s)))
    BY <2>2, RowStatements, GuardedStatements
  <2> QED
    BY <2>1, <2>2, <2>3, <2>4 DEF Acts
<1>3. CASE FtsMark
  <2> DEFINE r == MarkedFailed(rows[Item.key], writer.seen, "transient", FtsMaxRetries)
  <2>1. Item.key \in Keys /\ rows[Item.key] \in Row /\ writer.seen \in Nat
    BY <1>1, <1>3 DEF FtsMark, TypeOK, Writer
  <2>2. r \in Row /\ Guarded(r)
    BY <2>1, FailureStatement, GuardedFailure, ConstantsAssumption
       DEF ConstantsAssumption, Errors
  <2>3. Write(Item, r) /\ UNCHANGED effects
    BY <1>3 DEF FtsMark
  <2> HIDE DEF r
  <2> QED
    BY <2>1, <2>2, <2>3 DEF Acts
<1> QED
  BY <1>1, <1>2, <1>3
     DEF WriterStep, Flush, FtsRefused, FtsDelete, FtsMarkSelect, Acts

\* What an act leaves true of every row
LEMMA ActsKeep ==
  ASSUME TypeOK, NEW x, x.key \in Keys, Acts(x), NEW k \in Keys
  PROVE  /\ Guarded(rows[k]) => Guarded(rows'[k])
         /\ ~Present(k) => ~Present(k)'
         /\ \/ effects'[k] = effects[k]
            \/ Present(k) /\ ~Present(k)' /\ effects'[k] = effects[k] + 1
<1> USE DEF TypeOK
<1>1. CASE UNCHANGED <<rows, effects>>
  BY <1>1 DEF Present
<1>2. CASE DeleteRow(x)
  <2>1. Guarded(NoRow) /\ NoRow.status = "absent"
    BY DEF Guarded, NoRow
  <2>2. CASE Finds(x)
    <3>1. rows' = [rows EXCEPT ![x.key] = NoRow] /\ Present(x.key)
      BY <1>2, <2>2 DEF DeleteRow, Write, Finds
    <3>2. effects' = [effects EXCEPT ![x.key] = @ + 1]
      BY <1>2, <2>2 DEF DeleteRow
    <3> QED
      BY <2>1, <3>1, <3>2 DEF Present
  <2>3. CASE ~Finds(x)
    BY <1>2, <2>3 DEF DeleteRow, Write, Present
  <2> QED
    BY <2>2, <2>3
<1>3. ASSUME UNCHANGED effects,
             NEW r \in Row, Guarded(rows[x.key]) => Guarded(r), Write(x, r)
      PROVE  /\ Guarded(rows[k]) => Guarded(rows'[k])
             /\ ~Present(k) => ~Present(k)'
  BY <1>3 DEF Write, Finds, Present
<1> QED
  BY <1>1, <1>2, <1>3 DEF Acts

-----------------------------------------------------------------------------
(* An item in memory never changes the row it stands for *)

\* The items after a step are items that were there, of the same rows
ItemsKept ==
  \A w \in Slots : Active(w)' => /\ Active(w)
                                 /\ tasks'[w].key = tasks[w].key
                                 /\ tasks'[w].id = tasks[w].id

LEMMA OneItemKept ==
  ASSUME TasksOK, NEW w \in Slots, Active(w), NEW to, NEW e, NEW n,
         \/ Goto(w, to) \/ Leave(w)
         \/ tasks' = [tasks EXCEPT ![w].pc = to, ![w].err = e]
         \/ tasks' = [tasks EXCEPT ![w].pc = to, ![w].seen = n]
  PROVE  ItemsKept
<1> USE DEF TasksOK, Active
<1>1. tasks[w] \in Task
  OBVIOUS
<1>2. \A v \in Slots : v # w => tasks'[v] = tasks[v]
  BY DEF Goto, Leave
<1>3. CASE Leave(w)
  BY <1>2, <1>3, IdleType DEF Leave, ItemsKept
<1>4. CASE Goto(w, to)
  <2>1. tasks'[w] = [tasks[w] EXCEPT !.pc = to]
    BY <1>4 DEF Goto
  <2>2. tasks'[w].key = tasks[w].key /\ tasks'[w].id = tasks[w].id
    BY <1>1, <2>1 DEF Task
  <2> QED
    BY <1>2, <2>2 DEF ItemsKept
<1>5. CASE tasks' = [tasks EXCEPT ![w].pc = to, ![w].err = e]
  <2>1. tasks'[w] = [tasks[w] EXCEPT !.pc = to, !.err = e]
    BY <1>5
  <2>2. tasks'[w].key = tasks[w].key /\ tasks'[w].id = tasks[w].id
    BY <1>1, <2>1 DEF Task
  <2> QED
    BY <1>2, <2>2 DEF ItemsKept
<1>6. CASE tasks' = [tasks EXCEPT ![w].pc = to, ![w].seen = n]
  <2>1. tasks'[w] = [tasks[w] EXCEPT !.pc = to, !.seen = n]
    BY <1>6
  <2>2. tasks'[w].key = tasks[w].key /\ tasks'[w].id = tasks[w].id
    BY <1>1, <2>1 DEF Task
  <2> QED
    BY <1>2, <2>2 DEF ItemsKept
<1> QED
  BY <1>3, <1>4, <1>5, <1>6

LEMMA TaskKeepsItems ==
  ASSUME TypeOK, NEW w \in Slots, TaskStep(w)
  PROVE  ItemsKept /\ UNCHANGED <<qid, overruns>>
<1> USE DEF At, others, rest, budget, files
<1>1. TasksOK
  BY TypeParts
<1>2. Active(w)
  BY DEF TaskStep, Start, ReLeasePending, Handler, Ending, PlainOk, FileGone,
         FileVoid, Skip, Decide, Purge, PrepareUntracked, RetrySearch,
         StartIngest, Upsert, UpsertFails, MarkQdrant, StartSearch,
         DispatchEnqueued, DispatchSkipped, DispatchFails, SettleSearch,
         ShareGeneration, ShareSearch, ShareSent, ShareRefused, ShareQdrant,
         HandlerFails, Finalize, Refused, Delete, MarkSelect, Mark, Park,
         TaskDies, Running, Endings, Active
<1>3. \/ \E to : Goto(w, to)
      \/ Leave(w)
      \/ \E to, e : tasks' = [tasks EXCEPT ![w].pc = to, ![w].err = e]
      \/ \E to, n : tasks' = [tasks EXCEPT ![w].pc = to, ![w].seen = n]
  <2>1. CASE Handler(w)
    BY <2>1
       DEF Handler, PlainOk, FileGone, FileVoid, Skip, Decide, Purge,
           PrepareUntracked, AfterPreparing, RetrySearch, StartIngest, Upsert,
           UpsertFails, MarkQdrant, StartSearch, DispatchEnqueued,
           DispatchSkipped, DispatchFails, SettleSearch, ShareGeneration,
           ShareSearch, ShareSent, ShareRefused, ShareQdrant, HandlerFails,
           SetSink
  <2>2. CASE Ending(w)
    BY <2>2 DEF Ending, Finalize, Refused, Delete, MarkSelect, Mark, Park,
                TaskDies
  <2>3. CASE Start(w) \/ ReLeasePending(w)
    BY <2>3 DEF Start, ReLeasePending
  <2> QED
    BY <2>1, <2>2, <2>3 DEF TaskStep
<1>4. ItemsKept
  BY <1>1, <1>2, <1>3, OneItemKept
<1>5. UNCHANGED <<qid, overruns>>
  BY DEF TaskStep, Start, ReLeasePending, Handler, Ending, PlainOk, FileGone,
         FileVoid, Skip, Decide, Purge, PrepareUntracked, RetrySearch,
         StartIngest, Upsert, UpsertFails, MarkQdrant, StartSearch,
         DispatchEnqueued, DispatchSkipped, DispatchFails, SettleSearch,
         ShareGeneration, ShareSearch, ShareSent, ShareRefused, ShareQdrant,
         HandlerFails, Finalize, Refused, Delete, MarkSelect, Mark, Park,
         TaskDies
<1> QED
  BY <1>4, <1>5

-----------------------------------------------------------------------------
(* SingleOwner *)

\* A step that adds no item and gives no held row back keeps the invariant
LEMMA OwnersKept ==
  ASSUME TypeOK, OwnerInv, TypeOK', ItemsKept,
         overruns' = 0 => overruns = 0,
         \A k \in Keys : qid'[k] >= qid[k],
         overruns' = 0 =>
           \A k \in Keys : \/ Guarded(rows[k]) => Guarded(rows'[k])
                           \/ qid'[k] > qid[k]
                           \/ \A w \in Slots : ~(Active(w) /\ Holds(tasks[w], k))
  PROVE  OwnerInv'
<1> SUFFICES ASSUME overruns' = 0, NEW w \in Slots, Active(w)'
             PROVE  /\ tasks'[w].id =< qid'[tasks'[w].key]
                    /\ tasks'[w].id = qid'[tasks'[w].key]
                         => Guarded(rows'[tasks'[w].key])
                    /\ \A v \in Slots : Active(v)' /\ v # w => ~Same(v, w)'
  BY DEF OwnerInv, Guarded
<1> DEFINE k == tasks[w].key
<1>1. overruns = 0 /\ Active(w) /\ tasks'[w].key = k /\ tasks'[w].id = tasks[w].id
  BY DEF ItemsKept
<1>2. k \in Keys /\ tasks[w].id \in Nat /\ qid[k] \in Nat /\ qid'[k] \in Nat
  BY <1>1, TaskType DEF TypeOK, Active
<1>3. /\ tasks[w].id =< qid[k]
      /\ tasks[w].id = qid[k] => Guarded(rows[k])
      /\ \A v \in Slots : Active(v) /\ v # w => ~Same(v, w)
  BY <1>1 DEF OwnerInv
<1>4. tasks'[w].id =< qid'[k]
  BY <1>1, <1>2, <1>3
<1>5. ASSUME tasks[w].id = qid'[k] PROVE Guarded(rows'[k])
  <2>1. tasks[w].id = qid[k] /\ ~(qid'[k] > qid[k])
    BY <1>2, <1>3, <1>5
  <2>2. Holds(tasks[w], k)
    BY <2>1 DEF Holds
  <2> QED
    BY <1>1, <1>2, <1>3, <2>1, <2>2
<1>6. \A v \in Slots : Active(v)' /\ v # w => ~Same(v, w)'
  BY <1>1, <1>3 DEF ItemsKept, Same
<1> QED
  BY <1>1, <1>4, <1>5, <1>6

LEMMA DequeueOwner ==
  ASSUME TypeOK, OwnerInv, NEW w \in Slots, NEW k \in Keys, Dequeue(w, k)
  PROVE  OwnerInv'
<1> USE DEF budget
<1>1. UNCHANGED <<qid, overruns>> /\ ~Active(w)
  BY DEF Dequeue, At, Active
<1>2. /\ tasks'[w].key = k /\ tasks'[w].id = qid[k]
      /\ \A v \in Slots : v # w => tasks'[v] = tasks[v]
  BY DEF Dequeue, TypeOK, Idle
<1>3. rows[k] \in Row /\ ~Guarded(rows[k]) /\ Present(k)
  BY DEF Dequeue, CanLease, Guarded, Present, TypeOK
<1>4. /\ Guarded(rows'[k])
      /\ \A j \in Keys : j # k => rows'[j] = rows[j]
  BY <1>3, GuardedStatements DEF Dequeue, TypeOK
<1>5. qid[k] \in Nat
  BY DEF TypeOK
<1>6. ASSUME overruns = 0, NEW v \in Slots, v # w, Active(v)
      PROVE  /\ tasks[v].id =< qid[tasks[v].key] /\ tasks[v].key \in Keys
             /\ ~(tasks[v].key = k /\ tasks[v].id = qid[k])
             /\ tasks[v].id = qid[tasks[v].key] => Guarded(rows'[tasks[v].key])
  <2>1. /\ tasks[v].id =< qid[tasks[v].key] /\ tasks[v].key \in Keys
        /\ tasks[v].id = qid[tasks[v].key] => Guarded(rows[tasks[v].key])
    BY <1>6 DEF OwnerInv, TypeOK, Active
  <2> QED
    BY <1>3, <1>4, <2>1
<1> SUFFICES ASSUME overruns = 0, NEW u \in Slots, Active(u)'
             PROVE  /\ tasks'[u].id =< qid[tasks'[u].key]
                    /\ tasks'[u].id = qid[tasks'[u].key]
                         => Guarded(rows'[tasks'[u].key])
                    /\ \A v \in Slots : Active(v)' /\ v # u => ~Same(v, u)'
  BY <1>1 DEF OwnerInv, Guarded
<1>7. CASE u = w
  <2>1. \A v \in Slots : Active(v)' /\ v # u => ~Same(v, u)'
    BY <1>2, <1>6, <1>7 DEF Active, Same
  <2> QED
    BY <1>2, <1>4, <1>5, <1>7, <2>1
<1>8. CASE u # w
  <2>1. Active(u) /\ tasks'[u] = tasks[u]
    BY <1>2, <1>8 DEF Active
  <2>2. ASSUME NEW v \in Slots, Active(v)', v # u PROVE ~Same(v, u)'
    <3>1. CASE v = w
      BY <1>2, <1>6, <1>8, <2>1, <3>1 DEF Same
    <3>2. CASE v # w
      <4>1. Active(v) /\ tasks'[v] = tasks[v]
        BY <1>2, <2>2, <3>2 DEF Active
      <4> QED
        BY <2>1, <2>2, <4>1 DEF OwnerInv, Same
    <3> QED
      BY <3>1, <3>2
  <2> QED
    BY <1>6, <1>8, <2>1, <2>2
<1> QED
  BY <1>7, <1>8

\* Nobody but a producer or the user gives a row back that is held
LEMMA KeyGuards ==
  ASSUME TypeOK, NEW k \in Keys, KeyStep(k)
  PROVE  \/ Guarded(rows[k]) => Guarded(rows'[k])
         \/ Enqueue(k) \/ Overtake(k)
<1>1. CASE EditFile(k)
  BY <1>1 DEF EditFile
<1>2. CASE Reap(k)
  BY <1>2 DEF Reap, Stale, Guarded
<1>3. CASE Resurrect(k)
  BY <1>3, GuardedResurrection DEF Resurrect, TypeOK
<1>4. CASE Triage(k)
  BY <1>4, GuardedStatements DEF Triage, TypeOK
<1>5. UserRetry(k) \/ Discard(k) \/ LeaseExpires(k) => Overtake(k)
  BY DEF UserRetry, Discard, LeaseExpires
<1> QED
  BY <1>1, <1>2, <1>3, <1>4, <1>5 DEF KeyStep

LEMMA KeyOwner ==
  ASSUME TypeOK, OwnerInv, TypeOK', NEW k \in Keys, KeyStep(k)
  PROVE  OwnerInv'
<1> USE DEF memory, files, budget
<1>1. UNCHANGED tasks
  BY DEF KeyStep, Enqueue, EditFile, UserRetry, Discard, LeaseExpires, Reap,
         Resurrect, Triage
<1>2. ItemsKept
  BY <1>1 DEF ItemsKept, Active
<1>3. overruns \in Nat /\ qid \in [Keys -> Nat] /\ rows \in [Keys -> Row]
  BY DEF TypeOK
<1>4. \A j \in Keys : qid'[j] >= qid[j] /\ (Enqueue(k) => qid'[k] > qid[k])
  BY <1>3 DEF KeyStep, Enqueue, EditFile, UserRetry, Discard, LeaseExpires,
              Reap, Resurrect, Triage
<1>5. overruns' = 0 => overruns = 0 /\ (Overtake(k) => ~Held(k))
  BY <1>3 DEF KeyStep, Enqueue, EditFile, UserRetry, Discard, LeaseExpires,
              Reap, Resurrect, Triage, Overtake
<1>6. ~Held(k) => \A w \in Slots : ~(Active(w) /\ Holds(tasks[w], k))
  BY DEF Held
<1>7. \A j \in Keys : j # k => rows'[j] = rows[j]
  BY <1>3 DEF KeyStep, Enqueue, EditFile, UserRetry, Discard, LeaseExpires,
              Reap, Resurrect, Triage
<1>8. \/ Guarded(rows[k]) => Guarded(rows'[k])
      \/ Enqueue(k) \/ Overtake(k)
  BY KeyGuards
<1>9. overruns' = 0 =>
        \A j \in Keys : \/ Guarded(rows[j]) => Guarded(rows'[j])
                        \/ qid'[j] > qid[j]
                        \/ \A w \in Slots : ~(Active(w) /\ Holds(tasks[w], j))
  <2> SUFFICES ASSUME overruns' = 0, NEW j \in Keys
               PROVE  \/ Guarded(rows[j]) => Guarded(rows'[j])
                      \/ qid'[j] > qid[j]
                      \/ \A w \in Slots : ~(Active(w) /\ Holds(tasks[w], j))
    OBVIOUS
  <2>1. CASE j = k
    BY <1>4, <1>5, <1>6, <1>8, <2>1
  <2>2. CASE j # k
    BY <1>7, <2>2
  <2> QED
    BY <2>1, <2>2
<1> QED
  BY <1>2, <1>4, <1>5, <1>9, OwnersKept

LEMMA OwnerInit == Init => OwnerInv
BY DEF Init, OwnerInv, Active, Idle

LEMMA OwnerNext == TypeOK /\ OwnerInv /\ [Next]_vars => OwnerInv'
<1> SUFFICES ASSUME TypeOK, OwnerInv, [Next]_vars PROVE OwnerInv'
  OBVIOUS
<1>1. TypeOK'
  BY NextType
<1>2. rows \in [Keys -> Row] /\ qid \in [Keys -> Nat]
  BY DEF TypeOK
<1>3. ASSUME NEW w \in Slots, TaskStep(w) PROVE OwnerInv'
  <2>1. ItemsKept /\ UNCHANGED <<qid, overruns>>
    BY <1>3, TaskKeepsItems
  <2>2. \A k \in Keys : Guarded(rows[k]) => Guarded(rows'[k])
    BY <1>3, TaskActs, ActsKeep
  <2> QED
    BY <1>1, <1>2, <2>1, <2>2, OwnersKept
<1>4. CASE WriterStep
  <2>1. ItemsKept /\ UNCHANGED <<qid, overruns>>
    BY <1>4 DEF WriterStep, Flush, FtsResolve, FtsRefused, FtsDelete,
                FtsMarkSelect, FtsMark, ItemsKept, Active, budget
  <2>2. \A k \in Keys : Guarded(rows[k]) => Guarded(rows'[k])
    BY <1>4, WriterActs, ActsKeep
  <2> QED
    BY <1>1, <1>2, <2>1, <2>2, OwnersKept
<1>5. CASE CrashRestart
  BY <1>5 DEF CrashRestart, OwnerInv, Active, Idle
<1>6. CASE Quiet \/ UNCHANGED vars
  BY <1>6 DEF Quiet, vars, OwnerInv, Active, Same
<1> QED
  BY <1>1, <1>3, <1>4, <1>5, <1>6, DequeueOwner, KeyOwner DEF Next

\* While no lease has overtaken its holder, no two items in memory are the
\* same row, however dequeues, finalizers, the reaper, the idle passes, crashes
\* and the user's commands interleave.
THEOREM OwnersAreSingle == Spec => []SingleOwner
<1>1. OwnerInv => SingleOwner
  <2> SUFFICES ASSUME OwnerInv, overruns = 0, NEW v \in Slots, NEW w \in Slots,
                      tasks[v].pc # "idle", tasks[w].pc # "idle", v # w
               PROVE  <<tasks[v].key, tasks[v].id>> # <<tasks[w].key, tasks[w].id>>
    BY DEF SingleOwner
  <2> QED
    BY DEF OwnerInv, Active, Same
<1> QED
  BY <1>1, OwnerInit, OwnerNext, TypesHold, PTL DEF Spec

-----------------------------------------------------------------------------
(* SideEffectsOnce *)

LEMMA EffectInit == Init => EffectInv
BY DEF Init, EffectInv

LEMMA EffectNext == TypeOK /\ EffectInv /\ [Next]_vars => EffectInv'
<1> SUFFICES ASSUME TypeOK, EffectInv, [Next]_vars, NEW k \in Keys
             PROVE  effects'[k] =< 1 /\ (effects'[k] = 1 => ~Present(k)')
  BY DEF EffectInv
<1> USE DEF memory, files, budget
<1>1. /\ effects[k] \in Nat /\ effects[k] =< 1 /\ (effects[k] = 1 => ~Present(k))
      /\ rows \in [Keys -> Row] /\ effects \in [Keys -> Nat]
  BY DEF EffectInv, TypeOK
\* It is enough that a row that is absent stays so, or that its deletion counts
<1>2. ASSUME \/ effects'[k] = effects[k] /\ (~Present(k) => ~Present(k)')
             \/ effects'[k] = 0
             \/ Present(k) /\ ~Present(k)' /\ effects'[k] = effects[k] + 1
      PROVE  effects'[k] =< 1 /\ (effects'[k] = 1 => ~Present(k)')
  BY <1>1, <1>2
<1>3. ASSUME NEW w \in Slots, TaskStep(w)
      PROVE  effects'[k] =< 1 /\ (effects'[k] = 1 => ~Present(k)')
  BY <1>2, <1>3, TaskActs, ActsKeep
<1>4. CASE WriterStep
  BY <1>2, <1>4, WriterActs, ActsKeep DEF Present
<1>5. ASSUME NEW j \in Keys, KeyStep(j)
      PROVE  effects'[k] =< 1 /\ (effects'[k] = 1 => ~Present(k)')
  <2>1. CASE Enqueue(j)
    BY <1>1, <1>2, <2>1 DEF Enqueue, Present
  <2>2. CASE UserRetry(j) \/ Discard(j) \/ LeaseExpires(j) \/ Triage(j)
    <3>1. UNCHANGED effects /\ (~Present(k) => ~Present(k)')
      BY <1>1, <2>2 DEF UserRetry, Discard, LeaseExpires, Triage, Present,
                        NoRow, UserRetried, Row
    <3> QED
      BY <1>2, <3>1
  <2>3. CASE EditFile(j) \/ Reap(j) \/ Resurrect(j)
    <3>1. UNCHANGED effects /\ (~Present(k) => ~Present(k)')
      BY <1>1, <2>3 DEF EditFile, Reap, Stale, Resurrect, Resurrectable, Present
    <3> QED
      BY <1>2, <3>1
  <2> QED
    BY <1>5, <2>1, <2>2, <2>3 DEF KeyStep
<1>6. ASSUME NEW w \in Slots, NEW j \in Keys, Dequeue(w, j)
      PROVE  effects'[k] =< 1 /\ (effects'[k] = 1 => ~Present(k)')
  <2>1. UNCHANGED effects /\ (~Present(k) => ~Present(k)')
    BY <1>1, <1>6 DEF Dequeue, CanLease, Present
  <2> QED
    BY <1>2, <2>1
<1>7. CASE CrashRestart
  <2>1. rows[k].status = "absent" => AtStartup(rows[k]).status = "absent"
    BY <1>1 DEF AtStartup, Unorphaned, Row
  <2>2. UNCHANGED effects /\ (~Present(k) => ~Present(k)')
    BY <1>7, <2>1 DEF CrashRestart, Present, NoRow
  <2> QED
    BY <1>2, <2>2
<1>8. CASE Quiet \/ UNCHANGED vars
  BY <1>2, <1>8 DEF Quiet, vars, Present
<1> QED
  BY <1>3, <1>4, <1>5, <1>6, <1>7, <1>8 DEF Next

\* The worker and the batch writer may both see a row resolved and both delete
\* it; only one of the deletions finds the row, so its side effects run once.
THEOREM EffectsRunOnce == Spec => []SideEffectsOnce
<1>1. EffectInv => SideEffectsOnce
  BY DEF EffectInv, SideEffectsOnce
<1> QED
  BY <1>1, EffectInit, EffectNext, TypesHold, PTL DEF Spec

-----------------------------------------------------------------------------
(***************************************************************************)
(* RetryCountBounded of UnifiedQueue.  A failure is counted by two           *)
(* statements, a SELECT and an UPDATE, and an item that handed its search    *)
(* sink over has two actors that may both count.  The bound rests on how     *)
(* far apart the two can be: the item sends once, and has only its endings   *)
(* before it from then on.                                                   *)
(***************************************************************************)

\* Nothing occurs twice
Unique(s) == \A m, n \in 1 .. Len(s) : s[m] = s[n] => m = n

\* What the batch writer has before it
Queue == batch \o chan

Waiting == InRange(Queue)

-----------------------------------------------------------------------------
(* The queue of the batch writer *)

LEMMA AppendWaiting ==
  ASSUME NEW S, NEW s \in Seq(S), NEW x \in S
  PROVE  /\ InRange(Append(s, x)) = InRange(s) \cup {x}
         /\ Unique(s) /\ x \notin InRange(s) => Unique(Append(s, x))
<1> DEFINE a == Append(s, x)
<1>1. /\ Len(s) \in Nat /\ Len(a) = Len(s) + 1
      /\ \A i \in 1 .. Len(s) : a[i] = s[i]
      /\ a[Len(s) + 1] = x
  BY AppendProperties
<1>2. 1 .. Len(a) = (1 .. Len(s)) \cup {Len(s) + 1} /\ Len(s) + 1 \notin 1 .. Len(s)
  BY <1>1
<1> HIDE DEF a
<1>3. InRange(a) = InRange(s) \cup {x}
  <2>1. ASSUME NEW y \in InRange(a) PROVE y \in InRange(s) \cup {x}
    BY <1>1, <1>2, <2>1 DEF InRange
  <2>2. ASSUME NEW y \in InRange(s) \cup {x} PROVE y \in InRange(a)
    BY <1>1, <1>2, <2>2 DEF InRange
  <2> QED BY <2>1, <2>2
<1>4. ASSUME Unique(s), x \notin InRange(s) PROVE Unique(a)
  <2> SUFFICES ASSUME NEW m \in 1 .. Len(a), NEW n \in 1 .. Len(a), a[m] = a[n]
               PROVE  m = n
    BY DEF Unique
  <2>1. CASE m \in 1 .. Len(s) /\ n \in 1 .. Len(s)
    BY <1>1, <1>4, <2>1 DEF Unique
  <2>2. \A i \in 1 .. Len(s) : a[i] # x
    BY <1>1, <1>4 DEF InRange
  <2> QED BY <1>1, <1>2, <2>1, <2>2
<1> QED BY <1>3, <1>4 DEF a

LEMMA TailWaiting ==
  ASSUME NEW S, NEW s \in Seq(S), s # <<>>, Unique(s)
  PROVE  /\ Head(s) \in InRange(s)
         /\ InRange(Tail(s)) = InRange(s) \ {Head(s)}
         /\ Unique(Tail(s))
<1> DEFINE t == Tail(s)
<1>1. /\ Len(s) \in Nat \ {0} /\ Len(t) = Len(s) - 1 /\ Head(s) = s[1]
      /\ \A i \in 1 .. Len(t) : t[i] = s[i + 1]
  BY HeadTailProperties, EmptySeq
<1> HIDE DEF t
<1>2. Head(s) \in InRange(s)
  BY <1>1 DEF InRange
<1>3. ASSUME NEW y \in InRange(t) PROVE y \in InRange(s) \ {Head(s)}
  <2>1. PICK i \in 1 .. Len(t) : y = t[i]
    BY DEF InRange
  <2>2. y = s[i + 1] /\ i + 1 \in 1 .. Len(s) /\ 1 \in 1 .. Len(s) /\ i + 1 # 1
    BY <1>1, <2>1
  <2> QED BY <1>1, <2>2 DEF InRange, Unique
<1>4. ASSUME NEW y \in InRange(s) \ {Head(s)} PROVE y \in InRange(t)
  <2>1. PICK i \in 1 .. Len(s) : y = s[i]
    BY DEF InRange
  <2>2. i - 1 \in 1 .. Len(t) /\ y = t[i - 1]
    BY <1>1, <1>4, <2>1
  <2> QED BY <2>2 DEF InRange
<1>5. Unique(t)
  <2> SUFFICES ASSUME NEW m \in 1 .. Len(t), NEW n \in 1 .. Len(t), t[m] = t[n]
               PROVE  m = n
    BY DEF Unique
  <2>1. m + 1 \in 1 .. Len(s) /\ n + 1 \in 1 .. Len(s) /\ s[m + 1] = s[n + 1]
    BY <1>1
  <2>2. m + 1 = n + 1
    BY <2>1 DEF Unique
  <2> QED BY <1>1, <2>2
<1> QED BY <1>2, <1>3, <1>4, <1>5 DEF t

LEMMA QueueType ==
  ASSUME TypeOK
  PROVE  Queue \in Seq(Work) /\ Waiting \subseteq Work
<1>1. batch \in Seq(Work) /\ chan \in Seq(Work)
  BY DEF TypeOK
<1>2. Queue \in Seq(Work)
  BY <1>1, ConcatProperties DEF Queue
<1> QED BY <1>2 DEF Waiting, InRange

LEMMA WaitingIs ==
  ASSUME TypeOK
  PROVE  Waiting = InRange(batch) \cup InRange(chan)
<1>1. batch \in Seq(Work) /\ chan \in Seq(Work)
  BY DEF TypeOK
<1>2. /\ Len(batch) \in Nat /\ Len(chan) \in Nat
      /\ Len(Queue) = Len(batch) + Len(chan)
      /\ \A i \in 1 .. Len(batch) + Len(chan) :
           Queue[i] = IF i <= Len(batch) THEN batch[i] ELSE chan[i - Len(batch)]
  BY <1>1, ConcatProperties DEF Queue
<1> HIDE DEF Queue
<1>3. ASSUME NEW x \in Waiting PROVE x \in InRange(batch) \cup InRange(chan)
  <2>1. PICK i \in 1 .. Len(Queue) : x = Queue[i]
    BY DEF Waiting, InRange
  <2>2. CASE i <= Len(batch)
    BY <1>2, <2>1, <2>2 DEF InRange
  <2>3. CASE ~(i <= Len(batch))
    <3>1. i - Len(batch) \in 1 .. Len(chan) /\ x = chan[i - Len(batch)]
      BY <1>2, <2>1, <2>3
    <3> QED BY <3>1 DEF InRange
  <2> QED BY <2>2, <2>3
<1>4. ASSUME NEW x \in InRange(batch) PROVE x \in Waiting
  <2>1. PICK i \in 1 .. Len(batch) : x = batch[i]
    BY DEF InRange
  <2>2. i \in 1 .. Len(Queue) /\ x = Queue[i]
    BY <1>2, <2>1
  <2> QED BY <2>2 DEF Waiting, InRange
<1>5. ASSUME NEW x \in InRange(chan) PROVE x \in Waiting
  <2>1. PICK i \in 1 .. Len(chan) : x = chan[i]
    BY DEF InRange
  <2>2. i + Len(batch) \in 1 .. Len(Queue) /\ x = Queue[i + Len(batch)]
    BY <1>2, <2>1
  <2> QED BY <2>2 DEF Waiting, InRange
<1> QED BY <1>3, <1>4, <1>5

\* The first of the queue is the item the writer is at
LEMMA ItemWaits ==
  ASSUME TypeOK, batch # <<>>, Unique(Queue)
  PROVE  /\ Item \in Waiting /\ Item \in Work
         /\ NextWork /\ UNCHANGED chan =>
              Waiting' = Waiting \ {Item} /\ Unique(Queue)'
<1>1. batch \in Seq(Work) /\ chan \in Seq(Work) /\ Queue \in Seq(Work)
  BY QueueType DEF TypeOK
<1>2. Queue # <<>> /\ Head(Queue) = Item /\ Item \in Work
      /\ Tail(Queue) = Tail(batch) \o chan
  BY <1>1 DEF Queue, Item
<1>3. /\ Head(Queue) \in Waiting
      /\ InRange(Tail(Queue)) = Waiting \ {Head(Queue)} /\ Unique(Tail(Queue))
  BY <1>1, <1>2, TailWaiting DEF Waiting
<1>4. NextWork /\ UNCHANGED chan => Queue' = Tail(Queue)
  BY <1>2 DEF NextWork, Queue
<1> QED BY <1>2, <1>3, <1>4 DEF Waiting

LEMMA FlushMoves ==
  ASSUME TypeOK, batch = <<>>, NEW n \in 1 .. Len(chan), NEW ok \in BOOLEAN,
         Flush(n, ok)
  PROVE  UNCHANGED Queue
<1>1. chan \in Seq(Work) /\ Len(chan) \in Nat
  BY DEF TypeOK
<1>2. Queue = chan
  BY <1>1 DEF Queue
<1>3. Queue' = SubSeq(chan, 1, n) \o SubSeq(chan, n + 1, Len(chan))
  BY DEF Flush, Queue
<1>4. Queue' = SubSeq(chan, 1, Len(chan))
  BY <1>1, <1>3, ConcatAdjacentSubSeq
<1> QED BY <1>1, <1>2, <1>4

LEMMA SendAppends ==
  ASSUME TypeOK, NEW x \in Work, chan' = Append(chan, x), UNCHANGED batch
  PROVE  /\ Waiting' = Waiting \cup {x}
         /\ Unique(Queue) /\ x \notin Waiting => Unique(Queue)'
<1>1. batch \in Seq(Work) /\ chan \in Seq(Work) /\ Queue \in Seq(Work)
  BY QueueType DEF TypeOK
<1>2. Queue' = Append(Queue, x)
  <2>1. Queue' = batch \o (chan \o <<x>>)
    BY <1>1, AppendIsConcat DEF Queue
  <2>2. Queue' = (batch \o chan) \o <<x>>
    BY <1>1, <2>1, ConcatAssociative
  <2> QED BY <1>1, <2>2, AppendIsConcat DEF Queue
<1> QED BY <1>1, <1>2, AppendWaiting DEF Waiting

-----------------------------------------------------------------------------
(* An item is sent once, and then it is at its end *)

Late == {"shareq", "finalize", "delete", "markselect", "mark"}

IsItem(w, x) == tasks[w].key = x.key /\ tasks[w].id = x.id

SentInv ==
  /\ writer.pc = "collect" => batch = <<>>
  /\ overruns = 0 =>
       /\ Unique(Queue)
       /\ \A x \in Waiting :
            /\ x.id =< qid[x.key]
            /\ x.id = qid[x.key] => Guarded(rows[x.key])
            /\ \A w \in Slots : Active(w) /\ IsItem(w, x) => tasks[w].pc \in Late

\* A step of one item: the others stand still, and there is no way back from Late
LEMMA TaskGoesOn ==
  ASSUME TypeOK, NEW w \in Slots, TaskStep(w)
  PROVE  /\ UNCHANGED <<batch, writer, qid, overruns>>
         /\ \A v \in Slots : v # w => tasks'[v] = tasks[v]
         /\ Active(w)
         /\ Active(w)' =>
              /\ tasks'[w].key = tasks[w].key /\ tasks'[w].id = tasks[w].id
              /\ tasks[w].pc \in Late => tasks'[w].pc \in Late
              /\ tasks'[w].pc = "mark" =>
                   Finds(tasks[w]) /\ tasks'[w].seen = RowOf(w).retry /\ UNCHANGED rows
         /\ \/ UNCHANGED chan
            \/ /\ tasks[w].pc \in {"dispatch", "sharesend"} /\ UNCHANGED rows
               /\ tasks'[w].pc \in {"finalize", "shareq"}
               /\ chan' = Append(chan, [key |-> tasks[w].key, id |-> tasks[w].id])
<1> USE DEF At, others, rest, budget, files
<1>1. /\ ItemsKept /\ UNCHANGED <<batch, writer, qid, overruns>>
      /\ tasks \in [Slots -> Task]
  BY TaskKeepsItems
     DEF TypeOK, TaskStep, Start, ReLeasePending, Handler, Ending, PlainOk, FileGone,
         FileVoid, Skip, Decide, Purge, PrepareUntracked, RetrySearch,
         StartIngest, Upsert, UpsertFails, MarkQdrant, StartSearch,
         DispatchEnqueued, DispatchSkipped, DispatchFails, SettleSearch,
         ShareGeneration, ShareSearch, ShareSent, ShareRefused, ShareQdrant,
         HandlerFails, Finalize, Refused, Delete, MarkSelect, Mark, Park,
         TaskDies
<1>2. Active(w)
  BY DEF TaskStep, Start, ReLeasePending, Handler, Ending, PlainOk, FileGone,
         FileVoid, Skip, Decide, Purge, PrepareUntracked, RetrySearch,
         StartIngest, Upsert, UpsertFails, MarkQdrant, StartSearch,
         DispatchEnqueued, DispatchSkipped, DispatchFails, SettleSearch,
         ShareGeneration, ShareSearch, ShareSent, ShareRefused, ShareQdrant,
         HandlerFails, Finalize, Refused, Delete, MarkSelect, Mark, Park,
         TaskDies, Running, Endings, Active
<1>3. \/ Leave(w)
      \/ \E to : Goto(w, to) /\ (tasks[w].pc \in Late => to \in Late) /\ to # "mark"
      \/ \E e : tasks' = [tasks EXCEPT ![w].pc = "markselect", ![w].err = e]
      \/ /\ tasks' = [tasks EXCEPT ![w].pc = "mark", ![w].seen = RowOf(w).retry]
         /\ Finds(tasks[w]) /\ UNCHANGED rows
  <2>1. CASE Handler(w)
    BY <2>1
       DEF Handler, PlainOk, FileGone, FileVoid, Skip, Decide, Purge,
           PrepareUntracked, AfterPreparing, RetrySearch, StartIngest, Upsert,
           UpsertFails, MarkQdrant, StartSearch, DispatchEnqueued,
           DispatchSkipped, DispatchFails, SettleSearch, ShareGeneration,
           ShareSearch, ShareSent, ShareRefused, ShareQdrant, HandlerFails,
           SetSink, Late
  <2>2. CASE Ending(w)
    BY <2>2 DEF Ending, Finalize, Refused, Delete, MarkSelect, Mark, Park,
                TaskDies, Late
  <2>3. CASE Start(w) \/ ReLeasePending(w)
    BY <2>3 DEF Start, ReLeasePending, Late
  <2> QED BY <2>1, <2>2, <2>3 DEF TaskStep
<1>4. \A v \in Slots : v # w => tasks'[v] = tasks[v]
  BY <1>1, <1>3 DEF Leave, Goto
<1>5. ASSUME Active(w)'
      PROVE  /\ tasks[w].pc \in Late => tasks'[w].pc \in Late
             /\ tasks'[w].pc = "mark" =>
                  Finds(tasks[w]) /\ tasks'[w].seen = RowOf(w).retry /\ UNCHANGED rows
  <2>0. tasks[w] \in Task
    BY <1>1
  <2>1. CASE Leave(w)
    BY <1>1, <1>5, <2>1 DEF Leave, Active, Idle
  <2>2. ASSUME NEW to, Goto(w, to), tasks[w].pc \in Late => to \in Late, to # "mark"
        PROVE  /\ tasks[w].pc \in Late => tasks'[w].pc \in Late
               /\ tasks'[w].pc # "mark"
    <3>1. tasks'[w] = [tasks[w] EXCEPT !.pc = to]
      BY <1>1, <2>2 DEF Goto
    <3>2. tasks'[w].pc = to
      BY <2>0, <3>1 DEF Task
    <3> QED BY <2>2, <3>2
  <2>3. ASSUME NEW e, tasks' = [tasks EXCEPT ![w].pc = "markselect", ![w].err = e]
        PROVE  tasks'[w].pc = "markselect"
    <3>1. tasks'[w] = [tasks[w] EXCEPT !.pc = "markselect", !.err = e]
      BY <1>1, <2>3
    <3> QED BY <2>0, <3>1 DEF Task
  <2>4. ASSUME tasks' = [tasks EXCEPT ![w].pc = "mark", ![w].seen = RowOf(w).retry]
        PROVE  tasks'[w].pc = "mark" /\ tasks'[w].seen = RowOf(w).retry
    <3>1. tasks'[w] = [tasks[w] EXCEPT !.pc = "mark", !.seen = RowOf(w).retry]
      BY <1>1, <2>4
    <3> QED BY <2>0, <3>1 DEF Task
  <2> QED BY <1>3, <2>1, <2>2, <2>3, <2>4 DEF Late
<1>6. \/ UNCHANGED chan
      \/ /\ tasks[w].pc \in {"dispatch", "sharesend"} /\ UNCHANGED rows
         /\ tasks'[w].pc \in {"finalize", "shareq"}
         /\ chan' = Append(chan, [key |-> tasks[w].key, id |-> tasks[w].id])
  <2>1. CASE DispatchEnqueued(w) \/ ShareSent(w)
    <3>0. tasks[w] \in Task
      BY <1>1
    <3>1. \E to \in {"finalize", "shareq"} : tasks'[w] = [tasks[w] EXCEPT !.pc = to]
      BY <1>1, <2>1 DEF DispatchEnqueued, ShareSent, Goto
    <3>2. tasks'[w].pc \in {"finalize", "shareq"}
      BY <3>0, <3>1 DEF Task
    <3> QED BY <2>1, <3>2 DEF DispatchEnqueued, ShareSent, Send
  <2>2. CASE ~(DispatchEnqueued(w) \/ ShareSent(w))
    BY <2>2 DEF TaskStep, Start, ReLeasePending, Handler, Ending, PlainOk, FileGone,
         FileVoid, Skip, Decide, Purge, PrepareUntracked, RetrySearch,
         StartIngest, Upsert, UpsertFails, MarkQdrant, StartSearch,
         DispatchSkipped, DispatchFails, SettleSearch,
         ShareGeneration, ShareSearch, ShareRefused, ShareQdrant,
         HandlerFails, Finalize, Refused, Delete, MarkSelect, Mark, Park,
         TaskDies
  <2> QED BY <2>1, <2>2
<1> QED BY <1>1, <1>2, <1>4, <1>5, <1>6 DEF ItemsKept

\* A step under which the queue only shrinks and nothing held is given back
LEMMA SentKept ==
  ASSUME TypeOK, TypeOK', SentInv, ItemsKept,
         writer'.pc = "collect" => batch' = <<>>,
         overruns' = 0 => overruns = 0,
         overruns' = 0 => Unique(Queue)' /\ Waiting' \subseteq Waiting,
         \A w \in Slots : Active(w)' /\ tasks[w].pc \in Late => tasks'[w].pc \in Late,
         \A k \in Keys : qid'[k] >= qid[k],
         overruns' = 0 =>
           \A x \in Waiting : \/ Guarded(rows[x.key]) => Guarded(rows'[x.key])
                              \/ qid'[x.key] > x.id
  PROVE  SentInv'
<1> SUFFICES ASSUME overruns' = 0, NEW x \in Waiting'
             PROVE  /\ x.id =< qid'[x.key]
                    /\ x.id = qid'[x.key] => Guarded(rows'[x.key])
                    /\ \A w \in Slots : (Active(w) /\ IsItem(w, x))' => tasks'[w].pc \in Late
  BY DEF SentInv, Guarded
<1>1. x \in Waiting /\ x \in Work /\ overruns = 0
  BY QueueType
<1>2. /\ x.id =< qid[x.key]
      /\ x.id = qid[x.key] => Guarded(rows[x.key])
      /\ \A w \in Slots : Active(w) /\ IsItem(w, x) => tasks[w].pc \in Late
  BY <1>1 DEF SentInv
<1>3. x.key \in Keys /\ x.id \in Nat /\ qid[x.key] \in Nat /\ qid'[x.key] \in Nat
  BY <1>1 DEF Work, TypeOK
<1>4. x.id =< qid'[x.key] /\ (x.id = qid'[x.key] => x.id = qid[x.key])
  BY <1>2, <1>3
<1>5. x.id = qid'[x.key] => Guarded(rows'[x.key])
  BY <1>1, <1>2, <1>3, <1>4
<1>6. ASSUME NEW w \in Slots, Active(w)', IsItem(w, x)' PROVE tasks'[w].pc \in Late
  BY <1>2, <1>6 DEF ItemsKept, IsItem
<1> QED BY <1>4, <1>5, <1>6

LEMMA SentInit == Init => SentInv
<1> SUFFICES ASSUME Init PROVE SentInv
  OBVIOUS
<1>1. Queue = <<>>
  BY DEF Init, Queue
<1>2. Waiting = {} /\ Unique(Queue)
  BY <1>1 DEF Waiting, InRange, Unique
<1> QED BY <1>2 DEF Init, SentInv

LEMMA SentTask ==
  ASSUME TypeOK, TypeOK', OwnerInv, SentInv, NEW w \in Slots, TaskStep(w)
  PROVE  SentInv'
<1>1. /\ UNCHANGED <<batch, writer, qid, overruns>>
      /\ \A v \in Slots : v # w => tasks'[v] = tasks[v]
      /\ Active(w) /\ tasks[w].key \in Keys /\ tasks[w] \in Task
      /\ qid \in [Keys -> Nat]
  BY TaskGoesOn, TaskActs DEF TypeOK
<1>2. ItemsKept /\ \A k \in Keys : Guarded(rows[k]) => Guarded(rows'[k])
  BY TaskKeepsItems, TaskActs, ActsKeep
<1>3. \A v \in Slots : Active(v)' /\ tasks[v].pc \in Late => tasks'[v].pc \in Late
  BY <1>1, TaskGoesOn
<1>4. CASE UNCHANGED chan
  <2>1. UNCHANGED Queue /\ UNCHANGED Waiting
    BY <1>1, <1>4 DEF Queue, Waiting
  <2>2. \A x \in Waiting : x.key \in Keys
    BY QueueType DEF Work
  <2>3. Unique(Queue) => Unique(Queue)'
    BY <2>1 DEF Unique
  <2>4. /\ writer'.pc = "collect" => batch' = <<>>
        /\ overruns' = 0 => overruns = 0 /\ Unique(Queue)' /\ Waiting' \subseteq Waiting
        /\ \A k \in Keys : qid'[k] >= qid[k]
    BY <1>1, <2>1, <2>3 DEF SentInv
  <2> QED BY <1>2, <1>3, <2>2, <2>4, SentKept
<1>5. ASSUME tasks[w].pc \in {"dispatch", "sharesend"}, UNCHANGED rows,
             tasks'[w].pc \in {"finalize", "shareq"},
             chan' = Append(chan, [key |-> tasks[w].key, id |-> tasks[w].id])
      PROVE  SentInv'
  <2>0. PICK y \in Work : y = [key |-> tasks[w].key, id |-> tasks[w].id]
    BY <1>1 DEF Work, Task
  <2>1. y.key = tasks[w].key /\ y.id = tasks[w].id
    BY <2>0
  <2>2. chan' = Append(chan, y)
    BY <1>5, <2>0
  <2>3. /\ Waiting' = Waiting \cup {y}
        /\ Unique(Queue) /\ y \notin Waiting => Unique(Queue)'
    BY <1>1, <2>1, <2>2, SendAppends
  <2>4. writer'.pc = "collect" => batch' = <<>>
    BY <1>1 DEF SentInv
  <2> SUFFICES ASSUME overruns = 0
               PROVE  /\ Unique(Queue)'
                      /\ \A x \in Waiting' :
                           /\ x.id =< qid[x.key]
                           /\ x.id = qid[x.key] => Guarded(rows[x.key])
                           /\ \A v \in Slots :
                                (Active(v) /\ IsItem(v, x))' => tasks'[v].pc \in Late
    BY <1>1, <1>5, <2>4 DEF SentInv, Guarded
  <2>5. y \notin Waiting
    BY <1>1, <1>5, <2>1 DEF SentInv, IsItem, Late
  <2>6. Unique(Queue)'
    BY <2>3, <2>5 DEF SentInv
  <2>7. /\ y.id =< qid[y.key]
        /\ y.id = qid[y.key] => Guarded(rows[y.key])
    BY <1>1, <2>1 DEF OwnerInv
  <2>8. ASSUME NEW v \in Slots, (Active(v) /\ IsItem(v, y))'
        PROVE  tasks'[v].pc \in Late
    <3>1. CASE v = w
      BY <1>5, <3>1 DEF Late
    <3>2. CASE v # w
      <4>1. Active(v) /\ Same(v, w)
        BY <1>1, <2>1, <2>8, <3>2 DEF Active, IsItem, Same
      <4> QED BY <1>1, <3>2, <4>1 DEF OwnerInv
    <3> QED BY <3>1, <3>2
  <2>9. ASSUME NEW x \in Waiting
        PROVE  /\ x.id =< qid[x.key]
               /\ x.id = qid[x.key] => Guarded(rows[x.key])
               /\ \A v \in Slots : (Active(v) /\ IsItem(v, x))' => tasks'[v].pc \in Late
    <3>1. \A v \in Slots : (Active(v) /\ IsItem(v, x))' => tasks[v].pc \in Late
      BY <1>2 DEF SentInv, ItemsKept, IsItem
    <3> QED BY <1>3, <3>1 DEF SentInv
  <2> QED BY <2>3, <2>6, <2>7, <2>8, <2>9
<1> QED BY <1>4, <1>5, TaskGoesOn

\* A step of the writer: a flush, the end of an item, or a step further with it
LEMMA WriterGoesOn ==
  ASSUME TypeOK, WriterStep
  PROVE  /\ UNCHANGED <<tasks, qid, overruns>>
         /\ \/ /\ \E n \in 1 .. Len(chan), ok \in BOOLEAN : Flush(n, ok)
               /\ writer.pc = "collect" /\ writer'.pc = "resolve" /\ UNCHANGED rows
            \/ /\ writer.pc # "collect" /\ NextWork /\ UNCHANGED chan
               /\ writer'.pc \in {"collect", "resolve"}
            \/ /\ writer.pc # "collect" /\ UNCHANGED <<batch, chan>>
               /\ writer'.pc \in {"delete", "markselect"} /\ ~FtsMark
            \/ /\ writer.pc # "collect" /\ UNCHANGED <<batch, chan, rows>>
               /\ writer'.pc = "mark" /\ writer'.seen = rows[Item.key].retry
<1> USE DEF budget
<1>1. writer \in Writer
  BY DEF TypeOK
<1>2. CASE \E n \in 1 .. Len(chan), ok \in BOOLEAN : Flush(n, ok)
  BY <1>2 DEF Flush, Collect
<1>3. NextWork => writer'.pc \in {"collect", "resolve"}
  BY <1>1 DEF NextWork, Collect, Writer
<1>4. CASE FtsRefused \/ FtsDelete \/ FtsMark
  BY <1>3, <1>4 DEF FtsRefused, FtsDelete, FtsMark
<1>5. CASE FtsResolve
  <2>1. \A to : WriterAt(to) => writer'.pc = to /\ UNCHANGED batch
    BY <1>1 DEF WriterAt, Writer
  <2>2. ~FtsMark
    BY <1>5 DEF FtsResolve, FtsMark
  <2> QED BY <1>3, <1>5, <2>1, <2>2 DEF FtsResolve
<1>6. CASE FtsMarkSelect
  <2>1. writer' = [writer EXCEPT !.pc = "mark", !.seen = rows[Item.key].retry]
          => writer'.pc = "mark" /\ writer'.seen = rows[Item.key].retry
    BY <1>1 DEF Writer
  <2> QED BY <1>3, <1>6, <2>1 DEF FtsMarkSelect
<1> QED BY <1>2, <1>4, <1>5, <1>6 DEF WriterStep

LEMMA SentWriter ==
  ASSUME TypeOK, TypeOK', SentInv, WriterStep
  PROVE  SentInv'
<1>1. UNCHANGED <<tasks, qid, overruns>> /\ qid \in [Keys -> Nat]
  BY WriterGoesOn DEF TypeOK
<1>2. ItemsKept /\ \A w \in Slots : tasks[w].pc \in Late => tasks'[w].pc \in Late
  BY <1>1 DEF ItemsKept, Active
<1>3. \A k \in Keys : Guarded(rows[k]) => Guarded(rows'[k])
  BY WriterActs, ActsKeep
<1>4. \A x \in Waiting : x.key \in Keys
  BY QueueType DEF Work
<1>5. /\ writer'.pc = "collect" => batch' = <<>>
      /\ overruns' = 0 => Unique(Queue)' /\ Waiting' \subseteq Waiting
  <2>1. ASSUME NEW n \in 1 .. Len(chan), NEW ok \in BOOLEAN, Flush(n, ok)
        PROVE  /\ writer'.pc # "collect" /\ UNCHANGED Queue
    <3>1. batch = <<>>
      BY <2>1 DEF Flush, SentInv
    <3> QED BY <2>1, <3>1, FlushMoves DEF Flush, Collect
  <2>2. ASSUME writer.pc # "collect", NextWork, UNCHANGED chan
        PROVE  /\ writer'.pc = "collect" => batch' = <<>>
               /\ overruns = 0 => Unique(Queue)' /\ Waiting' \subseteq Waiting
    <3>1. batch \in Seq(Work) /\ batch # <<>> /\ writer \in Writer
      BY <2>2 DEF TypeOK
    <3>2. writer'.pc = "collect" => batch' = <<>>
      <4>1. CASE Len(batch) = 1
        <5>1. Tail(batch) \in Seq(Work) /\ Len(Tail(batch)) = 0
          BY <3>1, <4>1, HeadTailProperties
        <5> QED BY <2>2, <5>1, EmptySeq DEF NextWork
      <4>2. CASE Len(batch) # 1
        BY <2>2, <3>1, <4>2 DEF NextWork, Writer
      <4> QED BY <4>1, <4>2
    <3> QED BY <2>2, <3>1, <3>2, ItemWaits DEF SentInv
  <2>3. ASSUME writer.pc # "collect", UNCHANGED <<batch, chan>>, writer'.pc # "collect"
        PROVE  writer'.pc # "collect" /\ UNCHANGED Queue
    BY <2>3 DEF Queue
  <2>4. UNCHANGED Queue => UNCHANGED Waiting /\ (Unique(Queue) => Unique(Queue)')
    BY DEF Waiting, Unique
  <2> QED BY <1>1, <2>1, <2>2, <2>3, <2>4, WriterGoesOn DEF SentInv
<1> QED BY <1>1, <1>2, <1>3, <1>4, <1>5, SentKept

LEMMA SentKey ==
  ASSUME TypeOK, TypeOK', SentInv, NEW k \in Keys, KeyStep(k)
  PROVE  SentInv'
<1> USE DEF memory, files, budget
<1>1. UNCHANGED <<tasks, batch, chan, writer>>
  BY DEF KeyStep, Enqueue, EditFile, UserRetry, Discard, LeaseExpires, Reap,
         Resurrect, Triage
<1>2. UNCHANGED Queue /\ UNCHANGED Waiting /\ ItemsKept
  BY <1>1 DEF Queue, Waiting, ItemsKept, Active
<1>3. overruns \in Nat /\ qid \in [Keys -> Nat] /\ rows \in [Keys -> Row]
  BY DEF TypeOK
<1>4. \A j \in Keys : qid'[j] >= qid[j] /\ (Enqueue(k) => qid'[k] > qid[k])
  BY <1>3 DEF KeyStep, Enqueue, EditFile, UserRetry, Discard, LeaseExpires,
              Reap, Resurrect, Triage
<1>5. overruns' = 0 => overruns = 0 /\ (Overtake(k) => ~Held(k))
  BY <1>3 DEF KeyStep, Enqueue, EditFile, UserRetry, Discard, LeaseExpires,
              Reap, Resurrect, Triage, Overtake
<1>6. \A j \in Keys : j # k => rows'[j] = rows[j]
  BY <1>3 DEF KeyStep, Enqueue, EditFile, UserRetry, Discard, LeaseExpires,
              Reap, Resurrect, Triage
<1>7. Unique(Queue) => Unique(Queue)'
  BY <1>2 DEF Unique
<1>8. ASSUME overruns' = 0, NEW x \in Waiting
      PROVE  \/ Guarded(rows[x.key]) => Guarded(rows'[x.key])
             \/ qid'[x.key] > x.id
  <2>1. x \in Work /\ x.id =< qid[x.key] /\ x \in InRange(chan) \cup InRange(batch)
    BY <1>5, <1>8, QueueType, WaitingIs DEF SentInv
  <2>2. x.key \in Keys /\ x.id \in Nat /\ qid[x.key] \in Nat /\ qid'[x.key] \in Nat
    BY <2>1 DEF Work, TypeOK
  <2>3. CASE x.key # k
    BY <1>6, <2>2, <2>3
  <2>4. CASE x.key = k /\ Enqueue(k)
    BY <1>4, <2>1, <2>2, <2>4
  <2>5. CASE x.key = k /\ Overtake(k)
    <3>1. ~Holds(x, k)
      BY <1>5, <1>8, <2>1, <2>5 DEF Held
    <3> QED BY <1>4, <2>1, <2>2, <2>5, <3>1 DEF Holds
  <2> QED BY <2>3, <2>4, <2>5, KeyGuards
<1>9. writer'.pc = "collect" => batch' = <<>>
  BY <1>1 DEF SentInv
<1>10. overruns' = 0 => Unique(Queue)' /\ Waiting' \subseteq Waiting
  BY <1>2, <1>5, <1>7 DEF SentInv
<1>11. \A w \in Slots : tasks[w].pc \in Late => tasks'[w].pc \in Late
  BY <1>1
<1> QED BY <1>2, <1>4, <1>5, <1>8, <1>9, <1>10, <1>11, SentKept

LEMMA SentDequeue ==
  ASSUME TypeOK, TypeOK', SentInv, NEW w \in Slots, NEW k \in Keys, Dequeue(w, k)
  PROVE  SentInv'
<1> USE DEF budget
<1>1. UNCHANGED <<batch, chan, writer, qid, overruns>> /\ qid \in [Keys -> Nat]
  BY DEF Dequeue, TypeOK
<1>2. UNCHANGED Queue /\ UNCHANGED Waiting
  BY <1>1 DEF Queue, Waiting
<1>3. /\ tasks'[w].key = k /\ tasks'[w].id = qid[k]
      /\ \A v \in Slots : v # w => tasks'[v] = tasks[v]
  BY DEF Dequeue, TypeOK, Idle
<1>4. rows[k] \in Row /\ ~Guarded(rows[k])
  BY DEF Dequeue, CanLease, Guarded, TypeOK
<1>5. /\ Guarded(rows'[k])
      /\ \A j \in Keys : j # k => rows'[j] = rows[j]
  BY <1>4, GuardedStatements DEF Dequeue, TypeOK
<1>6. Unique(Queue) => Unique(Queue)'
  BY <1>2 DEF Unique
<1> SUFFICES ASSUME overruns = 0, NEW x \in Waiting
             PROVE  /\ x.id =< qid[x.key]
                    /\ x.id = qid[x.key] => Guarded(rows'[x.key])
                    /\ \A v \in Slots : (Active(v) /\ IsItem(v, x))' => tasks'[v].pc \in Late
  BY <1>1, <1>2, <1>6 DEF SentInv, Guarded
<1>7. /\ x.key \in Keys /\ x.id =< qid[x.key]
      /\ x.id = qid[x.key] => Guarded(rows[x.key])
  BY QueueType DEF SentInv, Work
<1>8. ~(x.key = k /\ x.id = qid[k])
  BY <1>4, <1>7
<1>9. ASSUME NEW v \in Slots, (Active(v) /\ IsItem(v, x))' PROVE tasks'[v].pc \in Late
  <2>1. v # w
    BY <1>3, <1>8, <1>9 DEF IsItem
  <2>2. Active(v) /\ IsItem(v, x) /\ tasks'[v] = tasks[v]
    BY <1>3, <1>9, <2>1 DEF Active, IsItem
  <2> QED BY <2>2 DEF SentInv
<1> QED BY <1>5, <1>7, <1>9

LEMMA SentNext == TypeOK /\ TypeOK' /\ OwnerInv /\ SentInv /\ [Next]_vars => SentInv'
<1> SUFFICES ASSUME TypeOK, TypeOK', OwnerInv, SentInv, [Next]_vars PROVE SentInv'
  OBVIOUS
<1>1. CASE CrashRestart
  <2>1. batch' = <<>> /\ Queue' = <<>>
    BY <1>1 DEF CrashRestart, Queue
  <2>2. Waiting' = {} /\ Unique(Queue)'
    BY <2>1 DEF Waiting, InRange, Unique
  <2> QED BY <2>1, <2>2 DEF SentInv
<1>2. CASE Quiet \/ UNCHANGED vars
  <2>1. UNCHANGED vars
    BY <1>2 DEF Quiet
  <2> QED BY <2>1 DEF vars, SentInv, Unique, Waiting, InRange, Queue, Guarded, Active, IsItem
<1> QED BY <1>1, <1>2, SentTask, SentWriter, SentKey, SentDequeue DEF Next

-----------------------------------------------------------------------------
(* How often a row was tried, and what may still count *)

Open(r) == r.status \in {"pending", "in_progress"}

Sent(k) == \E x \in Waiting : Holds(x, k)

Marking(k) == writer.pc = "mark" /\ Holds(Item, k)

RowBound(k) ==
  /\ rows[k].retry =< Limit + 1
  /\ Open(rows[k]) => rows[k].retry < Limit
  /\ Sent(k) => rows[k].retry =< Limit
  /\ Marking(k) => writer.seen =< Limit

TaskBound(w, k) ==
  Active(w) /\ Holds(tasks[w], k) =>
    /\ rows[k].retry =< Limit
    /\ tasks[w].pc \notin Late \/ Sent(k) => rows[k].retry < Limit
    /\ tasks[w].pc = "mark" => /\ tasks[w].seen =< Limit
                               /\ Sent(k) => tasks[w].seen < Limit
    /\ Marking(k) => writer.seen < Limit

Bound(k) == RowBound(k) /\ \A w \in Slots : TaskBound(w, k)

\* The inductive strengthening of RetryCountBounded
RetryInv == overruns = 0 => \A k \in Keys : Bound(k)

\* A statement that counts no failure: it opens no row that is at the limit
Calm(r, s) == s.retry =< r.retry /\ (Open(s) => s.retry < Limit \/ Open(r))

LEMMA LimitType ==
  Limit \in Nat \ {0} /\ MaxRetries =< Limit /\ FtsMaxRetries =< Limit
BY ConstantsAssumption DEF ConstantsAssumption, Limit

LEMMA CalmTransitive ==
  ASSUME NEW r \in Row, NEW s \in Row, NEW t \in Row, Calm(r, s), Calm(s, t)
  PROVE  Calm(r, t)
<1>1. r.retry \in Nat /\ s.retry \in Nat /\ t.retry \in Nat /\ Limit \in Nat
  BY LimitType DEF Row
<1> QED BY <1>1 DEF Calm

LEMMA CalmStatements ==
  ASSUME NEW r \in Row
  PROVE  /\ Calm(r, r) /\ Calm(r, NoRow) /\ Calm(r, NewRow) /\ Calm(r, UserRetried(r))
         /\ Calm(r, Decided(r)) /\ Calm(r, ExplicitlyMarked(r)) /\ Calm(r, Resolved(r))
         /\ CanLease(r) => Calm(r, Leased(r)) /\ Open(r)
         /\ Stale(r) => Calm(r, Recovered(r))
         /\ Calm(r, AtStartup(r))
         /\ Calm(r, [r EXCEPT !.lease = "past"])
         /\ r.retry < Limit => Calm(r, Parked(r))
<1> USE DEF Row, Calm, Open
<1>0. r.retry \in Nat /\ r.retry >= 0 /\ 0 < Limit /\ Limit \in Nat
  BY LimitType
<1>1. Calm(r, r) /\ Calm(r, NoRow) /\ Calm(r, NewRow)
  BY <1>0 DEF NoRow, NewRow
<1>2. Calm(r, UserRetried(r))
  BY <1>0 DEF UserRetried, Blank
<1>3. Calm(r, Decided(r)) /\ Calm(r, ExplicitlyMarked(r))
  BY <1>0 DEF Decided, Blank, ExplicitlyMarked
<1>4. Calm(r, Resolved(r))
  BY <1>0 DEF Resolved, Verdict
<1>5. CanLease(r) => Calm(r, Leased(r)) /\ Open(r)
  BY <1>0 DEF CanLease, Leased
<1>6. Stale(r) => Calm(r, Recovered(r))
  BY <1>0 DEF Stale, Recovered, Unorphaned
<1>7. Calm(r, AtStartup(r))
  BY <1>0 DEF AtStartup, Recovered, Unorphaned
<1>8. Calm(r, [r EXCEPT !.lease = "past"]) /\ (r.retry < Limit => Calm(r, Parked(r)))
  BY <1>0 DEF Parked
<1> QED BY <1>1, <1>2, <1>3, <1>4, <1>5, <1>6, <1>7, <1>8

LEMMA CalmSink ==
  ASSUME NEW r \in Row, NEW sink, NEW s
  PROVE  Calm(r, WithSink(r, sink, s))
<1>1. WithSink(r, sink, s).retry = r.retry /\ WithSink(r, sink, s).status = r.status
  BY DEF Row, WithSink
<1>2. r.retry \in Nat
  BY DEF Row
<1> QED BY <1>1, <1>2 DEF Calm, Open

LEMMA CalmResurrection ==
  ASSUME NEW r \in Row, NEW max
  PROVE  Calm(r, Resurrected(r, max))
<1>1. r.retry \in Nat /\ r.retry >= 0 /\ 0 < Limit /\ Limit \in Nat
  BY LimitType DEF Row
<1>2. CASE r.revived >= max
  BY <1>1, <1>2 DEF Row, Calm, Open, Resurrected
<1>3. CASE ~(r.revived >= max)
  <2>1. Resurrected(r, max).retry = 0
    BY <1>3 DEF Row, Resurrected, Blank
  <2> QED BY <1>1, <2>1 DEF Calm
<1> QED BY <1>2, <1>3

\* ... and one that counts
LEMMA Counted ==
  ASSUME NEW r \in Row, NEW n \in Nat, NEW e, NEW max \in Nat, max =< Limit
  PROVE  LET s == MarkedFailed(r, n, e, max) IN
         s.retry = n + 1 /\ (Open(s) => s.retry < Limit)
<1>1. MarkedFailed(r, n, e, max).retry = n + 1
  BY DEF Row, MarkedFailed, Blank
<1>2. CASE e # "permanent" /\ n + 1 < max
  BY <1>1, <1>2, LimitType
<1>3. CASE ~(e # "permanent" /\ n + 1 < max)
  <2>1. MarkedFailed(r, n, e, max).status = "failed"
    BY <1>3 DEF Row, MarkedFailed, Blank
  <2> QED BY <1>1, <2>1 DEF Open
<1> QED BY <1>2, <1>3

-----------------------------------------------------------------------------
(* A step that counts no failure *)

\* A holder writes only what is calm
Calms(x) == \/ UNCHANGED rows
            \/ \E r \in Row : (Finds(x) => Calm(rows[x.key], r)) /\ Write(x, r)

LEMMA CalmsEveryRow ==
  ASSUME TypeOK, NEW x, x.key \in Keys, Calms(x), NEW k \in Keys
  PROVE  Calm(rows[k], rows'[k])
<1>1. rows \in [Keys -> Row] /\ Calm(rows[k], rows[k])
  BY CalmStatements DEF TypeOK
<1>2. ASSUME NEW r \in Row, Finds(x) => Calm(rows[x.key], r), Write(x, r)
      PROVE  Calm(rows[k], rows'[k])
  BY <1>1, <1>2 DEF Write
<1> QED BY <1>1, <1>2 DEF Calms

LEMMA TaskCalms ==
  ASSUME TypeOK, RetryInv, overruns = 0, NEW w \in Slots, TaskStep(w), ~Mark(w)
  PROVE  Calms(tasks[w])
<1> USE DEF At, others, rest, budget, files
<1>1. /\ tasks[w].key \in Keys /\ RowOf(w) \in Row /\ Active(w)
      /\ RowOf(w) = rows[tasks[w].key]
  BY TaskActs, TaskGoesOn DEF TypeOK, RowOf
<1>2. ASSUME NEW sink \in Sinks, NEW s \in Sink, Write(tasks[w], WithSink(RowOf(w), sink, s))
      PROVE  Calms(tasks[w])
  BY <1>1, <1>2, SinkStatement, CalmSink DEF Calms
<1>3. CASE \/ Start(w) \/ PlainOk(w) \/ Purge(w) \/ PrepareUntracked(w)
           \/ Upsert(w) \/ DispatchEnqueued(w) \/ DispatchSkipped(w)
           \/ DispatchFails(w) \/ ShareGeneration(w) \/ ShareSent(w)
           \/ HandlerFails(w) \/ Refused(w) \/ MarkSelect(w) \/ TaskDies(w)
  BY <1>3
     DEF Calms, Start, PlainOk, Purge, PrepareUntracked, Upsert,
         DispatchEnqueued, DispatchSkipped, DispatchFails, ShareGeneration,
         ShareSent, HandlerFails, Refused, MarkSelect, TaskDies
<1>4. CASE \/ FileGone(w) \/ FileVoid(w) \/ Skip(w) \/ RetrySearch(w)
           \/ StartIngest(w) \/ MarkQdrant(w) \/ StartSearch(w)
           \/ SettleSearch(w) \/ ShareSearch(w) \/ ShareQdrant(w)
           \/ UpsertFails(w) \/ ShareRefused(w)
  <2>1. \/ UNCHANGED rows
        \/ \E sink \in {"qdrant", "search"}, s \in {"done", "failed", "in_progress"} :
             Write(tasks[w], WithSink(RowOf(w), sink, s))
    BY <1>4 DEF FileGone, FileVoid, Skip, RetrySearch, StartIngest, MarkQdrant,
                StartSearch, SettleSearch, ShareSearch, ShareQdrant, UpsertFails,
                ShareRefused, SetSink, HandlerWrites
  <2> QED BY <1>2, <2>1 DEF Sinks, Sink, Calms
<1>5. CASE Decide(w)
  BY <1>1, <1>5, RowStatements, CalmStatements DEF Decide, HandlerWrites, Calms
<1>6. CASE ReLeasePending(w) \/ Park(w)
  <2>1. tasks[w].pc \notin Late
    BY <1>6 DEF ReLeasePending, Park, Late
  <2>2. Finds(tasks[w]) => RowOf(w).retry < Limit
    BY <1>1, <2>1 DEF RetryInv, Bound, TaskBound, Finds, Holds
  <2>3. Write(tasks[w], Parked(RowOf(w))) \/ UNCHANGED rows
    BY <1>6 DEF ReLeasePending, Park
  <2> QED BY <1>1, <2>2, <2>3, RowStatements, CalmStatements DEF Calms
<1>7. CASE Finalize(w)
  <2> DEFINE e == ExplicitlyMarked(RowOf(w))
             r == Resolved(e)
  <2>1. e \in Row /\ Calm(RowOf(w), e)
    BY <1>1, RowStatements, CalmStatements
  <2> HIDE DEF e
  <2>2. r \in Row /\ Calm(e, r)
    BY <2>1, RowStatements, CalmStatements
  <2>3. Calm(RowOf(w), r)
    BY <1>1, <2>1, <2>2, CalmTransitive
  <2>4. Write(tasks[w], r)
    BY <1>7 DEF Finalize, e
  <2> QED BY <1>1, <2>2, <2>3, <2>4 DEF Calms
<1>8. CASE Delete(w)
  BY <1>1, <1>8, RowStatements, CalmStatements DEF Delete, DeleteRow, Calms
<1> QED
  BY <1>3, <1>4, <1>5, <1>6, <1>7, <1>8 DEF TaskStep, Handler, Ending

LEMMA WriterCalms ==
  ASSUME TypeOK, WriterStep, ~FtsMark
  PROVE  UNCHANGED rows \/ (Item.key \in Keys /\ Calms(Item))
<1> USE DEF budget, files
<1>1. ASSUME writer.pc # "collect"
      PROVE  Item.key \in Keys /\ rows[Item.key] \in Row
  <2>1. batch \in Seq(Work) /\ batch # <<>>
    BY <1>1 DEF TypeOK
  <2>2. Item \in Work
    BY <2>1 DEF Item
  <2> QED BY <2>2 DEF TypeOK, Work
<1>2. CASE FtsResolve
  <2> DEFINE s == WithSink(rows[Item.key], "search",
                           IF writer.ok THEN "done" ELSE "failed")
             r == Resolved(s)
  <2>1. Item.key \in Keys /\ rows[Item.key] \in Row
    BY <1>1, <1>2 DEF FtsResolve
  <2>2. s \in Row /\ Calm(rows[Item.key], s)
    BY <2>1, SinkStatement, CalmSink DEF Sinks, Sink
  <2>3. Write(Item, r)
    BY <1>2 DEF FtsResolve
  <2> HIDE DEF s
  <2>4. r \in Row /\ Calm(s, r)
    BY <2>2, RowStatements, CalmStatements
  <2>5. Calm(rows[Item.key], r)
    BY <2>1, <2>2, <2>4, CalmTransitive
  <2> QED BY <2>1, <2>3, <2>4, <2>5 DEF Calms
<1>3. CASE FtsDelete
  <2>1. Item.key \in Keys /\ rows[Item.key] \in Row
    BY <1>1, <1>3 DEF FtsDelete
  <2> QED BY <1>3, <2>1, RowStatements, CalmStatements DEF FtsDelete, DeleteRow, Calms
<1> QED
  BY <1>2, <1>3 DEF WriterStep, Flush, FtsRefused, FtsMarkSelect

LEMMA KeyCalms ==
  ASSUME TypeOK, NEW k \in Keys, KeyStep(k), NEW j \in Keys
  PROVE  Calm(rows[j], rows'[j])
<1>1. rows \in [Keys -> Row] /\ Calm(rows[j], rows[j])
  BY CalmStatements DEF TypeOK
<1>2. \/ UNCHANGED rows
      \/ \E r : rows' = [rows EXCEPT ![k] = r] /\ Calm(rows[k], r)
  <2> USE <1>1, CalmStatements
  <2>1. CASE Enqueue(k)
    BY <2>1 DEF Enqueue
  <2>2. CASE EditFile(k)
    BY <2>2 DEF EditFile
  <2>3. CASE UserRetry(k)
    <3>1. rows' = [rows EXCEPT ![k] = UserRetried(rows[k])]
      BY <2>3 DEF UserRetry
    <3> QED BY <3>1
  <2>4. CASE Discard(k) \/ Triage(k)
    BY <2>4 DEF Discard, Triage
  <2>5. CASE LeaseExpires(k)
    <3>1. rows' = [rows EXCEPT ![k] = [rows[k] EXCEPT !.lease = "past"]]
      BY <2>5 DEF LeaseExpires
    <3> QED BY <3>1
  <2>6. CASE Reap(k)
    <3>1. rows' = [rows EXCEPT ![k] = Recovered(rows[k])]
      BY <2>6 DEF Reap
    <3> QED BY <2>6, <3>1 DEF Reap
  <2>7. CASE Resurrect(k)
    <3>1. rows' = [rows EXCEPT ![k] = Resurrected(rows[k], MaxResurrections)]
      BY <2>7 DEF Resurrect
    <3> QED BY <3>1, CalmResurrection
  <2> QED BY <2>1, <2>2, <2>3, <2>4, <2>5, <2>6, <2>7 DEF KeyStep
<1> QED BY <1>1, <1>2

\* What a step does, as far as the bounds of k can tell, that counts no failure of k
Follows(k) ==
  /\ Calm(rows[k], rows'[k])
  /\ Sent(k)' => Sent(k) \/ rows[k].retry =< Limit
  /\ Marking(k)' => \/ Marking(k) /\ writer'.seen = writer.seen
                    \/ Sent(k) /\ writer'.seen = rows[k].retry
  /\ \A w \in Slots : (Active(w) /\ Holds(tasks[w], k))' =>
       \/ rows[k].retry < Limit /\ ~Marking(k)' /\ tasks'[w].pc # "mark"
       \/ /\ Active(w) /\ Holds(tasks[w], k) /\ (Sent(k)' => Sent(k))
          /\ tasks[w].pc \in Late => tasks'[w].pc \in Late
          /\ tasks'[w].pc = "mark" =>
               \/ tasks[w].pc = "mark" /\ tasks'[w].seen = tasks[w].seen
               \/ tasks'[w].seen = rows[k].retry

LEMMA FollowsKept ==
  ASSUME TypeOK, TypeOK', NEW k \in Keys, Bound(k), Follows(k)
  PROVE  Bound(k)'
<1>1. /\ rows[k].retry \in Nat /\ rows'[k].retry \in Nat /\ Limit \in Nat
      /\ writer.seen \in Nat /\ writer'.seen \in Nat
      /\ \A w \in Slots : tasks[w].seen \in Nat /\ tasks'[w].seen \in Nat
  BY LimitType, TaskType DEF TypeOK, Row, Writer
<1>2. /\ rows'[k].retry =< rows[k].retry
      /\ Open(rows'[k]) => rows'[k].retry < Limit \/ Open(rows[k])
  BY DEF Follows, Calm
<1>3. RowBound(k)
  BY DEF Bound
<1>4. RowBound(k)'
  <2>1. rows'[k].retry =< Limit + 1
    BY <1>1, <1>2, <1>3 DEF RowBound
  <2>2. Open(rows'[k]) => rows'[k].retry < Limit
    BY <1>1, <1>2, <1>3 DEF RowBound
  <2>3. Sent(k)' => rows'[k].retry =< Limit
    BY <1>1, <1>2, <1>3 DEF RowBound, Follows
  <2>4. Marking(k)' => writer'.seen =< Limit
    BY <1>1, <1>3 DEF RowBound, Follows
  <2> QED BY <2>1, <2>2, <2>3, <2>4 DEF RowBound, Open
<1>5. ASSUME NEW w \in Slots PROVE TaskBound(w, k)'
  <2> SUFFICES ASSUME (Active(w) /\ Holds(tasks[w], k))'
               PROVE  /\ rows'[k].retry =< Limit
                      /\ tasks'[w].pc \notin Late \/ Sent(k)' => rows'[k].retry < Limit
                      /\ tasks'[w].pc = "mark" =>
                           tasks'[w].seen =< Limit /\ (Sent(k)' => tasks'[w].seen < Limit)
                      /\ Marking(k)' => writer'.seen < Limit
    BY DEF TaskBound
  <2>1. CASE rows[k].retry < Limit /\ ~Marking(k)' /\ tasks'[w].pc # "mark"
    BY <1>1, <1>2, <2>1
  <2>2. CASE /\ Active(w) /\ Holds(tasks[w], k) /\ (Sent(k)' => Sent(k))
             /\ tasks[w].pc \in Late => tasks'[w].pc \in Late
             /\ tasks'[w].pc = "mark" =>
                  \/ tasks[w].pc = "mark" /\ tasks'[w].seen = tasks[w].seen
                  \/ tasks'[w].seen = rows[k].retry
    <3>1. /\ rows[k].retry =< Limit
          /\ tasks[w].pc \notin Late \/ Sent(k) => rows[k].retry < Limit
          /\ tasks[w].pc = "mark" =>
               tasks[w].seen =< Limit /\ (Sent(k) => tasks[w].seen < Limit)
          /\ Marking(k) => writer.seen < Limit
      BY <2>2 DEF Bound, TaskBound
    <3>2. rows'[k].retry =< Limit
      BY <1>1, <1>2, <3>1
    <3>3. tasks'[w].pc \notin Late \/ Sent(k)' => rows'[k].retry < Limit
      BY <1>1, <1>2, <2>2, <3>1
    <3>4. tasks'[w].pc = "mark" =>
            tasks'[w].seen =< Limit /\ (Sent(k)' => tasks'[w].seen < Limit)
      BY <1>1, <2>2, <3>1
    <3>5. Marking(k)' => writer'.seen < Limit
      BY <1>1, <3>1 DEF Follows
    <3> QED BY <3>2, <3>3, <3>4, <3>5
  <2> QED BY <2>1, <2>2 DEF Follows
<1> QED BY <1>4, <1>5 DEF Bound

\* The item the writer is at is one that waits
LEMMA MarkingIsSent ==
  ASSUME TypeOK, SentInv, overruns = 0, NEW k
  PROVE  /\ writer.pc # "collect" => Item \in Waiting /\ Item \in Work
         /\ Marking(k) => Sent(k)
<1>1. writer.pc # "collect" => Item \in Waiting /\ Item \in Work
  BY ItemWaits DEF TypeOK, SentInv
<1> QED BY <1>1 DEF Marking, Sent

LEMMA RetryTask ==
  ASSUME TypeOK, TypeOK', OwnerInv, SentInv, RetryInv, NEW w \in Slots, TaskStep(w)
  PROVE  RetryInv'
<1>1. /\ UNCHANGED <<batch, writer, qid, overruns>>
      /\ \A v \in Slots : v # w => tasks'[v] = tasks[v]
      /\ Active(w) /\ tasks[w].key \in Keys /\ tasks[w] \in Task
      /\ Active(w)' =>
           /\ tasks'[w].key = tasks[w].key /\ tasks'[w].id = tasks[w].id
           /\ tasks[w].pc \in Late => tasks'[w].pc \in Late
           /\ tasks'[w].pc = "mark" =>
                Finds(tasks[w]) /\ tasks'[w].seen = RowOf(w).retry /\ UNCHANGED rows
      /\ \/ UNCHANGED chan
         \/ /\ tasks[w].pc \in {"dispatch", "sharesend"} /\ UNCHANGED rows
            /\ tasks'[w].pc \in {"finalize", "shareq"}
            /\ chan' = Append(chan, [key |-> tasks[w].key, id |-> tasks[w].id])
  BY TaskGoesOn, TaskActs DEF TypeOK
<1> SUFFICES ASSUME overruns = 0, NEW k \in Keys PROVE Bound(k)'
  BY <1>1 DEF RetryInv
<1>2. Bound(k)
  BY DEF RetryInv
<1>3. UNCHANGED chan => UNCHANGED Sent(k) /\ UNCHANGED Marking(k)
  BY <1>1 DEF Sent, Waiting, InRange, Queue, Holds, Marking, Item
<1>4. \A v \in Slots : (Active(v) /\ Holds(tasks[v], k))' =>
         /\ Active(v) /\ Holds(tasks[v], k)
         /\ tasks[v].pc \in Late => tasks'[v].pc \in Late
         /\ tasks'[v].pc = "mark" =>
              \/ tasks[v].pc = "mark" /\ tasks'[v].seen = tasks[v].seen
              \/ tasks'[v].seen = rows[k].retry
  <2> SUFFICES ASSUME NEW v \in Slots, (Active(v) /\ Holds(tasks[v], k))'
               PROVE  /\ Active(v) /\ Holds(tasks[v], k)
                      /\ tasks[v].pc \in Late => tasks'[v].pc \in Late
                      /\ tasks'[v].pc = "mark" =>
                           \/ tasks[v].pc = "mark" /\ tasks'[v].seen = tasks[v].seen
                           \/ tasks'[v].seen = rows[k].retry
    OBVIOUS
  <2>1. CASE v = w
    <3>1. Active(w) /\ Holds(tasks[w], k) /\ tasks[w].key = k
      BY <1>1, <2>1 DEF Holds
    <3> QED BY <1>1, <2>1, <3>1 DEF RowOf
  <2>2. CASE v # w
    BY <1>1, <2>2 DEF Active, Holds
  <2> QED BY <2>1, <2>2
<1>5. CASE ~Mark(w) /\ UNCHANGED chan
  <2>1. Calm(rows[k], rows'[k])
    BY <1>1, <1>5, TaskCalms, CalmsEveryRow
  <2>2. Follows(k)
    BY <1>1, <1>3, <1>4, <1>5, <2>1 DEF Follows
  <2> QED BY <1>2, <2>2, FollowsKept
<1>6. ASSUME tasks[w].pc \in {"dispatch", "sharesend"}, UNCHANGED rows,
             tasks'[w].pc \in {"finalize", "shareq"},
             chan' = Append(chan, [key |-> tasks[w].key, id |-> tasks[w].id])
      PROVE  Bound(k)'
  <2>0. PICK y \in Work : y = [key |-> tasks[w].key, id |-> tasks[w].id]
    BY <1>1 DEF Work, Task
  <2>1. Waiting' = Waiting \cup {y} /\ y.key = tasks[w].key /\ y.id = tasks[w].id
    BY <1>1, <1>6, <2>0, SendAppends
  <2>2. Calm(rows[k], rows'[k])
    BY <1>6, CalmStatements DEF TypeOK
  <2>3. Marking(k)' => Marking(k) /\ writer'.seen = writer.seen
    BY <1>1 DEF Marking, Item, Holds
  <2>4. CASE Holds(tasks[w], k)
    <3>1. rows[k].retry < Limit
      BY <1>1, <1>2, <1>6, <2>4 DEF Bound, TaskBound, Late
    <3>2. ~Marking(k)
      <4> SUFFICES ASSUME Marking(k) PROVE FALSE
        OBVIOUS
      <4>1. Item \in Waiting /\ IsItem(w, Item)
        BY <2>4, MarkingIsSent DEF Marking, Holds, IsItem
      <4> QED BY <1>1, <1>6, <4>1 DEF SentInv, Late
    <3>3. \A v \in Slots : (Active(v) /\ Holds(tasks[v], k))' => v = w
      <4> SUFFICES ASSUME NEW v \in Slots, (Active(v) /\ Holds(tasks[v], k))', v # w
                   PROVE  FALSE
        OBVIOUS
      <4>1. Active(v) /\ Same(v, w)
        BY <1>4, <2>4 DEF Holds, Same
      <4> QED BY <1>1, <4>1 DEF OwnerInv
    <3>4. rows[k].retry =< Limit
      BY <3>1, LimitType DEF TypeOK, Row
    <3>5. tasks'[w].pc # "mark"
      BY <1>6
    <3>6. Follows(k)
      BY <2>2, <2>3, <3>1, <3>2, <3>3, <3>4, <3>5 DEF Follows
    <3> QED BY <1>2, <3>6, FollowsKept
  <2>5. CASE ~Holds(tasks[w], k)
    <3>1. Sent(k)' => Sent(k)
      BY <1>1, <2>1, <2>5 DEF Sent, Holds
    <3>2. Follows(k)
      BY <1>4, <2>2, <2>3, <3>1 DEF Follows
    <3> QED BY <1>2, <3>2, FollowsKept
  <2> QED BY <2>4, <2>5
<1>7. CASE Mark(w)
  <2> DEFINE r == MarkedFailed(RowOf(w), tasks[w].seen, tasks[w].err, MaxRetries)
  <2>1. UNCHANGED <<chan, upsets>> /\ Leave(w) /\ Write(tasks[w], r) /\ tasks[w].pc = "mark"
    BY <1>7 DEF Mark, rest, others, At
  <2>2. RowOf(w) \in Row /\ tasks[w].seen \in Nat /\ MaxRetries \in Nat
    BY <1>1, ConstantsAssumption DEF ConstantsAssumption, RowOf, TypeOK, Task
  <2>3. r.retry = tasks[w].seen + 1 /\ (Open(r) => r.retry < Limit)
    BY <2>2, LimitType, Counted
  <2> HIDE DEF r
  <2>4. ~Active(w)'
    BY <2>1 DEF Leave, Active, Idle, TypeOK
  <2>5. rows \in [Keys -> Row]
    BY DEF TypeOK
  <2>6. CASE Finds(tasks[w]) /\ tasks[w].key = k
    <3>1. rows'[k] = r /\ Holds(tasks[w], k)
      BY <2>1, <2>5, <2>6 DEF Write, Finds, Holds
    <3>2. tasks[w].seen =< Limit /\ (Sent(k) => tasks[w].seen < Limit)
      BY <1>1, <1>2, <2>1, <3>1 DEF Bound, TaskBound
    <3>3. r.retry =< Limit + 1 /\ (Sent(k) => r.retry =< Limit)
      BY <2>2, <2>3, <3>2, LimitType
    <3>4. UNCHANGED Sent(k) /\ UNCHANGED Marking(k) /\ UNCHANGED writer
      BY <1>1, <1>3, <2>1
    <3>5. RowBound(k)'
      BY <1>2, <2>3, <3>1, <3>3, <3>4 DEF Bound, RowBound, Open
    <3>6. ASSUME NEW v \in Slots, (Active(v) /\ Holds(tasks[v], k))' PROVE FALSE
      <4>1. v # w
        BY <2>4, <3>6
      <4>2. Active(v) /\ Same(v, w)
        BY <1>4, <3>1, <3>6 DEF Holds, Same
      <4> QED BY <1>1, <4>1, <4>2 DEF OwnerInv
    <3> QED BY <3>5, <3>6 DEF Bound, TaskBound
  <2>7. CASE ~(Finds(tasks[w]) /\ tasks[w].key = k)
    <3>1. rows'[k] = rows[k]
      BY <2>1, <2>5, <2>7 DEF Write
    <3>2. Calm(rows[k], rows'[k])
      BY <2>5, <3>1, CalmStatements
    <3>3. Follows(k)
      BY <1>1, <1>3, <1>4, <2>1, <3>2 DEF Follows
    <3> QED BY <1>2, <3>3, FollowsKept
  <2> QED BY <2>6, <2>7
<1> QED BY <1>1, <1>5, <1>6, <1>7

LEMMA RetryWriter ==
  ASSUME TypeOK, TypeOK', SentInv, RetryInv, WriterStep
  PROVE  RetryInv'
<1>1. UNCHANGED <<tasks, qid, overruns>>
  BY WriterGoesOn
<1> SUFFICES ASSUME overruns = 0, NEW k \in Keys PROVE Bound(k)'
  BY <1>1 DEF RetryInv
<1>2. Bound(k) /\ writer \in Writer /\ rows \in [Keys -> Row]
  BY DEF RetryInv, TypeOK
<1>3. writer.pc # "collect" => Item \in Waiting /\ Item \in Work /\ batch # <<>>
  BY MarkingIsSent DEF TypeOK
<1>4. ASSUME writer.pc # "collect", NextWork, UNCHANGED chan
      PROVE  Waiting' = Waiting \ {Item}
  BY <1>3, <1>4, ItemWaits DEF SentInv
<1>5. Sent(k)' => Sent(k)
  <2>1. Waiting' \subseteq Waiting
    <3>1. ASSUME NEW n \in 1 .. Len(chan), NEW ok \in BOOLEAN, Flush(n, ok)
          PROVE  UNCHANGED Waiting
      <4>1. batch = <<>>
        BY <3>1 DEF Flush, SentInv
      <4> QED BY <3>1, <4>1, FlushMoves DEF Waiting
    <3>2. UNCHANGED <<batch, chan>> => UNCHANGED Waiting
      BY DEF Waiting, Queue
    <3> QED BY <1>4, <3>1, <3>2, WriterGoesOn
  <2> QED BY <1>1, <2>1 DEF Sent, Holds
<1>6. Marking(k)' => \/ Marking(k) /\ writer'.seen = writer.seen
                     \/ Sent(k) /\ writer'.seen = rows[k].retry
  <2> SUFFICES ASSUME Marking(k)' PROVE Sent(k) /\ writer'.seen = rows[k].retry
    OBVIOUS
  <2>1. /\ writer.pc # "collect" /\ UNCHANGED <<batch, chan, rows>>
        /\ writer'.seen = rows[Item.key].retry
    BY WriterGoesOn DEF Marking
  <2>2. Holds(Item, k)
    BY <1>1, <2>1 DEF Marking, Item, Holds
  <2> QED BY <1>3, <2>1, <2>2 DEF Sent, Holds
<1>7. ASSUME Calm(rows[k], rows'[k]) PROVE Bound(k)'
  <2>1. Follows(k)
    BY <1>1, <1>5, <1>6, <1>7 DEF Follows, Active, Holds
  <2> QED BY <1>2, <2>1, FollowsKept
<1>8. CASE ~FtsMark
  <2>1. Calm(rows[k], rows'[k])
    BY <1>2, <1>8, WriterCalms, CalmsEveryRow, CalmStatements
  <2> QED BY <1>7, <2>1
<1>9. CASE FtsMark
  <2> DEFINE r == MarkedFailed(rows[Item.key], writer.seen, "transient", FtsMaxRetries)
  <2>1. /\ writer.pc = "mark" /\ NextWork /\ UNCHANGED chan /\ Write(Item, r)
        /\ Item \in Work /\ Item \in Waiting /\ Waiting' = Waiting \ {Item}
    BY <1>3, <1>4, <1>9 DEF FtsMark
  <2>2. rows[Item.key] \in Row /\ writer.seen \in Nat /\ FtsMaxRetries \in Nat
    BY <1>2, <2>1, ConstantsAssumption DEF ConstantsAssumption, Work, Writer
  <2>3. r.retry = writer.seen + 1 /\ (Open(r) => r.retry < Limit)
    BY <2>2, LimitType, Counted
  <2> HIDE DEF r
  <2>4. CASE Finds(Item) /\ Item.key = k
    <3>1. rows'[k] = r /\ Marking(k)
      BY <1>2, <2>1, <2>4 DEF Write, Finds, Holds, Marking
    <3>2. writer.seen =< Limit
      BY <1>2, <3>1 DEF Bound, RowBound
    <3>3. ~Sent(k)'
      <4> SUFFICES ASSUME NEW x \in Waiting', Holds(x, k)' PROVE FALSE
        BY DEF Sent
      <4>1. x \in Work /\ x # Item /\ x.key = Item.key /\ x.id = Item.id
        BY <1>1, <2>1, <3>1, QueueType DEF Holds, Marking
      <4>2. \A y, z \in Work : y.key = z.key /\ y.id = z.id => y = z
        BY DEF Work
      <4> QED BY <2>1, <4>1, <4>2
    <3>4. ~Marking(k)'
      BY <1>2, <2>1 DEF Marking, NextWork, Collect, Writer
    <3>5. r.retry =< Limit + 1
      BY <2>2, <2>3, <3>2, LimitType
    <3>6. RowBound(k)'
      BY <2>3, <3>1, <3>3, <3>4, <3>5 DEF RowBound, Open
    <3>7. ASSUME NEW w \in Slots, (Active(w) /\ Holds(tasks[w], k))'
          PROVE  /\ rows'[k].retry =< Limit
                 /\ tasks'[w].pc \in Late
                 /\ tasks'[w].pc = "mark" => tasks'[w].seen =< Limit
      <4>1. Active(w) /\ Holds(tasks[w], k) /\ tasks'[w] = tasks[w]
        BY <1>1, <3>7 DEF Active, Holds
      <4>2. IsItem(w, Item)
        BY <3>1, <4>1 DEF IsItem, Holds, Marking
      <4>3. writer.seen < Limit /\ (tasks[w].pc = "mark" => tasks[w].seen =< Limit)
        BY <1>2, <3>1, <4>1 DEF Bound, TaskBound
      <4>4. r.retry =< Limit
        BY <2>2, <2>3, <4>3, LimitType
      <4> QED BY <2>1, <3>1, <4>1, <4>2, <4>3, <4>4 DEF SentInv
    <3> QED BY <3>3, <3>4, <3>6, <3>7 DEF Bound, TaskBound
  <2>5. CASE ~(Finds(Item) /\ Item.key = k)
    <3>1. rows'[k] = rows[k]
      BY <1>2, <2>1, <2>5 DEF Write
    <3> QED BY <1>2, <1>7, <3>1, CalmStatements
  <2> QED BY <2>4, <2>5
<1> QED BY <1>8, <1>9

LEMMA RetryKey ==
  ASSUME TypeOK, TypeOK', OwnerInv, SentInv, RetryInv, NEW j \in Keys, KeyStep(j)
  PROVE  RetryInv'
<1> USE DEF memory, files, budget
<1>1. UNCHANGED <<tasks, batch, chan, writer>>
  BY DEF KeyStep, Enqueue, EditFile, UserRetry, Discard, LeaseExpires, Reap,
         Resurrect, Triage
<1>2. UNCHANGED Waiting
  BY <1>1 DEF Waiting, Queue
<1>3. overruns' = 0 => overruns = 0
  BY DEF TypeOK, KeyStep, Enqueue, EditFile, UserRetry, Discard, LeaseExpires,
         Reap, Resurrect, Triage, Overtake
<1> SUFFICES ASSUME overruns = 0, NEW k \in Keys PROVE Bound(k)'
  BY <1>3 DEF RetryInv
<1>4. Bound(k) /\ Calm(rows[k], rows'[k])
  BY KeyCalms DEF RetryInv
<1>5. qid'[k] = qid[k] \/ (qid'[k] > qid[k] /\ qid[k] \in Nat /\ qid'[k] \in Nat)
  BY DEF TypeOK, KeyStep, Enqueue, EditFile, UserRetry, Discard, LeaseExpires,
         Reap, Resurrect, Triage
\* Whoever held the row of before holds none if there is a new one
<1>6. \A x \in Waiting : Holds(x, k)' => Holds(x, k)
  <2> SUFFICES ASSUME NEW x \in Waiting, Holds(x, k)', ~Holds(x, k) PROVE FALSE
    OBVIOUS
  <2>1. x.id =< qid[k] /\ x.id = qid'[k] /\ x.id \in Nat
    BY QueueType DEF SentInv, Holds, Work
  <2> QED BY <1>5, <2>1 DEF Holds
<1>7. \A w \in Slots : (Active(w) /\ Holds(tasks[w], k))' => Active(w) /\ Holds(tasks[w], k)
  <2> SUFFICES ASSUME NEW w \in Slots, (Active(w) /\ Holds(tasks[w], k))', ~Holds(tasks[w], k)
               PROVE FALSE
    BY <1>1 DEF Active
  <2>1. Active(w) /\ tasks[w].key = k /\ tasks[w].id = qid'[k]
    BY <1>1 DEF Active, Holds
  <2>2. tasks[w].id =< qid[k] /\ tasks[w].id \in Nat
    BY <2>1, TaskType DEF OwnerInv, TypeOK
  <2> QED BY <1>5, <2>1, <2>2 DEF Holds
<1>8. Sent(k)' => Sent(k)
  BY <1>2, <1>6 DEF Sent
<1>9. Marking(k)' => Marking(k) /\ writer'.seen = writer.seen
  <2> SUFFICES ASSUME Marking(k)' PROVE Marking(k)
    BY <1>1
  <2>1. writer.pc = "mark" /\ Item' = Item
    BY <1>1 DEF Marking, Item
  <2>2. Item \in Waiting
    BY <2>1, MarkingIsSent
  <2> QED BY <1>6, <2>1, <2>2 DEF Marking, Holds
<1>10. Follows(k)
  BY <1>1, <1>4, <1>7, <1>8, <1>9 DEF Follows
<1> QED BY <1>4, <1>10, FollowsKept

LEMMA RetryDequeue ==
  ASSUME TypeOK, TypeOK', SentInv, RetryInv, NEW w \in Slots, NEW j \in Keys, Dequeue(w, j)
  PROVE  RetryInv'
<1> USE DEF budget
<1>1. UNCHANGED <<batch, chan, writer, qid, overruns>>
  BY DEF Dequeue
<1> SUFFICES ASSUME overruns = 0, NEW k \in Keys PROVE Bound(k)'
  BY <1>1 DEF RetryInv
<1>2. Bound(k) /\ rows \in [Keys -> Row]
  BY DEF RetryInv, TypeOK
<1>3. UNCHANGED Sent(k) /\ UNCHANGED Marking(k)
  BY <1>1 DEF Sent, Waiting, InRange, Queue, Holds, Marking, Item
<1>4. /\ tasks'[w].key = j /\ tasks'[w].pc = "leased"
      /\ \A v \in Slots : v # w => tasks'[v] = tasks[v]
  BY DEF Dequeue, TypeOK, Idle
<1>5. Calm(rows[k], rows'[k])
  BY <1>2, CalmStatements DEF Dequeue
<1>6. ASSUME j = k PROVE rows[k].retry < Limit /\ ~Marking(k)
  <2>1. Open(rows[k]) /\ ~Guarded(rows[k])
    BY <1>2, <1>6 DEF Dequeue, CanLease, Open, Guarded, Row
  <2>2. ~Sent(k)
    BY <2>1 DEF Sent, SentInv, Holds
  <2> QED BY <1>2, <2>1, <2>2, MarkingIsSent DEF Bound, RowBound
<1>7. ASSUME NEW v \in Slots, (Active(v) /\ Holds(tasks[v], k))'
      PROVE  \/ rows[k].retry < Limit /\ ~Marking(k)' /\ tasks'[v].pc # "mark"
             \/ /\ Active(v) /\ Holds(tasks[v], k) /\ (Sent(k)' => Sent(k))
                /\ UNCHANGED tasks[v]
  <2>1. CASE v = w
    BY <1>3, <1>4, <1>6, <1>7, <2>1 DEF Holds
  <2>2. CASE v # w
    BY <1>1, <1>3, <1>4, <1>7, <2>2 DEF Active, Holds
  <2> QED BY <2>1, <2>2
<1>8. Follows(k)
  BY <1>1, <1>3, <1>5, <1>7 DEF Follows
<1> QED BY <1>2, <1>8, FollowsKept

LEMMA RetryRestart ==
  ASSUME TypeOK, TypeOK', RetryInv, CrashRestart
  PROVE  RetryInv'
<1>1. UNCHANGED overruns /\ \A w \in Slots : ~Active(w)'
  BY DEF CrashRestart, Active, Idle
<1> SUFFICES ASSUME overruns = 0, NEW k \in Keys PROVE Bound(k)'
  BY <1>1 DEF RetryInv
<1>2. Bound(k) /\ rows[k] \in Row
  BY DEF RetryInv, TypeOK
<1>3. ~Sent(k)' /\ ~Marking(k)'
  BY DEF CrashRestart, Sent, Waiting, InRange, Queue, Marking, Collect
<1>4. Calm(rows[k], rows'[k])
  BY <1>2, CalmStatements DEF CrashRestart
<1>5. Follows(k)
  BY <1>1, <1>3, <1>4 DEF Follows
<1> QED BY <1>2, <1>5, FollowsKept

LEMMA RetryNext ==
  TypeOK /\ TypeOK' /\ OwnerInv /\ SentInv /\ RetryInv /\ [Next]_vars => RetryInv'
<1> SUFFICES ASSUME TypeOK, TypeOK', OwnerInv, SentInv, RetryInv, [Next]_vars
             PROVE  RetryInv'
  OBVIOUS
<1>1. CASE Quiet \/ UNCHANGED vars
  <2>1. UNCHANGED vars
    BY <1>1 DEF Quiet
  <2> QED BY <2>1 DEF vars, RetryInv, Bound, RowBound, TaskBound, Active, Holds, Sent,
                      Marking, Waiting, InRange, Queue, Item, Open
<1> QED BY <1>1, RetryTask, RetryWriter, RetryKey, RetryDequeue, RetryRestart DEF Next

LEMMA RetryInit == Init => RetryInv
<1> SUFFICES ASSUME Init, NEW k \in Keys PROVE Bound(k)
  BY DEF RetryInv
<1>1. rows[k].retry = 0 /\ writer.pc = "collect" /\ \A w \in Slots : ~Active(w)
  BY DEF Init, NoRow, Collect, Active, Idle
<1>2. ~Sent(k)
  BY DEF Init, Sent, Waiting, InRange, Queue
<1> QED BY <1>1, <1>2, LimitType DEF Bound, RowBound, TaskBound, Marking

\* The item's worker and the batch writer each read the count and write it later, and
\* both may count one failure; while no lease overtakes its holder, a row is
\* never tried more often than once beyond the limit.
THEOREM RetriesAreBounded == Spec => []RetryCountBounded
<1>1. RetryInv => RetryCountBounded
  BY DEF RetryInv, Bound, RowBound, RetryCountBounded
<1>2. Init => TypeOK /\ OwnerInv /\ SentInv /\ RetryInv
  BY InitType, OwnerInit, SentInit, RetryInit
<1>3. TypeOK /\ OwnerInv /\ SentInv /\ RetryInv /\ [Next]_vars
        => (TypeOK /\ OwnerInv /\ SentInv /\ RetryInv)'
  BY NextType, OwnerNext, SentNext, RetryNext
<1> QED BY <1>1, <1>2, <1>3, PTL DEF Spec
=============================================================================
