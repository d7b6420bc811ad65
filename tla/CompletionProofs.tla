--------------------------- MODULE CompletionProofs ---------------------------
(***************************************************************************)
(* DecidedCompletionIsProved and RetriesAreKept of UnifiedQueue, and the     *)
(* refinement of WorkPromise, where no lease has overtaken its holder and no *)
(* write of a handler is lost: a decided row is done only when both sinks    *)
(* were written, and is deleted only when nothing is left to do.             *)
(*                                                                         *)
(* The two sinks of a row are written by two actors, and the work that a     *)
(* sink stands for is done at another moment than the sink is set.  So the   *)
(* proof keeps, for every place an item may be at, what its row may claim    *)
(* given what its work still owes (Duty), and what the row itself may claim  *)
(* (RowPaid, SearchPaid).                                                   *)
(***************************************************************************)
EXTENDS UnifiedQueueProofs, UnifiedQueueRefinement

-----------------------------------------------------------------------------
(* Until an item is at its end, its row is there and in progress *)

LeaseInv ==
  overruns = 0 =>
    \A w \in Slots : Active(w) /\ tasks[w].pc \notin Late =>
      Holds(tasks[w], tasks[w].key) /\ RowOf(w).status = "in_progress"

\* Nobody writes the row of another item
LEMMA OthersRows ==
  ASSUME TypeOK, NEW x, x.key \in Keys, Acts(x), NEW k \in Keys, ~Finds(x) \/ x.key # k
  PROVE  rows'[k] = rows[k]
<1>1. rows \in [Keys -> Row]
  BY DEF TypeOK
<1> QED BY <1>1 DEF Acts, DeleteRow, Write

\* A step of an item that is not at its end leaves the status alone
LEMMA TaskKeepsStatus ==
  ASSUME TypeOK, NEW w \in Slots, TaskStep(w), Active(w)', tasks'[w].pc \notin Late
  PROVE  rows'[tasks[w].key].status = RowOf(w).status
<1> USE DEF At, others, rest, budget, files
<1>1. /\ tasks[w].key \in Keys /\ RowOf(w) \in Row /\ tasks[w] \in Task
      /\ RowOf(w) = rows[tasks[w].key] /\ rows \in [Keys -> Row]
      /\ tasks \in [Slots -> Task]
  BY TaskActs, TaskGoesOn DEF TypeOK, RowOf
<1>2. ~Leave(w)
  BY <1>1 DEF Leave, Active, Idle
<1>3. \A to \in Late : ~Goto(w, to)
  <2>1. ASSUME NEW to \in Late, Goto(w, to) PROVE FALSE
    <3>1. tasks'[w] = [tasks[w] EXCEPT !.pc = to]
      BY <1>1, <2>1 DEF Goto
    <3> QED BY <1>1, <3>1 DEF Task
  <2> QED BY <2>1
<1>4. \A e : tasks' # [tasks EXCEPT ![w].pc = "markselect", ![w].err = e]
  <2>1. ASSUME NEW e, tasks' = [tasks EXCEPT ![w].pc = "markselect", ![w].err = e]
        PROVE  FALSE
    <3>1. tasks'[w] = [tasks[w] EXCEPT !.pc = "markselect", !.err = e]
      BY <1>1, <2>1
    <3> QED BY <1>1, <3>1 DEF Task, Late
  <2> QED BY <2>1
<1>5. ASSUME NEW sink, NEW s, Write(tasks[w], WithSink(RowOf(w), sink, s))
      PROVE  rows'[tasks[w].key].status = RowOf(w).status
  <2>1. WithSink(RowOf(w), sink, s).status = RowOf(w).status
    BY <1>1 DEF Row, WithSink
  <2> QED BY <1>1, <1>5, <2>1 DEF Write
<1>6. CASE UNCHANGED rows
  BY <1>1, <1>6
<1>7. CASE \E sink, s : Write(tasks[w], WithSink(RowOf(w), sink, s))
  BY <1>5, <1>7
<1>8. CASE Decide(w)
  <2>1. Decided(RowOf(w)).status = RowOf(w).status
    BY <1>1 DEF Row, Decided, Blank
  <2> QED BY <1>1, <1>6, <1>8, <2>1 DEF Decide, HandlerWrites, Write
<1>9. CASE Handler(w) /\ ~Decide(w)
  <2>1. UNCHANGED rows \/ \E sink, s : Write(tasks[w], WithSink(RowOf(w), sink, s))
    BY <1>9
       DEF Handler, PlainOk, FileGone, FileVoid, Skip, Purge,
           PrepareUntracked, RetrySearch, StartIngest, Upsert,
           UpsertFails, MarkQdrant, StartSearch, DispatchEnqueued,
           DispatchSkipped, DispatchFails, SettleSearch, ShareGeneration,
           ShareSearch, ShareSent, ShareRefused, ShareQdrant, HandlerFails,
           SetSink, HandlerWrites
  <2> QED BY <1>6, <1>7, <2>1
<1>10. CASE Ending(w)
  <2>1. UNCHANGED rows
    BY <1>2, <1>3, <1>4, <1>10
       DEF Ending, Finalize, Refused, Delete, MarkSelect, Mark, Park, TaskDies, Late
  <2> QED BY <1>6, <2>1
<1>11. CASE Start(w) \/ ReLeasePending(w)
  BY <1>2, <1>6, <1>11 DEF Start, ReLeasePending
<1> QED BY <1>8, <1>9, <1>10, <1>11 DEF TaskStep

LEMMA LeaseTask ==
  ASSUME TypeOK, OwnerInv, LeaseInv, NEW w \in Slots, TaskStep(w)
  PROVE  LeaseInv'
<1>1. /\ UNCHANGED <<qid, overruns>>
      /\ \A v \in Slots : v # w => tasks'[v] = tasks[v]
      /\ Active(w) /\ tasks[w].key \in Keys /\ Acts(tasks[w])
      /\ Active(w)' => /\ tasks'[w].key = tasks[w].key /\ tasks'[w].id = tasks[w].id
                       /\ tasks[w].pc \in Late => tasks'[w].pc \in Late
  BY TaskGoesOn, TaskActs
<1> SUFFICES ASSUME overruns = 0, NEW v \in Slots, Active(v)', tasks'[v].pc \notin Late
             PROVE  /\ Holds(tasks[v], tasks[v].key)'
                    /\ rows'[tasks'[v].key].status = "in_progress"
  BY <1>1 DEF LeaseInv, RowOf, Holds
<1>2. Active(v) /\ tasks[v].pc \notin Late /\ tasks'[v].key = tasks[v].key
      /\ tasks'[v].id = tasks[v].id
  BY <1>1 DEF Active
<1>3. Holds(tasks[v], tasks[v].key) /\ RowOf(v).status = "in_progress"
  BY <1>2 DEF LeaseInv
<1>4. CASE v = w
  BY <1>1, <1>2, <1>3, <1>4, TaskKeepsStatus DEF Holds
<1>5. CASE v # w
  <2>1. ~Finds(tasks[w]) \/ tasks[w].key # tasks[v].key
    BY <1>1, <1>2, <1>3, <1>5 DEF OwnerInv, Same, Finds, Holds
  <2>2. tasks[v].key \in Keys
    BY <1>2 DEF Active, TypeOK
  <2>3. rows'[tasks[v].key] = rows[tasks[v].key]
    BY <1>1, <2>1, <2>2, OthersRows
  <2> QED BY <1>1, <1>2, <1>3, <2>3 DEF Holds, RowOf
<1> QED BY <1>4, <1>5

LEMMA LeaseWriter ==
  ASSUME TypeOK, SentInv, LeaseInv, WriterStep
  PROVE  LeaseInv'
<1>1. UNCHANGED <<tasks, qid, overruns>>
  BY WriterGoesOn
<1> SUFFICES ASSUME overruns = 0, NEW v \in Slots, Active(v), tasks[v].pc \notin Late
             PROVE  /\ rows'[tasks[v].key].status = "in_progress"
                    /\ Holds(tasks[v], tasks[v].key)
  BY <1>1 DEF LeaseInv, RowOf, Holds, Active
<1>2. /\ Holds(tasks[v], tasks[v].key) /\ rows[tasks[v].key].status = "in_progress"
      /\ tasks[v].key \in Keys
  BY DEF LeaseInv, RowOf, Active, TypeOK
<1>3. CASE writer.pc = "collect"
  <2>1. UNCHANGED rows
    BY <1>3 DEF WriterStep, Flush, FtsResolve, FtsRefused, FtsDelete, FtsMarkSelect,
                FtsMark
  <2> QED BY <1>2, <2>1
<1>4. CASE writer.pc # "collect"
  <2>1. Item \in Waiting /\ Item \in Work
    BY <1>4, MarkingIsSent
  <2>2. ~Finds(Item) \/ Item.key # tasks[v].key
    BY <1>2, <2>1 DEF SentInv, IsItem, Finds, Holds
  <2>3. UNCHANGED rows \/ Acts(Item)
    BY WriterActs
  <2>4. rows'[tasks[v].key] = rows[tasks[v].key]
    BY <1>2, <2>1, <2>2, <2>3, OthersRows DEF Work
  <2> QED BY <1>2, <2>4
<1> QED BY <1>3, <1>4

LEMMA LeaseKey ==
  ASSUME TypeOK, OwnerInv, LeaseInv, NEW k \in Keys, KeyStep(k)
  PROVE  LeaseInv'
<1> USE DEF memory, files, budget
<1>1. UNCHANGED tasks /\ rows \in [Keys -> Row] /\ overruns \in Nat
  BY DEF TypeOK, KeyStep, Enqueue, EditFile, UserRetry, Discard, LeaseExpires, Reap,
         Resurrect, Triage
<1>2. overruns' = 0 => overruns = 0 /\ (Overtake(k) => ~Held(k))
  BY <1>1 DEF KeyStep, Enqueue, EditFile, UserRetry, Discard, LeaseExpires,
              Reap, Resurrect, Triage, Overtake
<1> SUFFICES ASSUME overruns = 0, overruns' = 0,
                    NEW v \in Slots, Active(v), tasks[v].pc \notin Late
             PROVE  /\ Holds(tasks[v], tasks[v].key)'
                    /\ rows'[tasks[v].key].status = "in_progress"
  BY <1>1, <1>2 DEF LeaseInv, RowOf, Active
<1>3. /\ Holds(tasks[v], tasks[v].key) /\ rows[tasks[v].key].status = "in_progress"
      /\ tasks[v].key \in Keys
  BY DEF LeaseInv, RowOf, Active, TypeOK
<1>4. rows[tasks[v].key].lease = "ahead"
  BY <1>3 DEF OwnerInv, Guarded, Holds
<1>5. CASE tasks[v].key # k
  <2>1. rows'[tasks[v].key] = rows[tasks[v].key] /\ qid'[tasks[v].key] = qid[tasks[v].key]
    BY <1>1, <1>3, <1>5 DEF TypeOK, KeyStep, Enqueue, EditFile, UserRetry, Discard,
              LeaseExpires, Reap, Resurrect, Triage
  <2> QED BY <1>1, <1>3, <2>1 DEF Holds
<1>6. CASE tasks[v].key = k
  <2>1. Held(k) /\ Active(v)
    BY <1>3, <1>6 DEF Held
  <2>2. EditFile(k)
    BY <1>2, <1>3, <1>4, <1>6, <2>1
       DEF KeyStep, Enqueue, Present, UserRetry, Discard, LeaseExpires, Reap, Stale,
           Resurrect, LoopIdle, Triage, Active
  <2> QED BY <1>1, <1>3, <2>2 DEF EditFile, Holds
<1> QED BY <1>5, <1>6

LEMMA LeaseDequeue ==
  ASSUME TypeOK, OwnerInv, LeaseInv, NEW w \in Slots, NEW k \in Keys, Dequeue(w, k)
  PROVE  LeaseInv'
<1> USE DEF budget
<1>1. UNCHANGED <<qid, overruns>> /\ rows \in [Keys -> Row]
  BY DEF Dequeue, TypeOK
<1>2. /\ tasks'[w].key = k /\ tasks'[w].id = qid[k]
      /\ \A v \in Slots : v # w => tasks'[v] = tasks[v]
  BY DEF Dequeue, TypeOK, Idle
<1>3. /\ rows'[k].status = "in_progress" /\ ~Guarded(rows[k])
      /\ \A j \in Keys : j # k => rows'[j] = rows[j]
  BY <1>1 DEF Dequeue, CanLease, Leased, Guarded, Row
<1> SUFFICES ASSUME overruns = 0, NEW v \in Slots, Active(v)', tasks'[v].pc \notin Late
             PROVE  /\ Holds(tasks[v], tasks[v].key)'
                    /\ rows'[tasks'[v].key].status = "in_progress"
  BY <1>1 DEF LeaseInv, RowOf
<1>4. CASE v = w
  BY <1>1, <1>2, <1>3, <1>4 DEF Holds
<1>5. CASE v # w
  <2>1. Active(v) /\ tasks'[v] = tasks[v]
    BY <1>2, <1>5 DEF Active
  <2>2. /\ Holds(tasks[v], tasks[v].key) /\ rows[tasks[v].key].status = "in_progress"
        /\ tasks[v].key \in Keys
    BY <2>1 DEF LeaseInv, RowOf, Active, TypeOK
  <2>3. tasks[v].key # k
    BY <1>3, <2>1, <2>2 DEF OwnerInv, Holds
  <2> QED BY <1>1, <1>3, <2>1, <2>2, <2>3 DEF Holds
<1> QED BY <1>4, <1>5

LEMMA LeaseNext ==
  TypeOK /\ OwnerInv /\ SentInv /\ LeaseInv /\ [Next]_vars => LeaseInv'
<1> SUFFICES ASSUME TypeOK, OwnerInv, SentInv, LeaseInv, [Next]_vars PROVE LeaseInv'
  OBVIOUS
<1>1. CASE CrashRestart
  BY <1>1 DEF CrashRestart, LeaseInv, Active, Idle
<1>2. CASE Quiet \/ UNCHANGED vars
  BY <1>2 DEF Quiet, vars, LeaseInv, Active, RowOf, Holds
<1> QED BY <1>1, <1>2, LeaseTask, LeaseWriter, LeaseKey, LeaseDequeue DEF Next

LEMMA LeaseInit == Init => LeaseInv
BY DEF Init, LeaseInv, Active, Idle

-----------------------------------------------------------------------------
(* What a row may claim of its sinks, given what its work still owes *)

SearchPaid(r, o) == r.decided /\ r.search = "done" => "search" \notin o

\* A purge takes the generation away for which the Qdrant sink may stand
RowPaid(r, o, t) ==
  /\ r.decided /\ r.qdrant = "done" => "qdrant" \notin o /\ (t = "none" => o = {})
  /\ r.decided /\ r.status = "done" => o = {}

\* What holds of the row of an item that is at pc
Duty(pc, r, o, t) ==
  /\ pc = "purge" => r.qdrant = "pending"
  /\ pc \in {"markq", "share", "sharesend", "shareq"} => "qdrant" \notin o /\ t # "none"
  /\ pc \in {"dispatch", "sharesend"} => r.search = "in_progress"
  /\ pc = "shareq" => SearchPaid(r, o)
  /\ pc = "ftsdone" => "search" \notin o
  /\ pc = "settle" => o = {}
  /\ pc = "finalize" =>
       (r.decided /\ r.qdrant = "done" /\ r.search = "done" => o = {})

Duties == {"purge", "markq", "share", "sharesend", "shareq", "dispatch", "ftsdone",
           "settle", "finalize"}

Paid(k) ==
  /\ RowPaid(rows[k], owed[k], tracked[k])
  /\ Sent(k) => SearchPaid(rows[k], owed[k])
  /\ writer.ok => \A x \in InRange(batch) : Holds(x, k) => "search" \notin owed[k]
  /\ \A w \in Slots : Active(w) /\ Holds(tasks[w], k) =>
       Duty(tasks[w].pc, rows[k], owed[k], tracked[k])

\* The inductive strengthening of DecidedCompletionIsProved
PaidInv == overruns = 0 /\ ~LostWrites => \A k \in Keys : Paid(k)

LEMMA PaidType ==
  ASSUME TypeOK, NEW k \in Keys
  PROVE  /\ rows[k] \in Row /\ owed[k] \in SUBSET Sinks /\ tracked[k] \in Tracked
         /\ rows \in [Keys -> Row] /\ owed \in [Keys -> SUBSET Sinks]
         /\ tracked \in [Keys -> Tracked] /\ qid \in [Keys -> Nat]
BY DEF TypeOK

\* Statements that claim nothing new
LEMMA ClaimsNothing ==
  ASSUME NEW r \in Row, NEW o, NEW t, RowPaid(r, o, t)
  PROVE  /\ RowPaid(NoRow, o, t) /\ RowPaid(NewRow, o, t) /\ RowPaid(Leased(r), o, t)
         /\ RowPaid(Parked(r), o, t) /\ RowPaid(Recovered(r), o, t)
         /\ RowPaid(AtStartup(r), o, t) /\ RowPaid(UserRetried(r), o, t)
         /\ RowPaid([r EXCEPT !.lease = "past"], o, t)
<1> USE DEF Row, RowPaid
<1>1. RowPaid(NoRow, o, t) /\ RowPaid(NewRow, o, t)
  BY DEF NoRow, NewRow
<1>2. RowPaid(Leased(r), o, t) /\ RowPaid(Parked(r), o, t)
  BY DEF Leased, Parked
<1>3. RowPaid(Recovered(r), o, t) /\ RowPaid(AtStartup(r), o, t)
  BY DEF Recovered, AtStartup, Unorphaned, Orphan
<1>4. RowPaid(UserRetried(r), o, t) /\ RowPaid([r EXCEPT !.lease = "past"], o, t)
  BY DEF UserRetried, Blank
<1> QED BY <1>1, <1>2, <1>3, <1>4

LEMMA ClaimsNothingFailed ==
  ASSUME NEW r \in Row, NEW o, NEW t, NEW n, NEW e, NEW max
  PROVE  LET s == MarkedFailed(r, n, e, max) IN
         RowPaid(s, o, t) /\ s.search = "pending" /\ s.qdrant = "pending"
BY DEF Row, RowPaid, MarkedFailed, Blank

LEMMA ClaimsNothingResurrected ==
  ASSUME NEW r \in Row, NEW o, NEW t, NEW max, RowPaid(r, o, t), SearchPaid(r, o)
  PROVE  RowPaid(Resurrected(r, max), o, t) /\ SearchPaid(Resurrected(r, max), o)
<1> USE DEF Row, RowPaid, SearchPaid
<1>1. CASE r.revived >= max
  BY <1>1 DEF Resurrected
<1>2. CASE ~(r.revived >= max)
  BY <1>2 DEF Resurrected, Blank
<1> QED BY <1>1, <1>2

LEMMA ClaimsNothingResurrectedRow ==
  ASSUME NEW r \in Row, NEW o, NEW t, NEW max, RowPaid(r, o, t)
  PROVE  RowPaid(Resurrected(r, max), o, t)
<1> USE DEF Row, RowPaid
<1>1. CASE r.revived >= max
  BY <1>1 DEF Resurrected
<1>2. CASE ~(r.revived >= max)
  BY <1>2 DEF Resurrected, Blank
<1> QED BY <1>1, <1>2

\* A step that leaves the row, its debts and its file alone, or pays
LEMMA PaidStays ==
  ASSUME TypeOK, NEW k \in Keys, Paid(k),
         UNCHANGED rows[k], UNCHANGED tracked[k], owed'[k] \subseteq owed[k],
         Sent(k)' => Sent(k),
         writer'.ok =>
           \A x \in InRange(batch') : Holds(x, k)' => "search" \notin owed'[k],
         \A w \in Slots : (Active(w) /\ Holds(tasks[w], k))' =>
           \/ tasks'[w].pc \notin Duties
           \/ Active(w) /\ Holds(tasks[w], k) /\ UNCHANGED tasks[w]
  PROVE  Paid(k)'
<1>1. RowPaid(rows[k], owed[k], tracked[k])'
  BY DEF Paid, RowPaid
<1>2. Sent(k)' => SearchPaid(rows[k], owed[k])'
  BY DEF Paid, SearchPaid
<1>3. ASSUME NEW w \in Slots, (Active(w) /\ Holds(tasks[w], k))'
      PROVE  Duty(tasks[w].pc, rows[k], owed[k], tracked[k])'
  <2>1. CASE tasks'[w].pc \notin Duties
    BY <2>1 DEF Duty, Duties
  <2>2. CASE Active(w) /\ Holds(tasks[w], k) /\ UNCHANGED tasks[w]
    BY <2>2 DEF Paid, Duty, SearchPaid
  <2> QED BY <1>3, <2>1, <2>2
<1> QED BY <1>1, <1>2, <1>3 DEF Paid

-----------------------------------------------------------------------------
(* The steps of an item, up to its end *)

Kept(w, k) ==
  /\ RowPaid(rows[k], owed[k], tracked[k])'
  /\ Active(w)' => Duty(tasks[w].pc, rows[k], owed[k], tracked[k])'

LEMMA Moved ==
  ASSUME TypeOK, NEW w \in Slots, NEW to, Goto(w, to)
  PROVE  tasks'[w].pc = to
<1>1. tasks[w] \in Task /\ tasks'[w] = [tasks[w] EXCEPT !.pc = to]
  BY DEF TypeOK, Goto
<1> QED BY <1>1 DEF Task

LEMMA MovedToMark ==
  ASSUME TypeOK, NEW w \in Slots, NEW e,
         tasks' = [tasks EXCEPT ![w].pc = "markselect", ![w].err = e]
  PROVE  tasks'[w].pc = "markselect"
<1>1. tasks[w] \in Task /\ tasks'[w] = [tasks[w] EXCEPT !.pc = "markselect", !.err = e]
  BY DEF TypeOK
<1> QED BY <1>1 DEF Task

LEMMA SinkWritten ==
  ASSUME TypeOK, ~LostWrites, NEW w \in Slots, tasks[w].key \in Keys, Finds(tasks[w]),
         NEW sink, NEW s, NEW to, SetSink(w, sink, s, to)
  PROVE  /\ rows'[tasks[w].key] = WithSink(rows[tasks[w].key], sink, s)
         /\ tasks'[w].pc = to
BY Moved DEF TypeOK, SetSink, HandlerWrites, Write, RowOf

\* The steps that write no sink
LEMMA UnwrittenPaid ==
  ASSUME TypeOK, ~LostWrites, NEW w \in Slots, NEW k \in Keys, k = tasks[w].key,
         Finds(tasks[w]), rows[k].status = "in_progress",
         RowPaid(rows[k], owed[k], tracked[k]),
         Duty(tasks[w].pc, rows[k], owed[k], tracked[k]),
         \/ Start(w) \/ ReLeasePending(w) \/ PlainOk(w) \/ Decide(w) \/ Purge(w)
         \/ PrepareUntracked(w) \/ Upsert(w) \/ DispatchEnqueued(w)
         \/ DispatchSkipped(w) \/ DispatchFails(w) \/ ShareGeneration(w)
         \/ ShareSent(w) \/ HandlerFails(w) \/ TaskDies(w) \/ Park(w)
         \/ (Delete(w) /\ At(w, "remove")) \/ (Refused(w) /\ tasks[w].pc \notin Late)
  PROVE  Kept(w, k)
<1> USE DEF At, others, rest, budget, files, RowOf, TrackedOf
<1>1. /\ rows[k] \in Row /\ owed[k] \in SUBSET Sinks /\ rows \in [Keys -> Row]
      /\ owed \in [Keys -> SUBSET Sinks] /\ tracked \in [Keys -> Tracked]
      /\ tasks \in [Slots -> Task]
  BY PaidType DEF TypeOK
<1>2. Leave(w) => ~Active(w)'
  BY <1>1 DEF Leave, Active, Idle
<1>3. Parked(rows[k]).decided => Parked(rows[k]).status = "pending"
  BY <1>1 DEF Parked, Row
<1>4. CASE Start(w) \/ PrepareUntracked(w) \/ DispatchFails(w) \/ HandlerFails(w)
  <2>1. tasks'[w].pc \notin Duties
    BY <1>4, Moved, MovedToMark
       DEF Start, PrepareUntracked, AfterPreparing, DispatchFails, HandlerFails, Duties
  <2>2. UNCHANGED <<rows, owed, tracked>>
    BY <1>4 DEF Start, PrepareUntracked, DispatchFails, HandlerFails
  <2> QED BY <2>1, <2>2 DEF Kept, RowPaid, Duty, Duties
<1>5. CASE ReLeasePending(w) \/ Park(w)
  <2>1. /\ rows'[k] = Parked(rows[k]) \/ UNCHANGED rows
        /\ UNCHANGED <<owed, tracked>> /\ ~Active(w)'
    BY <1>1, <1>2, <1>5 DEF ReLeasePending, Park, Write
  <2>2. CASE UNCHANGED rows
    BY <2>1, <2>2 DEF Kept, RowPaid
  <2>3. CASE rows'[k] = Parked(rows[k])
    BY <1>1, <2>1, <2>3, ClaimsNothing DEF Kept
  <2> QED BY <2>1, <2>2, <2>3
<1>6. CASE TaskDies(w) \/ Refused(w)
  <2>1. UNCHANGED <<rows, owed, tracked>> /\ ~Active(w)'
    BY <1>2, <1>6 DEF TaskDies, Refused
  <2> QED BY <2>1 DEF Kept, RowPaid
<1>7. CASE Delete(w)
  <2>1. rows'[k] = NoRow /\ UNCHANGED <<owed, tracked>> /\ ~Active(w)'
    BY <1>1, <1>2, <1>7 DEF Delete, DeleteRow, Write
  <2> QED BY <2>1 DEF Kept, RowPaid, NoRow
<1>8. CASE PlainOk(w)
  <2>1. owed'[k] = {} /\ tasks'[w].pc = "finalize" /\ UNCHANGED rows
    BY <1>1, <1>8, Moved DEF PlainOk, Vouches
  <2> QED BY <2>1 DEF Kept, RowPaid, Duty
<1>9. CASE Decide(w)
  <2>1. rows'[k] = Decided(rows[k]) /\ tasks'[w].pc = "purge"
    BY <1>1, <1>9, Moved DEF Decide, HandlerWrites, Write
  <2>2. rows'[k].qdrant = "pending" /\ rows'[k].status = "in_progress"
    BY <1>1, <2>1 DEF Decided, Blank, Row
  <2> QED BY <2>1, <2>2 DEF Kept, RowPaid, Duty
<1>10. CASE Purge(w)
  <2>1. UNCHANGED <<rows, owed>> /\ tasks'[w].pc \notin Duties
    BY <1>10, Moved DEF Purge, AfterPreparing, Duties
  <2>2. rows[k].qdrant = "pending"
    BY <1>10 DEF Purge, Duty
  <2> QED BY <2>1, <2>2 DEF Kept, RowPaid, Duty, Duties
<1>11. CASE Upsert(w) \/ ShareGeneration(w)
  <2>1. /\ UNCHANGED rows /\ tracked'[k] = "current" /\ owed'[k] = owed[k] \ {"qdrant"}
        /\ tasks'[w].pc \in {"markq", "share"}
    BY <1>1, <1>11, Moved DEF Upsert, ShareGeneration, Generation, Pays, Finds
  <2> QED BY <2>1 DEF Kept, RowPaid, Duty
<1>12. CASE DispatchSkipped(w)
  <2>1. /\ UNCHANGED <<rows, tracked>> /\ owed'[k] = owed[k] \ {"search"}
        /\ tasks'[w].pc = "ftsdone"
    BY <1>1, <1>12, Moved DEF DispatchSkipped, Pays, Finds
  <2> QED BY <2>1 DEF Kept, RowPaid, Duty
<1>13. CASE DispatchEnqueued(w)
  <2>1. UNCHANGED <<rows, owed, tracked>> /\ tasks'[w].pc = "finalize"
    BY <1>13, Moved DEF DispatchEnqueued
  <2>2. rows[k].search = "in_progress"
    BY <1>13 DEF DispatchEnqueued, Duty
  <2> QED BY <2>1, <2>2 DEF Kept, RowPaid, Duty
<1>14. CASE ShareSent(w)
  <2>1. UNCHANGED <<rows, owed, tracked>> /\ tasks'[w].pc = "shareq"
    BY <1>14, Moved DEF ShareSent
  <2>2. rows[k].search = "in_progress" /\ "qdrant" \notin owed[k] /\ tracked[k] # "none"
    BY <1>14 DEF ShareSent, Duty
  <2> QED BY <2>1, <2>2 DEF Kept, RowPaid, Duty, SearchPaid
<1> QED BY <1>4, <1>5, <1>6, <1>7, <1>8, <1>9, <1>10, <1>11, <1>12, <1>13, <1>14

LEMMA SinkParts ==
  ASSUME NEW r \in Row, NEW s
  PROVE  /\ WithSink(r, "qdrant", s).qdrant = s
         /\ WithSink(r, "qdrant", s).search = r.search
         /\ WithSink(r, "qdrant", s).decided = r.decided
         /\ WithSink(r, "qdrant", s).status = r.status
         /\ WithSink(r, "search", s).search = s
         /\ WithSink(r, "search", s).qdrant = r.qdrant
         /\ WithSink(r, "search", s).decided = r.decided
         /\ WithSink(r, "search", s).status = r.status
BY DEF Row, WithSink

\* ... and those that write one
LEMMA WrittenPaid ==
  ASSUME TypeOK, ~LostWrites, NEW w \in Slots, NEW k \in Keys, k = tasks[w].key,
         Finds(tasks[w]), rows[k].status = "in_progress",
         RowPaid(rows[k], owed[k], tracked[k]),
         Duty(tasks[w].pc, rows[k], owed[k], tracked[k]),
         \/ FileGone(w) \/ FileVoid(w) \/ Skip(w) \/ RetrySearch(w) \/ StartIngest(w)
         \/ UpsertFails(w) \/ MarkQdrant(w) \/ StartSearch(w) \/ SettleSearch(w)
         \/ ShareSearch(w) \/ ShareRefused(w)
  PROVE  Kept(w, k)
<1> USE DEF At, others, rest, budget, files, RowOf, TrackedOf
<1> DEFINE r == rows[k]
<1>1. /\ r \in Row /\ owed[k] \in SUBSET Sinks /\ rows \in [Keys -> Row]
      /\ owed \in [Keys -> SUBSET Sinks] /\ tracked \in [Keys -> Tracked]
      /\ tasks \in [Slots -> Task]
  BY PaidType DEF TypeOK
<1>3. \A s : /\ WithSink(r, "qdrant", s).qdrant = s
             /\ WithSink(r, "qdrant", s).search = r.search
             /\ WithSink(r, "qdrant", s).decided = r.decided
             /\ WithSink(r, "qdrant", s).status = r.status
  BY <1>1, SinkParts
<1>4. \A s : /\ WithSink(r, "search", s).search = s
             /\ WithSink(r, "search", s).qdrant = r.qdrant
             /\ WithSink(r, "search", s).decided = r.decided
             /\ WithSink(r, "search", s).status = r.status
  BY <1>1, SinkParts
<1>5. CASE FileGone(w) \/ FileVoid(w)
  <2>1. owed'[k] = {} /\ tasks'[w].pc = "settle"
    BY <1>1, <1>5, SinkWritten DEF FileGone, FileVoid, Vouches
  <2> QED BY <2>1 DEF Kept, RowPaid, Duty
<1>6. CASE Skip(w)
  <2>1. /\ rows'[k] = WithSink(r, "qdrant", "done") /\ tasks'[w].pc = "research"
        /\ owed'[k] = owed[k] \ {"qdrant"} /\ tracked'[k] = "current"
    BY <1>1, <1>6, SinkWritten DEF Skip, Pays, Finds
  <2> QED BY <1>3, <2>1 DEF Kept, RowPaid, Duty
<1>7. CASE RetrySearch(w)
  <2>1. UNCHANGED <<owed, tracked>>
    BY <1>7 DEF RetrySearch
  <2>2. CASE tracked[k] = "none"
    <3>1. rows'[k] = WithSink(r, "search", "done") /\ tasks'[w].pc = "finalize"
      BY <1>1, <1>7, <2>2, SinkWritten DEF RetrySearch
    <3> QED BY <1>4, <2>1, <2>2, <3>1 DEF Kept, RowPaid, Duty
  <2>3. CASE tracked[k] # "none"
    <3>1. rows'[k] = WithSink(r, "search", "in_progress") /\ tasks'[w].pc = "dispatch"
      BY <1>1, <1>7, <2>3, SinkWritten DEF RetrySearch
    <3> QED BY <1>4, <2>1, <3>1 DEF Kept, RowPaid, Duty
  <2> QED BY <2>2, <2>3
<1>8. CASE StartIngest(w)
  <2>1. /\ rows'[k] = WithSink(r, "qdrant", "in_progress") /\ tasks'[w].pc = "upsert"
        /\ UNCHANGED <<owed, tracked>>
    BY <1>1, <1>8, SinkWritten DEF StartIngest
  <2> QED BY <1>3, <2>1 DEF Kept, RowPaid, Duty
<1>9. CASE UpsertFails(w)
  <2>1. /\ rows'[k] = r \/ rows'[k] = WithSink(r, "qdrant", "failed")
        /\ tasks'[w].pc = "markselect" /\ UNCHANGED <<owed, tracked>>
    BY <1>1, <1>9, MovedToMark DEF UpsertFails, Write
  <2> QED BY <1>3, <2>1 DEF Kept, RowPaid, Duty
<1>10. CASE MarkQdrant(w)
  <2>1. /\ rows'[k] = WithSink(r, "qdrant", "done") /\ tasks'[w].pc = "search"
        /\ UNCHANGED <<owed, tracked>>
    BY <1>1, <1>10, SinkWritten DEF MarkQdrant
  <2>2. "qdrant" \notin owed[k] /\ tracked[k] # "none"
    BY <1>10 DEF MarkQdrant, Duty
  <2> QED BY <1>3, <2>1, <2>2 DEF Kept, RowPaid, Duty
<1>11. CASE StartSearch(w)
  <2>1. /\ rows'[k] = WithSink(r, "search", "in_progress") /\ tasks'[w].pc = "dispatch"
        /\ UNCHANGED <<owed, tracked>>
    BY <1>1, <1>11, SinkWritten DEF StartSearch
  <2> QED BY <1>4, <2>1 DEF Kept, RowPaid, Duty
<1>12. CASE SettleSearch(w)
  <2>1. UNCHANGED <<owed, tracked>>
    BY <1>12 DEF SettleSearch
  <2>2. CASE tasks[w].pc = "ftsfailed"
    <3>1. rows'[k] = WithSink(r, "search", "failed") /\ tasks'[w].pc = "finalize"
      BY <1>1, <1>12, <2>2, SinkWritten DEF SettleSearch
    <3> QED BY <1>4, <2>1, <3>1 DEF Kept, RowPaid, Duty
  <2>3. CASE tasks[w].pc \in {"ftsdone", "settle"}
    <3>1. rows'[k] = WithSink(r, "search", "done") /\ tasks'[w].pc = "finalize"
      BY <1>1, <1>12, <2>3, SinkWritten DEF SettleSearch
    <3>2. "search" \notin owed[k]
      BY <2>3 DEF Duty
    <3>3. r.decided /\ r.qdrant = "done" => owed[k] = {}
      BY <1>1, <3>2 DEF RowPaid, Sinks
    <3> QED BY <1>4, <2>1, <3>1, <3>3 DEF Kept, RowPaid, Duty
  <2> QED BY <1>12, <2>2, <2>3 DEF SettleSearch
<1>13. CASE ShareSearch(w)
  <2>1. "qdrant" \notin owed[k] /\ tracked[k] # "none" /\ UNCHANGED tracked
    BY <1>13 DEF ShareSearch, Duty
  <2>2. CASE k \notin Unindexed
    <3>1. /\ rows'[k] = WithSink(r, "search", "in_progress") /\ tasks'[w].pc = "sharesend"
          /\ UNCHANGED owed
      BY <1>1, <1>13, <2>2, SinkWritten DEF ShareSearch
    <3> QED BY <1>4, <2>1, <3>1 DEF Kept, RowPaid, Duty
  <2>3. CASE k \in Unindexed
    <3>1. /\ rows'[k] = WithSink(r, "search", "done") /\ tasks'[w].pc = "shareq"
          /\ owed'[k] = owed[k] \ {"search"}
      BY <1>1, <1>13, <2>3, SinkWritten DEF ShareSearch, Pays, Finds
    <3> QED BY <1>4, <2>1, <3>1 DEF Kept, RowPaid, Duty, SearchPaid
  <2> QED BY <2>2, <2>3
<1>14. CASE ShareRefused(w)
  <2>1. /\ rows'[k] = WithSink(r, "search", "failed") /\ tasks'[w].pc = "shareq"
        /\ UNCHANGED <<owed, tracked>>
    BY <1>1, <1>14, Moved DEF ShareRefused, Write
  <2>2. "qdrant" \notin owed[k] /\ tracked[k] # "none"
    BY <1>14 DEF ShareRefused, Duty
  <2> QED BY <1>4, <2>1, <2>2 DEF Kept, RowPaid, Duty, SearchPaid
<1> QED BY <1>5, <1>6, <1>7, <1>8, <1>9, <1>10, <1>11, <1>12, <1>13, <1>14

-----------------------------------------------------------------------------
(* ... and at its end, where the batch writer may be before it *)

LEMMA LateStep ==
  ASSUME NEW w \in Slots, TaskStep(w), tasks[w].pc \in Late
  PROVE  /\ \/ ShareQdrant(w) \/ Finalize(w) \/ Delete(w) \/ MarkSelect(w) \/ Mark(w)
            \/ Refused(w) \/ TaskDies(w)
         /\ UNCHANGED <<owed, tracked, chan>>
<1> USE DEF At, others, rest, budget, files
<1>1. CASE Handler(w)
<2>1. ShareQdrant(w)
    BY <1>1 DEF Handler, PlainOk, FileGone,
       FileVoid, Skip, Decide, Purge, PrepareUntracked, RetrySearch,
       StartIngest, Upsert, UpsertFails, MarkQdrant, StartSearch,
       DispatchEnqueued, DispatchSkipped, DispatchFails, SettleSearch,
       ShareGeneration, ShareSearch, ShareSent, ShareRefused, HandlerFails, Late
<2> QED BY <2>1 DEF ShareQdrant
<1>2. CASE ~Handler(w)
<2>1. Finalize(w) \/ Delete(w) \/ MarkSelect(w) \/ Mark(w) \/ Refused(w) \/ TaskDies(w)
    BY <1>2 DEF TaskStep, Start, ReLeasePending, Ending, Park, Late
<2> QED BY <2>1 DEF Finalize, Delete, MarkSelect, Mark, Refused, TaskDies
<1> QED BY <1>1, <1>2

LEMMA LatePaid ==
  ASSUME TypeOK, ~LostWrites, NEW w \in Slots, NEW k \in Keys, k = tasks[w].key,
         Holds(tasks[w], k), RowPaid(rows[k], owed[k], tracked[k]),
         Duty(tasks[w].pc, rows[k], owed[k], tracked[k]),
         TaskStep(w), tasks[w].pc \in Late
  PROVE  /\ Kept(w, k) /\ UNCHANGED <<owed[k], tracked[k], chan>>
         /\ SearchPaid(rows[k], owed[k]) => SearchPaid(rows'[k], owed[k])
<1> USE DEF At, others, rest, budget, files, RowOf
<1> DEFINE r == rows[k]
<1>1. /\ r \in Row /\ owed[k] \in SUBSET Sinks /\ rows \in [Keys -> Row]
      /\ tasks \in [Slots -> Task]
  BY PaidType DEF TypeOK
<1>2. /\ \/ ShareQdrant(w) \/ Finalize(w) \/ Delete(w) \/ MarkSelect(w) \/ Mark(w)
         \/ Refused(w) \/ TaskDies(w)
      /\ UNCHANGED <<owed, tracked, chan>>
  BY LateStep
<1>3. Leave(w) => ~Active(w)'
  BY <1>1 DEF Leave, Active, Idle
<1> SUFFICES RowPaid(rows'[k], owed[k], tracked[k])
             /\ (Active(w)' => Duty(tasks'[w].pc, rows'[k], owed[k], tracked[k]))
             /\ (SearchPaid(r, owed[k]) => SearchPaid(rows'[k], owed[k]))
  BY <1>2 DEF Kept
<1>4. CASE ShareQdrant(w)
  <2>1. tasks'[w].pc = "finalize"
    BY <1>4, Moved DEF ShareQdrant, SetSink
  <2>2. SearchPaid(r, owed[k]) /\ "qdrant" \notin owed[k] /\ tracked[k] # "none"
    BY <1>4 DEF ShareQdrant, Duty
  <2>3. rows'[k] = r \/ rows'[k] = [r EXCEPT !.qdrant = "done"]
    BY <1>1, <1>4 DEF ShareQdrant, SetSink, HandlerWrites, Write, WithSink
  <2>4. /\ rows'[k].decided = r.decided /\ rows'[k].search = r.search
        /\ rows'[k].status = r.status
    BY <1>1, <2>3 DEF Row
  <2>5. rows'[k].decided /\ rows'[k].search = "done" => owed[k] = {}
    BY <1>1, <2>2, <2>4 DEF SearchPaid, Sinks
  <2> QED BY <2>1, <2>2, <2>4, <2>5 DEF RowPaid, Duty, SearchPaid
<1>5. CASE Finalize(w)
  <2> DEFINE e == ExplicitlyMarked(r)
             d == Resolved(e)
  <2>1. Leave(w) \/ tasks'[w].pc \notin Duties
    BY <1>5, Moved, MovedToMark DEF Finalize, Duties
  <2>2. rows'[k] = r \/ rows'[k] = d
    BY <1>1, <1>5 DEF Finalize, Write
  <2>3. /\ e.decided = r.decided /\ e.status = r.status
        /\ r.decided => e.qdrant = r.qdrant /\ e.search = r.search
    BY <1>1 DEF ExplicitlyMarked, Explicit, Row
  <2>4. e \in Row
    BY <1>1, RowStatements
  <2> HIDE DEF e
  <2>5. /\ d.decided = e.decided /\ d.qdrant = e.qdrant /\ d.search = e.search
        /\ d.status = "done" =>
             e.status = "done" \/ (e.qdrant = "done" /\ e.search = "done")
    BY <2>4 DEF Resolved, Verdict, Row
  <2>6. r.decided /\ r.qdrant = "done" /\ r.search = "done" => owed[k] = {}
    BY <1>5 DEF Finalize, Duty
  <2>7. RowPaid(rows'[k], owed[k], tracked[k])
        /\ (SearchPaid(r, owed[k]) => SearchPaid(rows'[k], owed[k]))
    BY <2>2, <2>3, <2>5, <2>6 DEF RowPaid, SearchPaid
  <2> QED BY <1>3, <2>1, <2>7 DEF Duty, Duties
<1>6. CASE Delete(w)
  <2>1. (rows'[k] = r \/ rows'[k] = NoRow) /\ ~Active(w)'
    BY <1>1, <1>3, <1>6 DEF Delete, DeleteRow, Write
  <2> QED BY <2>1 DEF RowPaid, SearchPaid, NoRow
<1>7. CASE MarkSelect(w)
  <2>1. rows'[k] = r /\ (Active(w)' => tasks'[w].pc = "mark")
    BY <1>3, <1>7, TaskGoesOn, <1>1 DEF MarkSelect, Task
  <2> QED BY <2>1 DEF RowPaid, SearchPaid, Duty
<1>8. CASE Mark(w)
  <2>1. /\ \/ rows'[k] = r
           \/ rows'[k] = MarkedFailed(r, tasks[w].seen, tasks[w].err, MaxRetries)
        /\ ~Active(w)'
    BY <1>1, <1>3, <1>8 DEF Mark, Write
  <2> QED BY <1>1, <2>1, ClaimsNothingFailed DEF SearchPaid
<1>9. CASE Refused(w) \/ TaskDies(w)
  <2>1. rows'[k] = r /\ ~Active(w)'
    BY <1>3, <1>9 DEF Refused, TaskDies
  <2> QED BY <2>1 DEF RowPaid, SearchPaid
<1> QED BY <1>2, <1>4, <1>5, <1>6, <1>7, <1>8, <1>9

-----------------------------------------------------------------------------
(* A step of an item keeps every row paid *)

\* It leaves the files and the debts of other keys alone
LEMMA OthersFiles ==
  ASSUME TypeOK, NEW w \in Slots, TaskStep(w), NEW k \in Keys, tasks[w].key # k
  PROVE  UNCHANGED <<tracked[k], owed[k]>>
<1> USE DEF At, others, rest, budget, files
<1>1. tracked \in [Keys -> Tracked] /\ owed \in [Keys -> SUBSET Sinks]
  BY DEF TypeOK
<1>2. CASE Start(w) \/ ReLeasePending(w) \/ Ending(w)
  BY <1>2 DEF Start, ReLeasePending, Ending, Finalize, Refused, Delete, MarkSelect,
              Mark, Park, TaskDies
<1>3. CASE Handler(w)
  BY <1>1, <1>3
     DEF Handler, PlainOk, FileGone, FileVoid, Skip, Decide, Purge,
         PrepareUntracked, RetrySearch, StartIngest, Upsert, UpsertFails,
         MarkQdrant, StartSearch, DispatchEnqueued, DispatchSkipped,
         DispatchFails, SettleSearch, ShareGeneration, ShareSearch, ShareSent,
         ShareRefused, ShareQdrant, HandlerFails, Vouches, Pays, Generation
<1> QED BY <1>2, <1>3 DEF TaskStep

LEMMA Elsewhere ==
  ASSUME TypeOK, LeaseInv, overruns = 0, NEW w \in Slots, TaskStep(w),
         NEW k \in Keys, ~Holds(tasks[w], k)
  PROVE  UNCHANGED <<rows[k], tracked[k], owed[k]>>
<1>1. UNCHANGED qid /\ Active(w) /\ tasks[w].key \in Keys /\ Acts(tasks[w])
  BY TaskGoesOn, TaskActs
<1>2. UNCHANGED rows[k]
  BY <1>1, OthersRows DEF Holds, Finds
<1>3. CASE tasks[w].pc \in Late
  BY <1>2, <1>3, LateStep
<1>4. CASE tasks[w].pc \notin Late
  <2>1. tasks[w].key # k
    BY <1>1, <1>4 DEF LeaseInv
  <2> QED BY <1>2, <2>1, OthersFiles
<1> QED BY <1>3, <1>4

LEMMA PaidElsewhere ==
  ASSUME TypeOK, LeaseInv, overruns = 0, NEW w \in Slots, TaskStep(w),
         NEW k \in Keys, ~Holds(tasks[w], k), Paid(k)
  PROVE  Paid(k)'
<1>1. /\ UNCHANGED <<batch, writer, qid>>
      /\ \A v \in Slots : v # w => tasks'[v] = tasks[v]
      /\ Active(w) /\ tasks[w].key \in Keys /\ Acts(tasks[w]) /\ tasks[w] \in Task
      /\ Active(w)' => tasks'[w].key = tasks[w].key /\ tasks'[w].id = tasks[w].id
  BY TaskGoesOn, TaskActs DEF TypeOK
<1>2. UNCHANGED rows[k]
  BY Elsewhere
<1>3. UNCHANGED <<tracked[k], owed[k]>>
  BY Elsewhere
<1>4. Sent(k)' => Sent(k)
  <2>1. CASE UNCHANGED chan
    BY <1>1, <2>1 DEF Sent, Waiting, InRange, Queue, Holds
  <2>2. CASE chan' = Append(chan, [key |-> tasks[w].key, id |-> tasks[w].id])
    <3>1. PICK y \in Work : y = [key |-> tasks[w].key, id |-> tasks[w].id]
      BY <1>1 DEF Work, Task
    <3>2. y.key = tasks[w].key /\ y.id = tasks[w].id /\ chan' = Append(chan, y)
      BY <2>2, <3>1
    <3>3. Waiting' = Waiting \cup {y}
      BY <1>1, <3>2, SendAppends
    <3> QED BY <1>1, <3>2, <3>3 DEF Sent, Holds
  <2> QED BY <2>1, <2>2, TaskGoesOn
<1>5. writer'.ok => \A x \in InRange(batch') : Holds(x, k)' => "search" \notin owed'[k]
  BY <1>1, <1>3 DEF Paid, Holds
<1>6. \A v \in Slots : (Active(v) /\ Holds(tasks[v], k))' =>
        Active(v) /\ Holds(tasks[v], k) /\ UNCHANGED tasks[v]
  BY <1>1 DEF Active, Holds
<1> QED BY <1>2, <1>3, <1>4, <1>5, <1>6, PaidStays

LEMMA PaidHere ==
  ASSUME TypeOK, OwnerInv, SentInv, LeaseInv, overruns = 0, ~LostWrites,
         NEW w \in Slots, TaskStep(w), NEW k \in Keys, Holds(tasks[w], k), Paid(k)
  PROVE  Paid(k)'
<1>1. /\ UNCHANGED <<batch, writer, qid>>
      /\ \A v \in Slots : v # w => tasks'[v] = tasks[v]
      /\ Active(w) /\ tasks[w].key = k
  BY TaskGoesOn DEF Holds
<1>2. /\ RowPaid(rows[k], owed[k], tracked[k])
      /\ Duty(tasks[w].pc, rows[k], owed[k], tracked[k])
  BY <1>1 DEF Paid
<1>3. \A v \in Slots : v # w => ~(Active(v) /\ Holds(tasks[v], k))'
  BY <1>1 DEF OwnerInv, Same, Holds, Active
<1> SUFFICES /\ Kept(w, k)
             /\ Sent(k)' => SearchPaid(rows[k], owed[k])'
             /\ writer.ok =>
                  \A x \in InRange(batch) : Holds(x, k) => "search" \notin owed'[k]
  BY <1>1, <1>3 DEF Paid, Kept, Holds
<1>4. CASE tasks[w].pc \in Late
  <2>1. /\ Kept(w, k) /\ UNCHANGED <<owed[k], tracked[k], chan>>
        /\ SearchPaid(rows[k], owed[k]) => SearchPaid(rows'[k], owed[k])
    BY <1>1, <1>2, <1>4, LatePaid
  <2>2. Sent(k)' => Sent(k)
    BY <1>1, <2>1 DEF Sent, Waiting, InRange, Queue, Holds
  <2> QED BY <2>1, <2>2 DEF Paid
<1>5. CASE tasks[w].pc \notin Late
  <2>1. ~Sent(k)
    BY <1>1, <1>5 DEF Sent, SentInv, IsItem, Holds
  <2>2. \A x \in InRange(batch) : ~Holds(x, k)
    BY <2>1, WaitingIs DEF Sent
  <2>3. rows[k].status = "in_progress" /\ Finds(tasks[w])
    BY <1>1, <1>5 DEF LeaseInv, RowOf, Finds, Present, Holds
  <2>4. Kept(w, k)
    <3>1. CASE \/ FileGone(w) \/ FileVoid(w) \/ Skip(w) \/ RetrySearch(w)
               \/ StartIngest(w) \/ UpsertFails(w) \/ MarkQdrant(w) \/ StartSearch(w)
               \/ SettleSearch(w)
               \/ ShareSearch(w) \/ ShareRefused(w)
      BY <1>1, <1>2, <2>3, <3>1, WrittenPaid
    <3>2. CASE \/ Start(w) \/ ReLeasePending(w) \/ PlainOk(w) \/ Decide(w) \/ Purge(w)
               \/ PrepareUntracked(w) \/ Upsert(w) \/ DispatchEnqueued(w)
               \/ DispatchSkipped(w) \/ DispatchFails(w) \/ ShareGeneration(w)
               \/ ShareSent(w) \/ HandlerFails(w) \/ TaskDies(w) \/ Park(w)
               \/ (Delete(w) /\ At(w, "remove"))
               \/ (Refused(w) /\ tasks[w].pc \notin Late)
      BY <1>1, <1>2, <2>3, <3>2, UnwrittenPaid
    <3>3. ~(Finalize(w) \/ MarkSelect(w) \/ Mark(w) \/ ShareQdrant(w))
          /\ (Delete(w) => At(w, "remove"))
      BY <1>5 DEF Finalize, MarkSelect, Mark, ShareQdrant, Delete, At, Late
    <3> QED BY <1>5, <3>1, <3>2, <3>3 DEF TaskStep, Handler, Ending
  <2>5. Sent(k)' => SearchPaid(rows[k], owed[k])'
    <3>1. CASE UNCHANGED chan
      BY <1>1, <2>1, <3>1 DEF Sent, Waiting, InRange, Queue, Holds
    <3>2. CASE tasks[w].pc \in {"dispatch", "sharesend"} /\ UNCHANGED rows
      BY <1>2, <3>2 DEF Duty, SearchPaid
    <3> QED BY <3>1, <3>2, TaskGoesOn
  <2> QED BY <2>2, <2>4, <2>5
<1> QED BY <1>4, <1>5

LEMMA PaidTask ==
  ASSUME TypeOK, OwnerInv, SentInv, LeaseInv, PaidInv, NEW w \in Slots, TaskStep(w)
  PROVE  PaidInv'
<1>1. UNCHANGED overruns
  BY TaskGoesOn
<1> QED BY <1>1, PaidElsewhere, PaidHere DEF PaidInv

-----------------------------------------------------------------------------
(* The batch writer *)

\* For an item at its end, the row and the debts are all there is to say
LEMMA LateDuty ==
  ASSUME NEW pc \in Late, NEW r, NEW s, NEW o \in SUBSET Sinks, NEW t,
         Duty(pc, r, o, t), RowPaid(s, o, t), SearchPaid(s, o)
  PROVE  Duty(pc, s, o, t)
<1>1. s.decided /\ s.qdrant = "done" /\ s.search = "done" => o = {}
  BY DEF RowPaid, SearchPaid, Sinks
<1> QED BY <1>1 DEF Duty, Late

LEMMA ResolvedPaid ==
  ASSUME NEW r \in Row, NEW o \in SUBSET Sinks, NEW t, NEW ok \in BOOLEAN,
         RowPaid(r, o, t), ok => "search" \notin o
  PROVE  LET s == Resolved(WithSink(r, "search", IF ok THEN "done" ELSE "failed"))
         IN  RowPaid(s, o, t) /\ SearchPaid(s, o)
<1> DEFINE q == WithSink(r, "search", IF ok THEN "done" ELSE "failed")
           s == Resolved(q)
<1>1. /\ q.search = IF ok THEN "done" ELSE "failed"
      /\ q.qdrant = r.qdrant /\ q.decided = r.decided /\ q.status = r.status
  BY SinkParts
<1>2. q \in Row
  BY SinkStatement DEF Sink, Sinks
<1> HIDE DEF q
<1>3. /\ s.decided = q.decided /\ s.qdrant = q.qdrant /\ s.search = q.search
      /\ s.status = "done" =>
           q.status = "done" \/ (q.qdrant = "done" /\ q.search = "done")
  BY <1>2 DEF Resolved, Verdict, Row
<1> HIDE DEF s
<1>4. SearchPaid(s, o)
  BY <1>1, <1>3 DEF SearchPaid
<1>5. s.decided /\ s.qdrant = "done" /\ s.search = "done" => o = {}
  BY <1>1, <1>3, <1>4 DEF SearchPaid, RowPaid, Sinks
<1>6. RowPaid(s, o, t)
  BY <1>1, <1>3, <1>5 DEF RowPaid
<1> QED BY <1>4, <1>6 DEF s, q

LEMMA PaidFlush ==
  ASSUME TypeOK, SentInv, NEW n \in 1 .. Len(chan), NEW ok \in BOOLEAN, Flush(n, ok),
         NEW k \in Keys, Paid(k)
  PROVE  Paid(k)'
<1>1. UNCHANGED <<rows, tracked, tasks, qid>> /\ batch = <<>> /\ writer'.ok = ok
  BY DEF Flush, SentInv, Collect
<1>2. UNCHANGED Queue
  BY <1>1, FlushMoves
<1>3. Sent(k)' => Sent(k)
  BY <1>1, <1>2 DEF Sent, Waiting, Holds
<1>4. /\ owed'[k] \subseteq owed[k]
      /\ ok => \A x \in InRange(batch') : Holds(x, k)' => "search" \notin owed'[k]
  <2>1. CASE ok
    <3> DEFINE in == {j \in Keys : \E x \in InRange(batch') : Holds(x, j)}
    <3>1. owed' = [j \in Keys |-> IF j \in in THEN owed[j] \ {"search"} ELSE owed[j]]
      BY <2>1 DEF Flush
    <3>2. (\E x \in InRange(batch') : Holds(x, k)') => k \in in
      BY <1>1 DEF Holds
    <3> HIDE DEF in
    <3> QED BY <3>1, <3>2
  <2>2. CASE ~ok
    BY <2>2 DEF Flush
  <2> QED BY <2>1, <2>2
<1>5. \A w \in Slots : (Active(w) /\ Holds(tasks[w], k))' =>
        Active(w) /\ Holds(tasks[w], k) /\ UNCHANGED tasks[w]
  BY <1>1 DEF Active, Holds
<1> QED BY <1>1, <1>3, <1>4, <1>5, PaidStays

LEMMA PaidWriter ==
  ASSUME TypeOK, SentInv, SentInv', PaidInv, WriterStep
  PROVE  PaidInv'
<1> USE DEF budget, files
<1>1. UNCHANGED <<tasks, qid, overruns>>
  BY WriterGoesOn
<1> SUFFICES ASSUME overruns = 0, ~LostWrites, NEW k \in Keys, Paid(k) PROVE Paid(k)'
  BY <1>1 DEF PaidInv
<1>2. CASE writer.pc = "collect"
  <2>1. PICK n \in 1 .. Len(chan), ok \in BOOLEAN : Flush(n, ok)
    BY <1>2 DEF WriterStep, FtsResolve, FtsRefused, FtsDelete, FtsMarkSelect, FtsMark
  <2> QED BY <2>1, PaidFlush
<1>3. CASE writer.pc # "collect"
  <2>0. /\ rows \in [Keys -> Row] /\ rows[k] \in Row /\ owed[k] \in SUBSET Sinks
        /\ batch \in Seq(Work) /\ batch # <<>> /\ writer \in Writer
    BY <1>3, PaidType DEF TypeOK
  <2>1. /\ FtsResolve \/ FtsRefused \/ FtsDelete \/ FtsMarkSelect \/ FtsMark
        /\ UNCHANGED <<owed, tracked>>
    <3>1. FtsResolve \/ FtsRefused \/ FtsDelete \/ FtsMarkSelect \/ FtsMark
      BY <1>3 DEF WriterStep, Flush
    <3> QED BY <3>1 DEF FtsResolve, FtsRefused, FtsDelete, FtsMarkSelect, FtsMark
  <2>2. Item \in Waiting /\ Item \in Work /\ Item \in InRange(batch)
    <3>1. Item = batch[1] /\ 1 \in 1 .. Len(batch)
      BY <2>0, HeadTailProperties, EmptySeq DEF Item
    <3> QED BY <1>3, <3>1, MarkingIsSent DEF InRange
  <2>3. /\ UNCHANGED chan
        /\ \/ NextWork
           \/ UNCHANGED batch /\ writer'.pc # "collect" /\ writer'.ok = writer.ok
    <3>1. \A to : WriterAt(to) => /\ UNCHANGED batch /\ writer'.pc = to
                                 /\ writer'.ok = writer.ok
      BY <2>0 DEF WriterAt, Writer
    <3>2. \A n : writer' = [writer EXCEPT !.pc = "mark", !.seen = n] =>
                 writer'.pc = "mark" /\ writer'.ok = writer.ok
      BY <2>0 DEF Writer
    <3> QED BY <2>1, <3>1, <3>2
            DEF FtsResolve, FtsRefused, FtsDelete, FtsMarkSelect, FtsMark
  <2>4. Waiting' \subseteq Waiting
    <3>1. CASE NextWork
      BY <2>0, <2>3, <3>1, ItemWaits DEF SentInv
    <3>2. CASE UNCHANGED batch
      BY <2>3, <3>2 DEF Waiting, Queue
    <3> QED BY <2>3, <3>1, <3>2
  <2>5. Sent(k)' => Sent(k)
    BY <1>1, <2>4 DEF Sent, Holds
  <2>6. writer'.ok => \A x \in InRange(batch') : Holds(x, k)' => "search" \notin owed'[k]
    <3>1. CASE writer'.pc = "collect"
      BY <3>1 DEF SentInv, InRange
    <3>2. CASE writer'.pc # "collect"
      <4>1. writer'.ok = writer.ok
        BY <2>0, <2>3, <3>2 DEF NextWork, Collect, Writer
      <4>2. InRange(batch') \subseteq InRange(batch)
        <5>1. CASE NextWork
          <6>1. /\ Len(batch) \in Nat \ {0} /\ Len(batch') = Len(batch) - 1
                /\ \A i \in 1 .. Len(batch') : batch'[i] = batch[i + 1]
            BY <2>0, <5>1, HeadTailProperties, EmptySeq DEF NextWork
          <6> QED BY <6>1 DEF InRange
        <5> QED BY <2>3, <5>1
      <4> QED BY <1>1, <2>1, <4>1, <4>2 DEF Paid, Holds
    <3> QED BY <3>1, <3>2
  <2>7. \A w \in Slots : (Active(w) /\ Holds(tasks[w], k))' =>
          Active(w) /\ Holds(tasks[w], k) /\ UNCHANGED tasks[w]
    BY <1>1 DEF Active, Holds
  <2>8. CASE UNCHANGED rows[k]
    BY <2>1, <2>5, <2>6, <2>7, <2>8, PaidStays
  <2>9. CASE ~UNCHANGED rows[k]
    <3>1. Holds(Item, k) /\ Finds(Item)
      <4>1. UNCHANGED rows \/ Acts(Item)
        BY WriterActs
      <4> QED BY <2>2, <2>9, <4>1, OthersRows DEF Work, Finds, Holds
    <3>2. RowPaid(rows'[k], owed[k], tracked[k]) /\ SearchPaid(rows'[k], owed[k])
      <4>1. RowPaid(rows[k], owed[k], tracked[k])
        BY DEF Paid
      <4>2. CASE FtsResolve
        <5>1. writer.ok => "search" \notin owed[k]
          BY <2>2, <3>1 DEF Paid
        <5>2. rows'[k] = Resolved(WithSink(rows[k], "search",
                                           IF writer.ok THEN "done" ELSE "failed"))
          BY <2>0, <3>1, <4>2 DEF FtsResolve, Write, Holds
        <5>3. writer.ok \in BOOLEAN
          BY <2>0 DEF Writer
        <5> QED BY <2>0, <4>1, <5>1, <5>2, <5>3, ResolvedPaid
      <4>3. CASE FtsDelete
        <5>1. rows'[k] = NoRow
          BY <2>0, <3>1, <4>3 DEF FtsDelete, DeleteRow, Write, Holds
        <5> QED BY <5>1 DEF RowPaid, SearchPaid, NoRow
      <4>4. CASE FtsMark
        <5>1. rows'[k] = MarkedFailed(rows[k], writer.seen, "transient", FtsMaxRetries)
          BY <2>0, <3>1, <4>4 DEF FtsMark, Write, Holds
        <5> QED BY <2>0, <5>1, ClaimsNothingFailed DEF SearchPaid
      <4> QED BY <2>1, <2>9, <4>2, <4>3, <4>4 DEF FtsRefused, FtsMarkSelect
    <3>3. ASSUME NEW w \in Slots, (Active(w) /\ Holds(tasks[w], k))'
          PROVE  Duty(tasks[w].pc, rows[k], owed[k], tracked[k])'
      <4>1. tasks[w].pc \in Late /\ Duty(tasks[w].pc, rows[k], owed[k], tracked[k])
        BY <2>2, <2>7, <3>1, <3>3 DEF SentInv, IsItem, Holds, Paid
      <4> QED BY <1>1, <2>0, <2>1, <3>2, <4>1, LateDuty
    <3> QED BY <2>1, <2>6, <3>2, <3>3 DEF Paid
  <2> QED BY <2>8, <2>9
<1> QED BY <1>2, <1>3

-----------------------------------------------------------------------------
(* Everybody else writes a row that no item in memory holds *)

LEMMA PaidUnheld ==
  ASSUME TypeOK, NEW k \in Keys, RowPaid(rows[k], owed[k], tracked[k])',
         Sent(k)' => SearchPaid(rows[k], owed[k])',
         writer'.ok =>
           \A x \in InRange(batch') : Holds(x, k)' => "search" \notin owed'[k],
         \A w \in Slots : (Active(w) /\ Holds(tasks[w], k))' => tasks'[w].pc \notin Duties
  PROVE  Paid(k)'
BY DEF Paid, Duty, Duties

\* Nobody in memory acts for a row that a dequeue may take
LEMMA Unguarded ==
  ASSUME TypeOK, OwnerInv, SentInv, overruns = 0, NEW k \in Keys, ~Guarded(rows[k])
  PROVE  ~Sent(k) /\ \A w \in Slots : ~(Active(w) /\ Holds(tasks[w], k))
BY DEF OwnerInv, SentInv, Sent, Holds

LEMMA PaidKey ==
  ASSUME TypeOK, OwnerInv, SentInv, PaidInv, NEW j \in Keys, KeyStep(j)
  PROVE  PaidInv'
<1> USE DEF memory, files, budget
<1>1. /\ UNCHANGED <<tasks, batch, chan, writer>>
      /\ overruns' = 0 => overruns = 0 /\ (Overtake(j) => ~Held(j))
  BY DEF TypeOK, KeyStep, Enqueue, EditFile, UserRetry, Discard, LeaseExpires, Reap,
         Resurrect, Triage, Overtake
<1>2. UNCHANGED Queue /\ UNCHANGED Waiting
  BY <1>1 DEF Queue, Waiting
<1> SUFFICES ASSUME overruns = 0, overruns' = 0, NEW k \in Keys, Paid(k) PROVE Paid(k)'
  BY <1>1 DEF PaidInv
<1>3. /\ rows[k] \in Row /\ rows \in [Keys -> Row] /\ owed \in [Keys -> SUBSET Sinks]
      /\ tracked \in [Keys -> Tracked] /\ qid \in [Keys -> Nat]
      /\ RowPaid(rows[k], owed[k], tracked[k])
  BY PaidType DEF TypeOK, Paid
<1>4. InRange(batch) \subseteq Waiting /\ InRange(chan) \subseteq Waiting
  BY WaitingIs
<1>5. ASSUME UNCHANGED <<qid[k], owed[k]>>
      PROVE  /\ Sent(k)' => Sent(k)
             /\ writer'.ok =>
                  \A x \in InRange(batch') : Holds(x, k)' => "search" \notin owed'[k]
             /\ \A w \in Slots : (Active(w) /\ Holds(tasks[w], k))' =>
                  Active(w) /\ Holds(tasks[w], k) /\ UNCHANGED tasks[w]
  BY <1>1, <1>2, <1>5 DEF Sent, Holds, Active, Paid
<1>6. CASE k # j
  <2>1. UNCHANGED <<rows[k], owed[k], tracked[k], qid[k]>>
    BY <1>3, <1>6 DEF KeyStep, Enqueue, EditFile, UserRetry, Discard, LeaseExpires,
                      Reap, Resurrect, Triage
  <2> QED BY <1>5, <2>1, PaidStays
<1>7. CASE k = j /\ Enqueue(j)
  <2>1. /\ rows'[k] = NewRow /\ qid'[k] = qid[k] + 1 /\ UNCHANGED tracked
    BY <1>3, <1>7 DEF Enqueue
  <2>2. RowPaid(rows'[k], owed'[k], tracked'[k])
    BY <2>1 DEF RowPaid, NewRow, NoRow
  <2>3. \A x \in Waiting : ~Holds(x, k)'
    BY <1>3, <2>1, QueueType DEF SentInv, Holds, Work
  <2>4. \A w \in Slots : ~(Active(w) /\ Holds(tasks[w], k))'
    BY <1>1, <1>3, <2>1 DEF OwnerInv, Holds, Active, TypeOK, Task
  <2> QED BY <1>1, <1>2, <1>4, <2>2, <2>3, <2>4, PaidUnheld DEF Sent
<1>8. CASE k = j /\ EditFile(j)
  <2>1. /\ UNCHANGED <<rows, owed, qid>> /\ tracked[k] = "current"
        /\ tracked'[k] = "stale"
    BY <1>3, <1>8 DEF EditFile
  <2>2. RowPaid(rows[k], owed[k], tracked[k])'
    BY <1>3, <2>1 DEF RowPaid
  <2>3. Sent(k)' => SearchPaid(rows[k], owed[k])'
    BY <1>5, <2>1 DEF Paid, SearchPaid
  <2>4. \A w \in Slots : (Active(w) /\ Holds(tasks[w], k))' =>
          Duty(tasks[w].pc, rows[k], owed[k], tracked[k])'
    BY <1>5, <2>1 DEF Paid, Duty, SearchPaid
  <2> QED BY <1>5, <2>1, <2>2, <2>3, <2>4 DEF Paid
<1>9. CASE k = j /\ (UserRetry(j) \/ Discard(j) \/ LeaseExpires(j) \/ Reap(j))
  <2>1. /\ \/ rows'[k] = UserRetried(rows[k]) \/ rows'[k] = NoRow
           \/ rows'[k] = [rows[k] EXCEPT !.lease = "past"]
           \/ rows'[k] = Recovered(rows[k])
        /\ UNCHANGED <<owed, tracked, qid>>
    BY <1>3, <1>9 DEF UserRetry, Discard, LeaseExpires, Reap
  <2>2. RowPaid(rows[k], owed[k], tracked[k])'
    BY <1>3, <2>1, ClaimsNothing
  <2>3. ~Sent(k) /\ \A w \in Slots : ~(Active(w) /\ Holds(tasks[w], k))
    <3>1. CASE Reap(j)
      <4>1. ~Guarded(rows[k])
        BY <1>9, <3>1 DEF Reap, Stale, Guarded
      <4> QED BY <4>1, Unguarded
    <3>2. CASE UserRetry(j) \/ Discard(j) \/ LeaseExpires(j)
      <4>1. ~Held(k)
        BY <1>1, <1>9, <3>2 DEF UserRetry, Discard, LeaseExpires
      <4> QED BY <4>1, WaitingIs DEF Held, Sent
    <3> QED BY <1>9, <3>1, <3>2
  <2>4. /\ ~Sent(k)' /\ \A w \in Slots : ~(Active(w) /\ Holds(tasks[w], k))'
    BY <1>5, <2>1, <2>3
  <2> QED BY <1>5, <2>1, <2>2, <2>4, PaidUnheld
<1>10. CASE k = j /\ (Resurrect(j) \/ Triage(j))
  <2>1. /\ rows'[k] = NoRow \/ rows'[k] = Resurrected(rows[k], MaxResurrections)
        /\ UNCHANGED <<owed, tracked, qid>> /\ \A w \in Slots : ~Active(w)
    BY <1>3, <1>10 DEF Resurrect, Triage, LoopIdle, Active
  <2>2. RowPaid(rows[k], owed[k], tracked[k])'
    BY <1>3, <2>1, ClaimsNothing, ClaimsNothingResurrectedRow
  <2>3. SearchPaid(NoRow, owed[k])
    BY DEF SearchPaid, NoRow
  <2>4. Sent(k)' => SearchPaid(rows[k], owed[k])'
    BY <1>3, <1>5, <2>1, <2>3, ClaimsNothingResurrected DEF Paid
  <2>5. \A w \in Slots : ~Active(w)'
    BY <1>1, <2>1 DEF Active
  <2> QED BY <1>5, <2>1, <2>2, <2>4, <2>5, PaidUnheld
<1> QED BY <1>6, <1>7, <1>8, <1>9, <1>10 DEF KeyStep

LEMMA PaidDequeue ==
  ASSUME TypeOK, OwnerInv, SentInv, PaidInv, NEW u \in Slots, NEW j \in Keys,
         Dequeue(u, j)
  PROVE  PaidInv'
<1> USE DEF budget, files
<1>1. UNCHANGED <<batch, chan, writer, qid, overruns, owed, tracked>>
  BY DEF Dequeue
<1>2. /\ tasks'[u].key = j /\ tasks'[u].pc = "leased"
      /\ \A v \in Slots : v # u => tasks'[v] = tasks[v]
  BY DEF Dequeue, TypeOK, Idle
<1> SUFFICES ASSUME overruns = 0, NEW k \in Keys, Paid(k) PROVE Paid(k)'
  BY <1>1 DEF PaidInv
<1>3. rows[k] \in Row /\ rows \in [Keys -> Row] /\ RowPaid(rows[k], owed[k], tracked[k])
  BY PaidType DEF Paid
<1>4. Sent(k)' => Sent(k)
  BY <1>1 DEF Sent, Waiting, InRange, Queue, Holds
<1>5. writer'.ok => \A x \in InRange(batch') : Holds(x, k)' => "search" \notin owed'[k]
  BY <1>1 DEF Paid, Holds
<1>6. ASSUME NEW w \in Slots, (Active(w) /\ Holds(tasks[w], k))'
      PROVE  \/ tasks'[w].pc \notin Duties
             \/ Active(w) /\ Holds(tasks[w], k) /\ UNCHANGED tasks[w]
  <2>1. CASE w = u
    BY <1>2, <2>1 DEF Duties
  <2>2. CASE w # u
    BY <1>1, <1>2, <1>6, <2>2 DEF Active, Holds
  <2> QED BY <2>1, <2>2
<1>7. CASE k # j
  <2>1. UNCHANGED rows[k]
    BY <1>3, <1>7 DEF Dequeue
  <2> QED BY <1>1, <1>4, <1>5, <1>6, <2>1, PaidStays
<1>8. CASE k = j
  <2>1. ~Guarded(rows[k]) /\ rows'[k] = Leased(rows[k])
    BY <1>3, <1>8 DEF Dequeue, CanLease, Guarded, Row
  <2>2. ~Sent(k) /\ \A w \in Slots : ~(Active(w) /\ Holds(tasks[w], k))
    BY <2>1, Unguarded
  <2>3. RowPaid(rows[k], owed[k], tracked[k])'
    BY <1>1, <1>3, <2>1, ClaimsNothing
  <2> QED BY <1>4, <1>5, <1>6, <2>2, <2>3, PaidUnheld
<1> QED BY <1>7, <1>8

LEMMA PaidRestart ==
  ASSUME TypeOK, PaidInv, CrashRestart
  PROVE  PaidInv'
<1> USE DEF files
<1>1. /\ UNCHANGED <<owed, tracked, overruns>> /\ batch' = <<>> /\ chan' = <<>>
      /\ \A w \in Slots : ~Active(w)'
  BY DEF CrashRestart, Active, Idle
<1> SUFFICES ASSUME NEW k \in Keys, Paid(k) PROVE Paid(k)'
  BY <1>1 DEF PaidInv
<1>2. rows[k] \in Row /\ RowPaid(rows[k], owed[k], tracked[k])
  BY PaidType DEF Paid
<1>3. rows'[k] = NoRow \/ rows'[k] = AtStartup(rows[k])
  BY DEF CrashRestart
<1>4. RowPaid(rows[k], owed[k], tracked[k])'
  BY <1>1, <1>2, <1>3, ClaimsNothing
<1>5. ~Sent(k)' /\ InRange(batch') = {}
  BY <1>1 DEF Sent, Waiting, InRange, Queue
<1> QED BY <1>1, <1>4, <1>5, PaidUnheld

LEMMA PaidNext ==
  /\ TypeOK /\ OwnerInv /\ SentInv /\ SentInv' /\ LeaseInv /\ PaidInv /\ [Next]_vars
  => PaidInv'
<1> SUFFICES ASSUME TypeOK, OwnerInv, SentInv, SentInv', LeaseInv, PaidInv, [Next]_vars
             PROVE  PaidInv'
  OBVIOUS
<1>1. CASE Quiet \/ UNCHANGED vars
  <2>1. UNCHANGED vars
    BY <1>1 DEF Quiet
  <2> QED BY <2>1 DEF vars, PaidInv, Paid, RowPaid, SearchPaid, Duty, Active, Holds, Sent,
                      Waiting, InRange, Queue
<1> QED BY <1>1, PaidTask, PaidWriter, PaidKey, PaidDequeue, PaidRestart DEF Next

LEMMA PaidInit == Init => PaidInv
<1> SUFFICES ASSUME Init, NEW k \in Keys PROVE Paid(k)
  BY DEF PaidInv
<1>1. rows[k] = NoRow /\ batch = <<>> /\ \A w \in Slots : ~Active(w)
  BY DEF Init, Active, Idle
<1>2. ~Sent(k) /\ InRange(batch) = {}
  BY DEF Init, Sent, Waiting, InRange, Queue
<1> QED BY <1>1, <1>2 DEF Paid, RowPaid, NoRow

\* No retry path, no skip and no second finalizer completes a decided row whose
\* work still owes a write: while no lease overtakes its holder and the handlers' own
\* writes to the row succeed, a decided row is done only when both sinks were
\* written since the decision.
THEOREM CompletionIsProved ==
  Spec => [](overruns = 0 /\ ~LostWrites => DecidedCompletionIsProved)
<1> DEFINE Inv == TypeOK /\ OwnerInv /\ SentInv /\ LeaseInv /\ PaidInv
<1>1. Inv => (overruns = 0 /\ ~LostWrites => DecidedCompletionIsProved)
  BY DEF PaidInv, Paid, RowPaid, DecidedCompletionIsProved
<1>2. Init => Inv
  BY InitType, OwnerInit, SentInit, LeaseInit, PaidInit
<1>3. Inv /\ [Next]_vars => Inv'
  BY NextType, OwnerNext, SentNext, LeaseNext, PaidNext
<1> HIDE DEF Inv
<1> QED BY <1>1, <1>2, <1>3, PTL DEF Spec

-----------------------------------------------------------------------------
(* RetriesAreKept: whoever is about to delete a decided row, the row owes    *)
(* nothing.  What may still be written to it in between leaves that as it is. *)

Deleting(k) ==
  \/ \E w \in Slots : Active(w) /\ At(w, "delete") /\ Holds(tasks[w], k)
  \/ writer.pc = "delete" /\ Holds(Item, k)

\* The inductive strengthening of RetriesAreKept
DeleteInv ==
  overruns = 0 /\ ~LostWrites =>
    \A k \in Keys : Deleting(k) /\ Present(k) /\ rows[k].decided => owed[k] = {}

\* A statement of bookkeeping takes a row away or leaves the decision to it; only a
\* producer brings a row back, and only a handler decides one
Bookkeeping(r, s) ==
  \/ r.status # "absent" /\ s = NoRow
  \/ s.decided = r.decided /\ (s.status = "absent" <=> r.status = "absent")

\* ... as are all statements but INSERT and store_queue_decision
LEMMA BookStatements ==
  ASSUME NEW r \in Row
  PROVE  /\ Bookkeeping(r, r) /\ Bookkeeping(r, ExplicitlyMarked(r))
         /\ Bookkeeping(r, [r EXCEPT !.lease = "past"])
         /\ r.status # "absent" =>
              /\ Bookkeeping(r, NoRow) /\ Bookkeeping(r, UserRetried(r))
              /\ Bookkeeping(r, Leased(r)) /\ Bookkeeping(r, Parked(r))
              /\ Bookkeeping(r, Recovered(r)) /\ Bookkeeping(r, Resolved(r))
         /\ Bookkeeping(r, AtStartup(r))
<1> USE DEF Row, Bookkeeping
<1>1. Bookkeeping(r, ExplicitlyMarked(r))
  BY DEF ExplicitlyMarked
<1>2. Bookkeeping(r, UserRetried(r)) \/ r.status = "absent"
  BY DEF UserRetried, Blank
<1>3. (Bookkeeping(r, Leased(r)) /\ Bookkeeping(r, Parked(r))) \/ r.status = "absent"
  BY DEF Leased, Parked
<1>4. Bookkeeping(r, Recovered(r)) \/ r.status = "absent"
  BY DEF Recovered, Unorphaned
<1>5. Bookkeeping(r, Resolved(r)) \/ r.status = "absent"
  BY DEF Resolved, Verdict
<1>6. Bookkeeping(r, AtStartup(r))
  BY <1>4 DEF AtStartup, Unorphaned
<1>7. Bookkeeping(r, [r EXCEPT !.lease = "past"])
  OBVIOUS
<1> QED BY <1>1, <1>2, <1>3, <1>4, <1>5, <1>6, <1>7

LEMMA BookSink ==
  ASSUME NEW r \in Row, NEW sink, NEW s
  PROVE  /\ Bookkeeping(r, WithSink(r, sink, s))
         /\ WithSink(r, sink, s).status = r.status
BY DEF Row, Bookkeeping, WithSink

LEMMA BookFailure ==
  ASSUME NEW r \in Row, r.status # "absent", NEW n, NEW e, NEW max
  PROVE  /\ Bookkeeping(r, MarkedFailed(r, n, e, max))
         /\ Bookkeeping(r, Resurrected(r, max))
<1>1. Bookkeeping(r, MarkedFailed(r, n, e, max))
  BY DEF Row, Bookkeeping, MarkedFailed, Blank
<1>2. CASE r.revived >= max
  BY <1>1, <1>2 DEF Row, Bookkeeping, Resurrected
<1>3. CASE ~(r.revived >= max)
  BY <1>1, <1>3 DEF Row, Bookkeeping, Resurrected, Blank
<1> QED BY <1>2, <1>3

LEMMA StillDecided ==
  ASSUME NEW r, NEW s, Bookkeeping(r, s), s.status # "absent"
  PROVE  r.status # "absent" /\ s.decided = r.decided
BY DEF Bookkeeping, NoRow

\* Only finalize_after_success sends an item to its deletion
LEMMA SentToDelete ==
  ASSUME TypeOK, NEW w \in Slots, TaskStep(w), Active(w)', tasks'[w].pc = "delete"
  PROVE  Finalize(w)
<1> USE DEF At, others, rest, budget, files
<1>1. ~Leave(w)
  BY DEF TypeOK, Leave, Active, Idle
<1>2. \A to : Goto(w, to) => to = "delete"
  BY Moved
<1>3. \A e : tasks' # [tasks EXCEPT ![w].pc = "markselect", ![w].err = e]
  BY MovedToMark
<1>4. ~Handler(w)
  BY <1>1, <1>2, <1>3
     DEF Handler, PlainOk, FileGone, FileVoid, Skip, Decide, Purge,
         PrepareUntracked, AfterPreparing, RetrySearch, StartIngest, Upsert,
         UpsertFails, MarkQdrant, StartSearch, DispatchEnqueued,
         DispatchSkipped, DispatchFails, SettleSearch, ShareGeneration,
         ShareSearch, ShareSent, ShareRefused, ShareQdrant, HandlerFails, SetSink
<1>5. ~(Start(w) \/ ReLeasePending(w))
  BY <1>1, <1>2 DEF Start, ReLeasePending
<1>6. ~MarkSelect(w)
  <2> SUFFICES ASSUME tasks' = [tasks EXCEPT ![w].pc = "mark", ![w].seen = RowOf(w).retry]
               PROVE  tasks'[w].pc = "mark"
    BY <1>1 DEF MarkSelect
  <2>1. tasks[w] \in Task
        /\ tasks'[w] = [tasks[w] EXCEPT !.pc = "mark", !.seen = RowOf(w).retry]
    BY DEF TypeOK
  <2> QED BY <2>1 DEF Task
<1>7. ~(Refused(w) \/ Delete(w) \/ Mark(w) \/ Park(w) \/ TaskDies(w))
  BY <1>1 DEF Refused, Delete, Mark, Park, TaskDies
<1> QED BY <1>4, <1>5, <1>6, <1>7 DEF TaskStep, Ending

\* What a handler and the worker's end of an item write is bookkeeping, apart from the
\* decision
LEMMA TaskBooks ==
  ASSUME TypeOK, NEW w \in Slots, TaskStep(w), ~Decide(w), NEW k \in Keys
  PROVE  Bookkeeping(rows[k], rows'[k])
<1> USE DEF At, others, rest, budget, files, RowOf
<1> DEFINE r == rows[k]
<1>1. /\ r \in Row /\ rows \in [Keys -> Row] /\ tasks[w].key \in Keys
      /\ Finds(tasks[w]) /\ k = tasks[w].key => r.status # "absent"
  BY TaskActs DEF TypeOK, Finds, Present
<1>2. CASE UNCHANGED rows[k]
  BY <1>1, <1>2, BookStatements
<1>3. CASE ~UNCHANGED rows[k]
  <2>1. /\ k = tasks[w].key /\ Finds(tasks[w])
        /\ \A s : Write(tasks[w], s) => rows'[k] = s
    <3>1. k = tasks[w].key /\ Finds(tasks[w])
      BY <1>1, <1>3, TaskActs, OthersRows
    <3> QED BY <1>1, <3>1 DEF Write
  <2>2. ASSUME NEW sink, NEW s, Write(tasks[w], WithSink(RowOf(w), sink, s))
        PROVE  Bookkeeping(r, rows'[k])
    BY <1>1, <2>1, <2>2, BookSink
  <2>3. CASE Handler(w)
    <3>1. \E sink, s : Write(tasks[w], WithSink(RowOf(w), sink, s))
      BY <1>3, <2>3
         DEF Handler, PlainOk, FileGone, FileVoid, Skip, Purge,
             PrepareUntracked, RetrySearch, StartIngest, Upsert,
             UpsertFails, MarkQdrant, StartSearch, DispatchEnqueued,
             DispatchSkipped, DispatchFails, SettleSearch, ShareGeneration,
             ShareSearch, ShareSent, ShareRefused, ShareQdrant, HandlerFails,
             SetSink, HandlerWrites
    <3> QED BY <2>2, <3>1
  <2>4. CASE ReLeasePending(w) \/ Park(w)
    <3>1. rows'[k] = Parked(r)
      BY <1>3, <2>1, <2>4 DEF ReLeasePending, Park
    <3> QED BY <1>1, <2>1, <3>1, BookStatements
  <2>5. CASE Finalize(w)
    <3> DEFINE e == ExplicitlyMarked(r)
    <3>1. rows'[k] = Resolved(e)
      BY <2>1, <2>5 DEF Finalize
    <3>2. e \in Row /\ e.status = r.status /\ Bookkeeping(r, e)
      <4>1. e.status = r.status
        BY <1>1 DEF ExplicitlyMarked, Row
      <4> QED BY <1>1, <4>1, RowStatements, BookStatements
    <3> HIDE DEF e
    <3>3. Bookkeeping(e, Resolved(e))
      BY <1>1, <2>1, <3>2, BookStatements
    <3> QED BY <1>1, <2>1, <3>1, <3>2, <3>3 DEF Bookkeeping, NoRow
  <2>6. CASE Delete(w)
    <3>1. rows'[k] = NoRow
      BY <2>1, <2>6 DEF Delete, DeleteRow
    <3> QED BY <1>1, <2>1, <3>1, BookStatements
  <2>7. CASE Mark(w)
    <3>1. rows'[k] = MarkedFailed(r, tasks[w].seen, tasks[w].err, MaxRetries)
      BY <2>1, <2>7 DEF Mark
    <3> QED BY <1>1, <2>1, <3>1, BookFailure
  <2>8. ~(Start(w) \/ MarkSelect(w) \/ Refused(w) \/ TaskDies(w))
    BY <1>3 DEF Start, MarkSelect, Refused, TaskDies
  <2> QED BY <2>3, <2>4, <2>5, <2>6, <2>7, <2>8 DEF TaskStep, Ending
<1> QED BY <1>2, <1>3

LEMMA DeleteTask ==
  ASSUME TypeOK, OwnerInv, SentInv, LeaseInv, PaidInv', DeleteInv,
         NEW w \in Slots, TaskStep(w)
  PROVE  DeleteInv'
<1>1. /\ UNCHANGED <<batch, writer, qid, overruns>>
      /\ \A v \in Slots : v # w => tasks'[v] = tasks[v]
      /\ Active(w) /\ tasks[w].key \in Keys /\ Acts(tasks[w])
      /\ Active(w)' => tasks'[w].key = tasks[w].key /\ tasks'[w].id = tasks[w].id
  BY TaskGoesOn, TaskActs
<1> SUFFICES ASSUME overruns = 0, ~LostWrites, NEW k \in Keys, Deleting(k)', Present(k)',
                    rows'[k].decided
             PROVE  owed'[k] = {}
  BY <1>1 DEF DeleteInv
<1>2. CASE rows'[k].status = "done"
  BY <1>1, <1>2 DEF PaidInv, Paid, RowPaid
<1>3. CASE Active(w)' /\ tasks'[w].pc = "delete" /\ Holds(tasks[w], k)'
  <2>1. Finalize(w) /\ tasks[w].key = k /\ Holds(tasks[w], k)
    BY <1>1, <1>3, SentToDelete DEF Holds
  <2> DEFINE r == Resolved(ExplicitlyMarked(RowOf(w)))
  <2>2. Finds(tasks[w]) /\ rows' = [rows EXCEPT ![k] = r]
    BY <2>1 DEF Finalize, Write, Finds, Holds, Present
  <2>3. Verdict(r) = "done"
    <3>1. tasks' # [tasks EXCEPT ![w].pc = "markselect", ![w].err = "plain"]
      BY <1>3, MovedToMark
    <3>2. ~Leave(w)
      BY <1>3 DEF TypeOK, Leave, Active, Idle
    <3> QED BY <2>1, <2>2, <3>1, <3>2 DEF Finalize
  <2>4. ExplicitlyMarked(RowOf(w)) \in Row
    BY <2>1, RowStatements DEF TypeOK, RowOf
  <2>5. r.status = "done"
    <3> DEFINE e == ExplicitlyMarked(RowOf(w))
    <3> HIDE DEF e
    <3>1. Resolved(e).qdrant = e.qdrant /\ Resolved(e).search = e.search
      BY <2>4 DEF Resolved, Row, e
    <3>2. Verdict(e) = "done"
      BY <2>3, <3>1 DEF Verdict, e
    <3> QED BY <2>4, <3>2 DEF Resolved, Row, e
  <2> QED BY <1>2, <2>2, <2>5 DEF TypeOK
<1>4. CASE ~(Active(w)' /\ tasks'[w].pc = "delete" /\ Holds(tasks[w], k)')
  <2>1. Deleting(k)
    BY <1>1, <1>4 DEF Deleting, At, Active, Holds, Item
  <2>2. CASE ~Holds(tasks[w], k)
    <3>1. UNCHANGED <<rows[k], owed[k]>>
      BY <1>1, <2>2, Elsewhere
    <3> QED BY <2>1, <3>1 DEF DeleteInv, Present
  <2>3. CASE Holds(tasks[w], k)
    <3>1. tasks[w].pc \in Late
      <4>1. CASE writer.pc = "delete" /\ Holds(Item, k)
        BY <1>1, <2>3, <4>1, MarkingIsSent DEF SentInv, IsItem, Holds
      <4>2. CASE \E v \in Slots : Active(v) /\ At(v, "delete") /\ Holds(tasks[v], k)
        BY <1>1, <2>3, <4>2 DEF OwnerInv, Same, Holds, At, Late
      <4> QED BY <2>1, <4>1, <4>2 DEF Deleting
    <3>2. UNCHANGED owed /\ Bookkeeping(rows[k], rows'[k])
      <4>1. UNCHANGED owed /\ ~Decide(w)
        BY <3>1, LateStep DEF Decide, At, Late
      <4> QED BY <4>1, TaskBooks
    <3> QED BY <2>1, <3>2, StillDecided DEF DeleteInv, Present
  <2> QED BY <2>2, <2>3
<1> QED BY <1>3, <1>4

\* What the batch writer writes to a row is bookkeeping
LEMMA WriterBooks ==
  ASSUME TypeOK, SentInv, overruns = 0, WriterStep, writer.pc # "collect", NEW k \in Keys
  PROVE  Bookkeeping(rows[k], rows'[k])
<1> USE DEF budget, files
<1> DEFINE q == WithSink(rows[Item.key], "search", IF writer.ok THEN "done" ELSE "failed")
<1>1. FtsResolve \/ FtsRefused \/ FtsDelete \/ FtsMarkSelect \/ FtsMark
  BY DEF WriterStep, Flush
<1>2. /\ rows \in [Keys -> Row] /\ rows[k] \in Row /\ Item \in Work
      /\ Finds(Item) => rows[Item.key].status # "absent"
      /\ writer \in Writer
  BY MarkingIsSent DEF TypeOK, Finds, Present
<1>3. CASE UNCHANGED rows[k]
  BY <1>2, <1>3, BookStatements
<1>4. CASE ~UNCHANGED rows[k]
  <2>1. Item.key = k /\ Finds(Item)
    <3>1. UNCHANGED rows \/ Acts(Item)
      BY WriterActs
    <3> QED BY <1>2, <1>4, <3>1, OthersRows DEF Work
  <2>2. CASE FtsResolve
    <3>1. rows'[k] = Resolved(q)
      <4>1. Write(Item, Resolved(q))
        BY <2>2 DEF FtsResolve
      <4> QED BY <1>2, <2>1, <4>1 DEF Write
    <3>2. q \in Row /\ q.status = rows[k].status /\ Bookkeeping(rows[k], q)
      BY <1>2, <2>1, SinkStatement, BookSink DEF Sink, Sinks
    <3> HIDE DEF q
    <3>3. Bookkeeping(q, Resolved(q))
      BY <1>2, <2>1, <3>2, BookStatements
    <3> QED BY <1>2, <2>1, <3>1, <3>2, <3>3 DEF Bookkeeping, NoRow
  <2>3. CASE FtsDelete
    <3>1. rows'[k] = NoRow
      BY <1>2, <2>1, <2>3 DEF FtsDelete, DeleteRow, Write
    <3> QED BY <1>2, <2>1, <3>1, BookStatements
  <2>4. CASE FtsMark
    <3>1. rows'[k] = MarkedFailed(rows[k], writer.seen, "transient", FtsMaxRetries)
      BY <1>2, <2>1, <2>4 DEF FtsMark, Write
    <3> QED BY <1>2, <2>1, <3>1, BookFailure
  <2> QED BY <1>1, <1>4, <2>2, <2>3, <2>4 DEF FtsRefused, FtsMarkSelect
<1> QED BY <1>3, <1>4

LEMMA DeleteWriter ==
  ASSUME TypeOK, SentInv, PaidInv', DeleteInv, WriterStep
  PROVE  DeleteInv'
<1> USE DEF budget, files
<1>1. UNCHANGED <<tasks, qid, overruns>>
  BY WriterGoesOn
<1> SUFFICES ASSUME overruns = 0, ~LostWrites, NEW k \in Keys, Deleting(k)', Present(k)',
                    rows'[k].decided
             PROVE  owed'[k] = {}
  BY <1>1 DEF DeleteInv
<1>2. CASE rows'[k].status = "done"
  BY <1>1, <1>2 DEF PaidInv, Paid, RowPaid
<1>3. CASE writer.pc = "collect"
  <2>1. PICK n \in 1 .. Len(chan), ok \in BOOLEAN : Flush(n, ok)
    BY <1>3 DEF WriterStep, FtsResolve, FtsRefused, FtsDelete, FtsMarkSelect, FtsMark
  <2>2. UNCHANGED rows /\ writer'.pc = "resolve" /\ owed'[k] \subseteq owed[k]
    BY <2>1 DEF Flush, Collect
  <2>3. Deleting(k)
    BY <1>1, <2>2 DEF Deleting, At, Active, Holds
  <2> QED BY <2>2, <2>3 DEF DeleteInv, Present
<1>4. CASE writer.pc # "collect"
  <2>1. /\ FtsResolve \/ FtsRefused \/ FtsDelete \/ FtsMarkSelect \/ FtsMark
        /\ UNCHANGED owed
    <3>1. FtsResolve \/ FtsRefused \/ FtsDelete \/ FtsMarkSelect \/ FtsMark
      BY <1>4 DEF WriterStep, Flush
    <3> QED BY <3>1 DEF FtsResolve, FtsRefused, FtsDelete, FtsMarkSelect, FtsMark
  <2>2. /\ rows \in [Keys -> Row] /\ rows[k] \in Row /\ Item \in Work
        /\ Finds(Item) => rows[Item.key].status # "absent"
        /\ writer \in Writer
    BY <1>4, MarkingIsSent DEF TypeOK, Finds, Present
  <2> DEFINE q == WithSink(rows[Item.key], "search", IF writer.ok THEN "done" ELSE "failed")
  <2>3. CASE writer'.pc = "delete" /\ Holds(Item, k)'
    <3>1. FtsResolve /\ UNCHANGED batch /\ Finds(Item) /\ Verdict(Resolved(q)) = "done"
      <4>1. \A to : WriterAt(to) => writer'.pc = to /\ UNCHANGED batch
        BY <2>2 DEF WriterAt, Writer
      <4>2. ~NextWork
        BY <2>2, <2>3 DEF NextWork, Collect, Writer
      <4>3. \A n : writer' = [writer EXCEPT !.pc = "mark", !.seen = n] => writer'.pc = "mark"
        BY <2>2 DEF Writer
      <4> QED BY <2>1, <2>3, <4>1, <4>2, <4>3
              DEF FtsResolve, FtsRefused, FtsDelete, FtsMarkSelect, FtsMark
    <3>2. Item.key = k
      BY <1>1, <2>3, <3>1 DEF Holds, Item
    <3>3. rows'[k] = Resolved(q)
      <4>1. Write(Item, Resolved(q))
        BY <3>1 DEF FtsResolve
      <4> QED BY <2>2, <3>1, <3>2, <4>1 DEF Write
    <3>4. q \in Row
      BY <2>2, SinkStatement DEF Work, Sink, Sinks
    <3> HIDE DEF q
    <3>5. Resolved(q).status = "done"
      <4>1. Resolved(q).qdrant = q.qdrant /\ Resolved(q).search = q.search
        BY <3>4 DEF Resolved, Row
      <4>2. Verdict(q) = "done"
        BY <3>1, <4>1 DEF Verdict
      <4> QED BY <3>4, <4>2 DEF Resolved, Row
    <3> QED BY <1>2, <3>3, <3>5
  <2>4. CASE ~(writer'.pc = "delete" /\ Holds(Item, k)')
    <3>1. Deleting(k)
      BY <1>1, <2>4 DEF Deleting, At, Active, Holds
    <3>2. Bookkeeping(rows[k], rows'[k])
      BY <1>4, WriterBooks
    <3> QED BY <2>1, <3>1, <3>2, StillDecided DEF DeleteInv, Present
  <2> QED BY <2>3, <2>4
<1> QED BY <1>3, <1>4

LEMMA KeyBooks ==
  ASSUME TypeOK, NEW j \in Keys, KeyStep(j), NEW k \in Keys, ~(k = j /\ Enqueue(j))
  PROVE  Bookkeeping(rows[k], rows'[k]) /\ UNCHANGED <<qid[k], owed[k], effects[k]>>
<1> USE DEF memory, files, budget
<1>1. /\ rows[k] \in Row /\ rows \in [Keys -> Row] /\ owed \in [Keys -> SUBSET Sinks]
      /\ qid \in [Keys -> Nat] /\ effects \in [Keys -> Nat]
  BY DEF TypeOK
<1>2. UNCHANGED <<qid[k], owed[k], effects[k]>>
  BY <1>1 DEF KeyStep, Enqueue, EditFile, UserRetry, Discard, LeaseExpires,
                    Reap, Resurrect, Triage
<1>3. CASE k # j \/ EditFile(j)
  <2>1. UNCHANGED rows[k]
    BY <1>1, <1>3 DEF KeyStep, Enqueue, EditFile, UserRetry, Discard, LeaseExpires,
                      Reap, Resurrect, Triage
  <2> QED BY <1>1, <1>2, <2>1, BookStatements
<1>4. CASE k = j /\ (UserRetry(j) \/ Discard(j) \/ LeaseExpires(j) \/ Reap(j))
  <2>1. \/ rows'[k] = [rows[k] EXCEPT !.lease = "past"]
        \/ /\ rows[k].status # "absent"
           /\ \/ rows'[k] = NoRow \/ rows'[k] = UserRetried(rows[k])
              \/ rows'[k] = Recovered(rows[k])
    BY <1>1, <1>4 DEF UserRetry, Discard, LeaseExpires, Reap, Stale, Present
  <2> QED BY <1>1, <1>2, <2>1, BookStatements
<1>5. CASE k = j /\ (Resurrect(j) \/ Triage(j))
  <2>1. /\ rows[k].status # "absent"
        /\ rows'[k] = NoRow \/ rows'[k] = Resurrected(rows[k], MaxResurrections)
    BY <1>1, <1>5 DEF Resurrect, Triage, Resurrectable, Triageable
  <2> QED BY <1>1, <1>2, <2>1, BookStatements, BookFailure
<1> QED BY <1>3, <1>4, <1>5 DEF KeyStep

LEMMA DeleteKey ==
  ASSUME TypeOK, OwnerInv, SentInv, DeleteInv, NEW j \in Keys, KeyStep(j)
  PROVE  DeleteInv'
<1> USE DEF memory, files, budget
<1>1. /\ UNCHANGED <<tasks, batch, chan, writer>>
      /\ overruns' = 0 => overruns = 0
  BY DEF TypeOK, KeyStep, Enqueue, EditFile, UserRetry, Discard, LeaseExpires, Reap,
         Resurrect, Triage, Overtake
<1> SUFFICES ASSUME overruns = 0, ~LostWrites, NEW k \in Keys, Deleting(k)', Present(k)',
                    rows'[k].decided
             PROVE  owed'[k] = {}
  BY <1>1 DEF DeleteInv
<1>2. /\ rows[k] \in Row /\ rows \in [Keys -> Row] /\ owed \in [Keys -> SUBSET Sinks]
      /\ qid \in [Keys -> Nat]
  BY DEF TypeOK
<1>3. CASE k = j /\ Enqueue(j)
  <2>1. rows'[k] = NewRow
    BY <1>2, <1>3 DEF Enqueue
  <2> QED BY <2>1 DEF NewRow, NoRow
<1>4. CASE ~(k = j /\ Enqueue(j))
  <2>1. Bookkeeping(rows[k], rows'[k]) /\ UNCHANGED <<qid[k], owed[k]>>
    BY <1>4, KeyBooks
  <2>2. Deleting(k)
    BY <1>1, <2>1 DEF Deleting, At, Active, Holds, Item
  <2> QED BY <2>1, <2>2, StillDecided DEF DeleteInv, Present
<1> QED BY <1>3, <1>4

LEMMA DequeueBooks ==
  ASSUME TypeOK, NEW u \in Slots, NEW j \in Keys, Dequeue(u, j), NEW k \in Keys
  PROVE  Bookkeeping(rows[k], rows'[k])
<1>1. rows[k] \in Row /\ rows \in [Keys -> Row]
  BY DEF TypeOK
<1>2. \/ rows'[k] = rows[k]
      \/ rows[k].status # "absent" /\ rows'[k] = Leased(rows[k])
  BY <1>1 DEF Dequeue, CanLease
<1> QED BY <1>1, <1>2, BookStatements

LEMMA DeleteDequeue ==
  ASSUME TypeOK, DeleteInv, NEW u \in Slots, NEW j \in Keys, Dequeue(u, j)
  PROVE  DeleteInv'
<1> USE DEF budget, files
<1>1. UNCHANGED <<batch, writer, qid, overruns, owed>>
  BY DEF Dequeue
<1>2. /\ tasks'[u].pc = "leased" /\ \A v \in Slots : v # u => tasks'[v] = tasks[v]
  BY DEF Dequeue, TypeOK, Idle
<1> SUFFICES ASSUME overruns = 0, ~LostWrites, NEW k \in Keys, Deleting(k)', Present(k)',
                    rows'[k].decided
             PROVE  owed'[k] = {}
  BY <1>1 DEF DeleteInv
<1>3. Deleting(k)
  BY <1>1, <1>2 DEF Deleting, At, Active, Holds, Item
<1> QED BY <1>1, <1>3, DequeueBooks, StillDecided DEF DeleteInv, Present

LEMMA DeleteNext ==
  /\ TypeOK /\ OwnerInv /\ SentInv /\ LeaseInv /\ PaidInv' /\ DeleteInv /\ [Next]_vars
  => DeleteInv'
<1> SUFFICES ASSUME TypeOK, OwnerInv, SentInv, LeaseInv, PaidInv', DeleteInv, [Next]_vars
             PROVE  DeleteInv'
  OBVIOUS
<1>1. CASE CrashRestart
  BY <1>1 DEF CrashRestart, DeleteInv, Deleting, Active, Idle, Collect
<1>2. CASE Quiet \/ UNCHANGED vars
  <2>1. UNCHANGED vars
    BY <1>2 DEF Quiet
  <2> QED BY <2>1 DEF vars, DeleteInv, Deleting, Present, Active, At, Holds, Item
<1> QED BY <1>1, <1>2, DeleteTask, DeleteWriter, DeleteKey, DeleteDequeue DEF Next

LEMMA DeleteInit == Init => DeleteInv
BY DEF Init, DeleteInv, Deleting, Active, Idle, Collect

\* A deletion is the one step that counts side effects
LEMMA OnlyDeletes ==
  ASSUME TypeOK, SentInv, DeleteInv, overruns = 0, ~LostWrites, [Next]_vars, NEW k \in Keys,
         effects'[k] > effects[k], rows[k].decided
  PROVE  owed[k] = {} \/ \E w \in Slots : At(w, "remove") /\ Holds(tasks[w], k)
<1> USE DEF others, rest, budget, memory, files
<1>0. effects \in [Keys -> Nat]
  BY DEF TypeOK
<1>1. ASSUME NEW x, x.key \in Keys, DeleteRow(x)
      PROVE  Holds(x, k) /\ Present(k)
  BY <1>0, <1>1 DEF DeleteRow, Finds, Holds
<1>2. CASE \E w \in Slots : Delete(w)
  <2>1. PICK w \in Slots : Delete(w)
    BY <1>2
  <2>2. /\ Active(w) /\ DeleteRow(tasks[w]) /\ tasks[w].key \in Keys
        /\ At(w, "delete") \/ At(w, "remove")
    BY <2>1 DEF Delete, Active, At, TypeOK
  <2> QED BY <1>1, <2>2 DEF DeleteInv, Deleting
<1>3. CASE FtsDelete
  <2>1. writer.pc = "delete" /\ DeleteRow(Item) /\ Item.key \in Keys
    <3>1. writer.pc = "delete" /\ DeleteRow(Item)
      BY <1>3 DEF FtsDelete
    <3>2. Item \in Work
      BY <3>1, MarkingIsSent
    <3> QED BY <3>1, <3>2 DEF Work
  <2> QED BY <1>1, <2>1 DEF DeleteInv, Deleting
<1>4. CASE ~FtsDelete /\ ~\E w \in Slots : Delete(w)
  <2>1. effects'[k] = effects[k] \/ effects'[k] = 0
    <3>1. CASE \E j \in Keys : KeyStep(j)
      BY <1>0, <3>1 DEF KeyStep, Enqueue, EditFile, UserRetry, Discard, LeaseExpires,
                        Reap, Resurrect, Triage
    <3>2. CASE \E w \in Slots : TaskStep(w)
      <4>1. PICK w \in Slots : TaskStep(w) /\ ~Delete(w)
        BY <1>4, <3>2
      <4>2. CASE Handler(w)
        BY <4>2
           DEF Handler, PlainOk, FileGone, FileVoid, Skip, Decide, Purge,
               PrepareUntracked, RetrySearch, StartIngest, Upsert, UpsertFails,
               MarkQdrant, StartSearch, DispatchEnqueued, DispatchSkipped,
               DispatchFails, SettleSearch, ShareGeneration, ShareSearch, ShareSent,
               ShareRefused, ShareQdrant, HandlerFails
      <4>3. CASE Start(w) \/ ReLeasePending(w) \/ Ending(w)
        BY <4>1, <4>3 DEF Start, ReLeasePending, Ending, Finalize, Refused, MarkSelect,
                          Mark, Park, TaskDies
      <4> QED BY <4>1, <4>2, <4>3 DEF TaskStep
    <3>3. CASE WriterStep
      BY <1>4, <3>3 DEF WriterStep, Flush, FtsResolve, FtsRefused, FtsMarkSelect, FtsMark
    <3>4. CASE \E j \in Keys, w \in Slots : Dequeue(w, j)
      BY <3>4 DEF Dequeue
    <3>5. CASE CrashRestart \/ Quiet \/ UNCHANGED vars
      BY <3>5 DEF CrashRestart, Quiet, vars
    <3> QED BY <3>1, <3>2, <3>3, <3>4, <3>5 DEF Next
  <2> QED BY <1>0, <2>1
<1> QED BY <1>2, <1>3, <1>4

\* No finalizer deletes a row that another actor has put back for a retry it needs:
\* while no lease overtakes its holder and the handlers' own writes succeed, the side
\* effects of a decided row run only when it is done, when its work owes nothing, or
\* when its handler found the subject gone.
THEOREM RetriesKept == Spec /\ [](overruns = 0 /\ ~LostWrites) => RetriesAreKept
<1> DEFINE Inv == TypeOK /\ OwnerInv /\ SentInv /\ LeaseInv /\ PaidInv /\ DeleteInv
           Calmly == overruns = 0 /\ ~LostWrites
           Kind == \A k \in Keys : effects'[k] > effects[k] /\ rows[k].decided =>
                     \/ rows[k].status = "done" \/ owed[k] = {}
                     \/ \E w \in Slots : At(w, "remove") /\ Holds(tasks[w], k)
<1>1. Init => Inv
  BY InitType, OwnerInit, SentInit, LeaseInit, PaidInit, DeleteInit
<1>2. Inv /\ [Next]_vars => Inv'
  BY NextType, OwnerNext, SentNext, LeaseNext, PaidNext, DeleteNext
<1>3. Inv /\ Calmly /\ [Next]_vars => [Kind]_vars
  BY OnlyDeletes
<1>4. RetriesAreKept <=> [][Kind]_vars
  BY DEF RetriesAreKept
<1> HIDE DEF Inv, Calmly, Kind
<1> QED BY <1>1, <1>2, <1>3, <1>4, PTL DEF Spec, Calmly

-----------------------------------------------------------------------------
(* KeepsPromise: under the mapping of UnifiedQueueRefinement every step is,   *)
(* for every key, one that WorkPromise allows.                               *)

LEMMA Phases ==
  ASSUME NEW r \in Row
  PROVE  /\ PhaseOf(r) = "out" <=> r.status = "absent"
         /\ PhaseOf(r) = "open" <=> r.status \in {"pending", "in_progress"}
         /\ PhaseOf(r) = "failed" <=> r.status = "failed"
         /\ PhaseOf(r) = "closed" <=> r.status = "done"
         /\ PhaseOf(r) \in {"out", "open", "failed", "closed"}
BY DEF Row, Status, PhaseOf

\* A step that leaves the decision alone; nothing is owed by a row that becomes done, or
\* ceases to be
LEMMA BooksPromise ==
  ASSUME TypeOK, TypeOK', NEW k \in Keys,
         rows'[k].decided = rows[k].decided, Present(k)' <=> Present(k),
         effects'[k] = effects[k], owed'[k] \subseteq owed[k],
         PhaseOf(rows'[k]) = PhaseOf(rows[k]) \/ owed'[k] = owed[k],
         RowPaid(rows[k], owed[k], tracked[k]),
         RowPaid(rows'[k], owed'[k], tracked'[k])
  PROVE  Promise!Step(k)
<1> DEFINE r == rows[k]
           s == rows'[k]
<1>1. /\ PhaseOf(r) = "out" <=> ~Present(k)
      /\ PhaseOf(s) = "out" <=> ~Present(k)'
      /\ PhaseOf(r) = "closed" => (r.decided => owed[k] = {})
      /\ PhaseOf(s) = "closed" => (s.decided => owed'[k] = {})
      /\ PhaseOf(r) \in {"out", "open", "failed", "closed"}
      /\ PhaseOf(s) \in {"out", "open", "failed", "closed"}
  BY Phases DEF TypeOK, Present, RowPaid
<1> USE DEF Promise!SameWork, Promise!Silent, Promise!Moves, Promise!Covered
<1>2. CASE ~Present(k)
  <2>1. Promise!Stay(k)
    BY <1>1, <1>2 DEF Promise!Stay
  <2> QED BY <2>1 DEF Promise!Step
<1>3. CASE Present(k) /\ PhaseOf(s) = PhaseOf(r)
  <2>1. Promise!Do(k)
    BY <1>1, <1>3 DEF Promise!Do
  <2> QED BY <2>1 DEF Promise!Step
<1>4. CASE Present(k) /\ PhaseOf(s) # PhaseOf(r) /\ PhaseOf(s) = "closed"
  <2>1. Promise!Close(k)
    BY <1>1, <1>4 DEF Promise!Close
  <2> QED BY <2>1 DEF Promise!Step
<1>5. CASE Present(k) /\ PhaseOf(s) # PhaseOf(r) /\ PhaseOf(r) = "closed"
  <2>1. Promise!Repeat(k)
    BY <1>1, <1>5 DEF Promise!Repeat
  <2> QED BY <2>1 DEF Promise!Step
<1>6. CASE /\ Present(k) /\ PhaseOf(s) # PhaseOf(r)
           /\ PhaseOf(r) # "closed" /\ PhaseOf(s) # "closed"
  <2>1. Promise!Fail(k) \/ Promise!Again(k)
    BY <1>1, <1>6 DEF Promise!Fail, Promise!Again
  <2> QED BY <2>1 DEF Promise!Step
<1> QED BY <1>2, <1>3, <1>4, <1>5, <1>6

\* A row that is taken away is withdrawn, or completed for the first time
LEMMA DeletionPromise ==
  ASSUME TypeOK, TypeOK', EffectInv, NEW k \in Keys, Present(k), rows'[k] = NoRow,
         \/ effects'[k] = effects[k]
         \/ /\ effects'[k] = effects[k] + 1
            /\ \/ ~rows[k].decided \/ owed[k] = {}
               \/ \E w \in Slots : At(w, "remove") /\ Holds(tasks[w], k)
  PROVE  Promise!Step(k)
<1>1. /\ PhaseOf(rows[k]) # "out" /\ PhaseOf(rows'[k]) = "out"
      /\ ~Present(k)' /\ rows'[k].decided = FALSE
  <2>1. rows'[k].status = "absent" /\ rows'[k].decided = FALSE
    BY DEF NoRow
  <2> QED BY <2>1, Phases DEF TypeOK, Present
<1> USE DEF Promise!Forgotten, Promise!Silent, Promise!Covered
<1>2. CASE effects'[k] = effects[k]
  <2>1. Promise!Withdraw(k)
    BY <1>1, <1>2 DEF Promise!Withdraw
  <2> QED BY <2>1 DEF Promise!Step
<1>3. CASE effects'[k] = effects[k] + 1
  <2>1. effects[k] = 0 /\ effects'[k] = 1
    BY <1>3 DEF EffectInv, TypeOK
  <2>2. effects[k] + 1 # effects[k]
    BY <2>1
  <2>3. \/ ~rows[k].decided \/ owed[k] = {}
        \/ \E w \in Slots : At(w, "remove") /\ Holds(tasks[w], k)
    BY <1>3, <2>2
  <2>4. Promise!Complete(k)
    BY <1>1, <2>1, <2>3 DEF Promise!Complete
  <2> QED BY <2>4 DEF Promise!Step
<1> QED BY <1>2, <1>3

LEMMA EnqueuePromise ==
  ASSUME TypeOK, NEW k \in Keys, Enqueue(k)
  PROVE  Promise!Step(k)
<1>1. /\ ~Present(k) /\ rows'[k] = NewRow /\ owed'[k] = Sinks /\ effects'[k] = 0
  BY DEF TypeOK, Enqueue
<1>2. /\ PhaseOf(rows[k]) = "out" /\ PhaseOf(rows'[k]) = "open" /\ Present(k)'
      /\ rows'[k].decided = FALSE
  BY <1>1 DEF Present, NewRow, NoRow, PhaseOf
<1>3. Promise!Ask(k)
  BY <1>1, <1>2 DEF Promise!Ask, Promise!Moves
<1> QED BY <1>3 DEF Promise!Step

LEMMA DecidePromise ==
  ASSUME TypeOK, LeaseInv, overruns = 0, ~LostWrites,
         NEW w \in Slots, Decide(w), Active(w), NEW k \in Keys, k = tasks[w].key
  PROVE  Promise!Step(k)
<1>1. Holds(tasks[w], k) /\ rows[k].status = "in_progress" /\ rows[k] \in Row
  BY DEF LeaseInv, RowOf, Decide, At, Late, TypeOK
<1>2. Finds(tasks[w]) /\ rows \in [Keys -> Row] /\ owed \in [Keys -> SUBSET Sinks]
  BY <1>1 DEF TypeOK, Finds, Holds, Present
<1>3. /\ rows'[k] = Decided(rows[k]) /\ owed'[k] = Sinks /\ UNCHANGED effects
  BY <1>2 DEF Decide, HandlerWrites, Write, RowOf, others
<1>4. rows'[k].status = "in_progress" /\ rows'[k].decided = TRUE
  BY <1>1, <1>3 DEF Row, Decided, Blank
<1>5. PhaseOf(rows[k]) = "open" /\ PhaseOf(rows'[k]) = "open" /\ Present(k)'
  BY <1>1, <1>4 DEF PhaseOf, Present
<1>6. Promise!Analyse(k)
  BY <1>3, <1>4, <1>5 DEF Promise!Analyse, Promise!Moves, Promise!Silent
<1> QED BY <1>6 DEF Promise!Step

\* A handler's work pays what is owed, and leaves the status alone
LEMMA HandlerPays ==
  ASSUME TypeOK, NEW w \in Slots, Handler(w), ~Decide(w), NEW k \in Keys
  PROVE  rows'[k].status = rows[k].status /\ owed'[k] \subseteq owed[k]
<1> USE DEF At, others, rest, budget, files, RowOf
<1>1. /\ rows[k] \in Row /\ rows \in [Keys -> Row] /\ tasks[w].key \in Keys
      /\ owed \in [Keys -> SUBSET Sinks]
  BY TaskActs DEF TypeOK, TaskStep
<1>2. ASSUME NEW sink, NEW s, Write(tasks[w], WithSink(RowOf(w), sink, s))
      PROVE  rows'[k].status = rows[k].status
  BY <1>1, <1>2, BookSink DEF Write
<1>3. UNCHANGED rows \/ \E sink, s : Write(tasks[w], WithSink(RowOf(w), sink, s))
  BY DEF Handler, PlainOk, FileGone, FileVoid, Skip, Purge,
         PrepareUntracked, RetrySearch, StartIngest, Upsert,
         UpsertFails, MarkQdrant, StartSearch, DispatchEnqueued,
         DispatchSkipped, DispatchFails, SettleSearch, ShareGeneration,
         ShareSearch, ShareSent, ShareRefused, ShareQdrant, HandlerFails,
         SetSink, HandlerWrites
<1>4. UNCHANGED owed \/ Vouches(w) \/ \E sink : Pays(tasks[w], sink)
  BY DEF Handler, PlainOk, FileGone, FileVoid, Skip, Purge,
         PrepareUntracked, RetrySearch, StartIngest, Upsert, Generation,
         UpsertFails, MarkQdrant, StartSearch, DispatchEnqueued,
         DispatchSkipped, DispatchFails, SettleSearch, ShareGeneration,
         ShareSearch, ShareSent, ShareRefused, ShareQdrant, HandlerFails
<1>5. owed'[k] \subseteq owed[k]
  BY <1>1, <1>4 DEF Vouches, Pays
<1> QED BY <1>2, <1>3, <1>5

LEMMA BookedPromise ==
  ASSUME TypeOK, TypeOK', EffectInv, SentInv, PaidInv, PaidInv', DeleteInv,
         overruns = 0, overruns' = 0, ~LostWrites, [Next]_vars, NEW k \in Keys,
         Bookkeeping(rows[k], rows'[k]), owed'[k] \subseteq owed[k],
         rows'[k].status = rows[k].status \/ owed'[k] = owed[k],
         \/ effects'[k] = effects[k]
         \/ Present(k) /\ ~Present(k)' /\ effects'[k] = effects[k] + 1
  PROVE  Promise!Step(k)
<1>1. CASE Present(k) /\ rows'[k] = NoRow
  <2>1. CASE effects'[k] = effects[k]
    BY <1>1, <2>1, DeletionPromise
  <2>2. CASE effects'[k] = effects[k] + 1
    <3>1. effects'[k] > effects[k]
      BY <2>2 DEF TypeOK
    <3>2. \/ ~rows[k].decided \/ owed[k] = {}
          \/ \E w \in Slots : At(w, "remove") /\ Holds(tasks[w], k)
      BY <3>1, OnlyDeletes
    <3> QED BY <1>1, <2>2, <3>2, DeletionPromise
  <2> QED BY <2>1, <2>2
<1>2. CASE ~(Present(k) /\ rows'[k] = NoRow)
  <2>1. rows'[k].decided = rows[k].decided /\ (Present(k)' <=> Present(k))
    BY <1>2 DEF Bookkeeping, Present
  <2>2. effects'[k] = effects[k]
    BY <2>1
  <2>3. PhaseOf(rows'[k]) = PhaseOf(rows[k]) \/ owed'[k] = owed[k]
    BY DEF PhaseOf
  <2>4. RowPaid(rows[k], owed[k], tracked[k]) /\ RowPaid(rows'[k], owed'[k], tracked'[k])
    BY DEF PaidInv, Paid
  <2> QED BY <2>1, <2>2, <2>3, <2>4, BooksPromise
<1> QED BY <1>1, <1>2

LEMMA TaskPromise ==
  ASSUME TypeOK, TypeOK', EffectInv, SentInv, LeaseInv, PaidInv, PaidInv', DeleteInv,
         overruns = 0, overruns' = 0, ~LostWrites,
         NEW w \in Slots, TaskStep(w), NEW k \in Keys
  PROVE  Promise!Step(k)
<1>1. [Next]_vars
  BY DEF Next
<1>2. /\ Active(w) /\ Acts(tasks[w]) /\ tasks[w].key \in Keys
      /\ rows[k] \in Row /\ owed \in [Keys -> SUBSET Sinks]
  BY TaskGoesOn, TaskActs DEF TypeOK
<1>3. \/ effects'[k] = effects[k]
      \/ Present(k) /\ ~Present(k)' /\ effects'[k] = effects[k] + 1
  BY <1>2, ActsKeep
<1>4. CASE Decide(w) /\ k = tasks[w].key
  BY <1>2, <1>4, DecidePromise
<1>5. CASE Decide(w) /\ k # tasks[w].key
  <2>1. rows'[k] = rows[k] /\ owed'[k] = owed[k]
    BY <1>2, <1>5, OthersRows DEF Decide
  <2>2. Bookkeeping(rows[k], rows'[k])
    BY <1>2, <2>1, BookStatements
  <2> QED BY <1>1, <1>3, <2>1, <2>2, BookedPromise
<1>6. CASE ~Decide(w)
  <2>1. Bookkeeping(rows[k], rows'[k])
    BY <1>6, TaskBooks
  <2>2. /\ owed'[k] \subseteq owed[k]
        /\ rows'[k].status = rows[k].status \/ owed'[k] = owed[k]
    <3>1. CASE Handler(w)
      BY <1>6, <3>1, HandlerPays
    <3>2. CASE ~Handler(w)
      BY <3>2 DEF TaskStep, Start, ReLeasePending, Ending, Finalize, Refused, Delete,
                  MarkSelect, Mark, Park, TaskDies
    <3> QED BY <3>1, <3>2
  <2> QED BY <1>1, <1>3, <2>1, <2>2, BookedPromise
<1> QED BY <1>4, <1>5, <1>6

LEMMA WriterPromise ==
  ASSUME TypeOK, TypeOK', EffectInv, SentInv, PaidInv, PaidInv', DeleteInv,
         overruns = 0, overruns' = 0, ~LostWrites, WriterStep, NEW k \in Keys
  PROVE  Promise!Step(k)
<1>1. [Next]_vars /\ rows[k] \in Row /\ owed \in [Keys -> SUBSET Sinks]
  BY DEF Next, TypeOK
<1>2. \/ effects'[k] = effects[k]
      \/ Present(k) /\ ~Present(k)' /\ effects'[k] = effects[k] + 1
  BY WriterActs, ActsKeep
<1>3. CASE writer.pc = "collect"
  <2>1. UNCHANGED rows /\ owed'[k] \subseteq owed[k]
    <3>1. PICK n \in 1 .. Len(chan), ok \in BOOLEAN : Flush(n, ok)
      BY <1>3 DEF WriterStep, FtsResolve, FtsRefused, FtsDelete, FtsMarkSelect, FtsMark
    <3> QED BY <1>1, <3>1 DEF Flush
  <2>2. Bookkeeping(rows[k], rows'[k])
    BY <1>1, <2>1, BookStatements
  <2> QED BY <1>1, <1>2, <2>1, <2>2, BookedPromise
<1>4. CASE writer.pc # "collect"
  <2>1. UNCHANGED owed
    BY <1>4 DEF WriterStep, Flush, FtsResolve, FtsRefused, FtsDelete, FtsMarkSelect,
                FtsMark
  <2> QED BY <1>1, <1>2, <1>4, <2>1, WriterBooks, BookedPromise
<1> QED BY <1>3, <1>4

LEMMA StepPromise ==
  ASSUME TypeOK, TypeOK', EffectInv, SentInv, LeaseInv, PaidInv, PaidInv', DeleteInv,
         overruns = 0, overruns' = 0, ~LostWrites, [Next]_vars, NEW k \in Keys
  PROVE  Promise!Step(k)
<1>1. rows[k] \in Row /\ rows \in [Keys -> Row]
  BY DEF TypeOK
<1>2. ASSUME NEW j \in Keys, KeyStep(j) PROVE Promise!Step(k)
  <2>1. CASE k = j /\ Enqueue(j)
    BY <2>1, EnqueuePromise
  <2>2. CASE ~(k = j /\ Enqueue(j))
    BY <1>2, <2>2, KeyBooks, BookedPromise
  <2> QED BY <2>1, <2>2
<1>3. ASSUME NEW j \in Keys, NEW w \in Slots, Dequeue(w, j) PROVE Promise!Step(k)
  <2>1. UNCHANGED <<owed, effects>>
    BY <1>3 DEF Dequeue
  <2> QED BY <1>3, <2>1, DequeueBooks, BookedPromise
<1>4. CASE CrashRestart
  <2>1. UNCHANGED <<owed, effects>>
    BY <1>4 DEF CrashRestart
  <2>2. \/ rows[k].status # "absent" /\ rows'[k] = NoRow
        \/ rows'[k] = AtStartup(rows[k])
    BY <1>4 DEF CrashRestart
  <2>3. Bookkeeping(rows[k], rows'[k])
    BY <1>1, <2>2, BookStatements
  <2> QED BY <2>1, <2>3, BookedPromise
<1>5. CASE Quiet \/ UNCHANGED vars
  <2>1. UNCHANGED <<rows, owed, effects>>
    BY <1>5 DEF Quiet, vars
  <2>2. Bookkeeping(rows[k], rows'[k])
    BY <1>1, <2>1, BookStatements
  <2> QED BY <2>1, <2>2, BookedPromise
<1> QED BY <1>2, <1>3, <1>4, <1>5, TaskPromise, WriterPromise DEF Next

LEMMA InitPromise == Init => Promise!Init
<1> SUFFICES ASSUME Init PROVE Promise!Init
  OBVIOUS
<1>1. \A k \in Keys : /\ rows[k] = NoRow /\ ~Present(k) /\ PhaseOf(rows[k]) = "out"
                      /\ ~\E w \in Slots : At(w, "remove") /\ Holds(tasks[w], k)
  BY DEF Init, Present, NoRow, PhaseOf, At, Idle
<1> QED BY <1>1 DEF Promise!Init, Init, NoRow

\* The queue keeps the promise of WorkPromise: while no lease overtakes its holder and
\* the handlers' own writes succeed, every request is a machine that is completed at most
\* once, after all the work that was decided for it, whatever the worker, the batch
\* writer, the reaper, the idle passes, the user and restarts do in between.
THEOREM PromiseKept == Spec /\ [](overruns = 0 /\ ~LostWrites) => KeepsPromise
<1> DEFINE Inv == TypeOK /\ OwnerInv /\ EffectInv /\ SentInv /\ LeaseInv /\ PaidInv
                  /\ DeleteInv
           Calmly == overruns = 0 /\ ~LostWrites
<1>1. Init => Inv
  BY InitType, OwnerInit, EffectInit, SentInit, LeaseInit, PaidInit, DeleteInit
<1>2. Inv /\ [Next]_vars => Inv'
  BY NextType, OwnerNext, EffectNext, SentNext, LeaseNext, PaidNext, DeleteNext
<1>3. Inv /\ Inv' /\ Calmly /\ Calmly' /\ [Next]_vars
    => [\A r \in Keys : Promise!Step(r)]_(Promise!pvars)
  BY StepPromise
<1> HIDE DEF Inv, Calmly
<1> QED BY <1>1, <1>2, <1>3, InitPromise, PTL DEF Spec, KeepsPromise, Promise!Spec, Calmly
=============================================================================
