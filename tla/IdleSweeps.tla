------------------------------ MODULE IdleSweeps ------------------------------
(***************************************************************************)
(* What the poll loop does when the queue is empty: MaintenanceScheduler     *)
(* runs one batch of one task per poll, and two of its tasks sweep the       *)
(* tracked files page by page.  FilesystemReconcile enqueues a delete of     *)
(* each file that is gone; OrphanCleanup makes qdrant_chunks, the mirror of  *)
(* a file's points, agree with the points that are there.  Between two pages *)
(* the queue may fill, and its handlers delete and insert rows.              *)
(***************************************************************************)
EXTENDS Naturals, FiniteSets

CONSTANTS
  FirstRows,    \* rows at the start
  MaxFile,      \* bound: rows ever inserted
  Page,         \* batch_size
  MaxUpsets     \* bound: files, points and mirrors lost, and outages

ASSUME IdleSweepsAssumption ==
  /\ FirstRows \in Nat /\ MaxFile \in Nat /\ FirstRows <= MaxFile
  /\ Page \in Nat \ {0} /\ MaxUpsets \in Nat

VARIABLES
  rows, fresh,           \* tracked_files, and its next file_id: AUTOINCREMENT
  disk, points, mirror,  \* rows with a file, with points, with their qdrant_chunks
  deletes,               \* enqueued
  up, pressed,           \* Qdrant answers; memory is short
  elapsed,               \* time since the queue is empty: 0, 1 (60 s), 2 (120 s)
  active,                \* active_task_idx
  started,               \* in_progress
  cooling,               \* last_run is more recent than the cooldown
  offset,                \* of FilesystemReconcile
  phase, cursor,         \* of OrphanCleanup
  upsets,
  touched                \* history: rows changed while OrphanCleanup is in progress

Ids   == 1 .. MaxFile
Tasks == {"filesystem", "orphans"}
None  == "none"

stores    == <<disk, points, mirror>>
tables    == <<rows, fresh, stores>>
scheduler == <<active, started, cooling>>
sweeps    == <<offset, phase, cursor>>
env       == <<up, pressed>>
vars == <<tables, deletes, env, elapsed, scheduler, sweeps, upsets, touched>>

TypeOK ==
  /\ rows \subseteq Ids /\ disk \subseteq Ids /\ points \subseteq Ids /\ mirror \subseteq rows
  /\ fresh \in Nat \ {0}
  /\ \A f \in rows \cup disk \cup points \cup deletes \cup touched : f < fresh
  /\ deletes \subseteq Ids /\ up \in BOOLEAN /\ pressed \in BOOLEAN
  /\ elapsed \in 0 .. 2
  /\ active \in Tasks \cup {None} /\ started \in [Tasks -> BOOLEAN]
  /\ cooling \in [Tasks -> BOOLEAN]
  /\ offset \in Nat /\ phase \in {"cleanup", "repair"} /\ cursor \in Ids \cup {0}
  /\ upsets \in Nat /\ touched \subseteq Ids
  /\ ~started["orphans"] => touched = {}
  /\ \A t \in Tasks : started[t] <=> active = t

\* Points and mirrors that drifted apart are what the sweeps are for
Init ==
  /\ rows = 1 .. FirstRows /\ fresh = FirstRows + 1
  /\ disk \in SUBSET rows /\ points \in SUBSET rows /\ mirror \in SUBSET rows
  /\ deletes = {} /\ up = TRUE /\ pressed = FALSE /\ elapsed = 0
  /\ active = None /\ started = [t \in Tasks |-> FALSE]
  /\ cooling = [t \in Tasks |-> FALSE]
  /\ offset = 0 /\ phase = "cleanup" /\ cursor = 0
  /\ upsets = 0 /\ touched = {}

-----------------------------------------------------------------------------
(* Around the sweeps *)

Touch(f) == touched' = IF started["orphans"] THEN touched \cup {f} ELSE {}

\* A new file is ingested
Ingest(f) ==
  /\ up /\ f = fresh /\ fresh' = fresh + 1
  /\ rows' = rows \cup {f} /\ disk' = disk \cup {f}
  /\ points' = points \cup {f} /\ mirror' = mirror \cup {f}
  /\ Touch(f)
  /\ elapsed' = 0
  /\ UNCHANGED <<deletes, env, scheduler, sweeps, upsets>>

Upset == upsets < MaxUpsets /\ upsets' = upsets + 1

\* A file goes and its event is lost; points are lost, or a mirror with a crash
Drift(f) ==
  /\ Upset
  /\ \/ f \in disk /\ disk' = disk \ {f} /\ UNCHANGED <<points, mirror>>
     \/ f \in points /\ points' = points \ {f} /\ UNCHANGED <<disk, mirror>>
     \/ f \in mirror /\ mirror' = mirror \ {f} /\ UNCHANGED <<disk, points>>
  /\ Touch(f)
  /\ UNCHANGED <<rows, fresh, deletes, env, elapsed, scheduler, sweeps>>

\* process_file_delete; points without a mirror stay behind
Delete(f) ==
  /\ f \in deletes /\ up
  /\ deletes' = deletes \ {f}
  /\ IF f \in disk THEN UNCHANGED tables
     ELSE /\ rows' = rows \ {f} /\ mirror' = mirror \ {f}
          /\ points' = points \ (mirror \cap {f})
          /\ UNCHANGED <<disk, fresh>>
  /\ Touch(f)
  /\ elapsed' = 0
  /\ UNCHANGED <<env, scheduler, sweeps, upsets>>

others == <<tables, deletes, elapsed, scheduler, sweeps, touched>>

QdrantFails == up /\ up' = FALSE /\ Upset /\ UNCHANGED <<others, pressed>>
QdrantBack  == ~up /\ up' = TRUE /\ UNCHANGED <<others, pressed, upsets>>
Pressure    == ~pressed /\ pressed' = TRUE /\ Upset /\ UNCHANGED <<others, up>>
Relief      == pressed /\ pressed' = FALSE /\ UNCHANGED <<others, up, upsets>>

Wait == /\ elapsed < 2 /\ elapsed' = elapsed + 1
        /\ UNCHANGED <<tables, deletes, env, scheduler, sweeps, upsets, touched>>

CooledDown(t) ==
  /\ cooling[t] /\ cooling' = [cooling EXCEPT ![t] = FALSE]
  /\ UNCHANGED <<tables, deletes, env, elapsed, active, started, sweeps, upsets, touched>>

-----------------------------------------------------------------------------
(* tick *)

\* IdleState::determine and required_idle_states
CanRun(t) == ~pressed /\ (up \/ t = "filesystem")

\* The first task in the order of registration
Eligible(t) ==
  /\ CanRun(t) /\ ~cooling[t]
  /\ elapsed >= IF t = "filesystem" THEN 1 ELSE 2

Picks(t) ==
  IF active = None THEN Eligible(t) /\ (t = "orphans" => ~Eligible("filesystem"))
                   ELSE active = t /\ CanRun(t)

\* A dequeue comes back empty; deletes that Qdrant failed wait for their retry
Tick(t) == (deletes = {} \/ ~up) /\ Picks(t)

\* Mutant: the task keeps its place after its last batch
DoneMutant(t) == /\ active' = t /\ started' = [started EXCEPT ![t] = FALSE]
                 /\ cooling' = [cooling EXCEPT ![t] = TRUE]

Continue(t) == /\ active' = t /\ started' = [started EXCEPT ![t] = TRUE]
               /\ UNCHANGED cooling
Done(t)     == /\ active' = None /\ started' = [started EXCEPT ![t] = FALSE]
               /\ cooling' = [cooling EXCEPT ![t] = TRUE]

Before(f, among) == Cardinality({g \in among : g < f})

\* Mutant: a new sweep goes on where the last one ended
FilesystemMutant ==
  LET page == {f \in rows : Before(f, rows) \in offset .. offset + Page - 1} IN
  /\ Tick("filesystem")
  /\ IF page = {} THEN Done("filesystem") /\ UNCHANGED <<offset, deletes>>
     ELSE /\ Continue("filesystem")
          /\ offset' = offset + Page /\ deletes' = deletes \cup (page \ disk)
  /\ UNCHANGED <<tables, env, elapsed, phase, cursor, upsets, touched>>

\* FilesystemReconcileTask: LIMIT and OFFSET over the rows as they are now.  A delete
\* that cannot be enqueued is left for the next sweep.
Filesystem ==
  LET from == IF started["filesystem"] THEN offset ELSE 0
      page == {f \in rows : Before(f, rows) \in from .. from + Page - 1} IN
  /\ Tick("filesystem")
  /\ IF page = {} THEN Done("filesystem") /\ offset' = from /\ UNCHANGED <<deletes, upsets>>
     ELSE /\ Continue("filesystem") /\ offset' = from + Page
          /\ \/ deletes' = deletes \cup (page \ disk) /\ UNCHANGED upsets
             \/ Upset /\ \E some \in SUBSET (page \ disk) : deletes' = deletes \cup some
  /\ UNCHANGED <<tables, env, elapsed, phase, cursor, touched>>

\* Keyset pages of those that qualify
After(from, among) ==
  LET rest == {f \in among : f > from} IN {f \in rest : Before(f, rest) < Page}

Last(page) == CHOOSE f \in page : \A g \in page : g <= f

\* Mutant: the pages of the cleanup are counted, as they were once
CleanupMutant(answered) ==
  LET from == IF started["orphans"] THEN cursor ELSE 0
      page == {f \in mirror : Before(f, mirror) \in from .. from + Page - 1} IN
  /\ Tick("orphans") /\ (started["orphans"] => phase = "cleanup")
  /\ answered \subseteq page
  /\ Continue("orphans")
  /\ touched' = touched \cup (page \ answered)
  /\ IF page = {} THEN phase' = "repair" /\ cursor' = 0 /\ UNCHANGED mirror
     ELSE /\ mirror' = mirror \ (answered \ points)
          /\ cursor' = from + Page /\ phase' = "cleanup"
  /\ UNCHANGED <<rows, fresh, disk, points, deletes, env, elapsed, offset, upsets>>

\* OrphanCleanupTask, first phase: a mirror without points goes.  A check that
\* fails is left for the next sweep.
Cleanup(answered) ==
  LET from == IF started["orphans"] THEN cursor ELSE 0
      page == After(from, mirror) IN
  /\ Tick("orphans") /\ (started["orphans"] => phase = "cleanup")
  /\ answered \subseteq page
  /\ Continue("orphans")
  /\ touched' = touched \cup (page \ answered)
  /\ IF page = {} THEN phase' = "repair" /\ cursor' = 0 /\ UNCHANGED mirror
     ELSE /\ mirror' = mirror \ (answered \ points)
          /\ cursor' = Last(page) /\ phase' = "cleanup"
  /\ UNCHANGED <<rows, fresh, disk, points, deletes, env, elapsed, offset, upsets>>

\* Second phase: points without a mirror get one
Repair(answered) ==
  LET page == After(cursor, rows \ mirror) IN
  /\ Tick("orphans") /\ started["orphans"] /\ phase = "repair"
  /\ answered \subseteq page
  /\ IF page = {} THEN Done("orphans") /\ touched' = {} /\ UNCHANGED <<mirror, cursor>>
     ELSE /\ Continue("orphans") /\ touched' = touched \cup (page \ answered)
          /\ mirror' = mirror \cup (answered \cap points)
          /\ cursor' = Last(page)
  /\ UNCHANGED <<rows, fresh, disk, points, deletes, env, elapsed, offset, phase, upsets>>

\* A query fails, the first one too: the batch is done again
Yield(t) ==
  /\ Tick(t) /\ Continue(t)
  /\ IF started[t] THEN UNCHANGED sweeps
     ELSE IF t = "filesystem" THEN offset' = 0 /\ UNCHANGED <<phase, cursor>>
     ELSE phase' = "cleanup" /\ cursor' = 0 /\ UNCHANGED offset
  /\ UNCHANGED <<tables, deletes, env, elapsed, upsets, touched>>

Batch == Filesystem \/ \E answered \in SUBSET Ids : Cleanup(answered) \/ Repair(answered)

Next ==
  \/ \E f \in Ids : Ingest(f) \/ Drift(f) \/ Delete(f)
  \/ QdrantFails \/ QdrantBack \/ Pressure \/ Relief \/ Wait
  \/ \E t \in Tasks : CooledDown(t) \/ Yield(t)
  \/ Batch

Spec == Init /\ [][Next]_vars

\* Time passes, the queue drains, Qdrant and memory come back, and the poll loop
\* runs a batch when it can.
Fairness ==
  /\ WF_vars(Wait) /\ WF_vars(QdrantBack) /\ WF_vars(Relief)
  /\ \A t \in Tasks : WF_vars(CooledDown(t))
  /\ WF_vars(\E f \in Ids : Delete(f)) /\ WF_vars(Batch)

FairSpec == Spec /\ Fairness

-----------------------------------------------------------------------------
(* Properties *)

\* A sweep of OrphanCleanup leaves each file that nobody else touched meanwhile with
\* a mirror exactly if it has points, though rows came and went between its pages.
MirrorHeals ==
  [][started["orphans"] /\ ~started["orphans"]' =>
       \A f \in rows \ touched : f \in mirror' <=> f \in points']_vars

\* A row whose file is gone is removed in the end, whatever pages the sweeps skip.
GhostsGo == \A f \in Ids : f \in rows /\ f \notin disk ~> f \notin rows
=============================================================================
