------------------------------- MODULE Watching -------------------------------
(***************************************************************************)
(* One watched folder: how a change of a file becomes a row of the queue.   *)
(* The callback of notify puts an event into an unbounded channel; one task  *)
(* takes events out into the debouncer, one entry per path, and on a tick    *)
(* takes the ripe ones out of it again and either enqueues them or, under    *)
(* load, defers them to a later tick (FileWatcherQueue).  At a start the     *)
(* recovery asks for a scan of the folder, which is an item of the queue and  *)
(* finds new files, and compares the tracked files with the disk itself.      *)
(*                                                                         *)
(* Of the queue a row per path and operation is kept, of the index the       *)
(* content each path was last indexed with (see UnifiedQueue, Generations).  *)
(* Handlers of one path do not overlap here, and a change of a file changes   *)
(* its mtime.                                                               *)
(***************************************************************************)
EXTENDS Naturals, FiniteSets, Sequences, WatchHealth

CONSTANTS
  Paths, Contents,
  Gone,           \* no file, nothing indexed
  DeferCap,       \* DEFER_CAP
  Trickle,        \* deferred events released on a tick under load
  Attempts,       \* MAX_RETRIES of an enqueue
  MaxEdits,       \* bound: changes of the files
  MaxFailures,    \* bound: failed statements
  MaxCrashes      \* bound: restarts

ASSUME WatchingAssumption ==
  /\ Gone \notin Contents
  /\ DeferCap \in Nat /\ Trickle \in Nat \ {0} /\ Attempts \in Nat \ {0}
  /\ MaxEdits \in Nat /\ MaxFailures \in Nat /\ MaxCrashes \in Nat

VARIABLES
  disk, index,
  stamped,      \* paths whose tracked row has the mtime the file has now
  fresh,        \* paths whose file is younger than the last scan of the folder
  watched,      \* paths whose directory notify watches
  start,        \* what the start-up recovery does next
  todo,         \* paths it has not judged yet
  outdated,     \* paths of its list that were indexed anew since
  scanning, unmet,  \* a scan is queued or under way; paths it has not met yet
  events,       \* the channel
  debounced,    \* per path the last event
  deferred,     \* the throttle's buffer, per path the last event
  loaded,       \* load level High or Critical
  task,         \* the task between two selects
  health,
  rows,
  edits, failures, crashes,
  lost          \* history: why the index may be behind for good

Texts == Contents \cup {Gone}
Ops   == {"add", "update", "delete"}
\* Create, Modify, Modify(Name(From)) of a file renamed away, Remove
Kinds == {"create", "modify", "away", "remove"}
None  == "none"

Trying == [path : Paths, op : Ops, attempt : 1 .. Attempts, inserted : BOOLEAN]
NoTrying == [op |-> None]
Task == [phase : {"select", "ripe", "release"}, batch : [Paths -> Kinds \cup {None}],
         admitted : Paths \cup {None}, trying : Trying \cup {NoTrying}]
AtSelect == [phase |-> "select", batch |-> [p \in Paths |-> None], admitted |-> None,
             trying |-> NoTrying]

\* text: what the handler has read of the file
Row == [state : {"none", "pending", "taken"}, text : Texts]
NoRow == [state |-> "none", text |-> Gone]

\* Changed while nobody watched; renamed away; the watch in backoff or disabled; the
\* buffer full; the enqueue failed, or the handler for good; changed under a handler
\* that had read it; the recovery failed; too old for the scan
Causes == {"unwatched", "renamed", "refused", "overflow", "failed", "raced",
           "unrecovered", "pruned"}
Several == "several"
\* What was in memory is gone, and the recovery has not seen the path yet
Restart == "restart"

vars == <<disk, index, stamped, fresh, watched, start, todo, outdated, scanning, unmet,
          events, debounced, deferred, loaded, task, health, rows,
          edits, failures, crashes, lost>>

TypeOK ==
  /\ disk \in [Paths -> Texts] /\ index \in [Paths -> Texts]
  /\ stamped \subseteq Paths /\ fresh \subseteq Paths
  /\ watched \subseteq Paths /\ start \in {"scan", "list", "judge"}
  /\ todo \subseteq Paths /\ outdated \subseteq Paths
  /\ scanning \in BOOLEAN /\ unmet \subseteq Paths
  /\ events \in Seq([path : Paths, kind : Kinds])
  /\ debounced \in [Paths -> Kinds \cup {None}]
  /\ deferred \in [Paths -> Kinds \cup {None}] /\ loaded \in BOOLEAN
  /\ task \in Task /\ health \in Health
  /\ rows \in [Paths -> [Ops -> Row]]
  /\ edits \in Nat /\ failures \in Nat /\ crashes \in Nat
  /\ lost \in [Paths -> Causes \cup {None, Several, Restart}]

\* A folder that is indexed, at the start of the daemon or later
Init ==
  /\ disk \in [Paths -> Texts] /\ index = disk
  /\ stamped = {p \in Paths : disk[p] # Gone} /\ fresh = {}
  /\ \/ /\ watched = {} /\ start = "scan" /\ todo = Paths
        /\ lost = [p \in Paths |-> Restart]
     \/ /\ watched = Paths /\ start = "judge" /\ todo = {}
        /\ lost = [p \in Paths |-> None]
  /\ outdated = {} /\ scanning = FALSE /\ unmet = {}
  /\ events = <<>> /\ debounced = [p \in Paths |-> None]
  /\ deferred = [p \in Paths |-> None] /\ loaded = FALSE
  /\ task = AtSelect /\ health = Healthy
  /\ rows = [p \in Paths |-> [o \in Ops |-> NoRow]]
  /\ edits = 0 /\ failures = 0 /\ crashes = 0

-----------------------------------------------------------------------------
(* The files, and notify *)

files    == <<disk, index, stamped>>
recovery == <<start, todo, outdated>>
scan     == <<scanning, unmet, fresh>>
starting == <<watched, recovery, scan>>
buffers  == <<events, debounced, deferred, loaded>>
bounds   == <<edits, failures, crashes>>

Blame(p, cause) == lost' = [lost EXCEPT ![p] = IF @ \in {None, Restart, cause}
                                               THEN cause ELSE Several]
Taken(p)        == \E o \in Ops : rows[p][o].state = "taken"
Fails           == failures < MaxFailures /\ failures' = failures + 1

\* A handler in hand has read what becomes of the file no more.  It stamps the row
\* with the mtime of later, so that no other row of the path makes up for that
\* (content_hash_reusing_mtime); but what appears after a delete is new.
Raced(p, c) == \E o \in Ops : /\ rows[p][o].state = "taken"
                              /\ (o = "delete" => rows[p][o].text # Gone /\ c = Gone)

\* A file is written, created or moved in (as old as it was), removed, or renamed away
Edit(p, c, kind) ==
  /\ edits < MaxEdits /\ c # disk[p]
  /\ kind \in IF disk[p] = Gone THEN {"create"}
              ELSE IF c = Gone THEN {"remove", "away"} ELSE {"modify"}
  /\ disk' = [disk EXCEPT ![p] = c]
  /\ stamped' = stamped \ {p}
  /\ fresh' \in {fresh \cup {p}} \cup IF kind = "modify" THEN {} ELSE {fresh \ {p}}
  /\ edits' = edits + 1
  /\ events' = IF p \in watched THEN Append(events, [path |-> p, kind |-> kind]) ELSE events
  /\ IF Raced(p, c) THEN Blame(p, "raced")
     ELSE IF p \in watched \/ (lost[p] = Restart /\ ~Taken(p)) THEN UNCHANGED lost
     ELSE Blame(p, "unwatched")
  /\ UNCHANGED <<index, watched, recovery, scanning, unmet, debounced, deferred, loaded,
                 task, health, rows, failures, crashes>>

Enqueue(p, op) == rows' = IF rows[p][op].state = "none"
                          THEN [rows EXCEPT ![p][op].state = "pending"] ELSE rows

-----------------------------------------------------------------------------
(* The start: a directory after another is watched ... *)

Watch(p) ==
  /\ p \notin watched
  /\ watched' = watched \cup {p}
  /\ UNCHANGED <<files, recovery, scan, buffers, task, health, rows, bounds, lost>>

\* ... while the recovery does not wait for that (recover_watch_folder).  A scan that
\* is open already absorbs the one it asks for.
AskScan ==
  /\ start = "scan" /\ start' = "list"
  /\ scanning' = TRUE /\ unmet' = IF scanning THEN unmet ELSE Paths
  /\ UNCHANGED <<files, fresh, watched, todo, outdated, buffers, task, health, rows,
                 bounds, lost>>

\* What was tracked, with its hashes and stamps
List ==
  /\ start = "list" /\ start' = "judge"
  /\ todo' = {p \in todo : index[p] # Gone} /\ outdated' = {}
  /\ UNCHANGED <<files, watched, scan, buffers, task, health, rows, bounds, lost>>

\* Either of them fails: the folder is passed over, but for a scan that is open
PassOver ==
  /\ start \in {"scan", "list"} /\ start' = "judge"
  /\ todo' = {} /\ outdated' = {}
  /\ Fails
  /\ lost' = [p \in Paths |-> IF lost[p] = Restart /\ (p \in unmet => index[p] # Gone)
                              THEN "unrecovered" ELSE lost[p]]
  /\ UNCHANGED <<files, watched, scan, buffers, task, health, rows, edits, crashes>>

Judged(p) == start = "judge" /\ p \in todo /\ todo' = todo \ {p}
             /\ outdated' = outdated \ {p}

\* process_tracked_file: a file that is missing, unchanged by its mtime, unchanged by
\* its hash (and stamped, if that works), or changed
Judge(p) ==
  /\ Judged(p) /\ p \notin outdated
  /\ \/ disk[p] = Gone /\ Enqueue(p, "delete") /\ UNCHANGED stamped
     \/ disk[p] # Gone /\ p \in stamped /\ UNCHANGED <<rows, stamped>>
     \/ /\ disk[p] # Gone /\ p \notin stamped /\ disk[p] = index[p]
        /\ stamped' \in {stamped, stamped \cup {p}} /\ UNCHANGED rows
     \/ /\ disk[p] # Gone /\ p \notin stamped /\ disk[p] # index[p]
        /\ Enqueue(p, "update") /\ UNCHANGED stamped
  /\ lost' = [lost EXCEPT ![p] = IF @ = Restart THEN None ELSE @]
  /\ UNCHANGED <<disk, index, start, watched, scan, buffers, task, health, bounds>>

\* The same by a hash and a stamp that are no longer those of the row
JudgeOutdated(p) ==
  /\ Judged(p) /\ p \in outdated
  /\ IF disk[p] = Gone THEN Enqueue(p, "delete") ELSE Enqueue(p, "update") \/ UNCHANGED rows
  /\ UNCHANGED <<files, start, watched, scan, buffers, task, health, bounds, lost>>

\* The hash or the enqueue fails, which is counted and logged
JudgeFails(p) ==
  /\ Judged(p) /\ (disk[p] = Gone \/ p \notin stamped) /\ Fails
  /\ lost' = [lost EXCEPT ![p] = IF @ = Restart THEN "unrecovered" ELSE @]
  /\ UNCHANGED <<files, start, watched, scan, buffers, task, health, rows, edits, crashes>>

-----------------------------------------------------------------------------
(* The scan *)

\* The recovery does not judge a file that is not tracked: the scan decides
OnlyScanned(p) == lost[p] = Restart /\ index[p] = Gone

\* process_file_entry: what is younger than the last scan is added, tracked or not
Meet(p) ==
  /\ p \in unmet /\ unmet' = unmet \ {p}
  /\ \/ /\ disk[p] # Gone /\ p \in fresh /\ Enqueue(p, "add")
        /\ lost' = [lost EXCEPT ![p] = IF OnlyScanned(p) THEN None ELSE @]
     \/ /\ disk[p] # Gone /\ p \notin fresh /\ UNCHANGED rows
        /\ lost' = [lost EXCEPT ![p] = IF OnlyScanned(p) THEN "pruned" ELSE @]
     \/ /\ disk[p] = Gone /\ UNCHANGED rows
        /\ lost' = [lost EXCEPT ![p] = IF OnlyScanned(p) THEN None ELSE @]
  /\ UNCHANGED <<files, watched, recovery, scanning, fresh, buffers, task, health, bounds>>

MeetFails(p) ==
  /\ p \in unmet /\ unmet' = unmet \ {p}
  /\ disk[p] # Gone /\ p \in fresh /\ Fails
  /\ lost' = [lost EXCEPT ![p] = IF OnlyScanned(p) THEN "unrecovered" ELSE @]
  /\ UNCHANGED <<files, watched, recovery, scanning, fresh, buffers, task, health, rows,
                 edits, crashes>>

\* last_scan becomes the time of now, if that is written
ScanDone ==
  /\ scanning /\ unmet = {} /\ scanning' = FALSE
  /\ fresh' \in {{}, fresh}
  /\ UNCHANGED <<files, watched, recovery, unmet, buffers, task, health, rows, bounds, lost>>

-----------------------------------------------------------------------------
(* The task: an event into the debouncer *)

\* Mutant: the first event of a path stays
ReceiveMutant ==
  /\ task.phase = "select" /\ events # <<>>
  /\ events' = Tail(events)
  /\ debounced' = [debounced EXCEPT ![Head(events).path] =
                     IF @ = None THEN Head(events).kind ELSE @]
  /\ UNCHANGED <<files, starting, deferred, loaded, task, health, rows, bounds, lost>>

\* process_file_event: the last event of a path wins
Receive ==
  /\ task.phase = "select" /\ events # <<>>
  /\ events' = Tail(events)
  /\ debounced' = [debounced EXCEPT ![Head(events).path] = Head(events).kind]
  /\ UNCHANGED <<files, starting, deferred, loaded, task, health, rows, bounds, lost>>

\* process_debounced_events: the ripe events leave the debouncer
Tick(ripe) ==
  /\ task.phase = "select"
  /\ \A p \in ripe : debounced[p] # None
  /\ ripe # {} \/ \E p \in Paths : deferred[p] # None
  /\ task' = [task EXCEPT !.phase = "ripe", !.batch =
                [p \in Paths |-> IF p \in ripe THEN debounced[p] ELSE None]]
  /\ debounced' = [p \in Paths |-> IF p \in ripe THEN None ELSE debounced[p]]
  /\ UNCHANGED <<files, starting, events, deferred, loaded, health, rows, bounds, lost>>

BatchDone == task.trying = NoTrying /\ \A p \in Paths : task.batch[p] = None

\* Then deferred ones are released: all of them, or a few while the load is high
Release(out) ==
  /\ task.phase = "ripe" /\ BatchDone
  /\ \A p \in out : deferred[p] # None
  /\ LET held == {p \in Paths : deferred[p] # None} IN
     IF loaded /\ Cardinality(held) > Trickle THEN Cardinality(out) = Trickle
                                              ELSE out = held
  /\ task' = [task EXCEPT !.phase = "release", !.batch =
                [p \in Paths |-> IF p \in out THEN deferred[p] ELSE None]]
  /\ deferred' = [p \in Paths |-> IF p \in out THEN None ELSE deferred[p]]
  /\ UNCHANGED <<files, starting, events, debounced, loaded, health, rows, bounds, lost>>

TickDone ==
  /\ task.phase = "release" /\ BatchDone
  /\ task' = AtSelect
  /\ UNCHANGED <<files, starting, buffers, health, rows, bounds, lost>>

-----------------------------------------------------------------------------
(* enqueue_file_operation *)

InBatch(p) == task.trying = NoTrying /\ task.batch[p] # None
Away(p)    == task' = [task EXCEPT !.batch[p] = None, !.admitted = None]

\* Only a Remove passes without a file
HasFile(p) == disk[p] # Gone \/ task.batch[p] = "remove"

DropFileless(p) ==
  /\ InBatch(p) /\ task.admitted = None /\ ~HasFile(p)
  /\ Away(p)
  /\ IF task.batch[p] = "away" THEN Blame(p, "renamed") ELSE UNCHANGED lost
  /\ UNCHANGED <<files, starting, buffers, health, rows, bounds>>

DropRefused(p) ==
  /\ InBatch(p) /\ task.admitted = None /\ HasFile(p) /\ ~CanProcess(health)
  /\ Away(p) /\ Blame(p, "refused")
  /\ UNCHANGED <<files, starting, buffers, health, rows, bounds>>

Admit(p) ==
  /\ InBatch(p) /\ task.admitted = None /\ HasFile(p) /\ CanProcess(health)
  /\ task' = [task EXCEPT !.admitted = p]
  /\ UNCHANGED <<files, starting, buffers, health, rows, bounds, lost>>

\* A ripe event: the load level is looked up again when it is 5 s old
Looked(p) == InBatch(p) /\ task.admitted = p

\* Mutant: released events pass the throttle like any other
DeferMutant(p) ==
  /\ Looked(p)
  /\ loaded' = TRUE
  /\ Away(p)
  /\ deferred' = [deferred EXCEPT ![p] = task.batch[p]]
  /\ UNCHANGED <<files, starting, events, debounced, health, rows, bounds, lost>>

\* should_throttle: one in two, or three in four, are held back
Defer(p) ==
  /\ Looked(p) /\ task.phase = "ripe"
  /\ loaded' = TRUE
  /\ Away(p)
  /\ IF deferred[p] # None \/ Cardinality({q \in Paths : deferred[q] # None}) < DeferCap
     THEN deferred' = [deferred EXCEPT ![p] = task.batch[p]] /\ UNCHANGED lost
     ELSE Blame(p, "overflow") /\ UNCHANGED deferred
  /\ UNCHANGED <<files, starting, events, debounced, health, rows, bounds>>

\* determine_operation_type: the file is looked for once more, and the operation is
\* settled before the first attempt
OpOf(p) == IF task.batch[p] = "create" THEN "add"
           ELSE IF task.batch[p] = "remove" \/ disk[p] = Gone THEN "delete" ELSE "update"

Choose(p) ==
  /\ Looked(p)
  /\ IF task.phase = "ripe" THEN loaded' \in BOOLEAN ELSE UNCHANGED loaded
  /\ task' = [task EXCEPT !.batch[p] = None, !.admitted = None, !.trying =
                [path |-> p, attempt |-> 1, inserted |-> FALSE, op |-> OpOf(p)]]
  /\ UNCHANGED <<files, starting, events, debounced, deferred, health, rows, bounds, lost>>

\* enqueue_unified, INSERT OR IGNORE
Insert ==
  LET t == task.trying IN
  /\ t # NoTrying /\ ~t.inserted
  /\ Enqueue(t.path, t.op)
  /\ task' = [task EXCEPT !.trying.inserted = TRUE]
  /\ UNCHANGED <<files, starting, buffers, health, bounds, lost>>

\* resolve_queue_id finds the row, or a row that was there before
Resolve ==
  LET t == task.trying IN
  /\ t # NoTrying /\ t.inserted /\ rows[t.path][t.op].state # "none"
  /\ task' = [task EXCEPT !.trying = NoTrying]
  /\ health' = RecordSuccess(health)
  /\ UNCHANGED <<files, starting, buffers, rows, bounds, lost>>

\* Mutant: one attempt too many
AttemptFailsMutant ==
  LET t == task.trying IN
  /\ t # NoTrying /\ failures < MaxFailures /\ failures' = failures + 1
  /\ IF t.attempt <= Attempts
     THEN /\ task' = [task EXCEPT !.trying.attempt = @ + 1, !.trying.inserted = FALSE]
          /\ UNCHANGED <<health, lost>>
     ELSE /\ task' = [task EXCEPT !.trying = NoTrying]
          /\ health' = RecordError(health)
          /\ Blame(t.path, "failed")
  /\ UNCHANGED <<files, starting, buffers, rows, edits, crashes>>

\* A Database error of a statement, or no row any more: after a pause the whole
\* enqueue is tried again, a bounded number of times
AttemptFails ==
  LET t == task.trying IN
  /\ t # NoTrying
  /\ IF t.inserted /\ rows[t.path][t.op].state = "none" THEN UNCHANGED failures
     ELSE Fails
  /\ IF t.attempt < Attempts
     THEN /\ task' = [task EXCEPT !.trying.attempt = @ + 1, !.trying.inserted = FALSE]
          /\ UNCHANGED <<health, lost>>
     ELSE /\ task' = [task EXCEPT !.trying = NoTrying]
          /\ health' = RecordError(health)
          /\ Blame(t.path, "failed")
  /\ UNCHANGED <<files, starting, buffers, rows, edits, crashes>>

\* Time: the backoff is over; errors are older than an hour
BackoffEnds ==
  /\ health.waiting
  /\ health' = [health EXCEPT !.waiting = FALSE]
  /\ UNCHANGED <<files, starting, buffers, task, rows, bounds, lost>>

WindowMoves ==
  /\ health.window > 0
  /\ health' = [health EXCEPT !.window = @ - 1]
  /\ UNCHANGED <<files, starting, buffers, task, rows, bounds, lost>>

-----------------------------------------------------------------------------
(* The queue's side *)

\* An ingest believes the stamp of the row, and does not read the file then
Take(p, op) ==
  /\ rows[p][op].state = "pending" /\ ~Taken(p)
  /\ rows' = [rows EXCEPT ![p][op] = [state |-> "taken", text |->
                IF op # "delete" /\ p \in stamped THEN index[p] ELSE disk[p]]]
  /\ UNCHANGED <<files, starting, buffers, task, health, bounds, lost>>

\* A delete whose file is there is stale, an ingest of what is indexed is skipped; what
\* is stored is stamped with the mtime the file has by then
Handle(p, op) ==
  LET text == rows[p][op].text
      idle == text = index[p] \/ (op = "delete" /\ text # Gone)
  IN
  /\ rows[p][op].state = "taken"
  /\ rows' = [rows EXCEPT ![p][op] = NoRow]
  /\ IF idle THEN UNCHANGED <<index, stamped, outdated, lost>>
     ELSE /\ index' = [index EXCEPT ![p] = text]
          /\ stamped' = IF Gone \in {text, disk[p]} THEN stamped \ {p} ELSE stamped \cup {p}
          /\ outdated' = outdated \cup ({p} \cap todo)
          /\ lost' = [lost EXCEPT ![p] = IF @ = Restart THEN None ELSE @]
  /\ UNCHANGED <<disk, watched, start, todo, scan, buffers, task, health, bounds>>

\* The retries are used up
GiveUp(p, op) ==
  /\ rows[p][op].state = "taken" /\ Fails
  /\ rows' = [rows EXCEPT ![p][op] = NoRow]
  /\ Blame(p, "failed")
  /\ UNCHANGED <<files, starting, buffers, task, health, edits, crashes>>

Idle == ~scanning /\ \A q \in Paths, o \in Ops : rows[q][o].state = "none"

\* Mutant: a watch that is disabled is not reconciled either
ReconcileMutant(p) ==
  /\ Idle /\ index[p] # Gone /\ disk[p] = Gone /\ CanProcess(health)
  /\ Enqueue(p, "delete")
  /\ UNCHANGED <<files, starting, buffers, task, health, bounds, lost>>

\* FilesystemReconcileTask, idle: an indexed file that is gone is deleted
Reconcile(p) ==
  /\ Idle /\ index[p] # Gone /\ disk[p] = Gone
  /\ Enqueue(p, "delete")
  /\ UNCHANGED <<files, starting, buffers, task, health, bounds, lost>>

\* The daemon dies and starts again; the queue is there still.  A stamp that vouches
\* for what the file held before is believed as ever.
CrashRestart ==
  /\ crashes < MaxCrashes /\ crashes' = crashes + 1
  /\ watched' = {} /\ start' = "scan" /\ todo' = Paths /\ outdated' = {}
  /\ unmet' = IF scanning THEN Paths ELSE {}
  /\ events' = <<>> /\ debounced' = [p \in Paths |-> None]
  /\ deferred' = [p \in Paths |-> None] /\ loaded' = FALSE
  /\ task' = AtSelect /\ health' = Healthy
  /\ rows' = [p \in Paths |-> [o \in Ops |->
                IF rows[p][o].state = "none" THEN NoRow
                ELSE [state |-> "pending", text |-> Gone]]]
  /\ lost' = [p \in Paths |-> IF p \in stamped /\ index[p] # disk[p] THEN "raced"
                              ELSE Restart]
  /\ UNCHANGED <<files, fresh, scanning, edits, failures>>

InWatcher(p) ==
  \/ \E n \in 1 .. Len(events) : events[n].path = p
  \/ debounced[p] # None \/ deferred[p] # None \/ task.batch[p] # None
  \/ task.trying # NoTrying /\ task.trying.path = p

Quiet(p) == /\ ~InWatcher(p) /\ \A o \in Ops : rows[p][o].state = "none"
            /\ start = "judge" /\ p \notin todo \cup unmet

Still == (\A p \in Paths : Quiet(p)) /\ UNCHANGED vars

WatcherTask ==
  \/ Receive \/ \E out \in SUBSET Paths : Tick(out) \/ Release(out)
  \/ TickDone
  \/ \E p \in Paths : DropFileless(p) \/ DropRefused(p) \/ Admit(p) \/ Defer(p) \/ Choose(p)
  \/ Insert \/ Resolve \/ AttemptFails

Recovery ==
  \/ AskScan \/ List \/ PassOver
  \/ \E p \in Paths : Judge(p) \/ JudgeOutdated(p) \/ JudgeFails(p)

Scan == (\E p \in Paths : Meet(p) \/ MeetFails(p)) \/ ScanDone

Processor == \E p \in Paths, o \in Ops : Take(p, o) \/ Handle(p, o) \/ GiveUp(p, o)

Next ==
  \/ \E p \in Paths, c \in Texts, k \in Kinds : Edit(p, c, k)
  \/ \E p \in Paths : Watch(p) \/ Reconcile(p)
  \/ Recovery \/ Scan
  \/ WatcherTask
  \/ BackoffEnds \/ WindowMoves
  \/ Processor
  \/ CrashRestart \/ Still

Spec == Init /\ [][Next]_vars

Ripe       == {p \in Paths : debounced[p] # None}

\* Each task goes on; the folder is idle again and again.  An event is ripe after
\* a second, so that some tick takes it.
Fairness ==
  /\ WF_vars(\E p \in Paths : Watch(p)) /\ WF_vars(Recovery) /\ WF_vars(Scan)
  /\ WF_vars(Processor) /\ WF_vars(\E p \in Paths : Reconcile(p))
  /\ WF_vars(WatcherTask) /\ SF_vars(Tick(Ripe))

FairSpec == Spec /\ Fairness

-----------------------------------------------------------------------------
(* Properties *)

\* Once nothing of a path is under way any more, it is indexed as it is on disk,
\* whatever was coalesced, deferred, released late, absorbed by an open row, tried
\* again, in memory at a crash, changed before the recovery looked or indexed while it
\* did, unless one of the recorded causes applies.
IndexFollowsDisk ==
  \A p \in Paths : Quiet(p) /\ lost[p] \in {None, Restart} => index[p] = disk[p]

\* A file that stays away leaves the index, whatever the watcher lost: the idle
\* reconcile looks for it (filesystem_reconcile.rs).
GhostsLeave == \A p \in Paths : disk[p] = Gone ~> index[p] = Gone \/ disk[p] # Gone

\* An event leaves the watcher, deferred or not, whatever the load.
EventsLeave == \A p \in Paths : InWatcher(p) ~> ~InWatcher(p)
=============================================================================
