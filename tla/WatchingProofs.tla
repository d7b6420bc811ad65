---------------------------- MODULE WatchingProofs ----------------------------
(***************************************************************************)
(* TypeOK and IndexFollowsDisk of Watching, for any set of paths and          *)
(* contents, any thresholds and any bounds.                                  *)
(***************************************************************************)
EXTENDS Watching, SequenceTheorems, TLAPS

USE DEF files, recovery, scan, starting, buffers, bounds

LEMMA HealthType ==
  ASSUME NEW h \in Health
  PROVE  RecordError(h) \in Health /\ RecordSuccess(h) \in Health /\ Healthy \in Health
<1>1. Healthy \in Health
  BY DEF Health, Statuses, Healthy
<1>2. RecordError(h) \in Health
  <2> DEFINE n == h.errors + 1
             status == IF n >= DisableAt \/ h.window + 1 >= WindowAt THEN "disabled"
                       ELSE IF n >= BackoffAt THEN "backoff"
                       ELSE IF n >= DegradedAt THEN "degraded" ELSE "healthy"
             delays == status \in {"backoff", "disabled"}
             level  == IF delays THEN h.level + 1 ELSE h.level
             waits  == delays \/ h.waiting
  <2>1. status \in Statuses /\ n \in Nat /\ h.window + 1 \in Nat /\ level \in Nat
    BY DEF Health, Statuses
  <2>2. waits \in BOOLEAN
    BY DEF Health
  <2>3. RecordError(h) = [status |-> status, errors |-> n, successes |-> 0,
                          window |-> h.window + 1, level |-> level, waiting |-> waits]
    BY DEF RecordError
  <2> HIDE DEF n, status, delays, level, waits
  <2> QED
    BY <2>1, <2>2, <2>3 DEF Health
<1>3. RecordSuccess(h) \in Health
  <2> DEFINE level  == IF h.level = 0 THEN 0 ELSE h.level - 1
             waits  == level > 0 /\ h.waiting
             status == IF h.errors = 0 THEN h.status
                       ELSE IF level > 0 THEN "backoff"
                       ELSE IF h.errors >= DegradedAt THEN "degraded" ELSE "healthy"
  <2>1. status \in Statuses /\ level \in Nat /\ h.successes + 1 \in Nat
    BY DEF Health, Statuses
  <2>2. waits \in BOOLEAN
    OBVIOUS
  <2>3. RecordSuccess(h) = IF h.successes + 1 >= ResetAfter THEN Healthy
                           ELSE [h EXCEPT !.successes = h.successes + 1, !.level = level,
                                          !.waiting = waits, !.status = status]
    BY DEF RecordSuccess, Health
  <2> HIDE DEF level, waits, status
  <2> QED
    BY <1>1, <2>1, <2>2, <2>3 DEF Health
<1> QED
  BY <1>1, <1>2, <1>3

LEMMA SelectType == AtSelect \in Task
  BY DEF AtSelect, Task

\* Blame and Enqueue keep the types, whatever is blamed or enqueued
LEMMA BlameType ==
  ASSUME TypeOK, NEW p \in Paths, NEW cause \in Causes, Blame(p, cause)
  PROVE  lost' \in [Paths -> Causes \cup {None, Several, Restart}]
  BY DEF TypeOK, Blame

LEMMA EnqueueType ==
  ASSUME TypeOK, NEW p \in Paths, NEW op \in Ops, Enqueue(p, op)
  PROVE  rows' \in [Paths -> [Ops -> Row]]
<1>1. rows[p] \in [Ops -> Row] /\ rows[p][op] \in Row
  BY DEF TypeOK
<1> DEFINE row == [rows[p][op] EXCEPT !.state = "pending"]
           of  == [rows[p] EXCEPT ![op] = row]
<1>2. row \in Row
  BY <1>1 DEF Row
<1>3. rows' = rows \/ rows' = [rows EXCEPT ![p] = of]
  BY DEF Enqueue
<1> HIDE DEF row
<1>4. of \in [Ops -> Row]
  BY <1>1, <1>2
<1> HIDE DEF of
<1> QED
  BY <1>3, <1>4 DEF TypeOK

LEMMA InitType == Init => TypeOK
<1> SUFFICES ASSUME Init PROVE TypeOK
  OBVIOUS
<1>1. health \in Health /\ task \in Task
  BY SelectType DEF Init, Health, Statuses, Healthy
<1>2. rows \in [Paths -> [Ops -> Row]]
  BY DEF Init, Row, NoRow, Texts
<1>3. events \in Seq([path : Paths, kind : Kinds]) /\ index \in [Paths -> Texts]
  BY DEF Init
<1>4. lost \in [Paths -> Causes \cup {None, Several, Restart}]
  BY DEF Init
<1>5. /\ debounced \in [Paths -> Kinds \cup {None}] /\ deferred \in [Paths -> Kinds \cup {None}]
      /\ watched \subseteq Paths /\ todo \subseteq Paths /\ loaded \in BOOLEAN
      /\ stamped \subseteq Paths /\ fresh \subseteq Paths /\ outdated \subseteq Paths
      /\ start \in {"scan", "list", "judge"} /\ scanning \in BOOLEAN /\ unmet \subseteq Paths
  BY DEF Init
<1> QED
  BY <1>1, <1>2, <1>3, <1>4, <1>5 DEF Init, TypeOK

LEMMA StepType == TypeOK /\ [Next]_vars => TypeOK'
<1> SUFFICES ASSUME TypeOK, [Next]_vars PROVE TypeOK'
  OBVIOUS
<1>1. ASSUME NEW p \in Paths, NEW c \in Texts, NEW k \in Kinds, Edit(p, c, k) PROVE TypeOK'
  <2>1. lost' \in [Paths -> Causes \cup {None, Several, Restart}]
    BY <1>1, BlameType DEF Edit, TypeOK, Causes
  <2>2. events' \in Seq([path : Paths, kind : Kinds])
    <3>1. [path |-> p, kind |-> k] \in [path : Paths, kind : Kinds]
      OBVIOUS
    <3>2. UNCHANGED events \/ events' = Append(events, [path |-> p, kind |-> k])
      BY <1>1 DEF Edit
    <3>3. CASE events' = events
      BY <3>3 DEF TypeOK
    <3>4. CASE events' = Append(events, [path |-> p, kind |-> k])
      BY <3>1, <3>4, AppendProperties DEF TypeOK
    <3> QED
      BY <3>2, <3>3, <3>4
  <2>3. /\ disk' \in [Paths -> Texts] /\ edits' \in Nat
        /\ stamped' \subseteq Paths /\ fresh' \subseteq Paths
    BY <1>1 DEF Edit, TypeOK
  <2>4. UNCHANGED <<index, watched, recovery, scanning, unmet, debounced, deferred, loaded,
                    task, health, rows, failures, crashes>>
    BY <1>1 DEF Edit
  <2> QED
    BY <2>1, <2>2, <2>3, <2>4 DEF TypeOK
<1>2. ASSUME NEW p \in Paths, Watch(p) PROVE TypeOK'
  BY <1>2 DEF Watch, TypeOK
<1>b. ASSUME NEW p \in Paths, Judge(p) \/ JudgeOutdated(p) \/ JudgeFails(p) PROVE TypeOK'
  <2>1. rows' \in [Paths -> [Ops -> Row]]
    <3>1. CASE UNCHANGED rows
      BY <3>1 DEF TypeOK
    <3>2. ASSUME NEW op \in Ops, Enqueue(p, op) PROVE rows' \in [Paths -> [Ops -> Row]]
      BY <3>2, EnqueueType
    <3> QED
      BY <1>b, <3>1, <3>2 DEF Judge, JudgeOutdated, JudgeFails, Ops
  <2>2. lost' \in [Paths -> Causes \cup {None, Several, Restart}]
    BY <1>b DEF Judge, JudgeOutdated, JudgeFails, TypeOK, Causes
  <2>3. /\ stamped' \subseteq Paths /\ todo' \subseteq Paths /\ outdated' \subseteq Paths
        /\ failures' \in Nat
    BY <1>b DEF Judge, JudgeOutdated, JudgeFails, Judged, Fails, TypeOK
  <2> QED
    BY <1>b, <2>1, <2>2, <2>3 DEF Judge, JudgeOutdated, JudgeFails, TypeOK
<1>c. CASE AskScan \/ List \/ PassOver
  <2>1. lost' \in [Paths -> Causes \cup {None, Several, Restart}]
    BY <1>c DEF AskScan, List, PassOver, TypeOK, Causes
  <2>2. /\ start' \in {"scan", "list", "judge"} /\ todo' \subseteq Paths
        /\ outdated' \subseteq Paths /\ unmet' \subseteq Paths /\ scanning' \in BOOLEAN
        /\ failures' \in Nat
    <3>1. CASE AskScan
      BY <3>1 DEF AskScan, TypeOK
    <3>2. CASE List
      BY <3>2 DEF List, TypeOK
    <3>3. CASE PassOver
      BY <3>3 DEF PassOver, Fails, TypeOK
    <3> QED
      BY <1>c, <3>1, <3>2, <3>3
  <2> QED
    BY <1>c, <2>1, <2>2 DEF AskScan, List, PassOver, TypeOK
<1>d. ASSUME NEW p \in Paths, Meet(p) \/ MeetFails(p) PROVE TypeOK'
  <2>1. rows' \in [Paths -> [Ops -> Row]]
    <3>1. CASE UNCHANGED rows
      BY <3>1 DEF TypeOK
    <3>2. CASE Enqueue(p, "add")
      BY <3>2, EnqueueType DEF Ops
    <3> QED
      BY <1>d, <3>1, <3>2 DEF Meet, MeetFails
  <2>2. lost' \in [Paths -> Causes \cup {None, Several, Restart}]
    BY <1>d DEF Meet, MeetFails, TypeOK, Causes
  <2>3. unmet' \subseteq Paths /\ failures' \in Nat
    BY <1>d DEF Meet, MeetFails, Fails, TypeOK
  <2> QED
    BY <1>d, <2>1, <2>2, <2>3 DEF Meet, MeetFails, TypeOK
<1>e. CASE ScanDone
  BY <1>e DEF ScanDone, TypeOK
<1>4. CASE Receive
  <2>1. Head(events) \in [path : Paths, kind : Kinds]
        /\ Tail(events) \in Seq([path : Paths, kind : Kinds])
    BY <1>4, HeadTailProperties DEF Receive, TypeOK
  <2>2. debounced' \in [Paths -> Kinds \cup {None}]
    BY <1>4, <2>1 DEF Receive, TypeOK
  <2> QED
    BY <1>4, <2>1, <2>2 DEF Receive, TypeOK
<1>5. ASSUME NEW out \in SUBSET Paths, Tick(out) PROVE TypeOK'
  <2>1. task' \in Task
    BY <1>5 DEF Tick, TypeOK, Task
  <2> QED
    BY <1>5, <2>1 DEF Tick, TypeOK
<1>6. ASSUME NEW out \in SUBSET Paths, Release(out) PROVE TypeOK'
  <2>1. task' \in Task
    BY <1>6 DEF Release, TypeOK, Task
  <2> QED
    BY <1>6, <2>1 DEF Release, TypeOK
<1>7. CASE TickDone
  BY <1>7, SelectType DEF TickDone, TypeOK
<1>a. ASSUME NEW p \in Paths, Away(p) PROVE task' \in Task
  BY <1>a DEF Away, TypeOK, Task
<1>8. ASSUME NEW p \in Paths, DropFileless(p) \/ DropRefused(p) PROVE TypeOK'
  <2>1. lost' \in [Paths -> Causes \cup {None, Several, Restart}]
    BY <1>8, BlameType DEF DropFileless, DropRefused, TypeOK, Causes
  <2> QED
    BY <1>8, <1>a, <2>1 DEF DropFileless, DropRefused, TypeOK
<1>9. ASSUME NEW p \in Paths, Defer(p) PROVE TypeOK'
  <2>1. lost' \in [Paths -> Causes \cup {None, Several, Restart}]
    BY <1>9, BlameType DEF Defer, TypeOK, Causes
  <2>2. deferred' \in [Paths -> Kinds \cup {None}]
    BY <1>9 DEF Defer, Looked, TypeOK, Task
  <2> QED
    BY <1>9, <1>a, <2>1, <2>2 DEF Defer, TypeOK
<1>f. ASSUME NEW p \in Paths, Admit(p) PROVE TypeOK'
  BY <1>f DEF Admit, TypeOK, Task
<1>10. ASSUME NEW p \in Paths, Choose(p) PROVE TypeOK'
  <2>1. task' \in Task
    <3> DEFINE t  == [path |-> p, attempt |-> 1, inserted |-> FALSE, op |-> OpOf(p)]
    <3>1. OpOf(p) \in Ops
      BY DEF Ops, OpOf
    <3>2. task' = [task EXCEPT !.batch = [task.batch EXCEPT ![p] = None], !.admitted = None,
                               !.trying = t]
      BY <1>10 DEF Choose, TypeOK, Task
    <3>3. t \in Trying
      BY <3>1, WatchingAssumption DEF Trying
    <3> HIDE DEF t
    <3>4. task \in Task
      BY DEF TypeOK
    <3> QED
      BY <3>2, <3>3, <3>4 DEF Task
  <2> QED
    BY <1>10, <2>1 DEF Choose, TypeOK
<1>11. CASE Insert
  <2>1. task.trying \in Trying
    BY <1>11 DEF Insert, TypeOK, Task
  <2>2. rows' \in [Paths -> [Ops -> Row]]
    BY <1>11, <2>1, EnqueueType DEF Insert, Trying
  <2>3. task' \in Task
    BY <1>11, <2>1 DEF Insert, TypeOK, Task, Trying
  <2> QED
    BY <1>11, <2>2, <2>3 DEF Insert, TypeOK
<1>12. CASE Resolve
  BY <1>12, HealthType DEF Resolve, TypeOK, Task
<1>13. CASE AttemptFails
  <2>1. task.trying \in Trying
    BY <1>13 DEF AttemptFails, TypeOK, Task
  <2>2. lost' \in [Paths -> Causes \cup {None, Several, Restart}]
    BY <1>13, <2>1, BlameType DEF AttemptFails, Trying, TypeOK, Causes
  <2>3. task' \in Task
    <3> DEFINE t == [task.trying EXCEPT !.attempt = task.trying.attempt + 1, !.inserted = FALSE]
    <3>1. CASE task.trying.attempt < Attempts
      <4>0. task.trying.attempt + 1 \in 1 .. Attempts
        BY <2>1, <3>1, WatchingAssumption DEF Trying
      <4>1. t \in Trying
        BY <2>1, <4>0 DEF Trying
      <4>2. task' = [task EXCEPT !.trying = t]
        BY <1>13, <2>1, <3>1 DEF AttemptFails, Trying, TypeOK, Task
      <4> HIDE DEF t
      <4> QED
        BY <4>1, <4>2 DEF TypeOK, Task
    <3>2. CASE ~(task.trying.attempt < Attempts)
      BY <1>13, <3>2 DEF AttemptFails, TypeOK, Task
    <3> QED
      BY <3>1, <3>2
  <2>4. health' \in Health /\ failures' \in Nat
    BY <1>13, HealthType DEF AttemptFails, Fails, TypeOK
  <2> QED
    BY <1>13, <2>2, <2>3, <2>4 DEF AttemptFails, TypeOK
<1>14. CASE BackoffEnds \/ WindowMoves
  <2>1. health' \in Health
    <3>1. health \in Health
      BY DEF TypeOK
    <3>2. CASE BackoffEnds
      BY <3>1, <3>2 DEF BackoffEnds, Health
    <3>3. CASE WindowMoves
      <4>1. health.window - 1 \in Nat
        BY <3>1, <3>3 DEF WindowMoves, Health
      <4> QED
        BY <3>1, <3>3, <4>1 DEF WindowMoves, Health
    <3> QED
      BY <1>14, <3>2, <3>3
  <2> QED
    BY <1>14, <2>1 DEF BackoffEnds, WindowMoves, TypeOK
<1>15. ASSUME NEW p \in Paths, NEW op \in Ops, Take(p, op) PROVE TypeOK'
  <2>1. rows' \in [Paths -> [Ops -> Row]]
    <3>1. (IF op # "delete" /\ p \in stamped THEN index[p] ELSE disk[p]) \in Texts
      BY DEF TypeOK
    <3> QED
      BY <1>15, <3>1 DEF Take, TypeOK, Row
  <2> QED
    BY <1>15, <2>1 DEF Take, TypeOK
<1>16. ASSUME NEW p \in Paths, NEW op \in Ops, Handle(p, op) PROVE TypeOK'
  <2>1. rows' \in [Paths -> [Ops -> Row]]
    BY <1>16 DEF Handle, TypeOK, Row, NoRow, Texts
  <2>2. index' \in [Paths -> Texts]
    BY <1>16 DEF Handle, TypeOK, Row
  <2>3. /\ stamped' \subseteq Paths /\ outdated' \subseteq Paths
        /\ lost' \in [Paths -> Causes \cup {None, Several, Restart}]
    BY <1>16 DEF Handle, TypeOK
  <2> QED
    BY <1>16, <2>1, <2>2, <2>3 DEF Handle, TypeOK
<1>g. ASSUME NEW p \in Paths, NEW op \in Ops, GiveUp(p, op) PROVE TypeOK'
  <2>1. rows' \in [Paths -> [Ops -> Row]]
    BY <1>g DEF GiveUp, TypeOK, Row, NoRow, Texts
  <2>2. lost' \in [Paths -> Causes \cup {None, Several, Restart}]
    BY <1>g, BlameType DEF GiveUp, TypeOK, Causes
  <2>3. failures' \in Nat
    BY <1>g DEF GiveUp, Fails, TypeOK
  <2> QED
    BY <1>g, <2>1, <2>2, <2>3 DEF GiveUp, TypeOK
<1>17. ASSUME NEW p \in Paths, Reconcile(p) PROVE TypeOK'
  <2>1. rows' \in [Paths -> [Ops -> Row]]
    BY <1>17, EnqueueType DEF Reconcile, Ops
  <2> QED
    BY <1>17, <2>1 DEF Reconcile, TypeOK
<1>18. CASE CrashRestart
  <2>1. rows' \in [Paths -> [Ops -> Row]]
    BY <1>18 DEF CrashRestart, Row, NoRow, Texts
  <2>2. health' \in Health
    BY <1>18 DEF CrashRestart, Health, Statuses, Healthy
  <2> QED
    <3>1. crashes' \in Nat
      BY <1>18 DEF CrashRestart, TypeOK
    <3>4. /\ events' = <<>> /\ loaded' \in BOOLEAN
          /\ watched' \subseteq Paths /\ todo' \subseteq Paths
          /\ start' \in {"scan", "list", "judge"} /\ outdated' \subseteq Paths
          /\ unmet' \subseteq Paths
      BY <1>18 DEF CrashRestart
    <3>2. events' \in Seq([path : Paths, kind : Kinds])
      BY <3>4
    <3>3. /\ debounced' \in [Paths -> Kinds \cup {None}]
          /\ deferred' \in [Paths -> Kinds \cup {None}] /\ task' \in Task
          /\ lost' \in [Paths -> Causes \cup {None, Several, Restart}]
      BY <1>18, SelectType DEF CrashRestart, Causes
    <3> QED
      BY <1>18, <2>1, <2>2, <3>1, <3>2, <3>3, <3>4 DEF CrashRestart, TypeOK
<1>19. CASE UNCHANGED vars
  BY <1>19 DEF vars, TypeOK
<1> QED
  BY <1>1, <1>2, <1>b, <1>c, <1>d, <1>e, <1>f, <1>g, <1>4, <1>5, <1>6, <1>7, <1>8, <1>9,
     <1>10, <1>11, <1>12, <1>13,
     <1>14, <1>15, <1>16, <1>17, <1>18, <1>19
     DEF Next, Recovery, Scan, WatcherTask, Processor, Still

\* Every variable of the watcher keeps its type.
THEOREM TypeCorrect == Spec => []TypeOK
  BY InitType, StepType, PTL DEF Spec

-----------------------------------------------------------------------------
(* The index follows the disk *)

\* An event, an operation, that makes the index of the path what the disk holds now.
\* A file renamed away counts: its event is dropped, and blamed.
Effective(p, k) == IF disk[p] = Gone THEN k \in {"remove", "away"} ELSE k # "remove"
Settles(p, op)  == disk[p] = Gone \/ op # "delete"

\* The newest event of the path in the watcher is effective: the channel's last, else
\* the debouncer's, else the one in hand, else the throttle's
InChannel(p) == \E n \in 1 .. Len(events) : events[n].path = p
Last(p, n) ==
  events[n].path = p /\ \A m \in 1 .. Len(events) : m > n => events[m].path # p
Announced(p) ==
  \/ \E n \in 1 .. Len(events) : Last(p, n) /\ Effective(p, events[n].kind)
  \/ /\ ~InChannel(p)
     /\ LET k == IF debounced[p] # None THEN debounced[p]
                 ELSE IF task.batch[p] # None THEN task.batch[p] ELSE deferred[p]
        IN  k # None /\ Effective(p, k)

Attempted(p) ==
  /\ task.trying # NoTrying /\ task.trying.path = p /\ ~task.trying.inserted
  /\ Settles(p, task.trying.op)

Queued(p) == \E o \in Ops : rows[p][o].state = "pending" /\ Settles(p, o)

\* What the index holds when the handler under way, if any, is done
AtRest(p) ==
  \/ ~Taken(p) /\ index[p] = disk[p]
  \/ \E o \in Ops : /\ rows[p][o].state = "taken"
                    /\ IF o = "delete" /\ rows[p][o].text # Gone THEN index[p] = disk[p]
                       ELSE rows[p][o].text = disk[p]

Awaited(p) == Announced(p) \/ Attempted(p) \/ Queued(p)

\* A handler that makes the index what the disk holds now
Covered(p) == \E o \in Ops : /\ rows[p][o].state = "taken" /\ rows[p][o].text = disk[p]
                             /\ o = "delete" => disk[p] = Gone

Held(p) == lost[p] \in {None, Restart}

\* Without a cause nothing is forgotten; a handler has read what the file is still,
\* or a delete will be followed; and a stamp of now vouches for what is indexed
Known(p)   == lost[p] = None => Awaited(p) \/ AtRest(p)
Current(p) == Held(p) => \A o \in Ops : rows[p][o].state = "taken" =>
                IF o = "delete" THEN rows[p][o].text = Gone \/ disk[p] # Gone
                ELSE rows[p][o].text = disk[p]
Vouched(p) == Held(p) /\ p \in stamped => index[p] = disk[p]

\* What a restart made uncertain is still to be judged, or to be met by a scan; a file
\* that came back after a delete had looked for it is awaited
Sought(p) ==
  lost[p] = Restart =>
    /\ p \notin outdated
    /\ IF index[p] = Gone THEN p \in unmet \/ (start = "scan" /\ ~scanning) ELSE p \in todo
Back(p) ==
  lost[p] = Restart /\ rows[p]["delete"].state = "taken" /\ rows[p]["delete"].text = Gone
    => disk[p] = Gone \/ Awaited(p)

Followed(p) == Known(p) /\ Current(p) /\ Vouched(p) /\ Sought(p) /\ Back(p)

\* Between two selects nothing is in hand; one handler of a path at a time
Orderly ==
  /\ task.phase = "select" => task.trying = NoTrying /\ \A p \in Paths : task.batch[p] = None
  /\ \A p \in Paths : \A o, q \in Ops :
       rows[p][o].state = "taken" /\ rows[p][q].state = "taken" => o = q

FollowInv == Orderly /\ \A p \in Paths : Followed(p)

LEMMA InitFollow == Init => FollowInv
<1> SUFFICES ASSUME Init PROVE FollowInv
  OBVIOUS
<1>1. \A p \in Paths, o \in Ops : rows[p][o].state = "none"
  BY DEF Init, NoRow
<1>2. Orderly
  BY <1>1 DEF Init, AtSelect, Orderly
<1>3. \A p \in Paths : AtRest(p)
  BY <1>1 DEF Init, AtRest, Taken
<1>4. \A p \in Paths : Current(p) /\ Back(p)
  BY <1>1 DEF Current, Back, Ops
<1>5. \A p \in Paths : Vouched(p) /\ Sought(p)
  BY DEF Init, Vouched, Sought, None, Restart
<1> QED
  BY <1>2, <1>3, <1>4, <1>5 DEF FollowInv, Followed, Known

\* What a step leaves of a path
LEMMA AnnouncedFrame ==
  ASSUME NEW p \in Paths, UNCHANGED events,
         disk'[p] = disk[p], debounced'[p] = debounced[p], task'.batch[p] = task.batch[p],
         deferred'[p] = deferred[p]
  PROVE  Announced(p)' <=> Announced(p)
  BY DEF Announced, InChannel, Last, Effective

LEMMA QueueFrame ==
  ASSUME NEW p \in Paths, disk'[p] = disk[p], index'[p] = index[p], rows'[p] = rows[p]
  PROVE  (Queued(p)' <=> Queued(p)) /\ (AtRest(p)' <=> AtRest(p))
  BY DEF Queued, AtRest, Taken, Settles

LEMMA AttemptFrame ==
  ASSUME NEW p \in Paths, disk'[p] = disk[p], task'.trying = task.trying
  PROVE  Attempted(p)' <=> Attempted(p)
  BY DEF Attempted, Settles

LEMMA Blamed ==
  ASSUME TypeOK, NEW p \in Paths, NEW cause \in Causes, Blame(p, cause)
  PROVE  /\ lost'[p] \notin {None, Restart}
         /\ \A q \in Paths : q # p => lost'[q] = lost[q]
  BY DEF TypeOK, Blame, Causes, None, Several, Restart

LEMMA Enqueued ==
  ASSUME TypeOK, NEW p \in Paths, NEW op \in Ops, Enqueue(p, op)
  PROVE  /\ rows'[p][op].state = IF rows[p][op].state = "none" THEN "pending"
                                 ELSE rows[p][op].state
         /\ rows'[p][op].text = rows[p][op].text
         /\ \A o \in Ops : o # op => rows'[p][o] = rows[p][o]
         /\ \A q \in Paths : q # p => rows'[q] = rows[q]
<1>1. rows[p] \in [Ops -> Row] /\ rows[p][op] \in Row
  BY DEF TypeOK
<1> DEFINE row == [rows[p][op] EXCEPT !.state = "pending"]
           of  == [rows[p] EXCEPT ![op] = row]
<1>2. row.state = "pending" /\ row.text = rows[p][op].text
  BY <1>1 DEF Row
<1>3. rows' = IF rows[p][op].state = "none" THEN [rows EXCEPT ![p] = of] ELSE rows
  BY DEF Enqueue
<1> HIDE DEF row
<1>4. of[op] = row /\ \A o \in Ops : o # op => of[o] = rows[p][o]
  BY <1>1
<1> HIDE DEF of
<1>5. CASE rows[p][op].state = "none"
  BY <1>2, <1>3, <1>4, <1>5 DEF TypeOK
<1>6. CASE rows[p][op].state # "none"
  BY <1>3, <1>6
<1> QED
  BY <1>5, <1>6

\* An enqueue takes nothing from a path: a pending row is one already
LEMMA EnqueueFollow ==
  ASSUME TypeOK, NEW p \in Paths, NEW op \in Ops, Enqueue(p, op), NEW q \in Paths,
         disk'[q] = disk[q], index'[q] = index[q]
  PROVE  (Queued(q) => Queued(q)') /\ (AtRest(q) => AtRest(q)')
<1>1. CASE q # p
  BY <1>1, Enqueued, QueueFrame
<1>2. CASE q = p
  <2>1. \A o \in Ops : /\ rows[p][o].state = "taken" <=> rows'[p][o].state = "taken"
                       /\ rows[p][o].state = "pending" => rows'[p][o].state = "pending"
                       /\ rows'[p][o].text = rows[p][o].text
    BY Enqueued
  <2> QED
    BY <1>2, <2>1 DEF Queued, AtRest, Taken, Settles
<1> QED
  BY <1>1, <1>2

SameTaken(q, o) == /\ rows'[q][o].state = "taken" <=> rows[q][o].state = "taken"
                   /\ rows'[q][o].text = rows[q][o].text

LEMMA EnqueueTaken ==
  ASSUME TypeOK, NEW p \in Paths, NEW op \in Ops, Enqueue(p, op)
  PROVE  \A q \in Paths, o \in Ops : SameTaken(q, o)
<1> USE DEF SameTaken
<1> SUFFICES ASSUME NEW q \in Paths, NEW o \in Ops PROVE SameTaken(q, o)
  OBVIOUS
<1>1. CASE q # p
  BY <1>1, Enqueued
<1>2. CASE q = p /\ o # op
  BY <1>2, Enqueued
<1>3. CASE q = p /\ o = op
  BY <1>3, Enqueued
<1> QED
  BY <1>1, <1>2, <1>3

LEMMA StepOrderly == TypeOK /\ Orderly /\ [Next]_vars => Orderly'
<1> SUFFICES ASSUME TypeOK, Orderly, [Next]_vars PROVE Orderly'
  OBVIOUS
<1> DEFINE Hand == task.phase = "select" =>
                     task.trying = NoTrying /\ \A p \in Paths : task.batch[p] = None
           Single == \A p \in Paths : \A o, q \in Ops :
                       rows[p][o].state = "taken" /\ rows[p][q].state = "taken" => o = q
<1>1. Hand'
  <2>1. CASE UNCHANGED task
    BY <2>1 DEF Orderly
  <2>2. ASSUME NEW out \in SUBSET Paths, Tick(out) \/ Release(out) PROVE Hand'
    BY <2>2 DEF Tick, Release, TypeOK, Task
  <2>3. CASE TickDone \/ CrashRestart
    BY <2>3 DEF TickDone, CrashRestart, AtSelect
  <2>4. ASSUME NEW p \in Paths, DropFileless(p) \/ DropRefused(p) \/ Admit(p) \/ Defer(p)
                               \/ Choose(p)
        PROVE  Hand'
    BY <2>4 DEF DropFileless, DropRefused, Admit, Defer, Choose, Looked, InBatch, Away, Orderly,
                TypeOK, Task
  <2>5. CASE Insert \/ Resolve \/ AttemptFails
    BY <2>5 DEF Insert, Resolve, AttemptFails, Orderly, TypeOK, Task
  <2> QED
    BY <2>1, <2>2, <2>3, <2>4, <2>5
       DEF Next, Recovery, Scan, WatcherTask, Processor, Still, vars, Edit, Watch, AskScan,
           List, PassOver, Judge, JudgeOutdated, JudgeFails, Meet, MeetFails, ScanDone,
           Receive, Take, Handle, GiveUp, Reconcile, BackoffEnds, WindowMoves
<1>2. Single'
  <2>0. Single
    BY DEF Orderly
  <2>1. CASE UNCHANGED rows
    BY <2>0, <2>1
  <2>2. ASSUME NEW p \in Paths, NEW op \in Ops, Enqueue(p, op) PROVE Single'
    BY <2>0, <2>2, EnqueueTaken DEF SameTaken
  <2>3. ASSUME NEW p \in Paths, Judge(p) \/ JudgeOutdated(p) \/ Meet(p) PROVE Single'
    BY <2>1, <2>2, <2>3 DEF Judge, JudgeOutdated, Meet, Ops
  <2>4. CASE Insert
    <3>1. task.trying \in Trying
      BY <2>4 DEF Insert, TypeOK, Task
    <3> QED
      BY <2>2, <2>4, <3>1 DEF Insert, Trying
  <2>5. ASSUME NEW p \in Paths, NEW op \in Ops, Take(p, op) PROVE Single'
    <3>1. \A q \in Paths, o \in Ops :
            rows'[q][o] = IF q = p /\ o = op THEN rows'[p][op] ELSE rows[q][o]
      BY <2>5 DEF Take, TypeOK
    <3>2. \A o \in Ops : rows[p][o].state # "taken"
      BY <2>5 DEF Take, Taken
    <3>3. \A q \in Paths, o \in Ops : rows'[q][o].state = "taken" =>
            (q = p /\ o = op) \/ (q # p /\ rows[q][o].state = "taken")
      BY <3>1, <3>2
    <3> QED
      BY <2>0, <3>3
  <2>6. ASSUME NEW p \in Paths, NEW op \in Ops, Handle(p, op) \/ GiveUp(p, op) PROVE Single'
    <3>1. \A q \in Paths, o \in Ops :
            rows'[q][o] = IF q = p /\ o = op THEN NoRow ELSE rows[q][o]
      BY <2>6 DEF Handle, GiveUp, TypeOK
    <3>2. \A q \in Paths, o \in Ops :
            rows'[q][o].state = "taken" => rows[q][o].state = "taken"
      BY <3>1 DEF NoRow
    <3> QED
      BY <2>0, <3>2
  <2>7. ASSUME NEW p \in Paths, Reconcile(p) PROVE Single'
    BY <2>2, <2>7 DEF Reconcile, Ops
  <2>8. CASE CrashRestart
    <3>1. \A q \in Paths, o \in Ops : rows'[q][o].state # "taken"
      BY <2>8 DEF CrashRestart, NoRow
    <3> QED
      BY <3>1
  <2> QED
    BY <2>1, <2>3, <2>4, <2>5, <2>6, <2>7, <2>8
       DEF Next, Recovery, Scan, WatcherTask, Processor, Still, vars, Edit, Watch, AskScan,
           List, PassOver, JudgeFails, MeetFails, ScanDone, Receive, Tick, Release, TickDone,
           DropFileless, DropRefused, Admit, Defer, Choose, Resolve, AttemptFails,
           BackoffEnds, WindowMoves
<1> QED
  BY <1>1, <1>2 DEF Orderly

\* A step that leaves the files, the index and the handlers of a path alone, and loses
\* nothing of what is awaited
LEMMA FollowFrame ==
  ASSUME TypeOK, Orderly, NEW p \in Paths, Followed(p),
         disk'[p] = disk[p], index'[p] = index[p], p \in stamped' => p \in stamped,
         \A o \in Ops : SameTaken(p, o),
         Held(p)' => lost'[p] = lost[p],
         Held(p)' /\ Awaited(p) => Awaited(p)' \/ Covered(p)',
         Sought(p)'
  PROVE  Followed(p)'
<1> USE DEF SameTaken
<1>1. AtRest(p) => AtRest(p)'
  BY DEF AtRest, Taken
<1>2. Covered(p)' => AtRest(p)'
  BY DEF Covered, AtRest
<1>3. Held(p)' => Held(p)
  BY DEF Held
<1>4. Known(p)'
  BY <1>1, <1>2, <1>3 DEF Followed, Known, Held
<1>5. Current(p)' /\ Vouched(p)'
  BY <1>3 DEF Followed, Current, Vouched
<1>6. Back(p)'
  <2> SUFFICES ASSUME lost'[p] = Restart, rows'[p]["delete"].state = "taken",
                      rows'[p]["delete"].text = Gone, disk[p] # Gone
               PROVE  Awaited(p)'
    BY DEF Back
  <2>1. "delete" \in Ops /\ Held(p)' /\ lost[p] = Restart
    BY DEF Ops, Held
  <2>2. rows[p]["delete"].state = "taken" /\ rows[p]["delete"].text = Gone
    BY <2>1
  <2>3. Awaited(p)
    BY <2>1, <2>2 DEF Followed, Back
  <2>4. ~Covered(p)'
    <3>1. \A o \in Ops : rows'[p][o].state = "taken" => o = "delete"
      BY <2>1, <2>2 DEF Orderly
    <3> QED
      BY <3>1 DEF Covered
  <2> QED
    BY <2>1, <2>3, <2>4
<1> QED
  BY <1>4, <1>5, <1>6 DEF Followed

LEMMA SameRows ==
  ASSUME NEW p \in Paths, rows'[p] = rows[p]
  PROVE  \A o \in Ops : SameTaken(p, o)
  BY DEF SameTaken

LEMMA SoughtFrame ==
  ASSUME NEW p \in Paths, Sought(p), UNCHANGED <<start, scanning>>, index'[p] = index[p],
         Held(p)' => lost'[p] = lost[p], p \in todo => p \in todo', p \in unmet => p \in unmet',
         p \in outdated' => p \in outdated
  PROVE  Sought(p)'
  BY DEF Sought, Held

\* What a step of the watcher's task has to keep
LEMMA TaskFrame ==
  ASSUME TypeOK, Orderly, NEW p \in Paths, Followed(p), UNCHANGED <<files, starting, rows>>,
         Held(p)' => lost'[p] = lost[p],
         Held(p)' /\ Announced(p) => Announced(p)' \/ Attempted(p)',
         Held(p)' /\ Attempted(p) => Attempted(p)'
  PROVE  Followed(p)'
<1>1. Sought(p)'
  BY SoughtFrame DEF Followed
<1>2. Held(p)' /\ Awaited(p) => Awaited(p)'
  BY QueueFrame DEF Awaited
<1> QED
  BY <1>1, <1>2, SameRows, FollowFrame

\* ... and one that leaves all of a path alone
LEMMA StillFrame ==
  ASSUME TypeOK, Orderly, NEW p \in Paths, Followed(p), UNCHANGED <<events, task>>,
         disk'[p] = disk[p], index'[p] = index[p], p \in stamped' => p \in stamped,
         rows'[p] = rows[p], debounced'[p] = debounced[p], deferred'[p] = deferred[p],
         Held(p)' => lost'[p] = lost[p], Sought(p)'
  PROVE  Followed(p)'
<1>1. Awaited(p) => Awaited(p)'
  BY AnnouncedFrame, AttemptFrame, QueueFrame DEF Awaited
<1> QED
  BY <1>1, SameRows, FollowFrame

LEMMA EditFollow ==
  ASSUME TypeOK, Orderly, NEW p \in Paths, NEW c \in Texts, NEW k \in Kinds, Edit(p, c, k),
         NEW q \in Paths, Followed(q)
  PROVE  Followed(q)'
<1> DEFINE e == [path |-> p, kind |-> k]
<1>1. \/ events' = events
      \/ /\ events' = Append(events, e)
         /\ Len(events') = Len(events) + 1 /\ events'[Len(events) + 1] = e
         /\ \A n \in 1 .. Len(events) : events'[n] = events[n]
  <2>1. e \in [path : Paths, kind : Kinds]
    OBVIOUS
  <2>2. events' = events \/ events' = Append(events, e)
    BY DEF Edit
  <2> HIDE DEF e
  <2>3. /\ Len(Append(events, e)) = Len(events) + 1 /\ Append(events, e)[Len(events) + 1] = e
        /\ \A n \in 1 .. Len(events) : Append(events, e)[n] = events[n]
    BY <2>1, AppendProperties DEF TypeOK
  <2> QED
    BY <2>2, <2>3
<1>2. Len(events) \in Nat
  BY DEF TypeOK
<1>3. CASE q # p
  <2>1. disk'[q] = disk[q] /\ index'[q] = index[q] /\ rows'[q] = rows[q]
        /\ UNCHANGED <<start, todo, outdated, scanning, unmet>>
        /\ UNCHANGED <<task, debounced, deferred>>
        /\ (q \in stamped' => q \in stamped)
    BY <1>3 DEF Edit, TypeOK
  <2>2. lost'[q] = lost[q]
    BY <1>3, Blamed DEF Edit, Causes
  <2>3. Announced(q) => Announced(q)'
    <3>1. CASE events' = events
      BY <2>1, <3>1, AnnouncedFrame
    <3>2. CASE events' = Append(events, e)
      <4>1. \A n \in 1 .. Len(events') : n \in 1 .. Len(events) \/ n = Len(events) + 1
        BY <1>1, <1>2, <3>2
      <4>2. \A n \in 1 .. Len(events) : n \in 1 .. Len(events') /\ events'[n] = events[n]
        BY <1>1, <1>2, <3>2
      <4>3. events'[Len(events) + 1].path # q
        BY <1>1, <1>3, <3>2
      <4>4. InChannel(q)' <=> InChannel(q)
        BY <4>1, <4>2, <4>3 DEF InChannel
      <4>5. \A n \in 1 .. Len(events) : Last(q, n)' <=> Last(q, n)
        BY <4>1, <4>2, <4>3 DEF Last
      <4>7. \A j : Effective(q, j)' <=> Effective(q, j)
        BY <2>1 DEF Effective
      <4>8. ASSUME NEW n \in 1 .. Len(events), Last(q, n), Effective(q, events[n].kind)
            PROVE  Announced(q)'
        <5>1. Effective(q, events[n].kind)'
          BY <4>2, <4>7, <4>8
        <5> QED
          BY <4>2, <4>5, <4>8, <5>1 DEF Announced
      <4>9. Announced(q) => Announced(q)'
        BY <2>1, <4>4, <4>7, <4>8 DEF Announced
      <4> QED
        BY <4>9
    <3> QED
      BY <1>1, <3>1, <3>2
  <2>4. Attempted(q)' <=> Attempted(q)
    BY <2>1, AttemptFrame
  <2>5. Awaited(q) => Awaited(q)'
    BY <2>1, <2>3, <2>4, QueueFrame DEF Awaited
  <2>6. Sought(q)'
    BY <2>1, <2>2, SoughtFrame DEF Followed
  <2> QED
    BY <2>1, <2>2, <2>5, <2>6, SameRows, FollowFrame
<1>4. CASE q = p
  <2>0. /\ disk'[p] = c /\ p \notin stamped' /\ UNCHANGED <<index, recovery, scanning, unmet, rows>>
    BY DEF Edit, TypeOK
  <2>1. CASE ~Held(p)'
    BY <1>4, <2>1 DEF Followed, Known, Current, Vouched, Sought, Back, Held
  <2>a. ASSUME Held(p)' PROVE ~Raced(p, c) /\ lost'[p] = lost[p]
    BY <2>a, Blamed DEF Edit, Causes, Held
  <2>b. ASSUME Held(p)' PROVE Current(p)' /\ Vouched(p)' /\ Sought(p)'
    <3>1. Sought(p)'
      BY <1>4, <2>0, <2>a, <2>b, SoughtFrame DEF Followed
    <3>2. Current(p)'
      BY <2>0, <2>a, <2>b DEF Current, Raced
    <3> QED
      BY <2>0, <3>1, <3>2 DEF Vouched
  <2>c. CASE Held(p)' /\ p \notin watched
    <3>1. lost[p] = Restart /\ ~Taken(p) /\ lost'[p] = Restart
      BY <2>a, <2>c, Blamed DEF Edit, Causes, Held
    <3>2. Known(p)' /\ Back(p)'
      <4>1. "delete" \in Ops
        BY DEF Ops
      <4> QED
        BY <2>0, <3>1, <4>1 DEF Known, Back, Taken, None, Restart
    <3> QED
      BY <1>4, <2>b, <2>c, <3>2 DEF Followed
  <2>2. CASE Held(p)' /\ p \in watched
    <3>1. events' = Append(events, e) /\ disk'[p] = c
      BY <2>2 DEF Edit, TypeOK
    <3>2. Effective(p, k)'
      BY <3>1 DEF Edit, Effective
    <3>3. Len(events') = Len(events) + 1 /\ events'[Len(events')] = e
      BY <1>1, <3>1, <1>2
    <3>4. Len(events') \in 1 .. Len(events') /\ \A m \in 1 .. Len(events') : ~(m > Len(events'))
      BY <1>2, <3>3
    <3>5. events'[Len(events')].path = p /\ events'[Len(events')].kind = k
      BY <3>3
    <3>6. PICK n \in 1 .. Len(events') : n = Len(events')
      BY <3>4
    <3>7. Announced(p)'
      <4>1. Last(p, n)'
        BY <3>4, <3>5, <3>6 DEF Last
      <4>2. Effective(p, events[n].kind)'
        BY <3>2, <3>5, <3>6 DEF Effective
      <4> QED
        BY <4>1, <4>2 DEF Announced
    <3> QED
      BY <1>4, <2>2, <2>b, <3>7 DEF Followed, Known, Back, Awaited
  <2> QED
    BY <2>1, <2>2, <2>c
<1> QED
  BY <1>3, <1>4

\* An operation that settles the path is queued, or its row is in hand and has read
\* what is there now
LEMMA Requeued ==
  ASSUME TypeOK, NEW p \in Paths, Current(p), Held(p), NEW op \in Ops, Enqueue(p, op),
         Settles(p, op), disk'[p] = disk[p]
  PROVE  Queued(p)' \/ Covered(p)'
<1>1. rows[p][op].state \in {"none", "pending", "taken"}
  BY DEF TypeOK, Row
<1>2. CASE rows[p][op].state = "taken"
  <2>1. rows'[p][op].state = "taken" /\ rows'[p][op].text = rows[p][op].text
    BY <1>2, Enqueued
  <2>2. rows[p][op].text = disk[p] /\ (op = "delete" => disk[p] = Gone)
    BY <1>2 DEF Current, Settles
  <2> QED
    BY <2>1, <2>2 DEF Covered
<1>3. CASE rows[p][op].state # "taken"
  <2>1. rows'[p][op].state = "pending"
    BY <1>1, <1>3, Enqueued
  <2> QED
    BY <2>1 DEF Queued, Settles
<1> QED
  BY <1>2, <1>3

\* What agrees with the disk and has not been forgotten stays so
LEMMA Agreed ==
  ASSUME NEW p \in Paths, Current(p), Back(p), lost[p] = Restart, index[p] = disk[p]
  PROVE  Awaited(p) \/ AtRest(p)
<1>1. CASE ~Taken(p)
  BY <1>1 DEF AtRest
<1>2. ASSUME NEW o \in Ops, rows[p][o].state = "taken" PROVE Awaited(p) \/ AtRest(p)
  <2>1. IF o = "delete" THEN rows[p][o].text = Gone \/ disk[p] # Gone
        ELSE rows[p][o].text = disk[p]
    BY <1>2 DEF Current, Held
  <2>2. CASE o = "delete" /\ rows[p][o].text # Gone
    BY <1>2, <2>2 DEF AtRest
  <2>3. CASE o = "delete" /\ rows[p][o].text = Gone
    BY <1>2, <2>3 DEF AtRest, Back
  <2>4. CASE o # "delete"
    BY <1>2, <2>1, <2>4 DEF AtRest
  <2> QED
    BY <2>2, <2>3, <2>4
<1> QED
  BY <1>1, <1>2 DEF Taken

\* A look at the path, and what it makes of a restart
LEMMA LookFollow ==
  ASSUME TypeOK, Orderly, NEW p \in Paths, Followed(p),
         UNCHANGED <<disk, index, events, debounced, deferred, task>>,
         \/ UNCHANGED rows
         \/ \E o \in Ops : Enqueue(p, o),
         p \in stamped' => p \in stamped \/ disk[p] = index[p],
         lost[p] = None => lost'[p] \in {None} \cup Causes,
         lost[p] = Restart /\ lost'[p] = None =>
           \/ index[p] = disk[p]
           \/ \E o \in Ops : Enqueue(p, o) /\ Settles(p, o),
         ~Held(p) => ~Held(p)',
         Sought(p)'
  PROVE  Followed(p)'
<1>1. \A o \in Ops : SameTaken(p, o)
  BY EnqueueTaken, SameRows
<1>2. (Queued(p) => Queued(p)') /\ (AtRest(p) => AtRest(p)')
  <2>1. CASE UNCHANGED rows
    BY <2>1, QueueFrame
  <2>2. CASE \E o \in Ops : Enqueue(p, o)
    BY <2>2, EnqueueFollow
  <2> QED
    BY <2>1, <2>2
<1>3. Awaited(p) => Awaited(p)'
  BY <1>2, AnnouncedFrame, AttemptFrame DEF Awaited
<1>4. Known(p)'
  <2>1. CASE lost[p] = None
    BY <1>2, <1>3, <2>1 DEF Followed, Known
  <2>2. CASE lost[p] = Restart /\ lost'[p] = None
    <3>1. CASE index[p] = disk[p]
      BY <1>2, <1>3, <2>2, <3>1, Agreed DEF Followed, Known
    <3>2. CASE \E o \in Ops : Enqueue(p, o) /\ Settles(p, o)
      <4>1. Queued(p)' \/ Covered(p)'
        BY <2>2, <3>2, Requeued DEF Followed, Held
      <4>2. Covered(p)' => AtRest(p)'
        BY DEF Covered, AtRest
      <4> QED
        BY <4>1, <4>2 DEF Known, Awaited
    <3> QED
      BY <2>2, <3>1, <3>2
  <2> QED
    BY <2>1, <2>2 DEF Known, Held
<1>5. Held(p)' => Held(p)
  OBVIOUS
<1>6. Current(p)'
  BY <1>1, <1>5 DEF Followed, Current, SameTaken
<1>7. Vouched(p)'
  BY <1>5 DEF Followed, Vouched
<1>8. Back(p)'
  <2>1. "delete" \in Ops
    BY DEF Ops
  <2>2. lost'[p] = Restart => lost[p] = Restart
    BY <1>5 DEF Held, Causes, None, Restart
  <2> QED
    BY <1>1, <1>3, <2>1, <2>2 DEF Followed, Back, SameTaken
<1> QED
  BY <1>4, <1>6, <1>7, <1>8 DEF Followed

LEMMA JudgeFollow ==
  ASSUME TypeOK, Orderly, NEW p \in Paths, Judge(p) \/ JudgeOutdated(p) \/ JudgeFails(p),
         NEW q \in Paths, Followed(q)
  PROVE  Followed(q)'
<1>1. /\ UNCHANGED <<disk, index, events, debounced, deferred, task, start, scanning, unmet>>
      /\ todo' = todo \ {p} /\ outdated' = outdated \ {p}
      /\ \/ UNCHANGED rows
         \/ \E o \in Ops : Enqueue(p, o)
  BY DEF Judge, JudgeOutdated, JudgeFails, Judged, Ops
<1>2. CASE q # p
  <2>1. rows'[q] = rows[q]
    BY <1>1, <1>2, Enqueued
  <2>2. lost'[q] = lost[q] /\ (q \in stamped' => q \in stamped)
    BY <1>2 DEF Judge, JudgeOutdated, JudgeFails, TypeOK
  <2>3. Sought(q)'
    BY <1>1, <1>2, <2>2, SoughtFrame DEF Followed
  <2> QED
    BY <1>1, <2>1, <2>2, <2>3, StillFrame
<1>3. CASE q = p
  <2>1. lost'[p] # Restart
    <3>1. CASE JudgeOutdated(p)
      BY <1>3, <3>1 DEF JudgeOutdated, Followed, Sought
    <3> QED
      BY <3>1 DEF Judge, JudgeFails, TypeOK, None, Restart
  <2>2. Sought(p)'
    BY <2>1 DEF Sought
  <2>3. lost[p] = None => lost'[p] \in {None} \cup Causes
    BY DEF Judge, JudgeOutdated, JudgeFails, TypeOK, None, Restart
  <2>4. ~Held(p) => ~Held(p)'
    BY DEF Judge, JudgeOutdated, JudgeFails, TypeOK, Held
  <2>5. p \in stamped' => p \in stamped \/ disk[p] = index[p]
    BY DEF Judge, JudgeOutdated, JudgeFails
  <2>6. ASSUME lost[p] = Restart, lost'[p] = None
        PROVE  \/ index[p] = disk[p]
               \/ \E o \in Ops : Enqueue(p, o) /\ Settles(p, o)
    <3>1. Judge(p)
      BY <2>6 DEF JudgeOutdated, JudgeFails, TypeOK, None, Restart
    <3>2. Held(p) /\ Vouched(p)
      BY <1>3, <2>6 DEF Held, Followed
    <3> QED
      BY <3>1, <3>2 DEF Judge, Settles, Ops, Vouched
  <2> QED
    BY <1>1, <1>3, <2>2, <2>3, <2>4, <2>5, <2>6, LookFollow
<1> QED
  BY <1>2, <1>3

LEMMA MeetFollow ==
  ASSUME TypeOK, Orderly, NEW p \in Paths, Meet(p) \/ MeetFails(p),
         NEW q \in Paths, Followed(q)
  PROVE  Followed(q)'
<1>1. /\ UNCHANGED <<files, events, debounced, deferred, task, recovery, scanning>>
      /\ unmet' = unmet \ {p}
      /\ \/ UNCHANGED rows
         \/ \E o \in Ops : Enqueue(p, o)
  BY DEF Meet, MeetFails, Ops
<1>2. CASE q # p
  <2>1. rows'[q] = rows[q]
    BY <1>1, <1>2, Enqueued
  <2>2. lost'[q] = lost[q]
    BY <1>2 DEF Meet, MeetFails, TypeOK
  <2>3. Sought(q)'
    BY <1>1, <1>2, <2>2, SoughtFrame DEF Followed
  <2> QED
    BY <1>1, <2>1, <2>2, <2>3, StillFrame
<1>3. CASE q = p
  <2>1. lost'[p] = Restart => lost[p] = Restart /\ index[p] # Gone
    BY DEF Meet, MeetFails, OnlyScanned, TypeOK, None, Restart
  <2>2. Sought(p)'
    BY <1>1, <1>3, <2>1 DEF Sought, Followed
  <2>3. lost[p] = None => lost'[p] \in {None} \cup Causes
    BY DEF Meet, MeetFails, OnlyScanned, TypeOK, None, Restart
  <2>4. ~Held(p) => ~Held(p)'
    BY DEF Meet, MeetFails, OnlyScanned, TypeOK, Held
  <2>6. ASSUME lost[p] = Restart, lost'[p] = None
        PROVE  \/ index[p] = disk[p]
               \/ \E o \in Ops : Enqueue(p, o) /\ Settles(p, o)
    BY <2>6 DEF Meet, MeetFails, OnlyScanned, TypeOK, None, Restart, Settles, Ops
  <2> QED
    BY <1>1, <1>3, <2>2, <2>3, <2>4, <2>6, LookFollow
<1> QED
  BY <1>2, <1>3

LEMMA ScanFollow ==
  ASSUME TypeOK, Orderly, AskScan \/ List \/ PassOver \/ ScanDone, NEW q \in Paths, Followed(q)
  PROVE  Followed(q)'
<1>1. UNCHANGED <<files, events, debounced, deferred, task, rows>>
  BY DEF AskScan, List, PassOver, ScanDone
<1>2. (Held(q)' => lost'[q] = lost[q])
  BY DEF AskScan, List, PassOver, ScanDone, TypeOK, Held, None, Restart
<1>3. Sought(q)'
  <2>0. Sought(q)
    BY DEF Followed
  <2>1. CASE AskScan
    BY <2>0, <2>1 DEF AskScan, Sought
  <2>2. CASE List
    BY <2>0, <2>2 DEF List, Sought
  <2>3. CASE PassOver
    BY <2>0, <2>3 DEF PassOver, Sought, TypeOK, Restart
  <2>4. CASE ScanDone
    BY <2>0, <2>4 DEF ScanDone, Sought
  <2> QED
    BY <2>1, <2>2, <2>3, <2>4
<1> QED
  BY <1>1, <1>2, <1>3, StillFrame

LEMMA ReceiveFollow ==
  ASSUME TypeOK, Orderly, Receive, NEW q \in Paths, Followed(q)
  PROVE  Followed(q)'
<1> DEFINE p == Head(events).path
           L == Len(events)
<1>1. /\ UNCHANGED <<disk, index, rows, task, deferred, lost>> /\ UNCHANGED <<files, starting>>
      /\ events # <<>> /\ events' = Tail(events) /\ p \in Paths
      /\ events[1].path = p /\ events[1].kind = Head(events).kind
      /\ events[1].kind \in Kinds
  <2>1. events \in Seq([path : Paths, kind : Kinds]) /\ events # <<>>
    BY DEF Receive, TypeOK
  <2>2. events[1] \in [path : Paths, kind : Kinds] /\ Head(events) = events[1]
    <3>1. Head(events) \in [path : Paths, kind : Kinds]
      BY <2>1, HeadTailProperties
    <3>2. Head(events) = events[1]
      BY <2>1
    <3> QED
      BY <3>1, <3>2
  <2> QED
    BY <2>1, <2>2 DEF Receive
<1>2. /\ L \in Nat \ {0} /\ Len(events') = L - 1
      /\ \A n \in 1 .. L - 1 : events'[n] = events[n + 1]
  BY <1>1, HeadTailProperties DEF TypeOK
<1>3. debounced'[p] = events[1].kind /\ \A r \in Paths : r # p => debounced'[r] = debounced[r]
  BY <1>1 DEF Receive, TypeOK
<1> HIDE DEF p
<1>4. \A k : Effective(q, k)' <=> Effective(q, k)
  BY <1>1 DEF Effective
<1>5. ASSUME NEW n \in 1 .. L, Last(q, n), Effective(q, events[n].kind) PROVE Announced(q)'
  <2>1. CASE n > 1
    <3>1. PICK m \in 1 .. L - 1 : n = m + 1
      <4>1. n - 1 \in 1 .. L - 1 /\ n = (n - 1) + 1
        BY <1>2, <2>1
      <4> QED
        BY <4>1
    <3>2. \A j \in 1 .. L - 1 : j > m => events'[j].path # q
      <4> SUFFICES ASSUME NEW j \in 1 .. L - 1, j > m PROVE events'[j].path # q
        OBVIOUS
      <4>1. j + 1 \in 1 .. L /\ j + 1 > n
        BY <1>2, <3>1
      <4> QED
        BY <1>2, <1>5, <4>1 DEF Last
    <3>3. events'[m] = events[n] /\ m \in 1 .. Len(events')
      BY <1>2, <3>1
    <3>4. Last(q, m)'
      BY <1>2, <1>5, <3>2, <3>3 DEF Last
    <3>5. Effective(q, events[m].kind)'
      BY <1>4, <1>5, <3>3
    <3> QED
      BY <3>3, <3>4, <3>5 DEF Announced
  <2>2. CASE n = 1
    <3>1. q = p /\ \A j \in 1 .. L - 1 : events'[j].path # q
      <4>1. \A j \in 1 .. L - 1 : j + 1 \in 1 .. L /\ j + 1 > 1
        BY <1>2
      <4> QED
        BY <1>1, <1>2, <1>5, <2>2, <4>1 DEF Last
    <3>2. ~InChannel(q)'
      BY <1>2, <3>1 DEF InChannel
    <3>3. debounced'[q] # None /\ Effective(q, events[1].kind)
      BY <1>1, <1>3, <1>5, <2>2, <3>1 DEF Kinds, None
    <3> QED
      BY <1>3, <1>4, <3>1, <3>2, <3>3 DEF Announced
  <2> QED
    BY <1>2, <2>1, <2>2
<1>6. ASSUME ~InChannel(q) PROVE Announced(q) => Announced(q)'
  <2>1. q # p
    BY <1>1, <1>2, <1>6 DEF InChannel
  <2>2. ~InChannel(q)'
    <3>1. \A j \in 1 .. L - 1 : j + 1 \in 1 .. L
      BY <1>2
    <3> QED
      BY <1>2, <1>6, <3>1 DEF InChannel
  <2>3. debounced'[q] = debounced[q]
    BY <1>3, <2>1
  <2> QED
    BY <1>1, <1>4, <1>6, <2>2, <2>3 DEF Announced, InChannel, Last
<1>7. Announced(q) => Announced(q)'
  BY <1>5, <1>6 DEF Announced
<1> QED
  BY <1>1, <1>7, AttemptFrame, TaskFrame

\* From the debouncer, or the throttle, into the hand that was empty
LEMMA TickFollow ==
  ASSUME TypeOK, Orderly, NEW out \in SUBSET Paths, Tick(out) \/ Release(out),
         NEW q \in Paths, Followed(q)
  PROVE  Followed(q)'
<1>1. /\ UNCHANGED <<disk, index, rows, events, lost>> /\ UNCHANGED <<files, starting>>
      /\ task'.trying = task.trying
  BY DEF Tick, Release, TypeOK, Task
<1>2. task.batch[q] = None
  BY DEF Tick, Release, BatchDone, Orderly
<1>3. \A k : Effective(q, k)' <=> Effective(q, k)
  BY <1>1 DEF Effective
<1>4. CASE Tick(out)
  <2>1. /\ task'.batch[q] = IF q \in out THEN debounced[q] ELSE None
        /\ debounced'[q] = IF q \in out THEN None ELSE debounced[q]
        /\ deferred'[q] = deferred[q] /\ (q \in out => debounced[q] # None)
    BY <1>4 DEF Tick, TypeOK, Task
  <2>2. Announced(q)' <=> Announced(q)
    <3>1. CASE q \in out
      BY <1>1, <1>2, <1>3, <2>1, <3>1 DEF Announced, InChannel, Last
    <3>2. CASE q \notin out
      BY <1>1, <1>2, <2>1, <3>2, AnnouncedFrame
    <3> QED
      BY <3>1, <3>2
  <2> QED
    BY <1>1, <2>2, AttemptFrame, TaskFrame
<1>5. CASE Release(out)
  <2>1. /\ task'.batch[q] = IF q \in out THEN deferred[q] ELSE None
        /\ deferred'[q] = IF q \in out THEN None ELSE deferred[q]
        /\ debounced'[q] = debounced[q] /\ (q \in out => deferred[q] # None)
    BY <1>5 DEF Release, TypeOK, Task
  <2>2. Announced(q)' <=> Announced(q)
    <3>1. CASE q \in out
      BY <1>1, <1>2, <1>3, <2>1, <3>1 DEF Announced, InChannel, Last
    <3>2. CASE q \notin out
      BY <1>1, <1>2, <2>1, <3>2, AnnouncedFrame
    <3> QED
      BY <3>1, <3>2
  <2> QED
    BY <1>1, <2>2, AttemptFrame, TaskFrame
<1> QED
  BY <1>4, <1>5

LEMMA TickDoneFollow ==
  ASSUME TypeOK, Orderly, TickDone, NEW q \in Paths, Followed(q)
  PROVE  Followed(q)'
<1>1. /\ UNCHANGED <<disk, index, rows, events, lost, debounced, deferred>>
      /\ UNCHANGED <<files, starting>>
  BY DEF TickDone
<1>2. task'.batch[q] = task.batch[q] /\ task'.trying = task.trying
  BY DEF TickDone, BatchDone, AtSelect
<1> QED
  BY <1>1, <1>2, AnnouncedFrame, AttemptFrame, TaskFrame

\* What leaves the hand is blamed, or was of no effect; or it is in the throttle, or
\* tried
LEMMA HandFollow ==
  ASSUME TypeOK, Orderly, NEW p \in Paths,
         DropFileless(p) \/ DropRefused(p) \/ Defer(p) \/ Choose(p),
         NEW q \in Paths, Followed(q)
  PROVE  Followed(q)'
<1>1. /\ UNCHANGED <<disk, index, rows, events, debounced>> /\ UNCHANGED <<files, starting, rows>>
  BY DEF DropFileless, DropRefused, Defer, Choose
<1>2. /\ task'.batch[p] = None /\ \A r \in Paths : r # p => task'.batch[r] = task.batch[r]
      /\ task.trying = NoTrying /\ task.batch[p] # None
      /\ ~Choose(p) => task'.trying = NoTrying
  BY DEF DropFileless, DropRefused, Defer, Choose, Looked, InBatch, Away, TypeOK, Task
<1>3. Held(q)' => lost'[q] = lost[q]
  <2>1. CASE UNCHANGED lost
    BY <2>1
  <2>2. ASSUME NEW cause \in Causes, Blame(p, cause) PROVE Held(q)' => lost'[q] = lost[q]
    BY <2>2, Blamed DEF Held
  <2> QED
    BY <2>1, <2>2 DEF DropFileless, DropRefused, Defer, Choose, Causes
<1>4. ~Attempted(q)
  BY <1>2 DEF Attempted
<1>5. \A k : Effective(q, k)' <=> Effective(q, k)
  BY <1>1 DEF Effective
<1>6. CASE q # p
  <2>1. deferred'[q] = deferred[q]
    BY <1>6 DEF DropFileless, DropRefused, Defer, Choose, TypeOK
  <2> QED
    BY <1>1, <1>2, <1>3, <1>4, <1>6, <2>1, AnnouncedFrame, TaskFrame
<1>7. CASE q = p
  <2>1. ASSUME Announced(p), InChannel(p) \/ debounced[p] # None PROVE Announced(p)'
    BY <1>1, <1>5, <1>7, <2>1 DEF Announced, InChannel, Last
  <2>2. ASSUME Held(p)', ~InChannel(p), debounced[p] = None,
               Effective(p, task.batch[p])
        PROVE  Announced(p)' \/ Attempted(p)'
    <3>1. CASE DropFileless(p)
      <4>1. task.batch[p] # "away"
        BY <2>2, <3>1, Blamed DEF DropFileless, Causes, Held
      <4> QED
        BY <2>2, <3>1, <4>1 DEF DropFileless, HasFile, Effective
    <3>2. CASE DropRefused(p)
      BY <2>2, <3>2, Blamed DEF DropRefused, Causes, Held
    <3>3. CASE Defer(p)
      <4>1. deferred'[p] = task.batch[p]
        BY <2>2, <3>3, Blamed DEF Defer, TypeOK, Causes, Held
      <4> QED
        BY <1>1, <1>2, <1>5, <1>7, <2>2, <4>1 DEF Announced, InChannel
    <3>4. CASE Choose(p)
      <4>1. /\ task'.trying.path = p /\ task'.trying.inserted = FALSE
            /\ task'.trying.op = OpOf(p)
        BY <3>4 DEF Choose, TypeOK, Task
      <4>2. task'.trying # NoTrying
        BY <4>1 DEF NoTrying, None, OpOf
      <4>3. disk[p] = Gone \/ task'.trying.op # "delete"
        BY <2>2, <4>1 DEF Effective, OpOf
      <4> QED
        BY <1>1, <4>1, <4>2, <4>3 DEF Attempted, Settles
    <3> QED
      BY <3>1, <3>2, <3>3, <3>4
  <2>3. Held(p)' /\ Announced(p) => Announced(p)' \/ Attempted(p)'
    <3>1. ASSUME Announced(p), ~InChannel(p), debounced[p] = None
          PROVE  Effective(p, task.batch[p])
      BY <1>2, <3>1 DEF Announced, InChannel, Last
    <3> QED
      BY <2>1, <2>2, <3>1
  <2> QED
    BY <1>1, <1>3, <1>4, <1>7, <2>3, TaskFrame
<1> QED
  BY <1>6, <1>7

LEMMA AdmitFollow ==
  ASSUME TypeOK, Orderly, NEW p \in Paths, Admit(p), NEW q \in Paths, Followed(q)
  PROVE  Followed(q)'
<1>1. /\ UNCHANGED <<disk, events, debounced, deferred, lost>>
      /\ UNCHANGED <<files, starting, rows>>
      /\ task'.batch = task.batch /\ task'.trying = task.trying
  BY DEF Admit, TypeOK, Task
<1> QED
  BY <1>1, AnnouncedFrame, AttemptFrame, TaskFrame

LEMMA InsertFollow ==
  ASSUME TypeOK, Orderly, Insert, NEW q \in Paths, Followed(q)
  PROVE  Followed(q)'
<1> DEFINE t == task.trying
<1>1. /\ t.path \in Paths /\ t.op \in Ops /\ Enqueue(t.path, t.op)
      /\ UNCHANGED <<disk, index, events, debounced, deferred, lost>>
      /\ UNCHANGED <<files, starting>>
      /\ task'.batch = task.batch
  BY DEF Insert, TypeOK, Task, Trying
<1>2. Announced(q) => Announced(q)'
  BY <1>1, AnnouncedFrame
<1>3. Queued(q) => Queued(q)'
  <2> HIDE DEF t
  <2> QED
    BY <1>1, EnqueueFollow
<1>4. Held(q)' /\ Attempted(q) => Queued(q)' \/ Covered(q)'
  <2> SUFFICES ASSUME Held(q)', Attempted(q) PROVE Queued(q)' \/ Covered(q)'
    OBVIOUS
  <2>1. t.path = q /\ Settles(q, t.op) /\ Held(q) /\ Current(q)
    BY <1>1 DEF Attempted, Held, Followed
  <2> HIDE DEF t
  <2> QED
    BY <1>1, <2>1, Requeued
<1>5. \A o \in Ops : SameTaken(q, o)
  <2> HIDE DEF t
  <2> QED
    BY <1>1, EnqueueTaken
<1>6. Sought(q)'
  BY <1>1, SoughtFrame DEF Followed
<1> QED
  BY <1>1, <1>2, <1>3, <1>4, <1>5, <1>6, FollowFrame DEF Awaited

LEMMA AnswerFollow ==
  ASSUME TypeOK, Orderly, Resolve \/ AttemptFails, NEW q \in Paths, Followed(q)
  PROVE  Followed(q)'
<1> DEFINE t == task.trying
<1>1. /\ t \in Trying /\ UNCHANGED <<disk, index, rows, events, debounced, deferred>>
      /\ UNCHANGED <<files, starting, rows>>
      /\ task'.batch = task.batch
  BY DEF Resolve, AttemptFails, TypeOK, Task
<1>2. Held(q)' => lost'[q] = lost[q]
  <2>1. CASE UNCHANGED lost
    BY <2>1
  <2>2. CASE Blame(t.path, "failed")
    BY <1>1, <2>2, Blamed DEF Trying, Causes, Held
  <2> QED
    BY <2>1, <2>2 DEF Resolve, AttemptFails
<1>3. Held(q)' /\ Attempted(q) => Attempted(q)'
  <2> SUFFICES ASSUME Held(q)', Attempted(q) PROVE Attempted(q)'
    OBVIOUS
  <2>1. AttemptFails /\ t.path = q
    BY DEF Attempted, Resolve
  <2>2. t.attempt < Attempts
    BY <1>1, <2>1, Blamed DEF AttemptFails, Causes, Held
  <2>3. /\ task'.trying.path = q /\ task'.trying.op = t.op
        /\ task'.trying.inserted = FALSE
    <3> DEFINE u == [t EXCEPT !.attempt = t.attempt + 1, !.inserted = FALSE]
    <3>1. task' = [task EXCEPT !.trying = u]
      BY <1>1, <2>1, <2>2 DEF AttemptFails, TypeOK, Task, Trying
    <3>2. u.path = q /\ u.op = t.op /\ u.inserted = FALSE
      BY <1>1, <2>1 DEF Trying
    <3> HIDE DEF u
    <3> QED
      BY <3>1, <3>2 DEF TypeOK, Task
  <2>4. task'.trying # NoTrying
    <3>1. t.op # None
      BY <1>1 DEF Trying, Ops, None
    <3> QED
      BY <2>3, <3>1 DEF NoTrying
  <2> QED
    BY <1>1, <2>3, <2>4 DEF Attempted, Settles
<1> QED
  BY <1>1, <1>2, <1>3, AnnouncedFrame, TaskFrame

LEMMA TakeFollow ==
  ASSUME TypeOK, Orderly, NEW p \in Paths, NEW op \in Ops, Take(p, op), NEW q \in Paths,
         Followed(q)
  PROVE  Followed(q)'
<1>1. /\ UNCHANGED <<disk, index, stamped, events, debounced, deferred, task, lost>>
      /\ UNCHANGED <<start, scanning, unmet, todo, outdated>>
  BY DEF Take
<1> DEFINE text == IF op # "delete" /\ p \in stamped THEN index[p] ELSE disk[p]
<1>2. /\ rows'[p][op] = [state |-> "taken", text |-> text]
      /\ \A o \in Ops : o # op => rows'[p][o] = rows[p][o]
      /\ \A r \in Paths : r # p => rows'[r] = rows[r]
  BY DEF Take, TypeOK
<1>3. Sought(q)'
  BY <1>1, SoughtFrame DEF Followed
<1>4. CASE q # p
  BY <1>1, <1>2, <1>3, <1>4, StillFrame
<1>5. CASE q = p
  <2>0. Held(p)' <=> Held(p)
    BY <1>1 DEF Held
  <2>1. rows'[p][op].state = "taken" /\ rows'[p][op].text = text
    BY <1>2
  <2>2. \A o \in Ops : rows'[p][o].state = "taken" => o = op
    BY <1>2 DEF Take, Taken
  <2>3. Held(p) => text = disk[p]
    BY <1>5 DEF Followed, Vouched
  <2> HIDE DEF text
  <2>4. Current(p)'
    BY <1>1, <2>0, <2>1, <2>2, <2>3 DEF Current
  <2>5. Vouched(p)'
    BY <1>1, <1>5, <2>0 DEF Followed, Vouched
  <2>6. Back(p)'
    <3>1. "delete" \in Ops
      BY DEF Ops
    <3> QED
      BY <1>1, <2>0, <2>1, <2>2, <2>3, <3>1 DEF Back, Held
  <2>7. Known(p)'
    <3> SUFFICES ASSUME lost[p] = None PROVE Awaited(p)' \/ AtRest(p)'
      BY <1>1 DEF Known
    <3>1. text = disk[p]
      BY <2>3 DEF Held
    <3>2. AtRest(p) => AtRest(p)'
      BY <1>1, <2>1, <3>1 DEF Take, AtRest, Taken
    <3>3. Queued(p) => Queued(p)' \/ AtRest(p)'
      <4> SUFFICES ASSUME NEW o \in Ops, rows[p][o].state = "pending", Settles(p, o)
                   PROVE  Queued(p)' \/ AtRest(p)'
        BY DEF Queued
      <4>1. CASE o # op
        BY <1>1, <1>2, <4>1 DEF Queued, Settles
      <4>2. CASE o = op
        BY <1>1, <2>1, <3>1, <4>2 DEF AtRest, Settles
      <4> QED
        BY <4>1, <4>2
    <3> QED
      BY <1>1, <1>5, <3>2, <3>3, AnnouncedFrame, AttemptFrame DEF Followed, Known, Awaited
  <2> QED
    BY <1>3, <1>5, <2>4, <2>5, <2>6, <2>7 DEF Followed
<1> QED
  BY <1>4, <1>5

LEMMA HandleFollow ==
  ASSUME TypeOK, Orderly, NEW p \in Paths, NEW op \in Ops, Handle(p, op),
         NEW q \in Paths, Followed(q)
  PROVE  Followed(q)'
<1> DEFINE text == rows[p][op].text
           idle == text = index[p] \/ (op = "delete" /\ text # Gone)
<1>1. /\ UNCHANGED <<disk, events, debounced, deferred, task>>
      /\ UNCHANGED <<start, scanning, unmet, todo>>
  BY DEF Handle
<1>2. /\ rows'[p][op] = NoRow
      /\ \A o \in Ops : o # op => rows'[p][o] = rows[p][o]
      /\ \A r \in Paths : r # p => rows'[r] = rows[r]
  BY DEF Handle, TypeOK
<1>3. /\ \A r \in Paths : r # p => /\ index'[r] = index[r] /\ lost'[r] = lost[r]
                                   /\ r \in stamped' => r \in stamped
                                   /\ r \in outdated' => r \in outdated
      /\ index'[p] = IF idle THEN index[p] ELSE text
      /\ idle => UNCHANGED <<stamped, outdated, lost>>
      /\ ~idle => /\ p \in stamped' => text # Gone
                  /\ lost'[p] = IF lost[p] = Restart THEN None ELSE lost[p]
  BY DEF Handle, TypeOK
<1>4. CASE q # p
  <2>1. Sought(q)'
    BY <1>1, <1>3, <1>4, SoughtFrame DEF Followed
  <2> QED
    BY <1>1, <1>2, <1>3, <1>4, <2>1, StillFrame
<1>5. CASE q = p
  <2>1. rows[p][op].state = "taken" /\ \A o \in Ops : rows[p][o].state = "taken" => o = op
    BY DEF Handle, Orderly
  <2>2. \A o \in Ops : rows'[p][o].state # "taken"
    <3>1. rows'[p][op].state # "taken"
      BY <1>2 DEF NoRow
    <3> QED
      BY <1>2, <2>1, <3>1
  <2>3. Queued(p) => Queued(p)'
    <3> SUFFICES ASSUME NEW o \in Ops, rows[p][o].state = "pending", Settles(p, o)
                 PROVE  Queued(p)'
      BY DEF Queued
    <3>1. o # op
      BY <2>1
    <3> QED
      BY <1>1, <1>2, <3>1 DEF Queued, Settles
  <2>4. Awaited(p) => Awaited(p)'
    BY <1>1, <2>3, AnnouncedFrame, AttemptFrame DEF Awaited
  <2>5. Held(p)' => Held(p)
    BY <1>3 DEF Held
  <2>6. Current(p)' /\ Back(p)'
    BY <2>2 DEF Current, Back, Ops
  <2> HIDE DEF text
  <2>7. Held(p) => IF op = "delete" THEN text = Gone \/ disk[p] # Gone ELSE text = disk[p]
    BY <1>5, <2>1 DEF Followed, Current, text
  <2>8. CASE idle
    <3>1. UNCHANGED <<stamped, outdated, lost>> /\ index'[p] = index[p]
      BY <1>3, <2>8
    <3>2. Vouched(p)' /\ Sought(p)'
      BY <1>1, <1>5, <3>1, SoughtFrame DEF Followed, Vouched, Held
    <3>3. AtRest(p) => AtRest(p)'
      <4>1. AtRest(p) => IF op = "delete" /\ text # Gone THEN index[p] = disk[p]
                         ELSE text = disk[p]
        BY <2>1 DEF AtRest, Taken, text
      <4> QED
        BY <1>1, <2>2, <2>8, <3>1, <4>1 DEF AtRest, Taken
    <3>4. Known(p)'
      BY <1>5, <2>4, <3>1, <3>3 DEF Followed, Known
    <3> QED
      BY <1>5, <2>6, <3>2, <3>4 DEF Followed
  <2>9. CASE ~idle
    <3>1. /\ index'[p] = text /\ (p \in stamped' => text # Gone)
          /\ lost'[p] = IF lost[p] = Restart THEN None ELSE lost[p]
          /\ (op = "delete" => text = Gone)
      BY <1>3, <2>9
    <3>2. Sought(p)'
      BY <3>1 DEF Sought, None, Restart
    <3>3. Vouched(p)'
      BY <1>1, <2>5, <2>7, <3>1 DEF Vouched
    <3>4. Known(p)'
      <4> SUFFICES ASSUME lost'[p] = None PROVE Awaited(p)' \/ AtRest(p)'
        BY DEF Known
      <4>0. Held(p) /\ (text = disk[p] => AtRest(p)')
        BY <1>1, <2>2, <2>5, <3>1 DEF AtRest, Taken, Held
      <4>1. CASE op # "delete"
        BY <2>7, <4>0, <4>1
      <4>2. CASE op = "delete" /\ lost[p] = Restart
        <5>1. text = Gone /\ rows[p]["delete"].state = "taken"
              /\ rows[p]["delete"].text = Gone
          BY <2>1, <3>1, <4>2 DEF text
        <5> QED
          BY <1>5, <2>4, <4>0, <4>2, <5>1 DEF Followed, Back
      <4>3. CASE op = "delete" /\ lost[p] = None
        <5>1. text = Gone
          BY <3>1, <4>3
        <5>2. AtRest(p) => text = disk[p]
          BY <2>1, <5>1 DEF AtRest, Taken, text
        <5> QED
          BY <1>5, <2>4, <4>0, <4>3, <5>2 DEF Followed, Known
      <4> QED
        BY <4>0, <4>1, <4>2, <4>3 DEF Held
    <3> QED
      BY <1>5, <2>6, <3>2, <3>3, <3>4 DEF Followed
  <2> QED
    BY <2>8, <2>9
<1> QED
  BY <1>4, <1>5

LEMMA GiveUpFollow ==
  ASSUME TypeOK, Orderly, NEW p \in Paths, NEW op \in Ops, GiveUp(p, op), NEW q \in Paths,
         Followed(q)
  PROVE  Followed(q)'
<1>1. /\ UNCHANGED <<disk, index, stamped, events, debounced, deferred, task>>
      /\ UNCHANGED <<start, scanning, unmet, todo, outdated>>
      /\ q # p => rows'[q] = rows[q]
  BY DEF GiveUp, TypeOK
<1>2. lost'[p] \notin {None, Restart} /\ (q # p => lost'[q] = lost[q])
  BY Blamed DEF GiveUp, Causes
<1>3. CASE q # p
  <2>1. Sought(q)'
    BY <1>1, <1>2, <1>3, SoughtFrame DEF Followed
  <2> QED
    BY <1>1, <1>2, <1>3, <2>1, StillFrame
<1>4. CASE q = p
  BY <1>2, <1>4 DEF Followed, Known, Current, Vouched, Sought, Back, Held
<1> QED
  BY <1>3, <1>4

LEMMA CrashFollow ==
  ASSUME TypeOK, CrashRestart, NEW q \in Paths
  PROVE  Followed(q)'
<1>1. \A o \in Ops : rows'[q][o].state # "taken"
  BY DEF CrashRestart, NoRow
<1>2. /\ UNCHANGED <<disk, index, stamped, scanning>> /\ start' = "scan" /\ todo' = Paths
      /\ outdated' = {} /\ unmet' = IF scanning THEN Paths ELSE {}
      /\ lost'[q] = IF q \in stamped /\ index[q] # disk[q] THEN "raced" ELSE Restart
  BY DEF CrashRestart
<1>3. Current(q)' /\ Back(q)'
  BY <1>1 DEF Current, Back, Ops
<1>4. Known(q)' /\ Vouched(q)'
  BY <1>2 DEF Known, Vouched, Held, None, Restart
<1>5. Sought(q)'
  BY <1>2 DEF Sought
<1> QED
  BY <1>3, <1>4, <1>5 DEF Followed

LEMMA StepFollow == TypeOK /\ FollowInv /\ [Next]_vars => FollowInv'
<1> SUFFICES ASSUME TypeOK, FollowInv, [Next]_vars, NEW q \in Paths PROVE Followed(q)'
  BY StepOrderly DEF FollowInv
<1>1. Orderly /\ Followed(q)
  BY DEF FollowInv
<1>2. ASSUME UNCHANGED <<disk, index, stamped, rows, events, debounced, deferred, task, lost>>,
             UNCHANGED <<start, scanning, unmet, todo, outdated>>
      PROVE  Followed(q)'
  <2>1. Sought(q)'
    BY <1>1, <1>2, SoughtFrame DEF Followed
  <2> QED
    BY <1>1, <1>2, <2>1, StillFrame
<1>3. ASSUME NEW p \in Paths, Watch(p) PROVE Followed(q)'
  BY <1>2, <1>3 DEF Watch
<1>4. CASE BackoffEnds \/ WindowMoves
  BY <1>2, <1>4 DEF BackoffEnds, WindowMoves
<1>5. ASSUME NEW p \in Paths, Reconcile(p) PROVE Followed(q)'
  <2>1. /\ UNCHANGED <<disk, index, stamped, events, debounced, deferred, task, lost>>
        /\ UNCHANGED <<start, scanning, unmet, todo, outdated>>
        /\ "delete" \in Ops /\ Enqueue(p, "delete")
    BY <1>5 DEF Reconcile, Ops
  <2>2. Awaited(q) => Awaited(q)'
    BY <2>1, AnnouncedFrame, AttemptFrame, EnqueueFollow DEF Awaited
  <2>3. Sought(q)'
    BY <1>1, <2>1, SoughtFrame DEF Followed
  <2>4. \A o \in Ops : SameTaken(q, o)
    BY <2>1, EnqueueTaken
  <2> QED
    BY <1>1, <2>1, <2>2, <2>3, <2>4, FollowFrame
<1>6. CASE UNCHANGED vars
  BY <1>2, <1>6 DEF vars
<1> QED
  BY <1>1, <1>3, <1>4, <1>5, <1>6, EditFollow, JudgeFollow, MeetFollow, ScanFollow,
     ReceiveFollow, TickFollow, TickDoneFollow, HandFollow, AdmitFollow, InsertFollow,
     AnswerFollow, TakeFollow, HandleFollow, GiveUpFollow, CrashFollow
     DEF Next, Recovery, Scan, WatcherTask, Processor, Still

\* Once nothing of a path is under way any more, the index holds what the disk does,
\* unless a cause is on record: what was coalesced, deferred, released late, absorbed by
\* an open row, in memory at a crash, changed before the recovery looked or indexed while
\* it did is made up for.
THEOREM IndexFollowsThm == Spec => []IndexFollowsDisk
<1>1. TypeOK /\ FollowInv => IndexFollowsDisk
  <2> SUFFICES ASSUME TypeOK, FollowInv, NEW p \in Paths, Quiet(p), Held(p)
               PROVE  index[p] = disk[p]
    BY DEF IndexFollowsDisk, Held
  <2>1. ~Announced(p)
    BY DEF Quiet, InWatcher, Announced, InChannel, Last
  <2>2. ~Attempted(p)
    BY DEF Quiet, InWatcher, Attempted
  <2>3. \A o \in Ops : rows[p][o].state = "none"
    BY DEF Quiet
  <2>4. lost[p] = None
    BY DEF FollowInv, Followed, Sought, Quiet, Held
  <2>5. Awaited(p) \/ AtRest(p)
    BY <2>4 DEF FollowInv, Followed, Known
  <2> QED
    BY <2>1, <2>2, <2>3, <2>5 DEF Awaited, Queued, AtRest
<1> QED
  BY <1>1, InitType, StepType, InitFollow, StepFollow, PTL DEF Spec
=============================================================================
