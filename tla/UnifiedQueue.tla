---------------------------- MODULE UnifiedQueue ----------------------------
(***************************************************************************)
(* The write path of the daemon around the `unified_queue` table.           *)
(*                                                                         *)
(* A row asks for one piece of work, named by its idempotency key.  The     *)
(* poll loop leases rows into slots; a bounded number of leased items run   *)
(* at once; an item for a file writes the Qdrant sink itself and hands the  *)
(* search sink to the FTS5 batch writer over a bounded channel.  So a row   *)
(* has two finalizers, the item's worker and the batch writer, and besides  *)
(* them the reaper of expired leases, the idle passes over failed rows, the *)
(* user's commands and the start-up code.                                   *)
(*                                                                         *)
(* One action is one SQL statement or transaction together with the         *)
(* in-memory step that follows it: the points at which another actor can    *)
(* come in between are the points at which the code awaits.                 *)
(***************************************************************************)
EXTENDS QueueRows, FiniteSets, Sequences

CONSTANTS
  Keys,              \* idempotency keys
  PlainKeys,         \* those whose handler writes no sink: all items but the
                     \* adds and updates of files that pass the guards
  Unindexed,         \* files FTS5 does not take: binary, oversized or unreadable
  NoKey,
  Slots,             \* leased items the daemon can hold in memory
  MaxConcurrent,     \* config.max_concurrent_items
  MaxRetries,        \* config.max_retries
  FtsMaxRetries,     \* the 3 written into batch_finalize.rs
  MaxResurrections,  \* config.max_resurrections
  ChanCap,           \* FTS5_CHANNEL_CAPACITY
  LostWrites,        \* may a handler's own write to the row fail?
  InitTracked,       \* what tracked_files may say of a file at the start
  MaxInserts,        \* bound: rows inserted per key
  MaxUpsets,         \* bound: failures, crashes and user commands
  MaxOverruns        \* bound: leases or retries that overtake a live worker

ASSUME ConstantsAssumption ==
  /\ PlainKeys \subseteq Keys /\ Unindexed \subseteq Keys /\ NoKey \notin Keys
  /\ MaxConcurrent \in Nat \ {0} /\ ChanCap \in Nat \ {0}
  /\ MaxRetries \in Nat \ {0} /\ FtsMaxRetries \in Nat \ {0}
  /\ MaxResurrections \in Nat
  /\ LostWrites \in BOOLEAN
  /\ InitTracked \subseteq {"none", "stale", "current"}
  /\ MaxInserts \in Nat /\ MaxUpsets \in Nat /\ MaxOverruns \in Nat

VARIABLES
  rows,      \* the table
  qid,       \* queue_id of the latest row of a key: a fresh one per INSERT
  tracked,   \* tracked_files: does the file's hash match the disk?
  synced,    \* search.db holds the tracked generation of the file
  tasks,     \* the leased items in memory
  chan,      \* the FTS5 channel
  batch,     \* the batch being committed and resolved
  writer,    \* the batch writer's place in its loop
  owed,      \* history: sinks whose write the row's work still owes
  effects,   \* history: times the post-completion side effects of qid ran
  upsets, overruns

vars == <<rows, qid, tracked, synced, tasks, chan, batch, writer, owed,
          effects, upsets, overruns>>

Tracked == {"none", "stale", "current"}

PCs == {"idle", "leased", "plain", "prepare", "purge", "research", "ingest",
        "share", "sharesend", "shareq", "upsert", "markq", "search",
        "dispatch", "ftsdone", "ftsfailed", "settle", "finalize", "delete",
        "remove", "park", "markselect", "mark"}

Task == [pc : PCs, key : Keys \cup {NoKey}, id : Nat, snap : BOOLEAN,
         seen : Nat, err : Errors]

Idle == [pc |-> "idle", key |-> NoKey, id |-> 0, snap |-> FALSE, seen |-> 0,
         err |-> "none"]

Work   == [key : Keys, id : Nat]
Writer == [pc : {"collect", "resolve", "delete", "markselect", "mark"},
           ok : BOOLEAN, seen : Nat]

Collect == [pc |-> "collect", ok |-> TRUE, seen |-> 0]

TypeOK ==
  /\ rows \in [Keys -> Row]
  /\ qid \in [Keys -> Nat]
  /\ tracked \in [Keys -> Tracked]
  /\ synced \in [Keys -> BOOLEAN]
  /\ tasks \in [Slots -> Task]
  /\ \A w \in Slots : tasks[w].pc # "idle" => tasks[w].key \in Keys
  /\ chan \in Seq(Work) /\ batch \in Seq(Work)
  /\ writer \in Writer
  /\ writer.pc # "collect" => batch # <<>>
  /\ owed \in [Keys -> SUBSET Sinks]
  /\ effects \in [Keys -> Nat]
  /\ upsets \in Nat /\ overruns \in Nat

Init ==
  /\ rows = [k \in Keys |-> NoRow]
  /\ qid = [k \in Keys |-> 0]
  /\ tracked \in [Keys -> InitTracked]
  /\ \A k \in PlainKeys : tracked[k] = "none"
  /\ synced = [k \in Keys |-> tracked[k] # "none"]
  /\ tasks = [w \in Slots |-> Idle]
  /\ chan = <<>> /\ batch = <<>> /\ writer = Collect
  /\ owed = [k \in Keys |-> {}]
  /\ effects = [k \in Keys |-> 0]
  /\ upsets = 0 /\ overruns = 0

-----------------------------------------------------------------------------
(* Rows, as the actors address them *)

Present(k) == rows[k].status # "absent"
Unsettled(k) == rows[k].status \in {"pending", "in_progress"}

\* A statement keyed by queue_id finds a row
Finds(x) == Present(x.key) /\ qid[x.key] = x.id

Write(x, r) == rows' = IF Finds(x) THEN [rows EXCEPT ![x.key] = r] ELSE rows

\* Mutant: the caller runs the side effects, whether or not it deleted a row
DeleteRowMutant(x) ==
  /\ Write(x, NoRow)
  /\ effects' = [effects EXCEPT ![x.key] = @ + 1]

\* delete_unified_item: whoever deletes the row runs its side effects
DeleteRow(x) ==
  /\ Write(x, NoRow)
  /\ effects' = IF Finds(x) THEN [effects EXCEPT ![x.key] = @ + 1] ELSE effects

Pays(x, sink) == owed' = IF qid[x.key] = x.id
                         THEN [owed EXCEPT ![x.key] = @ \ {sink}] ELSE owed

Holds(x, k) == x.key = k /\ x.id = qid[k]

InRange(s) == {s[i] : i \in 1 .. Len(s)}

\* A task or an FTS5 work item of the daemon still acts for the row
Held(k) == \/ \E w \in Slots : Holds(tasks[w], k)
           \/ \E x \in InRange(chan) \cup InRange(batch) : Holds(x, k)

Upset == upsets < MaxUpsets /\ upsets' = upsets + 1

\* Overtaking a live holder is rare enough to be counted
Overtake(k) == IF Held(k)
               THEN overruns < MaxOverruns /\ overruns' = overruns + 1
               ELSE UNCHANGED overruns

memory == <<tasks, chan, batch, writer>>
files  == <<tracked, synced>>
budget == <<upsets, overruns>>

-----------------------------------------------------------------------------
(* Producers and the user *)

\* enqueue_unified.  A row in any status absorbs the enqueue.
Enqueue(k) ==
  /\ ~Present(k) /\ qid[k] < MaxInserts
  /\ rows' = [rows EXCEPT ![k] = NewRow]
  /\ qid' = [qid EXCEPT ![k] = @ + 1]
  /\ owed' = [owed EXCEPT ![k] = Sinks]
  /\ effects' = [effects EXCEPT ![k] = 0]
  /\ UNCHANGED <<memory, files, budget>>

Reading == {"prepare", "purge", "ingest", "share", "upsert"}

\* The file changes on disk, at a moment no handler is reading it
EditFile(k) ==
  /\ Upset /\ tracked[k] = "current"
  /\ ~\E w \in Slots : tasks[w].key = k /\ tasks[w].pc \in Reading
  /\ tracked' = [tracked EXCEPT ![k] = "stale"]
  /\ UNCHANGED <<rows, qid, synced, memory, owed, effects, overruns>>

UserRetry(k) ==
  /\ Upset /\ Overtake(k) /\ rows[k].status = "failed"
  /\ rows' = [rows EXCEPT ![k] = UserRetried(@)]
  /\ UNCHANGED <<qid, memory, files, owed, effects>>

\* cancel, remove and the purge that follows a tenant's deletion
Discard(k) ==
  /\ Upset /\ Overtake(k) /\ Present(k)
  /\ rows' = [rows EXCEPT ![k] = NoRow]
  /\ UNCHANGED <<qid, memory, files, owed, effects>>

-----------------------------------------------------------------------------
(* The poll loop: lease, start, give back *)

\* dequeue_unified.  The item in memory is a snapshot of the row: of the two
\* sinks, the handler looks only at whether Qdrant was done already.
Dequeue(w, k) ==
  /\ tasks[w].pc = "idle" /\ CanLease(rows[k])
  /\ rows' = [rows EXCEPT ![k] = Leased(@)]
  /\ tasks' = [tasks EXCEPT ![w] =
       [Idle EXCEPT !.pc = "leased", !.key = k, !.id = qid[k],
                    !.snap = (rows[k].qdrant = "done")]]
  /\ UNCHANGED <<qid, chan, batch, writer, files, owed, effects, budget>>

\* The task at pc "from" goes on at "to", its row rewritten to r
Goto(w, to) == tasks' = [tasks EXCEPT ![w].pc = to]
Leave(w)    == tasks' = [tasks EXCEPT ![w] = Idle]
At(w, pc)   == tasks[w].pc = pc
RowOf(w)    == rows[tasks[w].key]
TrackedOf(w) == tracked[tasks[w].key]

Running(w) == tasks[w].pc \notin {"idle", "leased"}

Start(w) ==
  /\ At(w, "leased")
  /\ Cardinality({v \in Slots : Running(v)}) < MaxConcurrent
  /\ Goto(w, IF tasks[w].key \in PlainKeys THEN "plain" ELSE "prepare")
  /\ UNCHANGED <<rows, qid, chan, batch, writer, files, owed, effects, budget>>

\* Shutdown or memory pressure before the item was started.  A re-lease that fails is
\* only logged, and the row waits for its lease to expire.
ReLeasePending(w) ==
  /\ At(w, "leased") /\ Upset
  /\ Write(tasks[w], Parked(RowOf(w))) \/ UNCHANGED rows
  /\ Leave(w)
  /\ UNCHANGED <<qid, chan, batch, writer, files, owed, effects, overruns>>

-----------------------------------------------------------------------------
(* Handlers *)

\* A handler discards the result of its writes to the row, and goes on
HandlerWrites(w, r) == \/ Write(tasks[w], r) /\ UNCHANGED upsets
                       \/ LostWrites /\ Upset /\ UNCHANGED rows

\* update_destination_status
SetSink(w, sink, s, to) ==
  HandlerWrites(w, WithSink(RowOf(w), sink, s)) /\ Goto(w, to)

others == <<qid, chan, batch, writer, effects, overruns>>
rest   == <<others, upsets>>

\* Ok(()) without a write to any sink counts as all of the work
Vouches(w) ==
  owed' = IF Finds(tasks[w]) THEN [owed EXCEPT ![tasks[w].key] = {}] ELSE owed

PlainOk(w) ==
  /\ At(w, "plain") /\ Vouches(w)
  /\ Goto(w, "finalize")
  /\ UNCHANGED <<rows, rest, files>>

\* The file is gone: whatever it left is cleaned up
FileGone(w) ==
  /\ At(w, "prepare")
  /\ SetSink(w, "qdrant", "done", "settle")
  /\ tracked' = [tracked EXCEPT ![tasks[w].key] = "none"]
  /\ synced' = [synced EXCEPT ![tasks[w].key] = FALSE]
  /\ Vouches(w)
  /\ UNCHANGED others

\* The file is ignored by now, or empty and only recorded: no sink is written
FileVoid(w) ==
  /\ At(w, "prepare")
  /\ SetSink(w, "qdrant", "done", "settle")
  /\ \/ UNCHANGED files
     \/ /\ tracked' = [tracked EXCEPT ![tasks[w].key] = "current"]
        /\ synced' = [synced EXCEPT ![tasks[w].key] = FALSE]
  /\ Vouches(w)
  /\ UNCHANGED others

\* Mutant: an unchanged file is skipped without a word about its sinks
SkipMutant(w) ==
  /\ At(w, "prepare") /\ TrackedOf(w) = "current"
  /\ Goto(w, "finalize")
  /\ UNCHANGED <<rows, rest, files, owed>>

\* prepare_update on an unchanged file, and resolve_skip_destinations
Skip(w) ==
  /\ At(w, "prepare") /\ TrackedOf(w) = "current"
  /\ SetSink(w, "qdrant", "done", "research")
  /\ Pays(tasks[w], "qdrant")
  /\ UNCHANGED <<others, files>>

\* prepare_update on a changed file: the decision is stored first
Decide(w) ==
  /\ At(w, "prepare") /\ TrackedOf(w) = "stale"
  /\ HandlerWrites(w, Decided(RowOf(w))) /\ Goto(w, "purge")
  /\ owed' = IF Finds(tasks[w]) THEN [owed EXCEPT ![tasks[w].key] = Sinks] ELSE owed
  /\ UNCHANGED <<others, files>>

\* The snapshot of the dequeue says whether Qdrant needs any work
AfterPreparing(w) == Goto(w, IF tasks[w].snap THEN "research" ELSE "ingest")

\* ... then the old generation is deleted, unless only the chunker changed
Purge(w) ==
  /\ At(w, "purge")
  /\ \/ /\ tracked' = [tracked EXCEPT ![tasks[w].key] = "none"]
        /\ synced' = [synced EXCEPT ![tasks[w].key] = FALSE]
     \/ UNCHANGED files
  /\ AfterPreparing(w)
  /\ UNCHANGED <<rows, rest, owed>>

PrepareUntracked(w) ==
  /\ At(w, "prepare") /\ TrackedOf(w) = "none"
  /\ AfterPreparing(w)
  /\ UNCHANGED <<rows, rest, files, owed>>

\* handle_retry_skip
RetrySearch(w) ==
  /\ At(w, "research")
  /\ IF TrackedOf(w) = "none" THEN SetSink(w, "search", "done", "finalize")
                              ELSE SetSink(w, "search", "in_progress", "dispatch")
  /\ UNCHANGED <<others, files, owed>>

StartIngest(w) ==
  /\ At(w, "ingest")
  /\ SetSink(w, "qdrant", "in_progress", "upsert")
  /\ UNCHANGED <<others, files, owed>>

\* The points and the tracked row of the new generation are committed
Generation(w) ==
  /\ tracked' = [tracked EXCEPT ![tasks[w].key] = "current"]
  /\ synced' = [synced EXCEPT ![tasks[w].key] = FALSE]
  /\ Pays(tasks[w], "qdrant")

Upsert(w) ==
  /\ At(w, "upsert")
  /\ Generation(w) /\ Goto(w, "markq")
  /\ UNCHANGED <<rows, rest>>

UpsertFails(w) ==
  /\ At(w, "upsert") /\ Upset
  /\ \/ Write(tasks[w], WithSink(RowOf(w), "qdrant", "failed"))
     \/ UNCHANGED rows
  /\ tasks' = [tasks EXCEPT ![w].pc = "markselect", ![w].err = "transient"]
  /\ UNCHANGED <<qid, chan, batch, writer, effects, files, owed, overruns>>

MarkQdrant(w) ==
  /\ At(w, "markq")
  /\ SetSink(w, "qdrant", "done", "search")
  /\ UNCHANGED <<others, files, owed>>

StartSearch(w) ==
  /\ At(w, "search")
  /\ SetSink(w, "search", "in_progress", "dispatch")
  /\ UNCHANGED <<others, files, owed>>

Send(w) == /\ Len(chan) < ChanCap
           /\ chan' = Append(chan, [key |-> tasks[w].key, id |-> tasks[w].id])

\* update_fts5_for_file_or_enqueue: handed over, nothing to write, or refused
DispatchEnqueued(w) ==
  /\ At(w, "dispatch") /\ tasks[w].key \notin Unindexed /\ Send(w) /\ Goto(w, "finalize")
  /\ UNCHANGED <<rows, qid, batch, writer, files, owed, effects, budget>>

DispatchSkipped(w) ==
  /\ At(w, "dispatch") /\ (synced[tasks[w].key] \/ tasks[w].key \in Unindexed)
  /\ Pays(tasks[w], "search") /\ Goto(w, "ftsdone")
  /\ UNCHANGED <<rows, rest, files>>

DispatchFails(w) ==
  /\ At(w, "dispatch") /\ Upset /\ Goto(w, "ftsfailed")
  /\ UNCHANGED <<rows, qid, chan, batch, writer, files, owed, effects, overruns>>

\* The last sink write of a handler
SettleSearch(w) ==
  /\ \/ At(w, "ftsdone") /\ SetSink(w, "search", "done", "finalize")
     \/ At(w, "ftsfailed") /\ SetSink(w, "search", "failed", "finalize")
     \/ At(w, "settle") /\ SetSink(w, "search", "done", "finalize")
  /\ UNCHANGED <<others, files, owed>>

\* try_branch_dedup: another branch indexed the same content.  Here the
\* search sink is handed over first, and the Qdrant sink is written last.
ShareGeneration(w) ==
  /\ At(w, "ingest") /\ Generation(w) /\ Goto(w, "share")
  /\ UNCHANGED <<rows, rest>>

ShareSearch(w) ==
  /\ At(w, "share")
  /\ \/ /\ tasks[w].key \notin Unindexed
        /\ SetSink(w, "search", "in_progress", "sharesend") /\ UNCHANGED owed
     \/ /\ tasks[w].key \in Unindexed
        /\ SetSink(w, "search", "done", "shareq") /\ Pays(tasks[w], "search")
  /\ UNCHANGED <<others, files>>

ShareSent(w) ==
  /\ At(w, "sharesend") /\ Send(w) /\ Goto(w, "shareq")
  /\ UNCHANGED <<rows, qid, batch, writer, files, owed, effects, budget>>

ShareRefused(w) ==
  /\ At(w, "sharesend") /\ Upset
  /\ Write(tasks[w], WithSink(RowOf(w), "search", "failed")) /\ Goto(w, "shareq")
  /\ UNCHANGED <<others, files, owed>>

ShareQdrant(w) ==
  /\ At(w, "shareq")
  /\ SetSink(w, "qdrant", "done", "finalize")
  /\ UNCHANGED <<others, files, owed>>

\* Any await of a handler may return Err; classify_error sorts it
HandlerFails(w) ==
  /\ tasks[w].pc \in {"plain", "prepare", "purge", "upsert"} /\ Upset
  /\ \/ \E e \in {"transient", "permanent"} :
          tasks' = [tasks EXCEPT ![w].pc = "markselect", ![w].err = e]
     \/ Goto(w, "remove")    \* permanent_gone
     \/ Goto(w, "park")      \* subsystem_unavailable
  /\ UNCHANGED <<rows, qid, chan, batch, writer, files, owed, effects, overruns>>

-----------------------------------------------------------------------------
(* The worker's end of an item *)

\* finalize_after_success, in one transaction.  A row that is gone counts as
\* done; a verdict that is still open leaves the row to whoever owns the sink.
Finalize(w) ==
  LET r == Resolved(ExplicitlyMarked(RowOf(w))) IN
  /\ At(w, "finalize")
  /\ Write(tasks[w], r)
  /\ \/ ~Finds(tasks[w]) /\ Goto(w, "delete")
     \/ Finds(tasks[w]) /\ Verdict(r) = "done" /\ Goto(w, "delete")
     \/ Finds(tasks[w]) /\ Verdict(r) = "in_progress" /\ Leave(w)
     \/ /\ Finds(tasks[w]) /\ Verdict(r) = "failed"
        /\ tasks' = [tasks EXCEPT ![w].pc = "markselect", ![w].err = "plain"]
  /\ UNCHANGED <<rest, files, owed>>

Delete(w) ==
  /\ tasks[w].pc \in {"delete", "remove"}
  /\ DeleteRow(tasks[w]) /\ Leave(w)
  /\ UNCHANGED <<qid, chan, batch, writer, files, owed, budget>>

\* mark_unified_failed: a SELECT of retry_count, then an UPDATE
MarkSelect(w) ==
  /\ At(w, "markselect")
  /\ IF Finds(tasks[w])
     THEN tasks' = [tasks EXCEPT ![w].pc = "mark", ![w].seen = RowOf(w).retry]
     ELSE Leave(w)
  /\ UNCHANGED <<rows, rest, files, owed>>

Mark(w) ==
  /\ At(w, "mark")
  /\ Write(tasks[w],
           MarkedFailed(RowOf(w), tasks[w].seen, tasks[w].err, MaxRetries))
  /\ Leave(w)
  /\ UNCHANGED <<rest, files, owed>>

Park(w) ==
  /\ At(w, "park")
  /\ Write(tasks[w], Parked(RowOf(w))) /\ Leave(w)
  /\ UNCHANGED <<rest, files, owed>>

Endings == {"finalize", "delete", "remove", "markselect", "mark", "park"}

\* Mutant: an item whose row cannot be resolved counts as done
RefusedMutant(w) ==
  /\ tasks[w].pc \in Endings /\ Upset
  /\ IF At(w, "finalize") THEN Goto(w, "delete") ELSE Leave(w)
  /\ UNCHANGED <<rows, qid, chan, batch, writer, files, owed, effects, overruns>>

\* The queue database refuses: the error is logged and the item left as it is
Refused(w) ==
  /\ tasks[w].pc \in Endings /\ Upset /\ Leave(w)
  /\ UNCHANGED <<rows, qid, chan, batch, writer, files, owed, effects, overruns>>

\* A panic in a handler unwinds the item's task; nothing repairs the row
TaskDies(w) ==
  /\ Running(w) /\ tasks[w].pc \notin Endings /\ Upset /\ Leave(w)
  /\ UNCHANGED <<rows, qid, chan, batch, writer, files, owed, effects, overruns>>

-----------------------------------------------------------------------------
(* The FTS5 batch writer *)

\* flush: one search.db transaction for the whole batch
Flush(n, ok) ==
  /\ writer.pc = "collect" /\ n \in 1 .. Len(chan)
  /\ IF ok THEN UNCHANGED upsets ELSE Upset
  /\ batch' = SubSeq(chan, 1, n) /\ chan' = SubSeq(chan, n + 1, Len(chan))
  /\ writer' = [Collect EXCEPT !.pc = "resolve", !.ok = ok]
  /\ LET in == {k \in Keys : \E x \in InRange(batch') : Holds(x, k)} IN
     IF ok
     THEN /\ synced' = [k \in Keys |-> synced[k] \/ (k \in in /\ tracked[k] # "none")]
          /\ owed' = [k \in Keys |-> IF k \in in THEN owed[k] \ {"search"} ELSE owed[k]]
     ELSE UNCHANGED <<synced, owed>>
  /\ UNCHANGED <<rows, qid, tracked, tasks, effects, overruns>>

\* Mutant: the end of the batch is missed
NextWorkMutant ==
  /\ batch' = Tail(batch)
  /\ writer' = IF Len(batch) = 0 THEN Collect ELSE [writer EXCEPT !.pc = "resolve"]

\* resolve_search works through the batch, one item after the other
NextWork ==
  /\ batch' = Tail(batch)
  /\ writer' = IF Len(batch) = 1 THEN Collect ELSE [writer EXCEPT !.pc = "resolve"]

WriterAt(to) == writer' = [writer EXCEPT !.pc = to] /\ UNCHANGED batch

Item == Head(batch)

\* resolve_destination: the sink and the verdict in one transaction
FtsResolve ==
  LET r == Resolved(WithSink(rows[Item.key], "search",
                             IF writer.ok THEN "done" ELSE "failed")) IN
  /\ writer.pc = "resolve"
  /\ Write(Item, r)
  /\ IF Finds(Item) /\ Verdict(r) = "done" THEN WriterAt("delete")
     ELSE IF Finds(Item) /\ Verdict(r) = "failed" THEN WriterAt("markselect")
     ELSE NextWork
  /\ UNCHANGED <<qid, tasks, chan, files, owed, effects, budget>>

FtsRefused ==
  /\ writer.pc # "collect" /\ Upset /\ NextWork
  /\ UNCHANGED <<rows, qid, tasks, chan, files, owed, effects, overruns>>

FtsDelete ==
  /\ writer.pc = "delete"
  /\ DeleteRow(Item) /\ NextWork
  /\ UNCHANGED <<qid, tasks, chan, files, owed, budget>>

FtsMarkSelect ==
  /\ writer.pc = "markselect"
  /\ IF Finds(Item)
     THEN /\ writer' = [writer EXCEPT !.pc = "mark", !.seen = rows[Item.key].retry]
          /\ UNCHANGED batch
     ELSE NextWork
  /\ UNCHANGED <<rows, qid, tasks, chan, files, owed, effects, budget>>

FtsMark ==
  /\ writer.pc = "mark"
  /\ Write(Item, MarkedFailed(rows[Item.key], writer.seen, "transient", FtsMaxRetries))
  /\ NextWork
  /\ UNCHANGED <<qid, tasks, chan, files, owed, effects, budget>>

-----------------------------------------------------------------------------
(* Time, the reaper, the idle passes, the process itself *)

LeaseExpires(k) ==
  /\ rows[k].lease = "ahead" /\ Overtake(k)
  /\ rows' = [rows EXCEPT ![k].lease = "past"]
  /\ UNCHANGED <<qid, memory, files, owed, effects, upsets>>

\* recover_stale_unified_leases, every minute
Reap(k) ==
  /\ Stale(rows[k])
  /\ rows' = [rows EXCEPT ![k] = Recovered(@)]
  /\ UNCHANGED <<qid, memory, files, owed, effects, budget>>

\* The idle passes run in the poll loop, which is idle only when no item is
\* leased; the batch writer may still be at work
LoopIdle == \A w \in Slots : tasks[w].pc = "idle"

Resurrect(k) ==
  /\ LoopIdle /\ Resurrectable(rows[k])
  /\ rows' = [rows EXCEPT ![k] = Resurrected(@, MaxResurrections)]
  /\ UNCHANGED <<qid, memory, files, owed, effects, budget>>

Triage(k) ==
  /\ LoopIdle /\ Triageable(rows[k]) /\ k \notin PlainKeys
  /\ rows' = [rows EXCEPT ![k] = NoRow]
  /\ UNCHANGED <<qid, memory, files, owed, effects, budget>>

\* The process dies and starts again: memory is lost, orphaned leases and
\* sinks are reset, and rows that have been settled for long are dropped
CrashRestart ==
  /\ Upset
  /\ tasks' = [w \in Slots |-> Idle]
  /\ chan' = <<>> /\ batch' = <<>> /\ writer' = Collect
  /\ \E old \in SUBSET {k \in Keys : rows[k].status \in {"done", "failed"}} :
       rows' = [k \in Keys |-> IF k \in old THEN NoRow ELSE AtStartup(rows[k])]
  /\ UNCHANGED <<qid, files, owed, effects, overruns>>

\* Nothing is left to do: the daemon waits for the next producer
Quiet ==
  /\ \A k \in Keys : ~Unsettled(k) /\ ~Held(k)
  /\ UNCHANGED vars

-----------------------------------------------------------------------------
Handler(w) ==
  \/ PlainOk(w) \/ FileGone(w) \/ FileVoid(w) \/ Skip(w)
  \/ Decide(w) \/ Purge(w)
  \/ PrepareUntracked(w) \/ RetrySearch(w) \/ StartIngest(w) \/ Upsert(w)
  \/ UpsertFails(w) \/ MarkQdrant(w) \/ StartSearch(w) \/ DispatchEnqueued(w)
  \/ DispatchSkipped(w) \/ DispatchFails(w) \/ SettleSearch(w)
  \/ ShareGeneration(w) \/ ShareSearch(w) \/ ShareSent(w) \/ ShareRefused(w)
  \/ ShareQdrant(w) \/ HandlerFails(w)

Ending(w) ==
  \/ Finalize(w) \/ Refused(w) \/ Delete(w) \/ MarkSelect(w)
  \/ Mark(w) \/ Park(w) \/ TaskDies(w)

TaskStep(w) == Start(w) \/ ReLeasePending(w) \/ Handler(w) \/ Ending(w)

WriterStep ==
  \/ \E n \in 1 .. Len(chan), ok \in BOOLEAN : Flush(n, ok)
  \/ FtsResolve \/ FtsRefused \/ FtsDelete \/ FtsMarkSelect \/ FtsMark

KeyStep(k) ==
  \/ Enqueue(k) \/ EditFile(k) \/ UserRetry(k) \/ Discard(k)
  \/ LeaseExpires(k) \/ Reap(k) \/ Resurrect(k) \/ Triage(k)

Next ==
  \/ \E k \in Keys : KeyStep(k) \/ \E w \in Slots : Dequeue(w, k)
  \/ \E w \in Slots : TaskStep(w)
  \/ WriterStep \/ CrashRestart \/ Quiet

Spec == Init /\ [][Next]_vars

\* The loops of the daemon run for as long as the process does, and time
\* passes.  Failures, crashes, producers and users owe nothing.
Fairness ==
  /\ \A k \in Keys : /\ WF_vars(\E w \in Slots : Dequeue(w, k))
                     /\ WF_vars(LeaseExpires(k)) /\ WF_vars(Reap(k))
  /\ \A w \in Slots : WF_vars(TaskStep(w))
  /\ WF_vars(WriterStep)

FairSpec == Spec /\ Fairness

-----------------------------------------------------------------------------
(* Properties *)

\* A row that went through a stored decision is done only when both sinks
\* were really written since: no retry path, no skip and no second finalizer
\* turns a missing write into a completed row.
DecidedCompletionIsProved ==
  \A k \in Keys : rows[k].status = "done" /\ rows[k].decided => owed[k] = {}

\* Two finalizers, and any number of retries, run the side effects of one row
\* at most once.
SideEffectsOnce == \A k \in Keys : effects[k] =< 1

\* While leases outlast the work they cover, no two items in memory are the
\* same row: nothing gives a row back while its owner may still write to it.
SingleOwner ==
  overruns = 0 =>
    \A v, w \in Slots : tasks[v].pc # "idle" /\ tasks[w].pc # "idle" /\ v # w
      => <<tasks[v].key, tasks[v].id>> # <<tasks[w].key, tasks[w].id>>

\* Of the two limits on retries, the configured and the built-in, the larger
Limit == IF MaxRetries >= FtsMaxRetries THEN MaxRetries ELSE FtsMaxRetries

\* The two finalizers may both count one failure, but no more than that.
RetryCountBounded ==
  overruns = 0 => \A k \in Keys : rows[k].retry =< Limit + 1

\* Once its work was decided, a row leaves the table with its side effects only
\* when it is done, when its work owes nothing, or when its handler found the
\* subject gone: no finalizer deletes a row that another actor has put back for
\* a retry it needs.
RetriesAreKept ==
  [][\A k \in Keys : effects'[k] > effects[k] /\ rows[k].decided =>
       \/ rows[k].status = "done" \/ owed[k] = {}
       \/ \E w \in Slots : At(w, "remove") /\ Holds(tasks[w], k)]_vars

\* Every row is settled in the end, whatever fails on the way.
EverythingSettles ==
  \A k \in Keys : Unsettled(k) ~> ~Unsettled(k)
=============================================================================
