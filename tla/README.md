# Formal models of the workspace-qdrant daemon

The repository holds `memexd`, a Rust daemon that watches source trees, turns
file changes into rows of a SQLite table (`unified_queue`), processes them into
two stores (Qdrant vectors and a full-text database `search.db`), and serves an
MCP server and a CLI over gRPC. This directory holds TLA+ models of the part of
the daemon where its correctness is decided, the TLC configurations that check
them, and proofs of the central theorems.

Paths below are relative to the repository's own `src/`; `core` stands for
`src/rust/daemon/core/src`, `memexd` for `src/rust/daemon/memexd/src`.

## 1. Inventory

### Components, their state and operations

| component | state | operations |
|---|---|---|
| unified queue table (`core/queue_operations`, `core/unified_queue_schema`) | one row per idempotency key: status, lease, retry count, the two sinks `qdrant_status` and `search_status`, `decision_json`, error message, resurrection count | enqueue, dequeue with lease, recover stale leases, reset orphaned sinks, set a sink, store a decision, finalize, mark failed, delete, resurrect, triage, re-lease, purge |
| poll loop (`core/unified_queue_processor/processing_loop`) | the batch it leased, the items in flight, adaptive limits | lease a batch, start items up to `max_concurrent_items`, refill, give back unstarted items, handle success and failure, idle passes |
| file strategy (`core/strategies/processing/file`) | local variables of one item; writes `tracked_files`, Qdrant points, its queue row | guards, prepare an update (compare hashes, store the decision, delete the old generation), ingest, share a generation with another branch, hand over to FTS5, skip, delete, uplift |
| FTS5 batch writer (`core/search_db/batch_writer.rs`, `batch_finalize.rs`) | a bounded channel, the batch being collected | collect, flush in one transaction, resolve each item's row |
| FTS5 batch processor (`core/fts_batch_processor`) | pending changes, `code_lines`, `file_metadata`, `indexed_content` | deduplicate, diff, write, fall back to single files |
| tracked files (`core/tracked_files_schema`) | one row per content, with the set of branches that hold it | insert or merge, remove a branch, delete when unreferenced |
| fairness scheduler (`core/fairness_scheduler.rs`) | direction of the next pass, counters | choose a pass, dequeue, fall back |
| circuit breaker and queue error handler (`core/queue_error_handler`) | breaker state, counters | record success or failure, allow a request |
| watcher (`core/watching_queue`) | the channel of events, one pending event per path, the buffer of deferred ones, the load level, the error state of the watch | coalesce, take the ripe ones, defer under load and release, enqueue with retries, count errors and successes |
| branch switch (`core/git`, `core/branch_switch`, `tenant/project.rs`) | the last event sent, events in the channel | read the reflog, enqueue what differs, verify and re-key what does not, scan after a reset, reconcile branch membership |
| linked worktrees, branch tips, branch prune (`core/branch_switch`) | known worktrees and tips | find branches that are not checked out in the main tree, enqueue for them |
| idle maintenance (`core/idle`, `idle_work.rs`) | the task in progress, offsets and cursors, times of the last runs | one batch of one task per empty poll: sweep files, mirrors and branch sets |
| embedding generator and watchdog (`core/embedding`) | semaphore permits, provider state | acquire, embed, release, reset |
| adaptive resources and memory pressure (`core/adaptive_resources`, `memory_pressure.rs`) | profile, thresholds | raise, lower, pause |
| start-up (`core/startup`, `memexd/queue_init.rs`) | none of its own | reset rows a dead process left, purge old rows, spawn the reaper |
| write actor (`core/write_actor`) | a channel of commands | retry, cancel, remove, clean queue rows; registry changes |
| gRPC services (`src/rust/daemon/grpc`) | sessions, drain gate | translate requests to enqueues and write-actor commands |
| priority manager, processing pipeline, LSP, graph, lexicon, tagging, storage client, search, schema, CLI, MCP server | listed in `PROJECT.json` with the reason each is left out | |

### How they interact

* The watcher, the gRPC services and handlers themselves **insert** rows. An
  insert for a key that has a row is ignored, whatever the row's status.
* The poll loop **leases** rows (status `in_progress`, lease ahead) and keeps a
  copy of each in memory. The item then acts on that copy and addresses its row
  by `queue_id`; a row that was deleted and inserted anew has a new `queue_id`,
  and statements of the old item find nothing.
* A file item **hands the search sink over** to the batch writer on a bounded
  channel, and goes on to finalize its row. So one row has two finalizers, the
  item's worker and the batch writer. Neither takes a lock: each runs SQL
  statements that SQLite puts in some order.
* The watcher's task enqueues a file operation per ripe event, under the branch
  checked out at that moment; the consumer of git events enqueues files and bulk
  re-keys for the branch named in the event; a handler ingests under the branch
  checked out when it runs. All of them, the recovery of a start, scans and idle
  sweeps write the same keys.
* The reaper (once a minute), the idle passes (resurrect, triage), the user's
  commands and the start-up code rewrite the same rows.

### What is hard

1. The two finalizers in every order; each decides in one transaction and acts
   on the decision in another (delete, or select the retry count and update).
2. What the item remembers (its snapshot of `qdrant_status`) against what the
   row says by the time it is used.
3. Handler writes to the row whose error is discarded (`let _ = ...`), and a
   finalizer that draws its conclusion from the columns they should have set.
4. Leases that expire under a worker that is still alive.
5. A crash between any two statements, and what the next start repairs.
6. Skips: paths that do no work still have to resolve both sinks, or a row with
   a stored decision would be leased for ever.
7. The bounded channel: workers block in `send` while they hold a slot.
8. Between a change on disk and its row in the queue an event is coalesced,
   deferred, released, tried again or dropped, and a restart loses all of it.
9. A checkout moves the tree under events, queue items and re-keys that were made
   for another branch.
10. Sweeps go through the tables page by page while the rows move.

### What makes each component correct

* queue: a row is completed only after the work it stands for; it is completed
  at most once; a failure is retried a bounded number of times and never lost;
  every row is settled in the end; one item at a time acts for a row.
* file strategy: the tracked generation, the points and the lines in `search.db`
  agree once the row is gone.
* batch processor: the last change of a file wins; a failing file does not take
  the others of its batch down.
* tracked files: points are deleted only when no branch refers to them.
* scheduler: both ends of the priority range are served.
* breaker, watchdog, permits: no request while open, a probe after the delay,
  permits are conserved.
* watcher: once nothing is under way, a path is indexed as it is on disk, unless
  a change was lost for a reason that can be named; no event stays in a buffer.
* branch switch: the branch checked out ends with the content of its tree; no
  branch gets a content that its tree never had; branches left behind keep theirs.
* idle sweeps: a sweep repairs what it went over, and leaves alone what is right,
  although rows come and go between its pages.

The hazards, each at its line, are in `PROJECT.json`.

## 2. Modules

| module | content |
|---|---|
| `QueueRows` | a row, and one operator per SQL statement that rewrites it |
| `UnifiedQueue` | the table, the items in memory, the FTS5 channel and the batch writer; one action per SQL statement or transaction together with the in-memory step that follows it |
| `WorkPromise` | the abstract specification: what whoever enqueues work may rely on |
| `UnifiedQueueRefinement` | the mapping under which `UnifiedQueue` implements `WorkPromise` |
| `MCUnifiedQueue` | model values and symmetry for TLC |
| `UnifiedQueueProofs` | lemmas about the statements, type correctness, single ownership, side effects at most once, and the bound on the count of retries |
| `CompletionProofs` | that a decided row is done only with its work done and is not deleted before, and the refinement |
| `FairnessScheduler` | which rows a dequeue leases: the ORDER BY of the query and the alternation of its direction |
| `MCFairnessScheduler` | kinds of items for TLC |
| `FairnessProofs` | type correctness of the scheduler, and that deletes come first |
| `Generations` | the tracked rows, points, lines and cached contents of one path on several branches, and the handlers that move a branch from one content to the next |
| `MCGenerations` | symmetry for TLC |
| `GenerationsProofs` | types, and that a branch is in one row |
| `GenerationStoresProofs` | that rows, lines and points follow the checkouts once the queue is empty |
| `WatchHealth` | the error state of a watch: operators on a record |
| `Watching` | one watched folder, from the callback of notify to the row of the queue; extends `WatchHealth` |
| `MCWatching` | symmetry, constraints and a specification for TLC |
| `WatchingProofs` | types, and that the index follows the disk |
| `BranchSwitch` | one file of one working tree across checkouts, commits and resets: git watcher, file watcher, queue items, bulk re-key |
| `MCBranchSwitch` | symmetry and constraints for TLC |
| `BranchSwitchProofs` | types, that the index follows the tree, that no branch gets a content it never had, and that branches left behind keep theirs |
| `IdleSweeps` | the maintenance scheduler and its sweeps of the tracked files |
| `IdleSweepsProofs` | types, and that a sweep of the mirrors heals them |

### State

`rows` is the table by idempotency key; `qid` numbers the inserts of a key and
stands for `queue_id`. A lease is `none`, `ahead` of or `past` the current time:
the code compares it with "now" and nothing else. An error message is its
prefix, the part `resurrect_failed_transient` and `triage_failed_items` select
on. A NULL sink is a pending one, as it is to every reader.
`tracked` says whether `tracked_files` holds no row for the file, the row of an
older content, or of the current one; `synced` whether `search.db` holds the
tracked generation. `tasks` are the leased items: `pc` names the next await of
the handler, `snap` is the copy of `qdrant_status = 'done'` taken by the
dequeue, `seen` the retry count read by `mark_unified_failed`. `chan`, `batch`
and `writer` are the batch writer's.

`FairnessScheduler` has a table of its own, a sequence in the order of creation:
`UnifiedQueue` leases any row that may be leased, and `FairnessScheduler` says
which ones. Of a row it keeps what the ORDER BY compares (`Kind`, and `age`, the
class of the age promotion) and whether it is leased. `descending` and
`sinceFlip` are `AlternationState`. `marked` and `followed` are history: they
pick out one row for the liveness properties to follow.

`owed` and `effects` are history: the sinks whose write the work of the row
still needs, and how often the completion side effects of the row were run. No
guard reads them.

### Correspondence

An action is what happens between two awaits that matter. An item goes through

    Dequeue -> Start -> prepare -> [Decide -> Purge ->] ingest -> upsert
      -> markq -> search -> dispatch -> finalize -> delete | markselect -> mark

with the branches of the handler: the file is gone, empty or ignored
(`FileGone`, `FileVoid`), unchanged (`Skip`), shared with another branch
(`ShareGeneration` ... `ShareQdrant`), only missing its search sink
(`RetrySearch`). `HandlerFails` is an `Err` from any await, sorted as
`classify_error` sorts it; `Refused` a database error in the bookkeeping after
the handler; `TaskDies` a panic. The batch writer goes through
`Flush -> FtsResolve -> FtsDelete | FtsMarkSelect -> FtsMark` for each item.

A handler's write to its row may be lost when `LostWrites` holds
(`HandlerWrites`): the code discards the result.

Items that write no sink (tenants, folders, deletions, uplifts) are `PlainKeys`:
their handler returns `Ok(())` and the finalizer turns both pending sinks into
done.

In `FairnessScheduler` a batch is any set of rows that the order puts before the
rest (`First`), leased in one transaction together with the count of the turn
(`NextBatch`): the two are separate in the code, but only the processing loop
calls the scheduler, one call after the other. `PollDequeue` asks for
`batch_size` rows when the last batch has drained, `Refill` for the free slots
while it has not. `Grow` is the clock: a row crosses an age threshold no later
than the rows created after it. `GiveBack` is a re-lease, or a retry whose
back-off is over, at the old place in the order of creation.

`Generations` follows one path of one watch folder. `rows` are its
`tracked_files` rows by `file_id`, each with a content, a stamp (`file_mtime`), a
set of branches and whether its chunker fingerprint is the current one; `recent`
is their order by `updated_at`, which decides whom `lookup_tracked_file` finds.
`stored` and `tags` are Qdrant, `lines` and `meta` are `search.db`, `cache` is
`indexed_content`. A handler goes through

    prepare -> [Unpoint -> Unhold -> Unline ->]
      Dedup -> Share -> ShareSend                       (content already there)
            or Embed -> Upsert -> Merge -> Track -> Search

or from `prepare` straight to `Search` when the hash matches (`PrepareSkip`) or
the Qdrant sink was done at the dequeue. A delete, and a change of content, is
the middle part, `delete_tracked_file`, with the branch set read twice as in the
code: once with the row, once by `remove_branch_from_tracked_file`. `Flush` and
`Conclude` are the batch writer, whose FTS5 transaction and cache update are in
two databases. `CrashRestart` may start a build with another chunker.

Of the queue `Generations` keeps whether a row is open and taken, its Qdrant
sink, and whether it has a decision; the rest is in `UnifiedQueue`. The handing
over of the search sink is therefore one step with the end of the worker
(`Send`), and the two finalizers are one. An edit of the file and the enqueue of
its event are one step; an event whose key has an open row is absorbed.

Two branches have two checkouts, as worktrees do. What the model leaves out of
the code it maps: clones in other watch folders (so no other row refers to the
same points), branch-prune deletes and ignore rules, empty files, uplifts,
`strip_shadowed_holders` (which by default only logs), the failure of the calls
that add or remove one tag and of the SQL that removes a branch, items that
exhaust their retries, and the loss of the mirror row. The bytes a handler reads
and their hash are one look at the file.

Handlers of the two branches overlap at most `MaxUpsets` times (`Take`): a
handler that starts beside another one uses up an upset, as a failure does.
`BranchReconcile` is `BranchReconcileTask`, when the queue is empty;
`CrashRestart` includes what a start repairs (`orphan_gc`, `branch_mirror`).

`amiss` is history: which circumstances have arisen that the code makes no
provision for. `raced`: the file changed under its handler, or its event was
absorbed by the row a handler had already taken. `overlap`: two handlers of the
path ran at once; `doubled`: two of the same branch did. `hash without points`: the hash of a row vouched for points
that were gone. `sink without row`: a done sink vouched for a row that was gone.
`merge cut off`: a crash between the upsert that overwrites the branch array of
shared points and the call that puts the other branches back; `reconciled` when
`BranchReconcile` has since gone over it, which repairs points that several branches
share and that some tag is left on (`Cut`). `branch left out`: a branch is missing from the branch set of the
lines, until the next reconcile. `lost update`: a row's branch set was written back,
less one branch, over a change made since it was read (`Unhold`). No guard reads
`amiss`; each property names what it tolerates. Whether an edit is `raced` depends on
where the handlers of the branch are (`InHand`): one that is taking the branch out of
its old row has yet to look at the file again, so a change is not lost on it; but when
two handlers of the branch run at once, the other one may have looked already, and
every edit beside them is `raced`.

`Watching` follows the events of one folder. `events` is the channel of notify's
callback, `debounced` the debouncer, `deferred` the buffer of the throttle, `task`
where the one task stands that serves them: at its select, with the ripe events
of a tick in hand, or with those it released. An event goes through

    Edit -> Receive -> Tick -> [Defer -> Release ->] Choose -> Insert -> Resolve

or is dropped: the file is gone (`DropFileless`), the watch may not process
(`DropRefused`), the buffer is full, or the attempts are used up (`AttemptFails`).
Of the queue it keeps one row per path and operation, with what its handler has
read (`Take`, `Handle`, `GiveUp`); of the index, the content of each path, and
whether the stamp of its row (`file_mtime`) is the mtime of the file (`stamped`). A
handler that finds such a stamp does not read the file
(`content_hash_reusing_mtime`), and one that stores writes the mtime of that later
moment.

`CrashRestart` empties the memory. Then directories are watched one by one (`Watch`)
while the recovery (`start`) goes its own way, as in `run_daemon`: it asks for a scan
(`AskScan`), reads what is tracked (`List`), and judges each of these paths (`Judge`)
by the stamp and the hash it has read, which a handler may have made `outdated`
(`JudgeOutdated`). The scan is an item of the queue, sees each file once (`Meet`), and
adds those that are younger than the last scan (`fresh`, `ScanDone`). What fails is
only logged: the scan's enqueue or the query, after which the folder is passed over
(`PassOver`), a hash or an enqueue (`JudgeFails`, `MeetFails`), the write of
`last_scan`. So a tracked file is the recovery's, a new one the scan's.

`lost` is history: the cause for which a change of a path may have been missed. Its
directory was not watched (`unwatched`); it was renamed away (`renamed`); the watch
was in backoff or disabled (`refused`); the buffer was full (`overflow`); the attempts
to enqueue, or the retries of the handler, were used up (`failed`); it changed under a
handler that had read it (`raced`); the recovery failed on it (`unrecovered`); it is
new to the index and older than the last scan (`pruned`). `Restart` is no cause: it
marks a path of which the memory was lost and which the recovery or the scan has not
seen yet.

`BranchSwitch` follows one file through checkouts of one working tree. `text` are
the contents of the commits, `tip` the commit of each branch, `disk` the tree.
A move of HEAD writes `reflog`; `Notice` reads it and sends an event, `GitChanged`,
`GitUnchanged`, `GitIgnored` and `GitReset` are the handler by what the diff says
of the file; `HandleFs` is the file watcher. `Take` fixes the branch an item is
processed for and reads the file, `FinishIngest` and `FinishDelete` write what was
read, with `rows` the branches of each generation; in between the tree may change.
They act on the one row `lookup_tracked_file` finds (`Found`, `Strip`), because
`strip_shadowed_holders` only logs by default (`delete.rs:84`). `TakeBulk` and
`FinishBulk` are the two halves of a bulk re-key, which runs beside them. An
unchanged file with chunks of an older chunker, or in a library, is ingested instead
of re-keyed (`stale` in `GitUnchanged`). Of each part there is a form that fails
(`NoticeFails`, `GitFails`, `FsFails`, `ScanFails`, `GiveUp`, `GiveUpBulk`).

`had` and `kept` are history for the properties, and `amiss` names the mishaps: the
file or HEAD changed under an ingest that had read it (`raced`), or HEAD moved again
before its entry was read (`coalesced`), an event handled on another branch (`late`),
a delete absorbed by that of another branch (`label`), a re-key absorbed by one in
hand (`absorbed`) or applied to what was not verified (`rekey`), a path passed over
for a stale generation (`passed`) or because the branch that was left has not got it
yet (`unapplied`), and any failure (`failed`). A delete needs no such flag: if the
file comes back under it, its event or an item is there to add it again, and if it
read a file, it takes nothing away.

`IdleSweeps` has the tracked rows as ids with three facts each: a file, points, a
mirror. `Tick` says which task `MaintenanceScheduler` runs on an empty poll,
`Filesystem`, `Cleanup` and `Repair` are their batches. `touched` is history: the
rows something else changed since the present sweep began.

`PROJECT.json` maps each definition to its lines.

## 3. Runs

Four runs are about the queue (`MCUnifiedQueue`), two about the scheduler
(`MCFairnessScheduler`), one about the stores (`MCGenerations`), two about the
watcher (`MCWatching`), two about checkouts (`MCBranchSwitch`) and one about the
sweeps (`IdleSweeps`). Bounds are the constants named in the cfg.

| run | checks | shows |
|---|---|---|
| `core` | `TypeOK`, `SideEffectsOnce`, `SingleOwner` | a file and a plain row, two slots, with a failure, lost write, user command or crash anywhere, and one overtaken lease |
| `handshake` | `DecidedCompletionIsProved`, `RetryCountBounded`, `RetriesAreKept`, `KeepsPromise` | one file row, five upsets: worker, batch writer, reaper and idle passes in every order; `KeepsPromise` is the refinement of `WorkPromise` |
| `settles` | `EverythingSettles` | liveness with one running item, a channel of one, and a file FTS5 does not take |
| `overtaken` | `DecidedCompletionIsProved` | a disagreement of section 6 |
| `schedule` | `TypeOK`, `DeletesComeFirst`, `TopIsServed` | deletes, registrations, adds and scans that never cease to arrive: the order of deletes, the count of a turn, and an add of an active project is leased in the end |
| `starves` | `InactiveGetsATurn` | a disagreement of section 6 |
| `generations` | `TypeOK`, `OneGenerationPerBranch`, `RowsFollowDisk`, `VectorsFollowDisk`, `LinesFollowDisk` | two branches of a path, failures, crashes and overlapping handlers: a branch is in one row, and once the queue is empty tracked rows, points and lines follow the checkouts |
| `watching` | `TypeOK`, `IndexFollowsDisk` | three changes of a path with load, two failing statements anywhere, backoff, and a start or restart with its recovery and scan: the index follows, or a cause is on record |
| `released` | `GhostsLeave`, `EventsLeave` | liveness of the watcher: no event stays in it, and a file that stays away leaves the index |
| `branches` | `TypeOK`, `HeadFollowsTree`, `NoFabrication`, `AwayKept` | three branches, three moves, one scan: every order of git events, file events, items and re-keys, with moves between the read and the write of a handler, while nothing is amiss |
| `rekey` | `RekeyIsCertified` | a disagreement of section 6 |
| `idle` | `TypeOK`, `MirrorHeals`, `GhostsGo` | sweeps with pages of one over rows that come and go, two outages or losses |

### Bounds, and why they are enough

* Rows of different keys meet only in the slots, the channel and the batch. Two
  keys (`core`, `settles`) exercise those; the properties themselves speak of one
  row, so the deeper runs use one.
* Two slots: with one row that lets an overtaken item and its successor, or an
  old insert and a new one, be in memory together. `MaxConcurrent = 1` in
  `settles` makes items wait for each other.
* `ChanCap = 1` makes `send` block.
* `MaxRetries = FtsMaxRetries = 2`: a failure that is retried and a failure that
  is final. `MaxResurrections = 1`: one revival, one refusal.
* `MaxInserts = 2`: a row is deleted and inserted again while an old holder
  still addresses the first `queue_id`.
* `MaxUpsets` bounds failures, lost writes, crashes, edits and user commands:
  each violated property falls with one to three of them, and the five of
  `handshake` combine a failure with a crash, an edit and more.
* `MaxOverruns` bounds leases, retries and discards that happen to a row somebody
  holds. Properties about exclusive ownership are stated for `overruns = 0`, and
  a run allows one.

* `Cap` of three or four rows: the followed row, one that outranks it in each
  direction, and room for one more to arrive. A row that starves does so among
  three rows; `schedule` holds for every arrival pattern of that size.
* `BatchSize = MaxConcurrent = 2`, `HighBatch = 2`, `LowBatch = 1`: a turn of one
  batch, of several, and one that is overrun. `Ages = 2` are the query's classes.
* `MaxReturns = 1`: a row comes back once, at its old place. An item that came
  back for ever would be another source of endless arrivals.
* Two branches and two contents: a content shared by both, one of each, and a
  branch that leaves a shared one. `MaxEdits = 3` gives the shortest histories
  that matter: a file shared and then changed on one branch, or added, deleted
  and added again. `MaxFile = 4` is one row more than three
  edits insert. A shared file changed on both branches takes four. Where
  neither `raced` nor `lost update` has happened, all but `RowsFollowDisk` were
  checked with `MaxEdits = 4` and `MaxUpsets = 1` as well (3.9 million states,
  without an error); that instance is too slow to be kept as a run.
* In `generations` two handlers of the path may run at once as often as
  `MaxUpsets` allows, in place of failures. The constraint `Binding` does not follow
  a file that changed under its handler (`raced`) any further once something else
  has gone wrong too: of the properties only `TypeOK` speaks of such states. Any
  other mishap in `amiss` is followed up to a second failure, crash or overlap,
  whose state is still checked, and not beyond it.
* `ChanCap = 1` makes each change a batch of its own, `ChanCap = 2` lets two
  changes of one file meet in a batch.

* `watching`: one path, because paths meet only in the buffer and in the health of
  the watch. Two failures with two attempts use up an enqueue, or combine one failed
  attempt, recovery step or handler with another; thresholds of one and two reach
  backoff (`released` has the disabled watch, with a threshold of one).
  One path never overflows the buffer: that case rests on the proof, which has any
  number of paths. `StartFirst` lets the files change once at most while a start is
  not over, and once more for each restart: more changes there only repeat the loss
  of an unwatched one. `Undecided` does not follow a history in which the path has a
  cause on record and no restart can take it away. The two contents are symmetric.
  4.3 million states.
* `released` has two paths, so that a deferred event waits behind another, two
  changes, and one failure, which disables the watch at once. `LiveSpec` is
  `FairSpec` for a folder that is watched from the beginning.
* `branches`: three moves are a checkout, a change on the other branch and the way
  back; two contents are the two that a re-key can confuse; with three branches a
  checkout can be followed by another before its re-key is applied. What is amiss stays
  so and all but `TypeOK` speak of histories in which nothing is, so the constraint
  `Unharmed` follows no other; `TypeOK` is proved without it. 2.5 million states.
  The violation of `rekey` takes three moves and two branches; `RekeyOnly` follows no
  history with a mishap of another kind.
* `idle`: three rows of which two are there at the start, pages of one row, two
  upsets: a row that goes behind a page, one that comes after the last page, and
  an outage in the middle of a sweep.

Deadlock is checked in every run: `Quiet` (`Still` and `Rest` in the later modules)
is the only step of a finished system, and its guard says that no row is unsettled
and nobody holds one.

Each property has a mutant in `PROJECT.json`, a plausible mistake in a mapped
definition under which TLC finds the property violated.

### Fairness

`FairSpec` assumes weak fairness of the dequeue of a key, of each item, of the
batch writer, of the expiry of leases and of the reaper: these are loops of the
daemon that run as long as the process does (`loop_core.rs`, `run_dispatch_loop`,
`batch_writer::run`, `spawn_stale_lease_reaper`) and the clock. Nothing is
assumed of producers, users, idle passes, failures or crashes. Failures are
bounded by `MaxUpsets`: liveness says that a row settles once failures cease,
not that it does under failures for ever.

The scheduler's `FairSpec` assumes weak fairness of the poll loop, of the end of
some running item and of the clock. It assumes nothing of the refill, which the
code gives up under memory pressure, when Qdrant is away and after its window,
and nothing of producers: they may stop, or go on for ever.

The watcher's fairness: its task goes on (`WatcherTask`), a ripe event is taken by
some tick, which comes every 500 ms (strong fairness of `Tick(Ripe)`, because new
events may keep the select busy), starts and handlers go on, and the folder is
idle again and again, so that the reconcile runs. Nothing is assumed of the load,
of the end of a backoff, or of the files.

The sweeps' fairness: time passes, enqueued deletes are handled, an outage of
Qdrant or a shortage of memory ends, cooldowns end, and the poll loop runs a batch
when one can run. Files and points may go on changing until `MaxUpsets`.

## 4. Proofs

For every value of the constants that satisfies `ConstantsAssumption`:

* `TypesHold` (`Spec => []TypeOK`). `TypeOK` is inductive as it stands; its
  content beyond types is that an active slot has a key and that the batch
  writer never resolves past its batch. The proof splits it into parts that
  change together and shows each action preserves them.
* `OwnersAreSingle` (`Spec => []SingleOwner`). `SingleOwner` alone is not
  inductive: a second item appears when a row becomes available under its
  holder. `OwnerInv` adds that the row of every item in memory is *guarded* (it
  is settled, or its lease is ahead), so `CanLease` and `Stale` are false. The
  lemmas show that whatever statement a holder issues leaves a guarded row
  guarded (`Acts`, `GuardedStatements`, `GuardedFailure`: the back-off lease of
  a retry is what this rests on), and that the user's and the clock's steps
  count as an overrun when the row has a holder.
* `EffectsRunOnce` (`Spec => []SideEffectsOnce`). `EffectInv` adds that a row
  whose side effects ran is gone; an absent row stays absent until a new insert,
  which resets the count. No assumption about leases is needed: it holds under
  overtaken leases and lost writes.
* `RetriesAreBounded` (`Spec => []RetryCountBounded`). A failure is counted by a
  SELECT and an UPDATE, and an item that handed its search sink over has two actors
  that may count it. `SentInv` says how they stand to each other: an item waits for
  the batch writer at most once, and from then on only its endings are before it
  (`Late`). `RetryInv` counts what can still come (`Bound`): an open row is below
  `Limit`, the larger of the two limits; a row with one count still to come is at
  most at `Limit`, with two below it; and no count read before is higher than that.
* `CompletionIsProved` (`Spec => [](overruns = 0 /\ ~LostWrites =>
  DecidedCompletionIsProved)`). A sink is written at another moment than the work it
  stands for is done, and by another actor. `LeaseInv` says that the row of an item
  is in progress until the endings of the item begin. `PaidInv` says what a row may
  claim given what its work owes: a done sink means its part is done and a done row
  that nothing is owed (`RowPaid`), a sent row may not claim its search sink beforehand
  (`SearchPaid`), and at each await of the handler what it has done so far (`Duty`):
  a purge, for one, runs only while the Qdrant sink is pending. Both hypotheses are
  needed (section 6): TLC refutes the property without the first in `overtaken`.
* `RetriesKept` (`Spec /\ [](overruns = 0 /\ ~LostWrites) => RetriesAreKept`), from
  `PaidInv` and `DeleteInv`: whatever is written between a verdict and the delete
  that follows it, a decided row still there owes nothing.
* `PromiseKept` (`Spec /\ [](overruns = 0 /\ ~LostWrites) => KeepsPromise`): the
  refinement of `WorkPromise`, key by key. Apart from INSERT and
  `store_queue_decision`, which are `Ask` and `Analyse`, every statement is
  *bookkeeping*: it takes the row away or leaves the decision to it (`TaskBooks`,
  `WriterBooks`, `KeyBooks`, `DequeueBooks`). A change of the status is then `Close`,
  `Fail`, `Again` or `Repeat`, which `PaidInv` before and after the step justifies
  (`BooksPromise`), and a deletion is `Withdraw` or, once, `Complete`, by `EffectInv`
  and `DeleteInv` (`DeletionPromise`).

For every value of the constants that satisfies `SchedulerAssumption`:

* `SchedulerTypes` (`Spec => []TypeOK` of `FairnessScheduler`): besides the types,
  that the count of a turn stays below the limit of whichever direction is in
  force. It is inductive as it stands.
* `DeletesFirst` (`Spec => DeletesComeFirst`), from `SchedulerTypes`: only a batch
  takes rows (`NothingTaken`), and what it takes is put before what it leaves.

For every value of the constants that satisfies `BranchSwitchAssumption`:

* `SwitchTypes` (`Spec => []TypeOK` of `BranchSwitch`). `TypesInv` adds that an entry
  not read yet is one of git's, so that the watcher never sends an empty event; that a
  re-key in hand stays enqueued comes from `Frame`.
* `NoFabricationThm` (`Spec => []NoFabrication`). The index says something of a
  branch only through a handler or a re-key, so `FabricationInv` says what those
  hold while nothing is amiss (`Truthful`): an ingest in hand is for the branch that is
  checked out and has read the file that is there, a re-key has verified one generation,
  among what its branch had in the tree, and no branch is in two generations. The last
  part is needed because a re-key adds a tag without removing one.
* `HeadFollowsThm` (`Spec => []HeadFollowsTree`). Two watchers and a queue share the
  work, so `FollowInv` says where the file's way into the index is at each moment,
  while nothing is amiss. The branch checked out has the file's generation or an
  enqueued re-key that will find it there (`Promised`), or it is awaited (`Awaited`):
  the file's event is pending, an ingest is in the queue, or a checkout that left the
  file alone is not handled yet and the branch it left has that promise (`Coming`).
  That a checkout's event is not suppressed as a repeated one, and that events handled
  after a further checkout are noticed as such, is `Ordered`. The mishap `unapplied`
  came out of this proof: without it a promise is not enough for the branch that
  was left. That what an ingest in hand has read is what the file is still comes from
  `Truthful`; `Back` adds that a file which came back under a delete that had
  found none is awaited.
* `AwayKeptThm` (`Spec => []AwayKept`). `KeptInv` adds that nothing under way can
  touch a branch in `kept`: no delete, ingest or event names it, and a re-key that
  does would change nothing (`Untouched`).

For every value of the constants that satisfies `WatchHealthAssumption` and
`WatchingAssumption`:

* `TypeCorrect` (`Spec => []TypeOK` of `Watching`): among the types, that an enqueue
  never exceeds its attempts; from the operators of `WatchHealth`.
* `IndexFollowsThm` (`Spec => []IndexFollowsDisk`). `IndexFollowsDisk` speaks of
  quiet paths only. `FollowInv` says of every path without a recorded cause (`Held`)
  where its latest change is (`Known`): in the newest event, whose operation fits the
  file as it is (an older event may stand in another buffer, but then a newer one is
  behind it); in the attempt to enqueue; in a row not yet taken; in what a
  handler has read; or in the index. After a restart it may also be still to be
  judged or met (`Sought`): a tracked path is in `todo` and was not indexed anew since
  the list was read; one that is not tracked is before the scan, or the recovery has yet
  to ask for the scan. Three more parts
  make it inductive. `Current`: what a handler has read is what the file is still, or,
  of a delete, that there was a file or that there is one again. `Vouched`: a stamp
  that is the file's mtime vouches for the content that is indexed. `Back`: a file that
  came back under a delete which had found none is awaited. `Orderly` is what they share:
  between two selects the task has nothing in hand, and one handler of a path runs at a
  time. Each action passes all of it on (`FollowFrame`, and one lemma per action that
  moves something).

For every value of the constants that satisfies `IdleSweepsAssumption`:

* `SweepTypes` (`Spec => []TypeOK` of `IdleSweeps`): besides the types, that every
  id in use is below the next `file_id`. AUTOINCREMENT matters: an id that came
  back would put a new row behind the cursor.
* `MirrorHealsThm` (`Spec => MirrorHeals`). `SweptInv` says how far a sweep has
  come: up to the cursor no untouched row has a mirror without points, from the
  second phase on none has, and up to the cursor of the second phase the converse
  holds too. `PageLeavesNothingOut` is the fact about keyset pages it rests on: what
  qualifies and is not beyond the last row of a page is in the page, and an empty
  page means that nothing qualifies. It does not hold of pages by OFFSET.

The proofs rest on these assumptions, which TLC evaluates in every run.

For every value of the constants that satisfies `GenerationsAssumption`:

* `GenerationTypes` (`Spec => []TypeOK` of `Generations`). That a handler's row is
  taken is not inductive: the batch writer gives rows back without looking who holds
  them. `Flight` adds that an item in the channel or in the batch is there once and is
  in no handler.
* `OneGenerationThm` (`Spec => []OneGenerationPerBranch`). `GenerationInv` says, as long
  as neither named cause has occurred: no two rows have the same content
  (`Distinct`), a row's stamp vouches for its content (`Vouched`: it is the mtime of a
  checkout only if its content is that of the checkout), and of each handler at each
  await (`JobInv`): while it takes its branch out, the branch is in no other row
  (`Leaving`); from its look at the file to its entry into a row, the branch is in no row
  of another content (`Looking`), and what it enters is the content of the checkout
  (`Known`, `Target`). Two handlers of one branch make `Leaving` weaker, because the
  second may have entered the branch again (`Twins`); that is why `doubled` counts
  edits beside them as `raced`. `OthersStand` is the step that matters: whatever a
  handler does to the rows, what every other handler relies on stays true.

What a settled queue promises of a store is not inductive, because while rows are open
the stores may hold anything. The invariants of `GenerationStoresProofs` therefore say,
of what is not right yet, who will put it right. TLC checked each of them before its
proof on the instance of `generations`, those of the lines and the points also on one
that starts with three branches.

* `LinesFollowDiskThm` (`Spec => []LinesFollowDisk`). `Freed`: a row that its branch
  has outlived has an item that `Frees` it, by its handler or when it is taken up.
  `Covered`: of a row of the checkout's content, the lines and the branch set are
  written (`Written`), or an item `Writes` them: it is open, its handler is on the way to
  the search sink, or its change is in the channel or in a batch that has failed.
  `Cached`: what the cache claims of a row that is there has been written, so that
  agreeing with it is a reason to write nothing. `Sent`: a change on its way is of the
  content its row has, if the row is still there, which is what makes writing late and
  by `file_id` harmless; here, too, ids that never come back matter. The theorem needs
  no bound on overlaps: `LinesStep` shows that a handler's step leaves the other items'
  promises alone.
* `VectorsFollowDiskThm` (`Spec => []VectorsFollowDisk`). While nothing has happened
  but what a settled queue makes up for (`Calm`), one handler runs at a time
  (`Alone`), points that carry a tag exist (`TagsStored`), and each branch is as its
  checkout wants it (`Fine`) or an item `Mends` it. What makes it inductive is what a
  handler in the middle of its work is bound by (`Handled`): one that takes its branch
  out has read the set the row has, and somebody looks at the file again (`Releasing`);
  one that stores points overwrites none that are as they should be, unless they
  are of another chunker (`Storing`); one whose upsert has overwritten the tags holds
  every branch of the row (`Merging`). A crash in between leaves the row of another
  chunker, whose points are to be stored anew (`Excused`), or an open item
  for every branch of the row. The assumption that `Branches` is finite is needed where
  `BranchReconcile` counts them.
* `RowsFollowDiskThm` (`Spec => []RowsFollowDisk`), the part of it that survives
  overlapping handlers. That no branch stays in a row it has outlived is `Freed` of
  the lines' proof. The other half is `RowsInv`: a branch whose file is there is in a
  row, or an item of it is open and not taken up (`Awaited`), or a handler is on the way
  to enter it (`Tracks`). Of each handler (`Keeping`): it is the only one of its branch;
  if it takes the branch out although the file is there again, it goes on to the ingest
  or another item is `Awaited`; and a row it has looked up for `Track` still holds the
  branch. The two
  further exclusions are needed, TLC gives a counterexample without either: of two
  handlers of one branch (`doubled`) the slower may take out what the other has put in,
  and a done sink that vouches for a row that is gone (`sink without row`) ends an item
  that nothing else makes up for.

Every invariant and every safety property that a passing run checks is the statement of
one of these theorems. Only model-checked is the liveness.
Liveness (`EverythingSettles`,
`TopIsServed`, `GhostsLeave`, `EventsLeave`, `GhostsGo`) stays with TLC: fairness and
ENABLED are outside what the proof system handles, as are induction over data and
recursive operators, of which these modules have none.

## 5. Not modelled, and why

* What points, lines, chunks and the graph consist of; embedding and parsing.
  `UnifiedQueue` keeps whether a store holds the current generation,
  `Generations` which content it holds.
* A file that changes while a handler reads it: `EditFile` of `UnifiedQueue`
  excludes that moment. `Generations` has it, and its properties say nothing of
  what follows (`raced`); the next event of the file is left to repair it.
* Line-level diffs of `code_lines`, and the fall-back from a batch to single
  files: a change sets the lines of its file to the new content.
* The configuration and ignore rules as state: `PlainKeys` and `Unindexed` are
  constants.
* `RetryItem`'s select followed by an update, the batch enqueue, and the tenant
  purge as loops over rows: each is modelled for one row in one step. So are the
  idle passes: `resurrect_failed_transient` selects the failed rows and then updates
  each by `queue_id` without looking at its status again (`update.rs:62-131`), and
  triage deletes likewise. The loop that runs them leases nothing meanwhile, so that
  what may come in between is the user or the end of a batch, never a worker.
* Triage of file rows without sinks (`PlainKeys`): `triage.rs:74-78` drops failed file
  rows of either kind. `Discard`, which any row may meet, has that step.
* In `FairnessScheduler` a row in back-off stays leased.
* Files marked incremental (`set_incremental`, which `library_write_service.rs` calls):
  the watcher and the handler drop their deletes.
* In `Watching`: the root of the folder is there, `reconcile_modified_on_startup` has its
  default, true (`config/processing.rs:253`), of the scans there is only the one the
  recovery asks for, a change of a file gives it a new mtime, and the re-stamping of
  what the recovery found unchanged, one transaction at its end, is part of each
  judgement, with the failure of it. A row is only re-stamped while it has the
  hash that was compared, so that the delay costs at most one more read. `raced` is
  wider than it need be: a change after the stamp is taken, which is not absorbed by
  the row in hand, would be found.
* In `IdleSweeps` a file that is gone does not come back under its old row, so that the
  branch of `Delete` for a file on disk, which the code has, is not reached.
* The models are not composed. `Dequeue` of `UnifiedQueue` and `Take` of
  `Generations` take any row that may be leased, which includes every choice of
  the scheduler; the queue's own statements are abstracted in `Generations`.
* The scheduler with fairness disabled, and its functions without a caller
  (`dequeue_project_next_batch`, `reset`, `set_priority_direction`).
* `Watching` and `BranchSwitch` keep a row of the queue as pending or taken, and
  one handler of a path at a time, with one read of the file at its start; how two of
  them overlap, and the looks at the file of one of them, are in `Generations`.
* Of a bulk re-key the generations are tagged in one step; the code goes one by one
  and resumes. `GiveUpBulk` has every part of it.
* Pattern and ignore filters, new directories, half-open watches (only tests open
  one), the coordinator of watch capacities (nothing calls it).
* Branches that are checked out in linked worktrees only, or nowhere: their tips,
  their membership, and the prune of deleted branches.
* The deactivation of stale projects, grammars and language servers among the idle
  work.
* Components listed as `not_modelled` in `PROJECT.json`.

## 6. What the models say about the code

Violations, each a run of its own (quotations and lines in `PROJECT.json`):

* `overtaken`: a second worker leases the row of a slow first one; the first
  one's late sink write counts for the second's work.
* `starves`: the age class is compared before the activity of the project and in
  the direction of the pass. While items of active projects keep arriving and
  some of them have aged as well, the aged item of an inactive project comes
  first in neither pass.
* `rekey`: a bulk re-key is verified at the checkout and applied, by path and old
  branch, when its item is processed. A generation that joined the old branch in
  between, or one the new branch got of its own, is tagged wrongly.

Behaviours that shaped the specifications:

* A row without a stored decision is completed although a sink was never
  written, because the finalizer takes an unwritten sink as done. So completion
  is proved by the sinks only for a decided row.
* The retry skip looks at the snapshot taken by the dequeue, although the same
  attempt may have reset the sink. While no write is lost the row then stays open
  and is leased again. Where nothing was reset it may stay wrong: a done sink survives a
  crash, the row it stands for does not survive the delete that is dequeued first,
  and the file comes back before the add is retried (`sink without row`).
* The limit of a turn of the scheduler decides when the direction flips, not how
  many rows are asked for: with the defaults an ascending turn takes ten items
  and not three, so the two directions share the capacity evenly.
* `store_queue_decision` may fail, and the handler only logs it and goes on. So
  `DecidedCompletionIsProved` is checked where no write is lost
  (`LostWrites = FALSE`).
* The retry bookkeeping of a failed verdict is a second transaction
  (`batch_processing.rs:280`). A crash between the two leaves a failed row without
  a message, which no pass selects.
* The second of two finalizers that mark one failure overwrites the message of
  the first, its `[transient_fts5]` prefix included.
* A re-leased row is pending with the sinks of its previous attempt.
* A Qdrant sink left `failed` by an earlier attempt lets the batch writer see a
  failed verdict while the dedup path is about to write `done`. The row is then
  closed and opened again with no work owed; `WorkPromise` allows it (`Close`
  from failed, `Repeat`), and `RetriesAreKept` excuses it with `owed = {}`.
* A transient read error on the way to FTS5 is reported as skipped, and a file
  that becomes empty keeps the points of its old generation.
* The stamp of a row is taken after the embedding and kept beside the hash of the
  bytes read before it. An edit in between leaves a stamp that vouches for a
  content the row does not have, and the mtime shortcut
  (`core/tracked_files_schema/mtime.rs`) believes it: `raced`.
* A re-chunk decision and an edit before the dedup admit a branch to a second
  row: `raced` as well, and why `OneGenerationPerBranch` excludes it.
* Deduplication of a batch keeps the last change of a file, and with it one
  branch: the branch of the dropped one is missing from `file_metadata` until
  the next reconcile (`branch left out`, which `LinesFollowDisk` excludes).
* A crash between the upsert of shared points and the second tag write hides
  them from the other branches, as the comment in `store_track.rs` says.
* A tag may be left in Qdrant for a branch that has no row.
* `remove_branch_from_tracked_file` reads the branch set and writes it back without
  a transaction (`tracked_files_schema/operations.rs:394`). When both branches of a
  shared row change at once, the second write restores the branch the first one
  took out, and that branch is then in two rows for good (`lost update`), although
  "a branch names exactly ONE blob per path" (`operations.rs:178`, and
  `strategies/processing/file/delete.rs:63`). It takes four edits and one overlap,
  so the instance of `generations` does not show it. The strip that would clean up
  the older holder only logs by default.
* A delete that is slow to reach `search.db` takes the branch out of the branch set
  of the lines after a new add of the file has put it back (`branch left out`).
* With two handlers, a branch that joins a generation while another one is
  leaving it can be left with a row and no points; a delete that finds no tracked
  row sweeps the points another handler has stored and not yet tracked. So
  `VectorsFollowDisk` excludes `overlap`.
* A delete that is cut off between points and row leaves a hash that vouches for
  points that are gone, if the file has its old content again at the retry
  (`hash without points`).
* `BranchReconcile` looks at generations of two branches or more, and leaves points
  without any tag alone (`core/idle/tasks/branch_reconcile.rs`, the return on
  `qdrant.is_empty()`). Points whose merge was cut off stay hidden once only one branch
  is left, or once the branch that was merging has left (`Cut`). The second way takes
  three branches: row and points are shared by x, y and z, the merge for z is cut off,
  and the file goes on z. The attempt to prove `VectorsFollowDisk` showed it, where the
  run with its two branches had not; `Cut` had named the first way only.
* The recovery of a start does not wait for the watchers: what changes between the
  look at a path and the watch of its directory is seen by neither (`unwatched`).
* What the recovery of a start fails to do is logged and counted, and nobody comes back
  to it before the next start (`startup/recovery/mod.rs:272-277`, `375-381`, `443-449`,
  `463`): `unrecovered`. The comment at `mod.rs:410` calls it reconciliation of what
  changed while the daemon was down.
* A file moved in while the daemon is down keeps its mtime; when that is older than the
  last scan, the scan passes over it (`folder/file_entry.rs:92`), and the recovery looks
  at tracked files only (`pruned`). The membership reconcile behind the scan looks at
  tracked paths as well.
* A file renamed away arrives as a change of name, without a file, and is dropped
  (`renamed`); only the idle reconcile removes it.
* Events that arrive while a watch is in backoff or disabled are dropped, not
  deferred (`refused`). The count of errors is reset by three successes in a row
  only; a disabled watch stays so until its watcher is made anew, because nothing
  calls the half-open transition. `throttle.rs` calls overflow the only way an
  event is lost.
* The error window of a watch never decides anything. The doc comment of `record_error`
  says it "Implements circuit breaker pattern with both consecutive error and
  time-window thresholds" (`watching_queue/error_state.rs:78-79`), and that of
  `window_error_threshold` "Number of errors within the time window that triggers circuit
  breaker" (`error_types.rs:145`). But each error is counted in both, a reset clears
  both, and only the window also forgets by time; so the window never holds more than
  `consecutive_errors`, and its threshold, 50, is not reached before the other, 20. An
  error that successes interrupt stays in `consecutive_errors` unless there are three of
  them in a row, so that this count already is what the window is meant to be. With
  thresholds configured the other way round the window would decide;
  `WatchHealthAssumption` has them as they are by default.
* An edit while its handler is between reading and storing is absorbed by the row in hand
  and left to the file's next event (`raced` in `Watching` and `BranchSwitch`, too). A
  checkout in that window has the same effect, and since the branch is fixed before the
  bytes are read (`effective_ingest_branch`), it may also give the branch that was left
  the content of the other.
* Two moves of HEAD within 200 ms are one event, and the paths of the first are
  left to the file watcher (`coalesced`). An event handled after a further checkout
  compares with the tree of another branch (`late`).
* A path that the target branch holds in any generation is passed over at a
  checkout, although the generation may be stale (`passed`).
* A checkout looks for the unchanged paths among those the branch that was left is
  tagged with (`branch_switch/db.rs:42`). After two checkouts in quick succession the
  re-key of the first may still be in the queue: that branch is tagged with nothing,
  and the second checkout enqueues nothing (`unapplied`). A file that both checkouts
  leave alone is then missing on the branch until a scan reconciles its membership.
* The idempotency key of a file item has no branch: the delete of one branch
  absorbs that of another (`label`).
* `FilesystemReconcileTask` pages by OFFSET over rows whose deletion it causes, and
  skips as many; the next sweep finds them, which is why `GhostsGo` holds.
* A task that is parked in the middle of its sweep holds up the others.

## 7. Plan

Done: the queue, its abstract specification, the fairness scheduler, the stores
of one path (`Generations`), the watcher (`Watching`), checkouts (`BranchSwitch`),
the idle sweeps (`IdleSweeps`), and theorems for every invariant and every action
property of the runs (twenty-two in all).

Left, in this order:

1. The points under overlapping handlers: `RowsFollowDisk` is the part of
   `VectorsFollowDisk` that survives them; what they can do to tags and points, and
   what the reconcile repairs of it, would be a property of its own.
2. Linked worktrees and branch tips beside `BranchSwitch`; empty files and clones
   of a watch folder in `Generations`.
3. The circuit breaker, the embedding permits and the drain gate of a re-embed:
   small machines of their own.
4. The line diff of the batch processor against the reference that replaces the
   lines of a file, over bounded inputs, and its fall-back to single files.
