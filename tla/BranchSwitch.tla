----------------------------- MODULE BranchSwitch -----------------------------
(***************************************************************************)
(* One file of a project with one working tree, and its branches: how the   *)
(* index follows a checkout.  The git watcher reads the last entry of the    *)
(* reflog, the handler of its event re-keys what the two branches share and  *)
(* enqueues what they do not, the file watcher enqueues what a checkout      *)
(* rewrote, and an item is ingested under the branch that is checked out     *)
(* when it is processed.                                                     *)
(*                                                                         *)
(* Of a generation its branches are kept (see Generations).  Handlers of the *)
(* file do not overlap here, but a bulk re-key and the tree move beside them. *)
(***************************************************************************)
EXTENDS Naturals, Sequences, FiniteSets

CONSTANTS
  Branches, Contents,
  Gone,         \* no file
  MaxMoves,     \* bound: edits, commits, checkouts and resets
  MaxScans      \* bound: scans of the project

None == "none"

ASSUME BranchSwitchAssumption ==
  /\ Gone \notin Contents /\ None \notin Branches /\ MaxMoves \in Nat /\ MaxScans \in Nat

VARIABLES
  text,         \* what each commit holds
  tip,          \* the commit of each branch
  head, disk,
  reflog,       \* the last entry
  noticed,      \* the git watcher has read it
  sent,         \* last_emitted: commits and branch
  gitq,         \* events sent
  event,        \* the file watcher's pending event
  queue,        \* per operation the branch of its row
  job,          \* the handler of one of them, under its branch, with what it read
  bulks, bulk,  \* re-keys enqueued, and in hand
  scan,         \* the branch of an enqueued scan
  rows,         \* the branches of each generation
  moves, scans,
  had,          \* history: what the tree held while a branch was checked out
  kept,         \* history: branches left clean and in order
  amiss         \* history: what went wrong

Texts == Contents \cup {Gone}
Ops   == {"add", "update", "delete"}
Kinds == {"create", "modify", "remove"}
Commits == 1 .. Len(text)

Entry == [kind : {"switch", "commit", "reset"}, from : Branches, old : Commits, new : Commits]
Event == [kind : {"switch", "commit", "reset"}, from : Branches, old : Commits, new : Commits,
          branch : Branches]
NoEntry == [kind |-> None]
Job    == [op : Ops, branch : Branches, text : Texts]
NoJob  == [op |-> None]

\* seen: the generations of the old branch at the verification
Bulk   == [branch : Branches, from : Branches, seen : SUBSET Contents]
InHand == [key : Bulk, found : SUBSET Contents]
NoBulk == [found |-> {}]

\* The file or HEAD changed under a handler that had read it, or HEAD again before
\* an entry was read; an event was handled on another branch; a delete absorbed by
\* another branch's, a re-key by one in hand; a re-key of what was not verified; a
\* file passed over because the branch has it already, with another content; a file
\* looked for under the branch that was left before its own re-key was applied; a
\* failure
Amiss == {"raced", "coalesced", "late", "label", "absorbed", "rekey", "passed",
          "unapplied", "failed"}

checkout == <<text, tip, head, disk, had, kept>>
git      == <<reflog, noticed, sent, gitq>>
bulkwork == <<bulks, bulk>>
bounds   == <<moves, scans>>
vars == <<checkout, git, event, queue, job, bulkwork, scan, rows, bounds, amiss>>

TypeOK ==
  /\ text \in Seq(Texts) /\ tip \in [Branches -> Commits]
  /\ head \in Branches /\ disk \in Texts
  /\ reflog \in Entry \cup {NoEntry} /\ noticed \in BOOLEAN
  /\ sent \in [old : Nat, new : Nat, branch : Branches] /\ gitq \in Seq(Event)
  /\ event \in Kinds \cup {None}
  /\ queue \in [Ops -> Branches \cup {None}] /\ job \in Job \cup {NoJob}
  /\ bulks \subseteq Bulk /\ bulk \in InHand \cup {NoBulk}
  /\ scan \in Branches \cup {None}
  /\ rows \in [Contents -> SUBSET Branches]
  /\ moves \in Nat /\ scans \in Nat
  /\ had \in [Branches -> SUBSET Texts] /\ kept \subseteq Branches
  /\ amiss \subseteq Amiss
  /\ job # NoJob => queue[job.op] # None
  /\ bulk # NoBulk => bulk.key \in bulks

\* The checked-out branch is indexed, the others have never been seen
Init ==
  /\ text \in UNION {[1 .. n -> Texts] : n \in 1 .. 2}
  /\ tip \in [Branches -> Commits] /\ head \in Branches
  /\ disk = text[tip[head]]
  /\ reflog = NoEntry /\ noticed = TRUE /\ gitq = <<>>
  /\ sent = [old |-> 0, new |-> 0, branch |-> head]
  /\ event = None /\ queue = [o \in Ops |-> None] /\ job = NoJob
  /\ bulks = {} /\ bulk = NoBulk /\ scan = None
  /\ rows = [c \in Contents |-> IF c = disk THEN {head} ELSE {}]
  /\ moves = 0 /\ scans = 0
  /\ had = [b \in Branches |-> IF b = head THEN {disk} ELSE {}] /\ kept = {}
  /\ amiss = {}

-----------------------------------------------------------------------------
Holders(b) == {c \in Contents : b \in rows[c]}

Settled ==
  /\ noticed /\ gitq = <<>> /\ event = None /\ scan = None
  /\ (\A o \in Ops : queue[o] = None) /\ bulks = {}

Amend(flags) == amiss' = amiss \cup flags
If(p, flag)  == IF p THEN {flag} ELSE {}

-----------------------------------------------------------------------------
(* Git and the files *)

Move == moves < MaxMoves /\ moves' = moves + 1

\* The tree gets another content; the file watcher keeps the last event
Becomes(c) ==
  /\ disk' = c
  /\ event' = IF c = disk THEN event
              ELSE IF c = Gone THEN "remove" ELSE IF disk = Gone THEN "create" ELSE "modify"

Logged(e, flags) ==
  /\ reflog' = e /\ noticed' = FALSE
  /\ Amend(flags \cup If(~noticed, "coalesced"))
  /\ UNCHANGED <<sent, gitq>>

Ingesting == job # NoJob /\ job.op # "delete"

\* The content of before is stored with the mtime of after (store_track): a row that
\* the change leaves behind, or its own event, finds the file unchanged
Raced(c) == If(Ingesting /\ c # disk, "raced")

Edit(c) ==
  /\ Move /\ c # disk /\ Becomes(c)
  /\ had' = [had EXCEPT ![head] = @ \cup {c}]
  /\ Amend(Raced(c))
  /\ UNCHANGED <<text, tip, head, kept, git, queue, job, bulkwork, scan, rows, scans>>

Commit ==
  /\ Move /\ disk # text[tip[head]]
  /\ text' = Append(text, disk)
  /\ tip' = [tip EXCEPT ![head] = Len(text) + 1]
  /\ Logged([kind |-> "commit", from |-> head, old |-> tip[head], new |-> Len(text) + 1], {})
  /\ UNCHANGED <<head, disk, had, kept, event, queue, job, bulkwork, scan, rows, scans>>

Orderly(b) == Settled /\ disk = text[tip[b]] /\ Holders(b) = {disk} \ {Gone}

\* A clean tree is rewritten; a changed one is carried over to a branch whose
\* commit has the same file
Checkout(b) ==
  LET clean == disk = text[tip[head]]
      c     == IF clean THEN text[tip[b]] ELSE disk IN
  /\ Move /\ b # head /\ (clean \/ text[tip[b]] = text[tip[head]])
  /\ head' = b /\ Becomes(c)
  /\ had' = [had EXCEPT ![b] = @ \cup {c}]
  /\ kept' = (IF Orderly(head) THEN kept \cup {head} ELSE kept) \ {b}
  /\ Logged([kind |-> "switch", from |-> head, old |-> tip[head], new |-> tip[b]],
            If(Ingesting, "raced"))
  /\ UNCHANGED <<text, tip, queue, job, bulkwork, scan, rows, scans>>

\* reset --hard
Reset(n) ==
  /\ Move /\ n # tip[head]
  /\ tip' = [tip EXCEPT ![head] = n]
  /\ Becomes(text[n])
  /\ had' = [had EXCEPT ![head] = @ \cup {text[n]}]
  /\ Logged([kind |-> "reset", from |-> head, old |-> tip[head], new |-> n],
            Raced(text[n]))
  /\ UNCHANGED <<text, head, kept, queue, job, bulkwork, scan, rows, scans>>

-----------------------------------------------------------------------------
(* Into the queue *)

\* The key names path and operation, not the branch
Enqueue(op, b, flags) ==
  /\ queue' = IF queue[op] = None THEN [queue EXCEPT ![op] = b] ELSE queue
  /\ Amend(flags \cup If(op = "delete" /\ queue[op] \notin {None, b}, "label"))

\* process_events: 200 ms after a change of .git the last entry is read, and an
\* event like the one before is not sent
Notice ==
  LET now == [old |-> reflog.old, new |-> reflog.new, branch |-> head] IN
  /\ ~noticed /\ noticed' = TRUE
  /\ sent' = now
  /\ gitq' = IF now = sent THEN gitq
             ELSE Append(gitq, [kind |-> reflog.kind, from |-> reflog.from, old |-> reflog.old,
                                new |-> reflog.new, branch |-> head])
  /\ UNCHANGED <<checkout, reflog, event, queue, job, bulkwork, scan, rows, bounds, amiss>>

\* No entry that can be parsed, or the receiver is gone
NoticeFails ==
  /\ ~noticed /\ noticed' = TRUE /\ Amend({"failed"})
  /\ UNCHANGED <<checkout, reflog, sent, gitq, event, queue, job, bulkwork, scan, rows,
                 bounds>>

Changed(e) == text[e.old] # text[e.new]
Late(e)    == If(e.branch # head, "late")
Passed(e)  == If(disk # Gone /\ Holders(e.branch) \ {disk} # {}, "passed")
Waiting(e) == If(\E u \in bulks : u.branch = e.from, "unapplied")

HandleGit(e) ==
  /\ gitq # <<>> /\ e = Head(gitq) /\ gitq' = Tail(gitq)
  /\ UNCHANGED <<checkout, reflog, noticed, sent, event, job, bulk, rows, bounds>>

\* enqueue_changed_file
GitChanged(e) ==
  /\ HandleGit(e) /\ e.kind # "reset" /\ Changed(e)
  /\ Enqueue(IF text[e.old] = Gone THEN "add" ELSE IF text[e.new] = Gone THEN "delete"
             ELSE "update", e.branch, Late(e))
  /\ UNCHANGED <<bulks, scan>>

\* fetch_unchanged_paths: generations of the old branch, if the new one has none
Shared(e) == IF Holders(e.branch) = {} THEN Holders(e.from) ELSE {}

\* The payload is the key, without seen
Rekey(e) ==
  LET same == {u \in bulks : u.branch = e.branch /\ u.from = e.from}
      u    == [branch |-> e.branch, from |-> e.from, seen |-> Shared(e)] IN
  bulks' = IF \E s \in same : bulk # NoBulk /\ bulk.key = s THEN bulks
           ELSE (bulks \ same) \cup {u}

\* Mutant: without the check against the disk
GitUnchangedMutant(e) ==
  /\ HandleGit(e) /\ e.kind = "switch" /\ ~Changed(e)
  /\ IF disk # Gone /\ Shared(e) # {} THEN Rekey(e) ELSE UNCHANGED bulks
  /\ Amend(Late(e) \cup Passed(e) \cup Waiting(e)) /\ UNCHANGED <<queue, scan>>

\* enqueue_unchanged_files: what is on disk is re-keyed in bulk, or ingested if its
\* chunks are stale, another content is ingested, and a missing file left alone
GitUnchanged(e) ==
  LET busy   == bulk # NoBulk /\ bulk.key.branch = e.branch /\ bulk.key.from = e.from
      same   == disk # Gone /\ disk \in Shared(e)
      others == disk # Gone /\ Shared(e) \ {disk} # {} IN
  /\ HandleGit(e) /\ e.kind = "switch" /\ ~Changed(e)
  /\ \E stale \in BOOLEAN :
       /\ IF same /\ ~stale THEN Rekey(e) ELSE UNCHANGED bulks
       /\ IF others \/ (same /\ stale)
          THEN Enqueue("add", e.branch, Late(e))
          ELSE /\ Amend(Late(e) \cup Passed(e) \cup Waiting(e) \cup If(busy, "absorbed"))
               /\ UNCHANGED queue
  /\ UNCHANGED scan

GitIgnored(e) ==
  /\ HandleGit(e) /\ e.kind = "commit" /\ ~Changed(e)
  /\ Amend(Late(e)) /\ UNCHANGED <<queue, bulks, scan>>

Scan == scan' = IF scan = None THEN head ELSE scan

GitReset(e) ==
  /\ HandleGit(e) /\ e.kind = "reset"
  /\ Scan
  /\ Amend(Late(e)) /\ UNCHANGED <<queue, bulks>>

\* What fails in a handler, the diff, a query, a hash, an enqueue, is only logged
GitFails(e) ==
  /\ HandleGit(e) /\ Amend({"failed"})
  /\ UNCHANGED <<queue, bulks, scan>>

\* enqueue_file_operation, under the branch checked out now
HandleFs ==
  /\ event # None /\ event' = None
  /\ IF event # "remove" /\ disk = Gone THEN UNCHANGED <<queue, amiss>>
     ELSE Enqueue(IF event = "create" THEN "add" ELSE IF event = "remove" THEN "delete"
                  ELSE "update", head, {})
  /\ UNCHANGED <<checkout, git, job, bulkwork, scan, rows, bounds>>

FsFails ==
  /\ event # None /\ event' = None /\ Amend({"failed"})
  /\ UNCHANGED <<checkout, git, queue, job, bulkwork, scan, rows, bounds>>

\* A scan from outside: a start, a command
AskScan ==
  /\ scans < MaxScans /\ scans' = scans + 1
  /\ scan = None /\ Scan
  /\ UNCHANGED <<checkout, git, event, queue, job, bulkwork, rows, moves, amiss>>

\* reconcile_branch_membership: a file on disk that its branch does not hold.  The
\* scan before it may enqueue the file too, if its mtime is new.
RunScan ==
  LET missing == Holders(scan) = {} /\ \E c \in Contents : rows[c] # {} IN
  /\ scan # None /\ scan' = None
  /\ \/ disk # Gone /\ Enqueue("add", scan, {})
     \/ (disk = Gone \/ ~missing) /\ UNCHANGED <<queue, amiss>>
  /\ UNCHANGED <<checkout, git, event, job, bulkwork, rows, bounds>>

ScanFails ==
  /\ scan # None /\ scan' = None /\ Amend({"failed"})
  /\ UNCHANGED <<checkout, git, event, queue, job, bulkwork, rows, bounds>>

\* FilesystemReconcileTask, when the queue is idle
Sweep ==
  /\ (\A o \in Ops : queue[o] = None) /\ bulks = {} /\ scan = None
  /\ disk = Gone /\ Holders(head) # {}
  /\ Enqueue("delete", head, {})
  /\ UNCHANGED <<checkout, git, event, job, bulkwork, scan, rows, bounds>>

-----------------------------------------------------------------------------
(* Out of the queue *)

\* Mutant: the branch of the event
TakeMutant(op) ==
  /\ job = NoJob /\ queue[op] # None
  /\ job' = [op |-> op, branch |-> queue[op], text |-> disk]
  /\ UNCHANGED <<checkout, git, event, queue, bulkwork, scan, rows, bounds, amiss>>

\* effective_ingest_branch: an ingest is for the branch that is checked out now, a
\* delete for the branch it was enqueued for.  The file is looked at, or read.
Take(op) ==
  /\ job = NoJob /\ queue[op] # None
  /\ job' = [op |-> op, branch |-> IF op = "delete" THEN queue[op] ELSE head,
             text |-> disk]
  /\ UNCHANGED <<checkout, git, event, queue, bulkwork, scan, rows, bounds, amiss>>

\* lookup_tracked_file: one row that has the branch, if there is one
Found(b)    == IF Holders(b) = {} THEN {Gone} ELSE Holders(b)
Strip(d, b) == [c \in Contents |-> IF c = d THEN rows[c] \ {b} ELSE rows[c]]

Finished ==
  /\ job # NoJob /\ job' = NoJob
  /\ queue' = [queue EXCEPT ![job.op] = None]
  /\ UNCHANGED <<checkout, git, event, bulkwork, scan, bounds>>

\* Mutant: the file is gone from the index
FinishDeleteMutant ==
  /\ Finished /\ job.op = "delete" /\ UNCHANGED amiss
  /\ rows' = IF job.text # Gone \/ Holders(job.branch) = {} THEN rows
             ELSE [c \in Contents |-> {}]

\* process_file_delete: stale if there was a file; else the row that is found loses
\* the tag, and what strip_shadowed_holders finds beside it is only logged
FinishDelete ==
  /\ Finished /\ job.op = "delete" /\ UNCHANGED amiss
  /\ \E held \in Found(job.branch) :
       rows' = IF job.text # Gone THEN rows ELSE Strip(held, job.branch)

\* Mutant: the row leaves the queue with its handler's first step
FinishIngestMutant ==
  /\ job # NoJob /\ job.op # "delete" /\ queue[job.op] # None
  /\ queue' = [queue EXCEPT ![job.op] = None]
  /\ UNCHANGED <<checkout, git, event, job, bulkwork, scan, rows, bounds, amiss>>

\* The row that is found is compared with the file, and left for its generation
FinishIngest ==
  /\ Finished /\ job.op # "delete" /\ UNCHANGED amiss
  /\ \E held \in Found(job.branch) :
       rows' = IF held = job.text THEN rows
               ELSE [c \in Contents |-> IF c = job.text THEN rows[c] \cup {job.branch}
                                        ELSE Strip(held, job.branch)[c]]

\* The handler fails for good, before or after the tag is taken off
GiveUp ==
  /\ Finished /\ Amend({"failed"})
  /\ \E held \in {Gone} \cup Found(job.branch) : rows' = Strip(held, job.branch)

\* select_branch_bulk_candidates: per generation, with what the rows say now
TakeBulk(u) ==
  /\ bulk = NoBulk
  /\ bulk' = [key |-> u, found |-> {c \in Holders(u.from) : u.branch \notin rows[c]}]
  /\ UNCHANGED <<checkout, git, event, queue, job, bulks, scan, rows, bounds, amiss>>

\* add_branch_to_base_point and persist_branch_tag_for_base_points, of the
\* generations still there
Tag(tags, flags) ==
  /\ bulk # NoBulk
  /\ rows' = [c \in Contents |-> IF c \in tags THEN rows[c] \cup {bulk.key.branch}
                                ELSE rows[c]]
  /\ Amend(flags) /\ bulks' = bulks \ {bulk.key} /\ bulk' = NoBulk
  /\ UNCHANGED <<checkout, git, event, queue, job, scan, bounds>>

Tagged == {c \in bulk.found : rows[c] # {}}

FinishBulk ==
  Tag(Tagged, If(\E c \in Tagged : \/ c \notin bulk.key.seen
                                  \/ Holders(bulk.key.branch) \ {c} # {}, "rekey"))

GiveUpBulk == \E tags \in SUBSET Tagged : Tag(tags, {"failed"})

Rest == Settled /\ UNCHANGED vars

Next ==
  \/ \E c \in Texts : Edit(c)
  \/ Commit \/ \E b \in Branches : Checkout(b) \/ \E n \in Commits : Reset(n)
  \/ Notice \/ NoticeFails \/ HandleFs \/ FsFails
  \/ AskScan \/ RunScan \/ ScanFails \/ Sweep
  \/ \E e \in {gitq[n] : n \in 1 .. Len(gitq)} :
       GitChanged(e) \/ GitUnchanged(e) \/ GitIgnored(e) \/ GitReset(e)
       \/ GitFails(e)
  \/ \E op \in Ops : Take(op)
  \/ FinishDelete \/ FinishIngest \/ GiveUp
  \/ \E u \in bulks : TakeBulk(u)
  \/ FinishBulk \/ GiveUpBulk
  \/ Rest

Spec == Init /\ [][Next]_vars

-----------------------------------------------------------------------------
(* Properties *)

\* When everything a checkout, a commit or an edit set off is done, the file is
\* indexed on the branch that is checked out with the content of the tree, and with
\* no other, whatever was left pending over the checkout.
HeadFollowsTree ==
  Settled /\ amiss = {} /\ disk # Gone => Holders(head) = {disk}

\* The index never says of a branch a content that the tree never had on it.
NothingMadeUp(flags) ==
  amiss \subseteq flags => \A b \in Branches : Holders(b) \subseteq had[b]
NoFabrication == NothingMadeUp({})

\* A branch that was left clean and in order stays indexed with its own commit,
\* whatever is edited, removed or ingested on the branches checked out after it.
AwayKept ==
  amiss = {} => \A b \in kept : Holders(b) = {text[tip[b]]} \ {Gone}

\* A re-key "certifies exactly ONE generation" (project.rs): with no other mishap
\* than a late re-key, a branch has only contents it had in the tree.
RekeyIsCertified == NothingMadeUp({"rekey"})
=============================================================================
