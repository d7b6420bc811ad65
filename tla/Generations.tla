----------------------------- MODULE Generations -----------------------------
(***************************************************************************)
(* What the daemon keeps about ONE path of one watch folder, in four        *)
(* stores that share no transaction: `tracked_files` and `indexed_content`  *)
(* in state.db, the points in Qdrant, the lines and their branch sets in    *)
(* search.db.  Each branch has a checkout of its own.  A content the path   *)
(* has on some branch is a generation: one tracked row, one set of points   *)
(* and one set of lines, shared by the branches that hold it.               *)
(*                                                                         *)
(* Adds, updates and deletes of the path on a branch are three queue rows.  *)
(* Of the queue only what ties the stores together is kept: whether a row   *)
(* is open and taken, its Qdrant sink and its decision (see UnifiedQueue).   *)
(*                                                                         *)
(* One action is one statement, transaction or call, with the in-memory     *)
(* step around it.  Every mtime is fresh: no two writes share a stamp.      *)
(***************************************************************************)
EXTENDS Naturals, FiniteSets, Sequences

CONSTANTS
  Branches, Contents,
  Gone,            \* no file, no lines
  MaxConcurrent,   \* handlers of this path at once
  ChanCap,         \* FTS5_CHANNEL_CAPACITY
  MaxFile,         \* bound: rows of tracked_files ever inserted
  MaxEdits,        \* bound: changes of a checkout
  MaxUpsets        \* bound: failures and crashes

ASSUME GenerationsAssumption ==
  /\ IsFiniteSet(Branches) /\ Gone \notin Contents
  /\ MaxConcurrent \in Nat \ {0} /\ ChanCap \in Nat \ {0}
  /\ MaxFile \in Nat /\ MaxEdits \in Nat /\ MaxUpsets \in Nat

VARIABLES
  disk, mtime,    \* the path in each checkout
  rows,           \* tracked_files of the path
  recent,         \* its rows, the latest updated_at first
  fresh,          \* the next file_id: AUTOINCREMENT never reuses one
  stored, tags,   \* Qdrant: contents that have points, their branch arrays
  lines, meta,    \* search.db: code_lines, file_metadata.branches
  cache,          \* indexed_content: what code_lines is believed to hold
  queue, jobs,    \* the queue rows, and their handlers
  chan, batch,    \* the FTS5 channel, the batch being concluded
  edits, upsets,
  amiss           \* history: what has happened that the code makes no
                  \* provision for

Ops   == {"add", "update", "delete"}
Items == [branch : Branches, op : Ops]
Files == 1 .. MaxFile
NoFile == 0
\* The file changed under a handler; two handlers of the path ran at once, or two
\* of one branch; a branch set was written back over a change made since it was
\* read; a row vouched for points that are gone; a done sink vouched for a row that
\* is gone; a crash between the upsert that overwrites a branch array and the call
\* that puts the other branches back, and that a reconcile has gone over it since;
\* a branch whose lines were there already or were written for another branch, or
\* that left their branch set after it was back in the row
Amiss == {"raced", "overlap", "doubled", "lost update", "hash without points",
          "sink without row", "merge cut off", "reconciled", "branch left out"}
Texts == Contents \cup {Gone}

Generation == [hash : Texts, stamp : Nat, branches : SUBSET Branches,
               chunker : BOOLEAN]    \* its fingerprint is the current one
NoGeneration == [hash |-> Gone, stamp |-> 0, branches |-> {}, chunker |-> TRUE]

QueueRow == [state : {"none", "pending", "taken"},
             qdrant : BOOLEAN,       \* qdrant_status = 'done'
             decided : BOOLEAN]
NoItem == [state |-> "none", qdrant |-> FALSE, decided |-> FALSE]

PCs == {"idle", "unpoint", "unhold", "unline", "dedup", "share",
        "sharesend", "embed", "upsert", "merge", "track", "search", "research"}
Job == [pc : PCs, snap : BOOLEAN, hash : Texts, file : Nat,
        seen : SUBSET Branches, ingest : BOOLEAN]
Idle == [pc |-> "idle", snap |-> FALSE, hash |-> Gone, file |-> NoFile,
         seen |-> {}, ingest |-> FALSE]

Work == [item : Items, file : Files, text : Contents]

checkout == <<disk, mtime, edits>>
table    == <<rows, recent, fresh>>
qdrant   == <<stored, tags>>
search   == <<lines, meta>>
handover == <<chan, batch>>
vars == <<checkout, table, qdrant, search, cache, queue, jobs, handover, upsets,
          amiss>>

TypeOK ==
  /\ disk \in [Branches -> Texts] /\ mtime \in [Branches -> Nat]
  /\ rows \in [Files -> Generation]
  /\ recent \in Seq(Files) /\ fresh \in Nat \ {0}
  /\ stored \subseteq Contents /\ tags \in [Contents -> SUBSET Branches]
  /\ lines \in [Files -> Texts] /\ meta \in [Files -> SUBSET Branches]
  /\ cache \in [Files -> Texts]
  /\ queue \in [Items -> QueueRow] /\ jobs \in [Items -> Job]
  /\ chan \in Seq(Work)
  /\ batch \in [ok : BOOLEAN, works : Seq(Work)]
  /\ edits \in Nat /\ upsets \in Nat /\ amiss \subseteq Amiss
  /\ \A i \in Items : jobs[i].pc # "idle" => queue[i].state = "taken"

Init ==
  /\ disk = [b \in Branches |-> Gone] /\ mtime = [b \in Branches |-> 0]
  /\ rows = [f \in Files |-> NoGeneration] /\ recent = <<>> /\ fresh = 1
  /\ stored = {} /\ tags = [c \in Contents |-> {}]
  /\ lines = [f \in Files |-> Gone] /\ meta = [f \in Files |-> {}]
  /\ cache = [f \in Files |-> Gone]
  /\ queue = [i \in Items |-> NoItem] /\ jobs = [i \in Items |-> Idle]
  /\ chan = <<>> /\ batch = [ok |-> TRUE, works |-> <<>>]
  /\ edits = 0 /\ upsets = 0 /\ amiss = {}

-----------------------------------------------------------------------------
(* The tracked rows *)

Live == {f \in Files : rows[f].branches # {}}

Listed(S) == {n \in 1 .. Len(recent) : recent[n] \in S}

\* recent without the row f
Others(f) == IF Listed({f}) = {} THEN recent
             ELSE LET n == CHOOSE n \in Listed({f}) : TRUE
                  IN  SubSeq(recent, 1, n - 1) \o SubSeq(recent, n + 1, Len(recent))

\* lookup_tracked_file: the newest row whose set holds the branch
Holder(b) == LET held == Listed({f \in Files : b \in rows[f].branches})
             IN  IF held = {} THEN NoFile
                 ELSE recent[CHOOSE n \in held : \A m \in held : n <= m]

\* UNIQUE (watch_folder_id, relative_path, file_hash)
RowOf(h) == {f \in Live : rows[f].hash = h}

Save(f, g) == /\ rows' = [rows EXCEPT ![f] = g]
              /\ recent' = <<f>> \o Others(f)

\* Mutant: the file_id of a deleted row is used again
AdmitMutant(b, h, stamp, f) ==
  LET is == IF f \in Live THEN rows[f].branches ELSE {} IN
  /\ IF RowOf(h) # {} THEN f \in RowOf(h) ELSE f \notin Live /\ f <= Len(recent) + 1
  /\ UNCHANGED fresh
  /\ Save(f, [hash |-> h, stamp |-> stamp, branches |-> is \cup {b},
              chunker |-> TRUE])

\* insert_tracked_file_tx: merge the branch into the content's row, or insert
Admit(b, h, stamp, f) ==
  LET is == IF f \in Live THEN rows[f].branches ELSE {} IN
  /\ IF RowOf(h) # {} THEN f \in RowOf(h) /\ UNCHANGED fresh
                      ELSE f = fresh /\ f \in Files /\ fresh' = fresh + 1
  /\ Save(f, [hash |-> h, stamp |-> stamp, branches |-> is \cup {b},
              chunker |-> TRUE])

\* Qdrant finds the content on the branch
Shows(h, b) == h \in stored /\ b \in tags[h]

\* get_file_mtime, and what is written when there is no file any more
Stamp(b) == IF disk[b] = Gone THEN 0 ELSE mtime[b]

\* content_hash_reusing_mtime: a row of the path, of any branch, that carries
\* the file's present mtime answers for its content
HashRead(b) ==
  LET same == {f \in Live : rows[f].stamp = mtime[b]} IN
  IF same = {} THEN {disk[b]} ELSE {rows[f].hash : f \in same}

-----------------------------------------------------------------------------
(* Queue rows and handlers *)

At(i, pc) == jobs[i].pc = pc
To(i, pc) == jobs' = [jobs EXCEPT ![i].pc = pc]
Upset     == upsets < MaxUpsets /\ upsets' = upsets + 1

Retry(r) == [r EXCEPT !.state = "pending", !.qdrant = FALSE]

\* Mutant: the row goes while its handler goes on
CloseMutant(i) == queue' = [queue EXCEPT ![i] = NoItem] /\ UNCHANGED jobs

Close(i) == /\ queue' = [queue EXCEPT ![i] = NoItem]
            /\ jobs' = [jobs EXCEPT ![i] = Idle]

\* The handler returns with its search sink done: without a decision the
\* Qdrant sink is taken as done, with one it has to be
Finish(i) == IF queue[i].qdrant \/ ~queue[i].decided THEN Close(i)
             ELSE /\ queue' = [queue EXCEPT ![i].state = "pending"]
                  /\ jobs' = [jobs EXCEPT ![i] = Idle]

\* The handler returns with its search sink in the batch writer's hands
Send(i, f, text, done) ==
  /\ Len(chan) < ChanCap
  /\ chan' = Append(chan, [item |-> i, file |-> f, text |-> text])
  /\ queue' = [queue EXCEPT ![i].qdrant = done \/ @ \/ ~queue[i].decided]
  /\ jobs' = [jobs EXCEPT ![i] = Idle]

\* A handler of the branch is between its first and its last look at the file.
\* One that is taking the branch out of its old row has yet to look again, and
\* finds the branch in no row if it was the only handler of the branch.
InHand(b) == \E o \in Ops : LET pc == jobs[[branch |-> b, op |-> o]].pc IN
  pc # "idle" /\ (pc \in {"unpoint", "unhold", "unline"} => "doubled" \in amiss)

\* The file changes; the event is absorbed by an open row of its key
Edit(b, c) ==
  LET op == IF disk[b] = Gone THEN "add" ELSE IF c = Gone THEN "delete" ELSE "update"
      i  == [branch |-> b, op |-> op] IN
  /\ edits < MaxEdits /\ c # disk[b]
  /\ edits' = edits + 1
  /\ disk' = [disk EXCEPT ![b] = c] /\ mtime' = [mtime EXCEPT ![b] = edits + 1]
  /\ queue' = IF queue[i].state = "none"
              THEN [queue EXCEPT ![i].state = "pending"] ELSE queue
  /\ amiss' = IF InHand(b) \/ queue[i].state = "taken" THEN amiss \cup {"raced"} ELSE amiss
  /\ UNCHANGED <<table, qdrant, search, cache, jobs, handover, upsets>>

\* The item is leased, and its handler takes its first look at row and file
Take(i, more) ==
  LET busy == \E j \in Items : ~At(j, "idle")
      twin == \E j \in Items : ~At(j, "idle") /\ j.branch = i.branch IN
  /\ queue[i].state = "pending"
  /\ Cardinality({j \in Items : ~At(j, "idle")}) < MaxConcurrent
  /\ IF busy THEN Upset ELSE UNCHANGED upsets
  /\ amiss' = amiss \cup more \cup (IF busy THEN {"overlap"} ELSE {})
                         \cup (IF twin THEN {"doubled"} ELSE {})

Taken(i) == [queue EXCEPT ![i].state = "taken"]

-----------------------------------------------------------------------------
(* Before the ingest: what becomes of the generation the branch held *)

outside == <<checkout, handover, upsets, amiss>>

\* The snapshot of the dequeue says whether Qdrant needs any work
Ingest(i, snap) ==
  jobs' = [jobs EXCEPT ![i] = [Idle EXCEPT !.snap = snap,
                 !.pc = IF snap THEN "research" ELSE "dedup"]]

\* delete_tracked_file on a row f as it was looked up; ingest: what follows
Release(i, f, ingest) ==
  jobs' = [jobs EXCEPT ![i] = [pc |-> "unpoint", file |-> f, hash |-> rows[f].hash,
                 seen |-> rows[f].branches, snap |-> queue[i].qdrant,
                 ingest |-> ingest]]

\* delete_points_by_filter matches the path: the points of every generation
Sweep == stored' = {} /\ tags' = [c \in Contents |-> {}]

Ingests(i) == Take(i, {}) /\ i.op # "delete"

\* The newest holder is of the file's content, or of another
SameContent(i) == rows[Holder(i.branch)].hash \in HashRead(i.branch)
NewContent(i)  == \E h \in HashRead(i.branch) : rows[Holder(i.branch)].hash # h
Held(i)        == disk[i.branch] # Gone /\ Holder(i.branch) # NoFile

unread == <<checkout, table, qdrant, search, cache, handover>>

\* handle_missing_file
PrepareMissing(i) ==
  LET f == Holder(i.branch) IN
  /\ Ingests(i) /\ disk[i.branch] = Gone
  /\ IF f = NoFile THEN Close(i) ELSE Release(i, f, FALSE) /\ queue' = Taken(i)
  /\ UNCHANGED unread

\* prepare_update, by what the newest holder and the hash say
PrepareSkip(i) ==
  LET f == Holder(i.branch) IN
  /\ i.op # "delete" /\ Held(i) /\ SameContent(i) /\ rows[f].chunker
  /\ Take(i, IF Shows(rows[f].hash, i.branch) THEN {} ELSE {"hash without points"})
  /\ queue' = [Taken(i) EXCEPT ![i].qdrant = TRUE]
  /\ Ingest(i, TRUE)
  /\ UNCHANGED unread

Decides(i) == queue' = [Taken(i) EXCEPT ![i].decided = TRUE, ![i].qdrant = FALSE]

PrepareRechunk(i) ==
  /\ Ingests(i) /\ Held(i) /\ SameContent(i) /\ ~rows[Holder(i.branch)].chunker
  /\ Decides(i) /\ Ingest(i, queue[i].qdrant)
  /\ UNCHANGED unread

\* Mutant: the old generation is left to a later cleanup
PrepareChangeMutant(i) ==
  /\ Ingests(i) /\ Held(i) /\ NewContent(i)
  /\ Decides(i) /\ Ingest(i, queue[i].qdrant)
  /\ UNCHANGED unread

PrepareChange(i) ==
  /\ Ingests(i) /\ Held(i) /\ NewContent(i)
  /\ Decides(i) /\ Release(i, Holder(i.branch), TRUE)
  /\ UNCHANGED unread

PrepareUntracked(i) ==
  /\ Ingests(i) /\ disk[i.branch] # Gone /\ Holder(i.branch) = NoFile
  /\ IF i.op = "update" /\ recent = <<>> THEN Sweep ELSE UNCHANGED qdrant
  /\ queue' = Taken(i) /\ Ingest(i, queue[i].qdrant)
  /\ UNCHANGED <<checkout, table, search, cache, handover>>

\* Mutant: a delete is carried out although the file is there again
PrepareDeleteMutant(i) ==
  LET f == Holder(i.branch) IN
  /\ i.op = "delete" /\ Take(i, {})
  /\ IF f # NoFile
     THEN Release(i, f, FALSE) /\ queue' = Taken(i) /\ UNCHANGED qdrant
     ELSE Close(i) /\ IF recent = <<>> THEN Sweep ELSE UNCHANGED qdrant
  /\ UNCHANGED <<checkout, table, search, cache, handover>>

\* process_file_delete: a stale event, a holder, only other generations, none
PrepareDelete(i) ==
  LET f == Holder(i.branch) IN
  /\ i.op = "delete" /\ Take(i, {})
  /\ IF disk[i.branch] = Gone /\ f # NoFile
     THEN Release(i, f, FALSE) /\ queue' = Taken(i) /\ UNCHANGED qdrant
     ELSE /\ Close(i)
          /\ IF disk[i.branch] = Gone /\ recent = <<>> THEN Sweep
                                                       ELSE UNCHANGED qdrant
  /\ UNCHANGED <<checkout, table, search, cache, handover>>

\* The last tag takes the points along, by the ids mirrored for the row; any
\* other tag is dropped from their array.  Then the row's set is read again.
Unpoint(i) ==
  LET j == jobs[i]
      h == rows[j.file].hash IN
  /\ At(i, "unpoint")
  /\ IF j.seen \subseteq {i.branch}
     THEN stored' = stored \ {h}
          /\ tags' = [c \in Contents |-> IF c = h THEN {} ELSE tags[c]]
     ELSE tags' = [tags EXCEPT ![j.hash] = @ \ {i.branch}] /\ UNCHANGED stored
  /\ jobs' = [jobs EXCEPT ![i].pc = "unhold", ![i].seen = rows[j.file].branches]
  /\ UNCHANGED <<table, search, cache, queue, outside>>

\* remove_branch_from_tracked_file: the set that was read, less the branch;
\* an empty one deletes the row, and its cached content with it.  The read and
\* the write are no transaction: what was changed between them is lost.
Unhold(i) ==
  LET f    == jobs[i].file
      left == jobs[i].seen \ {i.branch} IN
  /\ At(i, "unhold")
  /\ IF left = {}
     THEN /\ rows' = [rows EXCEPT ![f] = NoGeneration]
          /\ recent' = Others(f)
          /\ cache' = [cache EXCEPT ![f] = Gone]
     ELSE /\ IF f \in Live THEN Save(f, [rows[f] EXCEPT !.branches = left])
                           ELSE UNCHANGED <<rows, recent>>
          /\ UNCHANGED cache
  /\ To(i, "unline")
  /\ amiss' = IF f \in Live /\ rows[f].branches # jobs[i].seen
              THEN amiss \cup {"lost update"} ELSE amiss
  /\ UNCHANGED <<fresh, qdrant, search, queue, checkout, handover, upsets>>

\* cleanup_fts5 after the row, remove_branch_from_fts5 after one tag
Unline(i) ==
  LET f    == jobs[i].file
      last == jobs[i].seen \subseteq {i.branch} IN
  /\ At(i, "unline")
  /\ lines' = IF last THEN [lines EXCEPT ![f] = Gone] ELSE lines
  /\ meta' = [meta EXCEPT ![f] = IF last THEN {} ELSE @ \ {i.branch}]
  /\ IF jobs[i].ingest THEN Ingest(i, jobs[i].snap) /\ UNCHANGED queue ELSE Close(i)
  /\ amiss' = amiss \cup {"branch left out" : b \in {i.branch} \cap rows[f].branches}
  /\ UNCHANGED <<table, qdrant, cache, checkout, handover, upsets>>

-----------------------------------------------------------------------------
(* The ingest *)

\* try_branch_dedup: the points of this very content are there already
Dedup(i) ==
  /\ At(i, "dedup")
  /\ \E h \in HashRead(i.branch) :
       IF /\ h \in stored
          /\ \E f \in RowOf(h) : rows[f].chunker
       THEN /\ tags' = [tags EXCEPT ![h] = @ \cup {i.branch}]
            /\ jobs' = [jobs EXCEPT ![i].pc = "share", ![i].hash = h]
       ELSE To(i, "embed") /\ UNCHANGED tags
  /\ UNCHANGED <<table, stored, search, cache, queue, outside>>

Share(i) ==
  LET j == jobs[i] IN
  /\ At(i, "share")
  /\ \E f \in Files :
       /\ Admit(i.branch, j.hash, Stamp(i.branch), f)
       /\ jobs' = [jobs EXCEPT ![i].pc = "sharesend", ![i].file = f]
  /\ UNCHANGED <<qdrant, search, cache, queue, outside>>

\* The lines are sent whatever the cache says; the Qdrant sink is written last
ShareSend(i) ==
  /\ At(i, "sharesend") /\ disk[i.branch] # Gone
  /\ Send(i, jobs[i].file, disk[i.branch], TRUE)
  /\ UNCHANGED <<checkout, table, qdrant, search, cache, batch, upsets, amiss>>

ShareUnread(i) ==
  /\ At(i, "sharesend") /\ disk[i.branch] = Gone
  /\ Close(i)
  /\ UNCHANGED <<table, qdrant, search, cache, outside>>

\* parse_document, and the embedding of what it read
Embed(i) ==
  /\ At(i, "embed") /\ disk[i.branch] # Gone
  /\ jobs' = [jobs EXCEPT ![i].pc = "upsert", ![i].hash = disk[i.branch]]
  /\ UNCHANGED <<table, qdrant, search, cache, queue, outside>>

\* A file that has vanished is a permanent failure, and the item is removed
EmbedGone(i) ==
  /\ At(i, "embed") /\ disk[i.branch] = Gone
  /\ Close(i)
  /\ UNCHANGED <<table, qdrant, search, cache, outside>>

\* upsert_and_track: the upsert overwrites the branch array with one branch,
\* so the set it had, and the one the table says, is read first ...
Upsert(i) ==
  LET h == jobs[i].hash IN
  /\ At(i, "upsert")
  /\ stored' = stored \cup {h}
  /\ tags' = [tags EXCEPT ![h] = {i.branch}]
  /\ jobs' = [jobs EXCEPT ![i].pc = "merge", ![i].seen =
                tags[h] \cup UNION {rows[f].branches : f \in RowOf(h)}]
  /\ UNCHANGED <<table, search, cache, queue, outside>>

\* Mutant: the branches are read and not put back
MergeMutant(i) ==
  /\ At(i, "merge")
  /\ jobs' = [jobs EXCEPT ![i].pc = "track", ![i].file = Holder(i.branch),
                          ![i].seen = {}]
  /\ UNCHANGED <<table, qdrant, search, cache, queue, outside>>

\* ... and put back.  Then the row of the branch is looked up.
Merge(i) ==
  LET j == jobs[i] IN
  /\ At(i, "merge")
  /\ tags' = [tags EXCEPT ![j.hash] = @ \cup j.seen]
  /\ jobs' = [jobs EXCEPT ![i].pc = "track", ![i].file = Holder(i.branch),
                          ![i].seen = {}]
  /\ UNCHANGED <<table, stored, search, cache, queue, outside>>

\* run_tracking_transaction: the row that was looked up gets the new content,
\* or the branch is admitted to the content's row.  The mtime is taken now.
Clashes(j) == j.file # NoFile /\ (j.file \notin Live \/ RowOf(j.hash) \ {j.file} # {})

Track(i) ==
  LET j == jobs[i] IN
  /\ At(i, "track") /\ ~Clashes(j)
  /\ \E f \in Files :
       /\ IF j.file = NoFile
          THEN Admit(i.branch, j.hash, Stamp(i.branch), f)
          ELSE /\ f = j.file /\ UNCHANGED fresh
               /\ Save(f, [rows[f] EXCEPT !.hash = j.hash, !.chunker = TRUE,
                                          !.stamp = Stamp(i.branch)])
       /\ jobs' = [jobs EXCEPT ![i].pc = "search", ![i].file = f]
  /\ queue' = [queue EXCEPT ![i].qdrant = TRUE]
  /\ UNCHANGED <<qdrant, search, cache, outside>>

\* update_fts5_for_file_or_enqueue reads the file again; a cache that agrees
\* with it means there is nothing to write
Searches(i, f) == \/ At(i, "search") /\ f = jobs[i].file
                  \/ At(i, "research") /\ f = Holder(i.branch) /\ f # NoFile

Search(i) ==
  \E f \in Files :
    /\ Searches(i, f) /\ disk[i.branch] \notin {Gone, cache[f]}
    /\ Send(i, f, disk[i.branch], FALSE)
    /\ UNCHANGED <<checkout, table, qdrant, search, cache, batch, upsets, amiss>>

SearchSkipped(i) ==
  /\ \E f \in Files :
       /\ Searches(i, f) /\ disk[i.branch] \in {Gone, cache[f]}
       /\ amiss' = amiss \cup {"branch left out" : x \in {i.branch} \ meta[f]}
  /\ Finish(i)
  /\ UNCHANGED <<checkout, table, qdrant, search, cache, handover, upsets>>

\* handle_retry_skip without a row
ResearchUntracked(i) ==
  /\ At(i, "research") /\ Holder(i.branch) = NoFile
  /\ Finish(i)
  /\ amiss' = IF queue'[i] = NoItem THEN amiss \cup {"sink without row"} ELSE amiss
  /\ UNCHANGED <<checkout, table, qdrant, search, cache, handover, upsets>>

\* Err from a handler, and the retry; a clash in the table is one
HandlerFails(i) ==
  LET clash == At(i, "track") /\ Clashes(jobs[i]) IN
  /\ \/ jobs[i].pc \in {"embed", "upsert", "track"}
     \/ At(i, "idle") /\ queue[i].state = "pending" /\ queue[i].qdrant   \* at first
     \/ At(i, "unpoint") /\ jobs[i].seen \subseteq {i.branch}
  /\ IF clash THEN UNCHANGED upsets ELSE Upset
  /\ queue' = [queue EXCEPT ![i] = Retry(@)]
  /\ jobs' = [jobs EXCEPT ![i] = Idle]
  /\ UNCHANGED <<checkout, table, qdrant, search, cache, handover, amiss>>

-----------------------------------------------------------------------------
(* The FTS5 batch writer *)

\* dedup_changes_keep_last
LastOf(works, f) ==
  LET of == {n \in 1 .. Len(works) : works[n].file = f} IN
  {works[n] : n \in {m \in of : \A k \in of : k <= m}}

\* One search.db transaction: each file's last change sets its lines and adds
\* its branch
Flush(n, ok) ==
  /\ batch.works = <<>> /\ n \in 1 .. Len(chan)
  /\ IF ok THEN UNCHANGED upsets ELSE Upset
  /\ batch' = [ok |-> ok, works |-> SubSeq(chan, 1, n)]
  /\ chan' = SubSeq(chan, n + 1, Len(chan))
  /\ IF ok
     THEN /\ lines' = [f \in Files |-> IF LastOf(batch'.works, f) = {} THEN lines[f]
                         ELSE CHOOSE t \in Contents :
                                \E x \in LastOf(batch'.works, f) : x.text = t]
          /\ meta' = [f \in Files |-> meta[f] \cup
                        {x.item.branch : x \in LastOf(batch'.works, f)}]
          /\ amiss' = amiss \cup {"branch left out" : m \in
                {k \in 1 .. n : chan[k].item.branch \notin meta'[chan[k].file]}}
     ELSE UNCHANGED <<search, amiss>>
  /\ UNCHANGED <<checkout, table, qdrant, cache, queue, jobs>>

\* Mutant: the cache is brought up to date whether or not the batch committed
ConcludeMutant ==
  LET x == Head(batch.works)
      r == queue[x.item] IN
  /\ batch.works # <<>>
  /\ batch' = [ok |-> Len(batch.works) = 1 \/ batch.ok, works |-> Tail(batch.works)]
  /\ cache' = IF x.file \in Live THEN [cache EXCEPT ![x.file] = x.text] ELSE cache
  /\ queue' = [queue EXCEPT ![x.item] =
                 IF ~batch.ok THEN Retry(r)
                 ELSE IF r.qdrant THEN NoItem
                 ELSE [r EXCEPT !.state = "pending"]]
  /\ UNCHANGED <<checkout, table, qdrant, search, jobs, chan, upsets, amiss>>

\* finalize_success and finalize_failure, item by item; the cache refers to
\* the tracked row, and goes with it
Conclude ==
  LET x == Head(batch.works)
      r == queue[x.item] IN
  /\ batch.works # <<>>
  /\ batch' = [ok |-> Len(batch.works) = 1 \/ batch.ok, works |-> Tail(batch.works)]
  /\ cache' = IF batch.ok /\ x.file \in Live
              THEN [cache EXCEPT ![x.file] = x.text] ELSE cache
  /\ queue' = [queue EXCEPT ![x.item] =
                 IF ~batch.ok THEN Retry(r)
                 ELSE IF r.qdrant THEN NoItem
                 ELSE [r EXCEPT !.state = "pending"]]
  /\ UNCHANGED <<checkout, table, qdrant, search, jobs, chan, upsets, amiss>>

-----------------------------------------------------------------------------

Settled == \A i \in Items : queue[i].state = "none"

\* reconcile_file_metadata_branches: file_metadata has a row where lines are
Mirrored == [f \in Files |-> IF f \in Live /\ lines[f] # Gone THEN rows[f].branches
                             ELSE {}]

\* BranchReconcileTask, once the queue is empty: branch sets of search.db become
\* those of the table; points that several branches hold get the tags they miss
BranchReconcile ==
  LET shared(c) == UNION {rows[f].branches : f \in
                     {g \in RowOf(c) : Cardinality(rows[g].branches) >= 2}} IN
  /\ Settled
  /\ meta' = [f \in Files |-> IF f \in Live THEN Mirrored[f] ELSE meta[f]]
  /\ tags' = [c \in Contents |-> IF tags[c] = {} THEN {} ELSE tags[c] \cup shared(c)]
  /\ amiss' = (amiss \ {"merge cut off", "branch left out"}) \cup
                {"reconciled" : x \in amiss \cap {"merge cut off"}}
  /\ UNCHANGED <<checkout, table, stored, lines, cache, queue, jobs, handover, upsets>>

\* The process dies and starts again, perhaps as a build with another chunker.
\* The start removes search content whose row is gone (orphan_gc) and makes the
\* branch sets of the others those of the table (branch_mirror).
CrashRestart ==
  /\ Upset
  /\ queue' = [i \in Items |-> IF queue[i].state = "taken"
                               THEN [queue[i] EXCEPT !.state = "pending"] ELSE queue[i]]
  /\ jobs' = [i \in Items |-> Idle]
  /\ chan' = <<>> /\ batch' = [ok |-> TRUE, works |-> <<>>]
  /\ lines' = [f \in Files |-> IF f \in Live THEN lines[f] ELSE Gone]
  /\ meta' = Mirrored
  /\ \E keeps \in BOOLEAN :
       rows' = [f \in Files |-> IF f \in Live /\ ~keeps
                                THEN [rows[f] EXCEPT !.chunker = FALSE] ELSE rows[f]]
  /\ amiss' = (amiss \ {"branch left out"}) \cup
                {"merge cut off" : i \in {j \in Items : At(j, "merge")}}
  /\ <<rows, search, queue, handover>>' # <<rows, search, queue, handover>>
  /\ UNCHANGED <<checkout, recent, fresh, qdrant, cache>>

Quiet == Settled /\ edits = MaxEdits /\ UNCHANGED vars

Handler(i) ==
  \/ PrepareMissing(i) \/ PrepareSkip(i) \/ PrepareRechunk(i) \/ PrepareChange(i)
  \/ PrepareUntracked(i) \/ PrepareDelete(i)
  \/ Unpoint(i) \/ Unhold(i) \/ Unline(i)
  \/ Dedup(i) \/ Share(i) \/ ShareSend(i) \/ ShareUnread(i)
  \/ Embed(i) \/ EmbedGone(i) \/ Upsert(i) \/ Merge(i) \/ Track(i)
  \/ Search(i) \/ SearchSkipped(i) \/ ResearchUntracked(i)

Next ==
  \/ \E b \in Branches, c \in Texts : Edit(b, c)
  \/ \E i \in Items : Handler(i) \/ HandlerFails(i)
  \/ \E n \in 1 .. ChanCap, ok \in BOOLEAN : Flush(n, ok)
  \/ Conclude
  \/ BranchReconcile \/ CrashRestart
  \/ Quiet

Spec == Init /\ [][Next]_vars

-----------------------------------------------------------------------------
(* Properties *)

\* lookup_tracked_file takes the newest holder because there should be only one:
\* update, delete and dedup, on a hash read anew each time, leave a branch in at
\* most one row of the path.  Two things break it: a file that changes under its
\* handler, and two handlers that take a branch each out of the same row at once.
OneGenerationPerBranch ==
  amiss \cap {"raced", "lost update"} = {} => \A f, g \in Live :
    f # g => rows[f].branches \cap rows[g].branches = {}

\* Once no row is left in the queue, each branch is in the row of the content its
\* checkout has, and an absent file is in no row, although handlers of several branches
\* take their branches in and out of the same rows at once, fail there or die.  It takes
\* two handlers of one branch, or a sink that vouched for a row that is gone, to lose one.
RowsFollowDisk ==
  Settled /\ amiss \cap {"raced", "lost update", "doubled", "sink without row"} = {} =>
    \A b \in Branches :
      IF disk[b] = Gone THEN Holder(b) = NoFile
      ELSE Holder(b) # NoFile /\ rows[Holder(b)].hash = disk[b]

\* A crash cut off the merge of these points, and the reconcile passed them over: it
\* looks at generations of several branches only, and leaves points without a tag alone
Cut(f) == /\ "reconciled" \in amiss
          /\ Cardinality(rows[f].branches) = 1 \/ tags[rows[f].hash] = {}

\* Once no row is left in the queue, each branch is in the row of the content its
\* checkout has and Qdrant finds the content on it, whatever was coalesced,
\* shared, retried or cut off by a crash; an absent file is in no row.
VectorsFollowDisk ==
  Settled /\ amiss \subseteq {"reconciled", "branch left out"} => \A b \in Branches :
    LET f == Holder(b) IN
    IF disk[b] = Gone THEN f = NoFile
    ELSE /\ f # NoFile /\ rows[f].hash = disk[b]
         /\ Shows(disk[b], b) \/ Cut(f)

\* Once no row is left in the queue, code_lines of a tracked row hold the content
\* of its branches and its branch set names them, although the lines are written by
\* another process, late, by file_id, and not at all when the cache agrees with the
\* file.  Whatever befalls the points, and however many handlers run, is no matter.
LinesFollowDisk ==
  Settled /\ amiss \cap {"raced", "lost update", "branch left out"} = {} =>
    \A b \in Branches :
      Holder(b) # NoFile => lines[Holder(b)] = disk[b] /\ b \in meta[Holder(b)]
=============================================================================
