-------------------------- MODULE GenerationsProofs --------------------------
(***************************************************************************)
(* TypeOK and OneGenerationPerBranch of Generations, for any number of        *)
(* branches, contents, rows, handlers, edits and failures.                   *)
(***************************************************************************)
EXTENDS Generations, SequenceTheorems, WellFoundedInduction, TLAPS

USE GenerationsAssumption DEF checkout, table, qdrant, search, handover, outside,
                              unread

-----------------------------------------------------------------------------
(* The order of the rows *)

LEMMA Smallest ==
  ASSUME NEW S \in SUBSET Nat, S # {}
  PROVE  \E n \in S : \A m \in S : n <= m
<1>1. IsWellFoundedOn(OpToRel(<, Nat), Nat)
  BY NatLessThanWellFounded
<1>2. IsWellFoundedOn(OpToRel(<, Nat), S)
  BY <1>1, IsWellFoundedOnSubset
<1>3. PICK n \in S : \A m \in S : ~(<<m, n>> \in OpToRel(<, Nat))
  BY <1>2, WFMin
<1>4. ASSUME NEW m \in S PROVE n <= m
  <2>1. m < n => <<m, n>> \in OpToRel(<, Nat)
    BY DEF OpToRel
  <2>2. ~(m < n)
    BY <1>3, <2>1, Zenon
  <2> QED
    BY <2>2
<1> QED
  BY <1>4

\* A row moves to the front, and no other one leaves the order
LEMMA Reordered ==
  ASSUME recent \in Seq(Files), NEW f \in Files
  PROVE  LET after == <<f>> \o Others(f) IN
         /\ Others(f) \in Seq(Files) /\ after \in Seq(Files)
         /\ \A n \in 1 .. Len(recent) : recent[n] # f =>
              \E m \in 1 .. Len(Others(f)) : Others(f)[m] = recent[n]
         /\ after[1] = f /\ Len(after) = 1 + Len(Others(f))
         /\ \A m \in 1 .. Len(Others(f)) : after[m + 1] = Others(f)[m]
<1> DEFINE after == <<f>> \o Others(f)
           n == CHOOSE n \in Listed({f}) : TRUE
           front == SubSeq(recent, 1, n - 1)
           back  == SubSeq(recent, n + 1, Len(recent))
<1>1. /\ Others(f) \in Seq(Files)
      /\ \A k \in 1 .. Len(recent) : recent[k] # f =>
           \E m \in 1 .. Len(Others(f)) : Others(f)[m] = recent[k]
  <2>1. CASE Listed({f}) = {}
    BY <2>1 DEF Others
  <2>2. CASE Listed({f}) # {}
    <3>1. n \in 1 .. Len(recent) /\ recent[n] = f
      BY <2>2 DEF Listed
    <3>2. Others(f) = front \o back
      BY <2>2 DEF Others
    <3> HIDE DEF n
    <3>3. /\ front \in Seq(Files) /\ Len(front) = n - 1
          /\ \A k \in 1 .. n - 1 : front[k] = recent[k]
      BY <3>1
    <3>4. /\ back \in Seq(Files) /\ Len(back) = Len(recent) - n
          /\ \A k \in 1 .. Len(recent) - n : back[k] = recent[n + k]
      BY <3>1
    <3> HIDE DEF front, back
    <3>5. /\ Others(f) \in Seq(Files) /\ Len(Others(f)) = Len(recent) - 1
          /\ \A k \in 1 .. n - 1 : Others(f)[k] = recent[k]
          /\ \A k \in 1 .. Len(recent) - n : Others(f)[n - 1 + k] = recent[n + k]
      <4>1. /\ Others(f) \in Seq(Files) /\ Len(Others(f)) = Len(front) + Len(back)
            /\ \A k \in 1 .. Len(front) + Len(back) : Others(f)[k] =
                 IF k <= Len(front) THEN front[k] ELSE back[k - Len(front)]
        BY <3>2, <3>3, <3>4, ConcatProperties
      <4>2. n \in Nat /\ n >= 1 /\ Len(recent) \in Nat /\ n <= Len(recent)
        BY <3>1
      <4>3. ASSUME NEW k \in 1 .. n - 1 PROVE Others(f)[k] = recent[k]
        <5>1. k \in 1 .. Len(front) + Len(back) /\ k <= Len(front)
          BY <3>3, <3>4, <4>2
        <5>2. Others(f)[k] = front[k]
          BY <4>1, <5>1
        <5> QED
          BY <3>3, <5>2
      <4>4. ASSUME NEW k \in 1 .. Len(recent) - n
            PROVE  Others(f)[n - 1 + k] = recent[n + k]
        <5> DEFINE m == n - 1 + k
        <5>1. m \in 1 .. Len(front) + Len(back) /\ ~(m <= Len(front))
          BY <3>3, <3>4, <4>2
        <5>2. m - Len(front) = k
          BY <3>3, <4>2
        <5> HIDE DEF m
        <5>3. Others(f)[m] = back[m - Len(front)]
          BY <4>1, <5>1
        <5>4. Others(f)[m] = recent[n + k]
          BY <3>4, <5>2, <5>3
        <5> QED
          BY <5>4 DEF m
      <4> QED
        BY <3>3, <3>4, <4>1, <4>2, <4>3, <4>4
    <3>6. ASSUME NEW k \in 1 .. Len(recent), recent[k] # f
          PROVE  \E m \in 1 .. Len(Others(f)) : Others(f)[m] = recent[k]
      <4>1. CASE k < n
        <5>1. k \in 1 .. Len(Others(f)) /\ Others(f)[k] = recent[k]
          BY <3>1, <3>5, <4>1
        <5> QED
          BY <5>1
      <4>2. CASE k > n
        <5>1. k - n \in 1 .. Len(recent) - n /\ k - 1 \in 1 .. Len(Others(f))
          BY <3>1, <3>5, <4>2
        <5>2. Others(f)[n - 1 + (k - n)] = recent[n + (k - n)]
          BY <3>5, <5>1
        <5>3. n - 1 + (k - n) = k - 1 /\ n + (k - n) = k
          BY <3>1
        <5> QED
          BY <5>1, <5>2, <5>3
      <4> QED
        BY <3>1, <3>6, <4>1, <4>2
    <3> QED
      BY <3>5, <3>6
  <2> QED
    BY <2>1, <2>2
<1> HIDE DEF n, front, back
<1>2. /\ after \in Seq(Files) /\ after[1] = f /\ Len(after) = 1 + Len(Others(f))
      /\ \A m \in 1 .. Len(Others(f)) : after[m + 1] = Others(f)[m]
  BY <1>1
<1> QED
  BY <1>1, <1>2

InOrder(f) == \E n \in 1 .. Len(recent) : recent[n] = f

LEMMA SaveOrder ==
  ASSUME recent \in Seq(Files), NEW f \in Files,
         recent' = <<f>> \o Others(f) \/ recent' = Others(f)
  PROVE  /\ recent' \in Seq(Files)
         /\ \A g \in Files : g # f /\ InOrder(g) => InOrder(g)'
         /\ recent' = <<f>> \o Others(f) => InOrder(f)'
<1>1. recent' \in Seq(Files)
  BY Reordered
<1>2. ASSUME recent' = <<f>> \o Others(f) PROVE InOrder(f)'
  <2>1. 1 \in 1 .. Len(recent') /\ recent'[1] = f
    BY <1>2, Reordered
  <2> QED
    BY <2>1 DEF InOrder
<1>3. ASSUME NEW g \in Files, g # f, InOrder(g) PROVE InOrder(g)'
  <2>1. PICK n \in 1 .. Len(recent) : recent[n] = g
    BY <1>3 DEF InOrder
  <2>2. PICK m \in 1 .. Len(Others(f)) : Others(f)[m] = g
    BY <1>3, <2>1, Reordered
  <2>3. CASE recent' = Others(f)
    BY <2>2, <2>3 DEF InOrder
  <2>4. CASE recent' = <<f>> \o Others(f)
    <3>1. recent'[m + 1] = g /\ Len(recent') = 1 + Len(Others(f))
      BY <2>2, <2>4, Reordered
    <3>2. m + 1 \in 1 .. Len(recent')
      BY <2>2, <3>1, Reordered
    <3> QED
      BY <3>1, <3>2 DEF InOrder
  <2> QED
    BY <2>3, <2>4
<1> QED
  BY <1>1, <1>2, <1>3

LEMMA HolderFacts ==
  ASSUME recent \in Seq(Files), NEW b \in Branches
  PROVE  /\ Holder(b) \in Files \cup {NoFile}
         /\ Holder(b) # NoFile => Holder(b) \in Files /\ b \in rows[Holder(b)].branches
         /\ Holder(b) = NoFile => \A f \in Files : b \in rows[f].branches => ~InOrder(f)
<1> DEFINE held == Listed({f \in Files : b \in rows[f].branches})
           n    == CHOOSE n \in held : \A m \in held : n <= m
<1>0. Files \subseteq Nat /\ NoFile \notin Files
  BY DEF Files, NoFile
<1>1. \A k \in held : k \in Nat /\ recent[k] \in Files /\ b \in rows[recent[k]].branches
  BY DEF Listed
<1>2. CASE held = {}
  <2>1. Holder(b) = NoFile
    BY <1>2 DEF Holder
  <2>2. ASSUME NEW f \in Files, b \in rows[f].branches PROVE ~InOrder(f)
    BY <1>2, <2>2 DEF Listed, InOrder
  <2> QED
    BY <2>1, <2>2
<1>3. CASE held # {}
  <2>1. Holder(b) = recent[n]
    BY <1>3 DEF Holder
  <2>2. \E k \in held : \A m \in held : k <= m
    <3> HIDE DEF held
    <3>1. held \in SUBSET Nat
      BY <1>1
    <3> QED
      BY <1>3, <3>1, Smallest
  <2>3. n \in held
    <3> HIDE DEF held
    <3> QED
      BY <2>2
  <2> QED
    BY <1>0, <1>1, <2>1, <2>3
<1> QED
  BY <1>2, <1>3

-----------------------------------------------------------------------------
(* Types, in parts that change together *)

\* A job that is to work on a row has one, and one that stores points has read them
OnRow == {"unpoint", "unhold", "unline", "sharesend", "search"}
Aimed == {j \in Job : /\ j.pc \in OnRow => j.file \in Files
                      /\ j.pc = "upsert" => j.hash \in Contents}

CheckoutOK == /\ disk \in [Branches -> Texts] /\ mtime \in [Branches -> Nat]
              /\ edits \in Nat
TableOK    == rows \in [Files -> Generation] /\ recent \in Seq(Files) /\ fresh \in Nat \ {0}
PointsOK   == stored \subseteq Contents /\ tags \in [Contents -> SUBSET Branches]
LinesOK    == /\ lines \in [Files -> Texts] /\ meta \in [Files -> SUBSET Branches]
              /\ cache \in [Files -> Texts]
WorkOK     == queue \in [Items -> QueueRow] /\ jobs \in [Items -> Aimed]
HandoverOK == chan \in Seq(Work) /\ batch \in [ok : BOOLEAN, works : Seq(Work)]
HistoryOK  == upsets \in Nat /\ amiss \subseteq Amiss

\* A handler's row is taken
Owned == \A i \in Items : jobs[i].pc # "idle" => queue[i].state = "taken"

Types == /\ CheckoutOK /\ TableOK /\ PointsOK /\ LinesOK /\ WorkOK /\ HandoverOK
         /\ HistoryOK

LEMMA TypeParts == Types /\ Owned => TypeOK
BY DEF Aimed, OnRow, TypeOK, Types, CheckoutOK, TableOK, PointsOK, LinesOK, WorkOK, HandoverOK,
       HistoryOK, Owned

LEMMA Domains ==
  /\ Files \subseteq Nat /\ NoFile \notin Files /\ Contents \subseteq Texts /\ Gone \in Texts
  /\ \A i \in Items : i.branch \in Branches /\ i.op \in Ops
  /\ \A b \in Branches, op \in Ops : [branch |-> b, op |-> op] \in Items
  /\ Idle \in Aimed /\ NoItem \in QueueRow /\ NoGeneration \in Generation
BY DEF Aimed, OnRow, Files, NoFile, Texts, Items, Idle, Job, PCs, NoItem, QueueRow, NoGeneration,
       Generation

\* A step that changes the job and the row of one item
LEMMA WorkStep ==
  ASSUME WorkOK, NEW i \in Items,
         NEW j \in Aimed, NEW q \in QueueRow,
         jobs' = [jobs EXCEPT ![i] = j] \/ jobs' = jobs,
         queue' = [queue EXCEPT ![i] = q] \/ queue' = queue
  PROVE  WorkOK'
BY DEF WorkOK

LEMMA SaveType ==
  ASSUME TableOK, NEW f \in Files, NEW g \in Generation, Save(f, g)
  PROVE  rows' \in [Files -> Generation] /\ recent' \in Seq(Files)
BY SaveOrder DEF TableOK, Save

LEMMA AdmitType ==
  ASSUME TableOK, NEW b \in Branches, NEW h \in Texts, NEW t \in Nat, NEW f \in Files,
         Admit(b, h, t, f)
  PROVE  TableOK'
<1> DEFINE is == IF f \in Live THEN rows[f].branches ELSE {}
           g  == [hash |-> h, stamp |-> t, branches |-> is \cup {b}, chunker |-> TRUE]
<1>1. g \in Generation
  BY DEF Generation, TableOK
<1>2. Save(f, g) /\ (fresh' = fresh \/ fresh' = fresh + 1)
  BY DEF Admit
<1>3. fresh' \in Nat \ {0}
  BY <1>2 DEF TableOK
<1> HIDE DEF g
<1> QED
  BY <1>1, <1>2, <1>3, SaveType DEF TableOK

LEMMA StampType ==
  ASSUME CheckoutOK, NEW b \in Branches PROVE Stamp(b) \in Nat
BY DEF CheckoutOK, Stamp

LEMMA HashType ==
  ASSUME CheckoutOK, TableOK, NEW b \in Branches PROVE HashRead(b) \subseteq Texts
BY DEF CheckoutOK, TableOK, HashRead, Generation, Live

-----------------------------------------------------------------------------
LEMMA ReleaseJob ==
  ASSUME Types, NEW i \in Items, NEW f \in Files, NEW ingest \in BOOLEAN
  PROVE  [pc |-> "unpoint", file |-> f, hash |-> rows[f].hash, seen |-> rows[f].branches,
          snap |-> queue[i].qdrant, ingest |-> ingest] \in Aimed
<1>1. rows[f].hash \in Texts /\ rows[f].branches \in SUBSET Branches
  BY DEF Types, TableOK, Generation
<1>2. queue[i].qdrant \in BOOLEAN
  BY DEF Types, WorkOK, QueueRow
<1>3. f \in Nat /\ "unpoint" \in PCs
  BY Domains DEF PCs
<1> QED
  BY <1>1, <1>2, <1>3 DEF Job, Aimed, OnRow

LEMMA IngestJob ==
  ASSUME NEW snap \in BOOLEAN
  PROVE  [Idle EXCEPT !.snap = snap, !.pc = IF snap THEN "research" ELSE "dedup"] \in Aimed
BY DEF Aimed, OnRow, Idle, Job, PCs, Texts, NoFile

LEMMA TakeType ==
  ASSUME Types, NEW i \in Items, NEW more \in SUBSET Amiss, Take(i, more)
  PROVE  HistoryOK' /\ Taken(i)[i] \in QueueRow
         /\ Taken(i) = [queue EXCEPT ![i] = Taken(i)[i]]
         /\ queue[i].state = "pending"
<1>1. HistoryOK'
  <2>1. upsets' \in Nat
    BY DEF Types, HistoryOK, Take, Upset
  <2>2. "overlap" \in Amiss /\ "doubled" \in Amiss /\ amiss \subseteq Amiss
    BY DEF Types, HistoryOK, Amiss
  <2>3. amiss' \subseteq Amiss
    BY <2>2 DEF Take
  <2> QED
    BY <2>1, <2>3 DEF HistoryOK
<1>2. Taken(i)[i] \in QueueRow /\ Taken(i) = [queue EXCEPT ![i] = Taken(i)[i]]
  BY DEF Types, WorkOK, Taken, QueueRow
<1> QED
  BY <1>1, <1>2 DEF Take

LEMMA PrepareType ==
  ASSUME Types, NEW i \in Items,
         \/ PrepareMissing(i) \/ PrepareSkip(i) \/ PrepareRechunk(i) \/ PrepareChange(i)
         \/ PrepareUntracked(i) \/ PrepareDelete(i)
  PROVE  Types'
<1> DEFINE f == Holder(i.branch)
<1>0. f \in Files \cup {NoFile} /\ queue[i].qdrant \in BOOLEAN /\ i.branch \in Branches
  BY Domains, HolderFacts DEF Types, TableOK, WorkOK, QueueRow
<1>1. \E more \in SUBSET Amiss : Take(i, more)
  <2>1. {} \in SUBSET Amiss /\ {"hash without points"} \in SUBSET Amiss
    BY DEF Amiss
  <2> QED
    BY <2>1 DEF PrepareMissing, PrepareSkip, PrepareRechunk, PrepareChange,
                PrepareUntracked, PrepareDelete, Ingests
<1>2. HistoryOK' /\ Taken(i)[i] \in QueueRow
      /\ Taken(i) = [queue EXCEPT ![i] = Taken(i)[i]]
  BY <1>1, TakeType
<1>3. PointsOK'
  BY DEF PrepareMissing, PrepareSkip, PrepareRechunk, PrepareChange, PrepareUntracked,
         PrepareDelete, Sweep, Types, PointsOK
<1>4. UNCHANGED <<checkout, table, search, cache, handover>>
  BY DEF PrepareMissing, PrepareSkip, PrepareRechunk, PrepareChange, PrepareUntracked,
         PrepareDelete
<1>5. \E j \in Aimed : jobs' = [jobs EXCEPT ![i] = j]
  <2>1. \A x \in BOOLEAN : f # NoFile /\ Release(i, f, x) =>
          \E j \in Aimed : jobs' = [jobs EXCEPT ![i] = j]
    BY <1>0, ReleaseJob DEF Release
  <2>2. \A x \in BOOLEAN : Ingest(i, x) => \E j \in Aimed : jobs' = [jobs EXCEPT ![i] = j]
    BY IngestJob DEF Ingest
  <2>3. Close(i) => \E j \in Aimed : jobs' = [jobs EXCEPT ![i] = j]
    BY Domains DEF Close
  <2> HIDE DEF f
  <2> QED
    BY <1>0, <2>1, <2>2, <2>3
       DEF f, PrepareMissing, PrepareSkip, PrepareRechunk, PrepareChange, PrepareUntracked,
           PrepareDelete, Held
<1>6. \E q \in QueueRow : queue' = [queue EXCEPT ![i] = q]
  <2>1. [Taken(i) EXCEPT ![i].qdrant = TRUE][i] \in QueueRow
        /\ [Taken(i) EXCEPT ![i].qdrant = TRUE] =
             [queue EXCEPT ![i] = [Taken(i) EXCEPT ![i].qdrant = TRUE][i]]
    BY DEF Types, WorkOK, Taken, QueueRow
  <2>2. Decides(i) => \E q \in QueueRow : queue' = [queue EXCEPT ![i] = q]
    <3> DEFINE q == [queue[i] EXCEPT !.state = "taken", !.decided = TRUE, !.qdrant = FALSE]
    <3>1. q \in QueueRow
      BY DEF Types, WorkOK, QueueRow
    <3>2. Decides(i) => queue' = [queue EXCEPT ![i] = q]
      BY DEF Decides, Taken, Types, WorkOK, QueueRow
    <3> QED
      BY <3>1, <3>2
  <2>3. Close(i) => \E q \in QueueRow : queue' = [queue EXCEPT ![i] = q]
    BY Domains DEF Close
  <2> QED
    BY <1>2, <2>1, <2>2, <2>3
       DEF PrepareMissing, PrepareSkip, PrepareRechunk, PrepareChange, PrepareUntracked,
           PrepareDelete
<1>7. WorkOK'
  BY <1>5, <1>6, WorkStep DEF Types
<1> QED
  BY <1>2, <1>3, <1>4, <1>7 DEF Types, CheckoutOK, TableOK, LinesOK, HandoverOK

LEMMA JobFacts ==
  ASSUME WorkOK, NEW i \in Items
  PROVE  /\ jobs[i] \in Aimed
         /\ jobs[i].file \in Nat /\ jobs[i].hash \in Texts /\ jobs[i].seen \in SUBSET Branches
         /\ jobs[i].snap \in BOOLEAN /\ jobs[i].ingest \in BOOLEAN
         /\ jobs[i].pc \in OnRow => jobs[i].file \in Files
         /\ jobs[i].pc = "upsert" => jobs[i].hash \in Contents
BY DEF WorkOK, Job, Aimed, OnRow

\* The job goes on to another place, with what it has read since
LEMMA JobMoves ==
  ASSUME NEW j \in Aimed, NEW pc \in PCs
  PROVE  /\ pc # "upsert" /\ (pc \in OnRow => j.file \in Files) =>
              /\ [j EXCEPT !.pc = pc] \in Aimed
              /\ \A seen \in SUBSET Branches : [j EXCEPT !.pc = pc, !.seen = seen] \in Aimed
              /\ \A h \in Texts : [j EXCEPT !.pc = pc, !.hash = h] \in Aimed
         /\ \A h \in Contents : pc = "upsert" => [j EXCEPT !.pc = pc, !.hash = h] \in Aimed
         /\ \A f \in Nat : pc # "upsert" /\ (pc \in OnRow => f \in Files) =>
              /\ [j EXCEPT !.pc = pc, !.file = f] \in Aimed
              /\ \A seen \in SUBSET Branches :
                   [j EXCEPT !.pc = pc, !.file = f, !.seen = seen] \in Aimed
BY Domains DEF Job, Aimed, OnRow

LEMMA RowStatements ==
  ASSUME WorkOK, NEW i \in Items, NEW s \in {"none", "pending", "taken"}, NEW x \in BOOLEAN
  PROVE  /\ [queue[i] EXCEPT !.state = s] \in QueueRow
         /\ [queue[i] EXCEPT !.qdrant = x] \in QueueRow
         /\ Retry(queue[i]) \in QueueRow
         /\ queue[i].qdrant \in BOOLEAN /\ queue[i].decided \in BOOLEAN
BY DEF WorkOK, QueueRow, Retry

LEMMA LeaveType ==
  ASSUME Types, NEW i \in Items, Unpoint(i) \/ Unhold(i) \/ Unline(i)
  PROVE  Types'
<1> DEFINE f == jobs[i].file
<1>0. i.branch \in Branches /\ f \in Files /\ WorkOK /\ queue[i] \in QueueRow
  BY Domains, JobFacts DEF Types, WorkOK, At, Unpoint, Unhold, Unline, OnRow
<1>1. rows[f] \in Generation /\ rows[f].branches \in SUBSET Branches
  BY <1>0 DEF Types, TableOK, Generation
<1>2. "unhold" \in PCs /\ "unline" \in PCs
  BY DEF PCs
<1>3. CASE Unpoint(i)
  <2>1. WorkOK'
    <3> DEFINE j == [jobs[i] EXCEPT !.pc = "unhold", !.seen = rows[f].branches]
    <3>1. j \in Aimed
      BY <1>0, <1>1, <1>2, JobMoves, JobFacts
    <3>2. jobs' = [jobs EXCEPT ![i] = j] /\ queue' = queue
      BY <1>3 DEF Unpoint, Types, WorkOK
    <3> HIDE DEF j
    <3> QED
      BY <1>0, <3>1, <3>2, WorkStep
  <2>2. PointsOK'
    BY <1>3 DEF Unpoint, Types, PointsOK
  <2> QED
    BY <1>3, <2>1, <2>2 DEF Unpoint, Types, CheckoutOK, TableOK, LinesOK, HandoverOK, HistoryOK
<1>4. CASE Unhold(i)
  <2>1. WorkOK'
    <3>1. [jobs[i] EXCEPT !.pc = "unline"] \in Aimed
      BY <1>0, <1>2, JobMoves, JobFacts
    <3>2. jobs' = [jobs EXCEPT ![i] = [jobs[i] EXCEPT !.pc = "unline"]] /\ queue' = queue
      BY <1>4 DEF Unhold, To, Types, WorkOK
    <3> QED
      BY <1>0, <3>1, <3>2, WorkStep
  <2>2. TableOK' /\ cache' \in [Files -> Texts]
    <3> DEFINE left == jobs[i].seen \ {i.branch}
    <3>1. CASE left = {}
      <4>1. /\ rows' = [rows EXCEPT ![f] = NoGeneration] /\ recent' = Others(f)
            /\ cache' = [cache EXCEPT ![f] = Gone] /\ fresh' = fresh
        BY <1>4, <3>1 DEF Unhold
      <4>2. recent' \in Seq(Files)
        BY <1>0, <4>1, SaveOrder DEF Types, TableOK
      <4> QED
        BY <1>0, <4>1, <4>2, Domains DEF Types, TableOK, LinesOK
    <3>2. CASE left # {}
      <4>1. left \in SUBSET Branches /\ [rows[f] EXCEPT !.branches = left] \in Generation
        BY <1>0, <1>1, JobFacts DEF Generation
      <4> HIDE DEF left
      <4>2. CASE Save(f, [rows[f] EXCEPT !.branches = left]) /\ UNCHANGED <<cache, fresh>>
        BY <1>0, <4>1, <4>2, SaveType DEF Types, TableOK, LinesOK
      <4>3. CASE UNCHANGED <<rows, recent, cache, fresh>>
        BY <4>3 DEF Types, TableOK, LinesOK
      <4> QED
        BY <1>4, <3>2, <4>2, <4>3 DEF Unhold, left
    <3> QED
      BY <3>1, <3>2
  <2>3. amiss' \subseteq Amiss
    BY <1>4 DEF Unhold, Types, HistoryOK, Amiss
  <2> QED
    BY <1>4, <2>1, <2>2, <2>3
       DEF Unhold, Types, CheckoutOK, PointsOK, LinesOK, HandoverOK, HistoryOK
<1>5. CASE Unline(i)
  <2>1. WorkOK'
    <3>1. CASE Ingest(i, jobs[i].snap) /\ UNCHANGED queue
      <4>1. \E j \in Aimed : jobs' = [jobs EXCEPT ![i] = j]
        BY <1>0, <3>1, IngestJob, JobFacts DEF Ingest
      <4> QED
        BY <1>0, <3>1, <4>1, WorkStep
    <3>2. CASE Close(i)
      BY <1>0, <3>2, Domains, WorkStep DEF Close
    <3> QED
      BY <1>5, <3>1, <3>2 DEF Unline
  <2>2. LinesOK'
    <3>1. lines' \in [Files -> Texts] /\ cache' = cache
      BY <1>5, Domains DEF Unline, Types, LinesOK
    <3>2. \E m \in SUBSET Branches : meta' = [meta EXCEPT ![f] = m]
      <4>1. meta[f] \in SUBSET Branches
        BY <1>0 DEF Types, LinesOK
      <4>2. CASE jobs[i].seen \subseteq {i.branch}
        BY <1>0, <1>5, <4>1, <4>2 DEF Unline, Types, LinesOK
      <4>3. CASE ~(jobs[i].seen \subseteq {i.branch})
        BY <1>0, <1>5, <4>1, <4>3 DEF Unline, Types, LinesOK
      <4> QED
        BY <4>2, <4>3
    <3> QED
      BY <3>1, <3>2 DEF Types, LinesOK
  <2>3. amiss' \subseteq Amiss
    BY <1>5 DEF Unline, Types, HistoryOK, Amiss
  <2> QED
    BY <1>5, <2>1, <2>2, <2>3
       DEF Unline, Types, CheckoutOK, TableOK, PointsOK, HandoverOK, HistoryOK
<1> QED
  BY <1>3, <1>4, <1>5

LEMMA SendType ==
  ASSUME Types, NEW i \in Items, NEW f \in Files, NEW text \in Contents,
         NEW done \in BOOLEAN, Send(i, f, text, done), UNCHANGED batch
  PROVE  HandoverOK' /\ WorkOK'
<1> DEFINE x == [item |-> i, file |-> f, text |-> text]
           y == done \/ queue[i].qdrant \/ ~queue[i].decided
           q == [queue[i] EXCEPT !.qdrant = y]
<1>1. x \in Work /\ chan' = Append(chan, x)
  BY DEF Work, Send
<1>2. HandoverOK'
  <2> HIDE DEF x
  <2> QED
    BY <1>1 DEF Types, HandoverOK
<1>3. queue' = [queue EXCEPT ![i] = q]
  BY DEF Send, Types, WorkOK
<1>4. WorkOK'
  <2>0. y \in BOOLEAN
    OBVIOUS
  <2>1. q \in QueueRow
    <3> HIDE DEF y
    <3> QED
      BY <2>0, RowStatements DEF Types
  <2>2. jobs' = [jobs EXCEPT ![i] = Idle] /\ Idle \in Aimed
    BY Domains DEF Send
  <2> HIDE DEF q
  <2> QED
    BY <1>3, <2>1, <2>2, WorkStep DEF Types
<1> QED
  BY <1>2, <1>4

LEMMA EndType ==
  ASSUME Types, NEW i \in Items, Close(i) \/ Finish(i)
  PROVE  WorkOK'
<1>1. Idle \in Aimed /\ NoItem \in QueueRow /\ [queue[i] EXCEPT !.state = "pending"] \in QueueRow
  BY Domains, RowStatements DEF Types
<1>2. jobs' = [jobs EXCEPT ![i] = Idle]
  BY DEF Close, Finish
<1>3. \E q \in QueueRow : queue' = [queue EXCEPT ![i] = q]
  BY <1>1 DEF Close, Finish, Types, WorkOK
<1> QED
  BY <1>1, <1>2, <1>3, WorkStep DEF Types

LEMMA IngestType ==
  ASSUME Types, NEW i \in Items,
         \/ Dedup(i) \/ Share(i) \/ ShareSend(i) \/ ShareUnread(i)
         \/ Embed(i) \/ EmbedGone(i) \/ Upsert(i) \/ Merge(i) \/ Track(i)
         \/ Search(i) \/ SearchSkipped(i) \/ ResearchUntracked(i)
  PROVE  Types'
<1> USE DEF Types
<1>0. /\ i.branch \in Branches /\ jobs[i] \in Aimed /\ disk[i.branch] \in Texts
      /\ jobs[i].hash \in Texts /\ jobs[i].seen \in SUBSET Branches
      /\ jobs[i].pc \in OnRow => jobs[i].file \in Files
      /\ jobs[i].pc = "upsert" => jobs[i].hash \in Contents
      /\ Stamp(i.branch) \in Nat
      /\ Holder(i.branch) \in Files \cup {NoFile} /\ Holder(i.branch) \in Nat
  BY Domains, JobFacts, StampType, HolderFacts DEF CheckoutOK, TableOK, NoFile
<1>1. {"share", "sharesend", "merge", "embed", "upsert", "merge", "track", "search"} \subseteq PCs
  BY DEF PCs
<1>2. ASSUME Dedup(i) PROVE Types'
  <2>1. PICK h \in HashRead(i.branch) :
          IF h \in stored /\ \E f \in RowOf(h) : rows[f].chunker
          THEN /\ tags' = [tags EXCEPT ![h] = @ \cup {i.branch}]
               /\ jobs' = [jobs EXCEPT ![i].pc = "share", ![i].hash = h]
          ELSE To(i, "embed") /\ UNCHANGED tags
    BY <1>2 DEF Dedup
  <2>2. h \in Texts
    BY <1>0, <2>1, HashType
  <2>3. /\ [jobs[i] EXCEPT !.pc = "share", !.hash = h] \in Aimed
        /\ [jobs[i] EXCEPT !.pc = "embed"] \in Aimed
    BY <1>0, <1>1, <2>2, JobMoves DEF OnRow
  <2>4. \E j \in Aimed : jobs' = [jobs EXCEPT ![i] = j]
    BY <2>1, <2>3 DEF To, WorkOK
  <2>5. WorkOK'
    BY <1>2, <2>4, Domains, WorkStep DEF Dedup
  <2>6. PointsOK'
    BY <1>0, <1>2, <2>1 DEF Dedup, PointsOK
  <2> QED
    BY <1>2, <2>5, <2>6 DEF Dedup, CheckoutOK, TableOK, LinesOK, HandoverOK, HistoryOK
<1>3. ASSUME Share(i) PROVE Types'
  <2>1. PICK f \in Files :
          /\ Admit(i.branch, jobs[i].hash, Stamp(i.branch), f)
          /\ jobs' = [jobs EXCEPT ![i].pc = "sharesend", ![i].file = f]
    BY <1>3 DEF Share
  <2>2. TableOK'
    BY <1>0, <2>1, AdmitType
  <2>3. [jobs[i] EXCEPT !.pc = "sharesend", !.file = f] \in Aimed
    BY <1>0, <1>1, Domains, JobMoves
  <2>4. WorkOK'
    BY <1>3, <2>1, <2>3, WorkStep DEF Share, WorkOK
  <2> QED
    BY <1>3, <2>2, <2>4 DEF Share, CheckoutOK, PointsOK, LinesOK, HandoverOK, HistoryOK
<1>4. ASSUME ShareSend(i) PROVE Types'
  <2>1. jobs[i].file \in Files /\ disk[i.branch] \in Contents
    BY <1>0, <1>4 DEF ShareSend, At, OnRow, Texts
  <2>2. HandoverOK' /\ WorkOK'
    BY <1>4, <2>1, SendType DEF ShareSend
  <2> QED
    BY <1>4, <2>2 DEF ShareSend, CheckoutOK, TableOK, PointsOK, LinesOK, HistoryOK
<1>5. ASSUME ShareUnread(i) PROVE Types'
  BY <1>5, EndType
     DEF ShareUnread, CheckoutOK, TableOK, PointsOK, LinesOK, HandoverOK, HistoryOK
<1>6. ASSUME Embed(i) PROVE Types'
  <2>0. disk[i.branch] \in Contents
    BY <1>0, <1>6 DEF Embed, Texts
  <2>1. [jobs[i] EXCEPT !.pc = "upsert", !.hash = disk[i.branch]] \in Aimed
    BY <1>0, <1>1, <2>0, JobMoves
  <2>2. WorkOK'
    BY <1>6, <2>1, WorkStep DEF Embed, WorkOK
  <2> QED
    BY <1>6, <2>2 DEF Embed, CheckoutOK, TableOK, PointsOK, LinesOK, HandoverOK, HistoryOK
<1>7. ASSUME EmbedGone(i) PROVE Types'
  BY <1>7, EndType
     DEF EmbedGone, CheckoutOK, TableOK, PointsOK, LinesOK, HandoverOK, HistoryOK
<1>8. ASSUME Upsert(i) PROVE Types'
  <2> DEFINE h    == jobs[i].hash
             seen == tags[h] \cup UNION {rows[f].branches : f \in RowOf(h)}
  <2>1. h \in Contents
    BY <1>0, <1>8 DEF Upsert, At
  <2>2. seen \in SUBSET Branches
    BY <2>1 DEF PointsOK, TableOK, Generation, RowOf, Live
  <2>3. jobs' = [jobs EXCEPT ![i] = [jobs[i] EXCEPT !.pc = "merge", !.seen = seen]]
    BY <1>8 DEF Upsert, WorkOK
  <2> HIDE DEF seen
  <2>4. [jobs[i] EXCEPT !.pc = "merge", !.seen = seen] \in Aimed
    BY <1>0, <1>1, <2>2, JobMoves DEF OnRow
  <2>5. WorkOK'
    BY <1>8, <2>3, <2>4, Domains, WorkStep DEF Upsert
  <2>6. PointsOK'
    BY <1>0, <1>8, <2>1 DEF Upsert, PointsOK
  <2> QED
    BY <1>8, <2>5, <2>6 DEF Upsert, CheckoutOK, TableOK, LinesOK, HandoverOK, HistoryOK
<1>9. ASSUME Merge(i) PROVE Types'
  <2>1. [jobs[i] EXCEPT !.pc = "track", !.file = Holder(i.branch), !.seen = {}] \in Aimed
    BY <1>0, <1>1, JobMoves DEF OnRow
  <2>2. jobs' = [jobs EXCEPT ![i] =
                   [jobs[i] EXCEPT !.pc = "track", !.file = Holder(i.branch), !.seen = {}]]
    BY <1>9 DEF Merge, WorkOK
  <2>3. WorkOK'
    BY <1>9, <2>1, <2>2, Domains, WorkStep DEF Merge
  <2>4. PointsOK'
    BY <1>0, <1>9 DEF Merge, PointsOK
  <2> QED
    BY <1>9, <2>3, <2>4 DEF Merge, CheckoutOK, TableOK, LinesOK, HandoverOK, HistoryOK
<1>10. ASSUME Track(i) PROVE Types'
  <2> DEFINE j == jobs[i]
  <2>1. PICK f \in Files :
          /\ IF j.file = NoFile
             THEN Admit(i.branch, j.hash, Stamp(i.branch), f)
             ELSE /\ f = j.file /\ UNCHANGED fresh
                  /\ Save(f, [rows[f] EXCEPT !.hash = j.hash, !.chunker = TRUE,
                                             !.stamp = Stamp(i.branch)])
          /\ jobs' = [jobs EXCEPT ![i].pc = "search", ![i].file = f]
    BY <1>10 DEF Track
  <2>2. TableOK'
    <3>1. CASE j.file = NoFile
      BY <1>0, <2>1, <3>1, AdmitType
    <3>2. CASE j.file # NoFile
      <4> DEFINE g == [rows[f] EXCEPT !.hash = j.hash, !.chunker = TRUE,
                                      !.stamp = Stamp(i.branch)]
      <4>1. g \in Generation
        BY <1>0 DEF TableOK, Generation
      <4>2. Save(f, g) /\ fresh' = fresh
        BY <2>1, <3>2
      <4> HIDE DEF g
      <4> QED
        BY <4>1, <4>2, SaveType DEF TableOK
    <3> QED
      BY <3>1, <3>2
  <2>3. [jobs[i] EXCEPT !.pc = "search", !.file = f] \in Aimed
    BY <1>0, <1>1, Domains, JobMoves
  <2>4. [queue[i] EXCEPT !.qdrant = TRUE] \in QueueRow
    BY RowStatements
  <2>5. WorkOK'
    BY <1>10, <2>1, <2>3, <2>4, WorkStep DEF Track, WorkOK
  <2> QED
    BY <1>10, <2>2, <2>5 DEF Track, CheckoutOK, PointsOK, LinesOK, HandoverOK, HistoryOK
<1>11. ASSUME Search(i) PROVE Types'
  <2>1. PICK f \in Files : /\ disk[i.branch] \notin {Gone, cache[f]}
                           /\ Send(i, f, disk[i.branch], FALSE)
    BY <1>11 DEF Search
  <2>2. disk[i.branch] \in Contents
    BY <1>0, <2>1 DEF Texts
  <2>3. HandoverOK' /\ WorkOK'
    BY <1>11, <2>1, <2>2, SendType DEF Search
  <2> QED
    BY <1>11, <2>3 DEF Search, CheckoutOK, TableOK, PointsOK, LinesOK, HistoryOK
<1>12. ASSUME SearchSkipped(i) PROVE Types'
  <2>1. amiss' \subseteq Amiss
    BY <1>12 DEF SearchSkipped, HistoryOK, Amiss
  <2> QED
    BY <1>12, <2>1, EndType
       DEF SearchSkipped, CheckoutOK, TableOK, PointsOK, LinesOK, HandoverOK, HistoryOK
<1>13. ASSUME ResearchUntracked(i) PROVE Types'
  <2>1. amiss' \subseteq Amiss
    BY <1>13 DEF ResearchUntracked, HistoryOK, Amiss
  <2> QED
    BY <1>13, <2>1, EndType
       DEF ResearchUntracked, CheckoutOK, TableOK, PointsOK, LinesOK, HandoverOK, HistoryOK
<1> QED
  BY <1>2, <1>3, <1>4, <1>5, <1>6, <1>7, <1>8, <1>9, <1>10, <1>11, <1>12, <1>13

-----------------------------------------------------------------------------
(* The other steps *)

LEMMA FailType ==
  ASSUME Types, NEW i \in Items, HandlerFails(i)
  PROVE  Types'
<1>1. upsets' \in Nat
  BY DEF HandlerFails, Upset, Types, HistoryOK
<1>2. WorkOK'
  <2>1. queue' = [queue EXCEPT ![i] = Retry(queue[i])]
    BY DEF HandlerFails, Types, WorkOK
  <2>2. jobs' = [jobs EXCEPT ![i] = Idle] /\ Idle \in Aimed /\ Retry(queue[i]) \in QueueRow
    BY Domains, RowStatements DEF HandlerFails, Types
  <2> QED
    BY <2>1, <2>2, WorkStep DEF Types
<1> QED
  BY <1>1, <1>2
     DEF HandlerFails, Types, CheckoutOK, TableOK, PointsOK, LinesOK, HandoverOK, HistoryOK

LEMMA EditType ==
  ASSUME Types, NEW b \in Branches, NEW c \in Texts, Edit(b, c)
  PROVE  Types'
<1> DEFINE i == [branch |-> b,
                 op |-> IF disk[b] = Gone THEN "add" ELSE IF c = Gone THEN "delete" ELSE "update"]
<1>1. CheckoutOK'
  BY DEF Edit, Types, CheckoutOK
<1>2. i \in Items
  BY DEF Items, Ops
<1>3. [queue[i] EXCEPT !.state = "pending"] \in QueueRow
  BY <1>2, RowStatements DEF Types
<1>4. queue' = queue \/ queue' = [queue EXCEPT ![i] = [queue[i] EXCEPT !.state = "pending"]]
  BY DEF Edit, Types, WorkOK
<1>5. jobs' = jobs /\ Idle \in Aimed
  BY Domains DEF Edit
<1> HIDE DEF i
<1>6. WorkOK'
  BY <1>2, <1>3, <1>4, <1>5, WorkStep DEF Types
<1>7. amiss' \subseteq Amiss
  BY DEF Edit, Types, HistoryOK, Amiss
<1> QED
  BY <1>1, <1>6, <1>7 DEF Edit, Types, TableOK, PointsOK, LinesOK, HandoverOK, HistoryOK

\* Flush takes a prefix of the channel
LEMMA FlushParts ==
  ASSUME HandoverOK, NEW n \in 1 .. ChanCap, NEW ok \in BOOLEAN, Flush(n, ok)
  PROVE  /\ batch'.works \in Seq(Work) /\ Len(batch'.works) = n
         /\ \A k \in 1 .. n : batch'.works[k] = chan[k]
         /\ chan' \in Seq(Work) /\ Len(chan') = Len(chan) - n
         /\ \A k \in 1 .. Len(chan) - n : chan'[k] = chan[n + k]
         /\ n \in 1 .. Len(chan) /\ batch' = [ok |-> ok, works |-> batch'.works]
<1>1. n \in 1 .. Len(chan) /\ chan \in Seq(Work)
  BY DEF Flush, HandoverOK
<1>2. batch' = [ok |-> ok, works |-> SubSeq(chan, 1, n)]
  BY DEF Flush
<1>3. chan' = SubSeq(chan, n + 1, Len(chan))
  BY DEF Flush
<1> QED
  BY <1>1, <1>2, <1>3

LEMMA FlushType ==
  ASSUME Types, NEW n \in 1 .. ChanCap, NEW ok \in BOOLEAN, Flush(n, ok)
  PROVE  Types'
<1> USE DEF Types
<1>1. HandoverOK'
  BY FlushParts DEF HandoverOK
<1>2. upsets' \in Nat
  <2>1. CASE ok
    BY <2>1 DEF Flush, HistoryOK
  <2>2. CASE ~ok
    BY <2>2 DEF Flush, Upset, HistoryOK
  <2> QED
    BY <2>1, <2>2
<1>3. amiss' \subseteq Amiss
  <2>1. "branch left out" \in Amiss /\ amiss \subseteq Amiss
    BY DEF Amiss, HistoryOK
  <2>2. CASE ok
    <3> DEFINE missed == {k \in 1 .. n : chan[k].item.branch \notin meta'[chan[k].file]}
    <3>1. amiss' = amiss \cup {"branch left out" : m \in missed}
      BY <2>2 DEF Flush
    <3> HIDE DEF missed
    <3> QED
      BY <2>1, <3>1
  <2>3. CASE ~ok
    BY <2>1, <2>3 DEF Flush
  <2> QED
    BY <2>2, <2>3
<1>4. LinesOK'
  <2>1. CASE ~ok
    BY <2>1 DEF Flush, LinesOK
  <2>2. CASE ok
    <3>1. \A f \in Files : LastOf(batch'.works, f) \subseteq Work
      BY <1>1 DEF LastOf, HandoverOK
    <3>2. lines' \in [Files -> Texts]
      <4>1. \A f \in Files : LastOf(batch'.works, f) # {} =>
              (CHOOSE t \in Contents : \E x \in LastOf(batch'.works, f) : x.text = t) \in Contents
        <5> SUFFICES ASSUME NEW f \in Files, LastOf(batch'.works, f) # {}
                     PROVE  \E t \in Contents : \E x \in LastOf(batch'.works, f) : x.text = t
          OBVIOUS
        <5>1. PICK x \in LastOf(batch'.works, f) : TRUE
          OBVIOUS
        <5>2. x.text \in Contents
          BY <3>1, <5>1 DEF Work
        <5> QED
          BY <5>1, <5>2
      <4>2. lines' = [f \in Files |-> IF LastOf(batch'.works, f) = {} THEN lines[f]
                         ELSE CHOOSE t \in Contents :
                                \E x \in LastOf(batch'.works, f) : x.text = t]
        BY <2>2 DEF Flush
      <4> QED
        BY <4>1, <4>2, Domains DEF LinesOK
    <3>3. meta' \in [Files -> SUBSET Branches]
      <4>1. meta' = [f \in Files |-> meta[f] \cup
                        {x.item.branch : x \in LastOf(batch'.works, f)}]
        BY <2>2 DEF Flush
      <4>2. \A f \in Files : {x.item.branch : x \in LastOf(batch'.works, f)} \subseteq Branches
        BY <3>1 DEF Work, Items
      <4> QED
        BY <4>1, <4>2 DEF LinesOK
    <3> QED
      BY <3>2, <3>3 DEF Flush, LinesOK
  <2> QED
    BY <2>1, <2>2
<1> QED
  BY <1>1, <1>2, <1>3, <1>4 DEF Flush, CheckoutOK, TableOK, PointsOK, WorkOK, HistoryOK

LEMMA ConcludeType ==
  ASSUME Types, Conclude
  PROVE  Types'
<1> USE DEF Types
<1> DEFINE x == Head(batch.works)
           r == queue[x.item]
           q == IF ~batch.ok THEN Retry(r) ELSE IF r.qdrant THEN NoItem
                ELSE [r EXCEPT !.state = "pending"]
<1>1. batch.works \in Seq(Work) /\ batch.works # <<>> /\ batch.ok \in BOOLEAN
  BY DEF HandoverOK, Conclude
<1>2. x \in Work /\ Tail(batch.works) \in Seq(Work)
  BY <1>1
<1>3. x.item \in Items /\ x.file \in Files /\ x.text \in Texts
  BY <1>2, Domains DEF Work
<1> HIDE DEF x
<1>4. HandoverOK'
  BY <1>1, <1>2 DEF Conclude, HandoverOK, x
<1>5. q \in QueueRow
  BY <1>3, Domains, RowStatements
<1>6. queue' = [queue EXCEPT ![x.item] = q] /\ jobs' = jobs
  BY DEF Conclude, x
<1> HIDE DEF q
<1>7. WorkOK'
  BY <1>3, <1>5, <1>6, Domains, WorkStep
<1>8. cache' \in [Files -> Texts]
  BY <1>3 DEF Conclude, LinesOK, x
<1> QED
  BY <1>4, <1>7, <1>8 DEF Conclude, CheckoutOK, TableOK, PointsOK, LinesOK, HistoryOK

LEMMA ReconcileType ==
  ASSUME Types, BranchReconcile
  PROVE  Types'
<1> USE DEF Types
<1>1. Mirrored \in [Files -> SUBSET Branches]
  BY DEF Mirrored, TableOK, Generation
<1>2. meta' \in [Files -> SUBSET Branches]
  BY <1>1 DEF BranchReconcile, LinesOK
<1>3. tags' \in [Contents -> SUBSET Branches]
  <2> DEFINE shared(c) == UNION {rows[f].branches : f \in
                     {g \in RowOf(c) : Cardinality(rows[g].branches) >= 2}}
  <2>1. \A c \in Contents : shared(c) \subseteq Branches
    BY DEF RowOf, Live, TableOK, Generation
  <2>2. tags' = [c \in Contents |-> IF tags[c] = {} THEN {} ELSE tags[c] \cup shared(c)]
    BY DEF BranchReconcile
  <2> HIDE DEF shared
  <2> QED
    BY <2>1, <2>2 DEF PointsOK
<1>4. amiss' \subseteq Amiss
  BY DEF BranchReconcile, HistoryOK, Amiss
<1> QED
  BY <1>2, <1>3, <1>4
     DEF BranchReconcile, CheckoutOK, TableOK, PointsOK, LinesOK, WorkOK, HandoverOK,
         HistoryOK

LEMMA CrashType ==
  ASSUME Types, CrashRestart
  PROVE  Types'
<1> USE DEF Types
<1>1. queue' \in [Items -> QueueRow]
  <2>1. \A i \in Items : [queue[i] EXCEPT !.state = "pending"] \in QueueRow
    BY RowStatements
  <2> QED
    BY <2>1 DEF CrashRestart, WorkOK
<1>2. jobs' \in [Items -> Aimed]
  BY Domains DEF CrashRestart
<1>3. Mirrored \in [Files -> SUBSET Branches]
  BY DEF Mirrored, TableOK, Generation
<1>4. LinesOK'
  BY <1>3, Domains DEF CrashRestart, LinesOK
<1>5. rows' \in [Files -> Generation]
  <2>1. \A f \in Files : [rows[f] EXCEPT !.chunker = FALSE] \in Generation
    BY DEF TableOK, Generation
  <2> QED
    BY <2>1 DEF CrashRestart, TableOK
<1>6. HandoverOK'
  <2>1. <<>> \in Seq(Work)
    OBVIOUS
  <2>2. chan' = <<>> /\ batch' = [ok |-> TRUE, works |-> <<>>]
    BY DEF CrashRestart
  <2> QED
    BY <2>1, <2>2 DEF HandoverOK
<1>7. upsets' \in Nat
  <2>1. Upset
    BY DEF CrashRestart
  <2> QED
    BY <2>1 DEF Upset, HistoryOK
<1>8. amiss' \subseteq Amiss
  <2>1. amiss' = (amiss \ {"branch left out"}) \cup
                   {"merge cut off" : i \in {j \in Items : At(j, "merge")}}
    BY DEF CrashRestart
  <2>2. "merge cut off" \in Amiss /\ amiss \subseteq Amiss
    BY DEF Amiss, HistoryOK
  <2> QED
    BY <2>1, <2>2
<1> QED
  BY <1>1, <1>2, <1>4, <1>5, <1>6, <1>7, <1>8
     DEF CrashRestart, CheckoutOK, TableOK, PointsOK, WorkOK, HistoryOK

LEMMA InitTypes == Init => Types
<1> SUFFICES ASSUME Init PROVE Types
  OBVIOUS
<1>1. CheckoutOK /\ PointsOK /\ LinesOK /\ HandoverOK /\ HistoryOK
  BY Domains DEF Init, CheckoutOK, PointsOK, LinesOK, HandoverOK, HistoryOK
<1>2. TableOK /\ WorkOK
  BY Domains DEF Init, TableOK, WorkOK
<1> QED
  BY <1>1, <1>2 DEF Types

LEMMA NextTypes == Types /\ [Next]_vars => Types'
<1> SUFFICES ASSUME Types, [Next]_vars PROVE Types'
  OBVIOUS
<1>1. ASSUME NEW i \in Items, Handler(i) PROVE Types'
  BY <1>1, PrepareType, LeaveType, IngestType DEF Handler
<1>2. CASE UNCHANGED vars \/ Quiet
  BY <1>2 DEF Quiet, vars, Types, CheckoutOK, TableOK, PointsOK, LinesOK, WorkOK,
              HandoverOK, HistoryOK
<1> QED
  BY <1>1, <1>2, FailType, EditType, FlushType, ConcludeType, ReconcileType, CrashType
     DEF Next

-----------------------------------------------------------------------------
(* Whose row is taken: a handler's, or that of an item in the hands of the *)
(* batch writer, which has it once.                                        *)

InFlight(i) == queue[i].state = "taken" /\ At(i, "idle")

Flight == /\ \A n \in 1 .. Len(chan) : InFlight(chan[n].item)
          /\ \A n \in 1 .. Len(batch.works) : InFlight(batch.works[n].item)
          /\ \A m, n \in 1 .. Len(chan) : chan[m].item = chan[n].item => m = n
          /\ \A m, n \in 1 .. Len(batch.works) :
               batch.works[m].item = batch.works[n].item => m = n
          /\ \A m \in 1 .. Len(batch.works), n \in 1 .. Len(chan) :
               batch.works[m].item # chan[n].item

\* The step is about an item that is not in flight, and about no other one
Concerns(i) == /\ ~InFlight(i)
               /\ \A j \in Items : j # i => jobs'[j] = jobs[j] /\ queue'[j] = queue[j]
               /\ jobs'[i].pc # "idle" => queue'[i].state = "taken"

LEMMA WorkItems ==
  ASSUME HandoverOK
  PROVE  /\ \A n \in 1 .. Len(chan) : chan[n].item \in Items
         /\ \A n \in 1 .. Len(batch.works) : batch.works[n].item \in Items
<1>1. \A n \in 1 .. Len(chan) : chan[n] \in Work
  BY DEF HandoverOK
<1>2. \A n \in 1 .. Len(batch.works) : batch.works[n] \in Work
  BY DEF HandoverOK
<1> QED
  BY <1>1, <1>2 DEF Work

LEMMA ConcernsOwned ==
  ASSUME Types, Owned, NEW i \in Items, Concerns(i)
  PROVE  Owned'
BY DEF Concerns, Owned

LEMMA ConcernsFlight ==
  ASSUME Types, Flight, NEW i \in Items, Concerns(i), UNCHANGED handover
  PROVE  Flight'
<1>1. \A j \in Items : InFlight(j) => InFlight(j)'
  BY DEF Concerns, InFlight, At
<1> QED
  BY <1>1, WorkItems DEF Flight, Types

LEMMA SendFlight ==
  ASSUME Types, Flight, NEW i \in Items, NEW f \in Files, NEW text \in Texts,
         NEW done \in BOOLEAN, Send(i, f, text, done), UNCHANGED batch,
         Concerns(i), queue[i].state = "taken"
  PROVE  Flight'
<1> DEFINE x == [item |-> i, file |-> f, text |-> text]
<1>1. chan \in Seq(Work) /\ Len(chan) \in Nat
  BY DEF Types, HandoverOK
<1>2. /\ Len(chan') = Len(chan) + 1 /\ chan'[Len(chan) + 1].item = i
      /\ \A n \in 1 .. Len(chan) : chan'[n] = chan[n]
  BY <1>1 DEF Send
<1>3. 1 .. Len(chan') = (1 .. Len(chan)) \cup {Len(chan) + 1}
  BY <1>1, <1>2
<1>4. InFlight(i)'
  BY Domains DEF Send, InFlight, At, Idle, Types, WorkOK, QueueRow
<1>5. \A j \in Items : InFlight(j) => InFlight(j)' /\ j # i
  BY DEF Concerns, InFlight, At
<1>6. /\ \A n \in 1 .. Len(chan) : chan[n].item # i
      /\ \A n \in 1 .. Len(batch.works) : batch.works[n].item # i
  BY <1>5, WorkItems DEF Flight, Types
<1>7. /\ \A n \in 1 .. Len(chan') : InFlight(chan[n].item)'
      /\ \A n \in 1 .. Len(batch'.works) : InFlight(batch.works[n].item)'
  BY <1>2, <1>3, <1>4, <1>5, WorkItems DEF Flight, Types
<1>8. \A m, n \in 1 .. Len(chan') : chan'[m].item = chan'[n].item => m = n
  BY <1>1, <1>2, <1>3, <1>6 DEF Flight
<1>9. \A m \in 1 .. Len(batch'.works), n \in 1 .. Len(chan') :
        batch'.works[m].item # chan'[n].item
  BY <1>2, <1>3, <1>6 DEF Flight
<1>10. \A m, n \in 1 .. Len(batch'.works) :
         batch'.works[m].item = batch'.works[n].item => m = n
  BY DEF Flight
<1> QED
  BY <1>7, <1>8, <1>9, <1>10 DEF Flight

LEMMA CloseConcerns ==
  ASSUME Types, NEW i \in Items, ~InFlight(i), Close(i) \/ Finish(i)
  PROVE  Concerns(i)
BY DEF Close, Finish, Concerns, Types, WorkOK, Idle

\* A handler step: the item is its own, and it may hand it over
LEMMA HandlerFlight ==
  ASSUME Types, Owned, Flight, NEW i \in Items, Handler(i)
  PROVE  Owned' /\ Flight'
<1> USE DEF Types
<1>0. CASE \/ PrepareMissing(i) \/ PrepareSkip(i) \/ PrepareRechunk(i) \/ PrepareChange(i)
           \/ PrepareUntracked(i) \/ PrepareDelete(i)
  <2>1. queue[i].state = "pending"
    BY <1>0 DEF PrepareMissing, PrepareSkip, PrepareRechunk, PrepareChange,
                PrepareUntracked, PrepareDelete, Ingests, Take
  <2>2. ~InFlight(i)
    BY <2>1 DEF InFlight
  <2>3. Close(i) => Concerns(i)
    BY <2>2, CloseConcerns
  <2>4. queue' = Taken(i) \/ queue' = [Taken(i) EXCEPT ![i].qdrant = TRUE] \/ Decides(i)
          => queue'[i].state = "taken" /\ \A j \in Items : j # i => queue'[j] = queue[j]
    BY DEF Taken, Decides, WorkOK, QueueRow
  <2>5. (\E f \in Nat, x \in BOOLEAN : Release(i, f, x)) \/ (\E x \in BOOLEAN : Ingest(i, x))
          => \A j \in Items : j # i => jobs'[j] = jobs[j]
    BY DEF Release, Ingest, WorkOK
  <2>6. \/ Close(i)
        \/ /\ \/ queue' = Taken(i) \/ queue' = [Taken(i) EXCEPT ![i].qdrant = TRUE]
              \/ Decides(i)
           /\ \/ \E f \in Nat, x \in BOOLEAN : Release(i, f, x)
              \/ \E x \in BOOLEAN : Ingest(i, x)
    <3>1. Holder(i.branch) \in Nat /\ queue[i].qdrant \in BOOLEAN
      BY Domains, HolderFacts DEF TableOK, WorkOK, QueueRow, NoFile
    <3>2. TRUE \in BOOLEAN /\ FALSE \in BOOLEAN
      OBVIOUS
    <3>3. CASE PrepareMissing(i) \/ PrepareDelete(i)
      BY <3>1, <3>2, <3>3, Zenon DEF PrepareMissing, PrepareDelete
    <3>4. CASE PrepareSkip(i) \/ PrepareRechunk(i) \/ PrepareChange(i) \/ PrepareUntracked(i)
      BY <3>1, <3>2, <3>4, Zenon
         DEF PrepareSkip, PrepareRechunk, PrepareChange, PrepareUntracked
    <3> QED
      BY <1>0, <3>3, <3>4
  <2>7. Concerns(i)
    BY <2>2, <2>3, <2>4, <2>5, <2>6 DEF Concerns
  <2>8. UNCHANGED handover
    BY <1>0 DEF PrepareMissing, PrepareSkip, PrepareRechunk, PrepareChange,
                PrepareUntracked, PrepareDelete
  <2> QED
    BY <2>7, <2>8, ConcernsOwned, ConcernsFlight
<1>1. ASSUME ~At(i, "idle") PROVE ~InFlight(i) /\ queue[i].state = "taken"
  BY <1>1 DEF InFlight, Owned, At
<1>2. CASE \/ Unpoint(i) \/ Unhold(i) \/ Dedup(i) \/ Share(i) \/ Embed(i) \/ Upsert(i)
           \/ Merge(i) \/ Track(i)
  <2>1. ~At(i, "idle") /\ UNCHANGED handover
    BY <1>2 DEF Unpoint, Unhold, Dedup, Share, Embed, Upsert, Merge, Track, At
  <2>2. \A j \in Items : j # i => jobs'[j] = jobs[j]
    BY <1>2 DEF Unpoint, Unhold, Dedup, Share, Embed, Upsert, Merge, Track, To, WorkOK
  <2>3. \A j \in Items : queue'[j].state = queue[j].state /\ (j # i => queue'[j] = queue[j])
    <3>1. CASE Track(i)
      BY <3>1 DEF Track, WorkOK, QueueRow
    <3>2. CASE ~Track(i)
      <4>1. queue' = queue
        BY <1>2, <3>2 DEF Unpoint, Unhold, Dedup, Share, Embed, Upsert, Merge
      <4> QED
        BY <4>1
    <3> QED
      BY <3>1, <3>2
  <2> QED
    BY <1>1, <2>1, <2>2, <2>3, ConcernsOwned, ConcernsFlight DEF Concerns
<1>3. CASE \/ ShareUnread(i) \/ EmbedGone(i) \/ SearchSkipped(i) \/ ResearchUntracked(i)
  <2>1. ~At(i, "idle") /\ UNCHANGED handover /\ (Close(i) \/ Finish(i))
    BY <1>3 DEF ShareUnread, EmbedGone, SearchSkipped, ResearchUntracked, Searches, At
  <2> QED
    BY <1>1, <2>1, CloseConcerns, ConcernsOwned, ConcernsFlight
<1>4. CASE Unline(i)
  <2>1. ~At(i, "idle") /\ UNCHANGED handover
    BY <1>4 DEF Unline, At
  <2>2. CASE Close(i)
    BY <1>1, <2>1, <2>2, CloseConcerns, ConcernsOwned, ConcernsFlight
  <2>3. CASE Ingest(i, jobs[i].snap) /\ UNCHANGED queue
    <3>1. Concerns(i)
      BY <1>1, <2>1, <2>3 DEF Concerns, Ingest, WorkOK
    <3> QED
      BY <2>1, <3>1, ConcernsOwned, ConcernsFlight
  <2> QED
    BY <1>4, <2>2, <2>3 DEF Unline
<1>5. CASE ShareSend(i) \/ Search(i)
  <2>1. ~At(i, "idle") /\ UNCHANGED batch
    BY <1>5 DEF ShareSend, Search, Searches, At
  <2>2. PICK f \in Files, done \in BOOLEAN : Send(i, f, disk[i.branch], done)
    <3>1. ShareSend(i) => jobs[i].file \in Files
      BY JobFacts DEF ShareSend, At, OnRow
    <3> QED
      BY <1>5, <3>1 DEF ShareSend, Search
  <2>3. disk[i.branch] \in Texts
    BY Domains DEF CheckoutOK
  <2>4. Concerns(i)
    BY <1>1, <2>1, <2>2 DEF Concerns, Send, WorkOK, Idle
  <2> QED
    BY <1>1, <2>1, <2>2, <2>3, <2>4, SendFlight, ConcernsOwned
<1> QED
  BY <1>0, <1>2, <1>3, <1>4, <1>5 DEF Handler

LEMMA NextOwned == Types /\ Owned /\ Flight /\ [Next]_vars => Owned' /\ Flight'
<1> SUFFICES ASSUME Types, Owned, Flight, [Next]_vars PROVE Owned' /\ Flight'
  OBVIOUS
<1> USE DEF Types
<1>1. ASSUME NEW i \in Items, HandlerFails(i) PROVE Owned' /\ Flight'
  <2>1. ~InFlight(i) /\ UNCHANGED handover
    BY <1>1 DEF HandlerFails, InFlight, At
  <2>2. Concerns(i)
    BY <1>1, <2>1 DEF Concerns, HandlerFails, WorkOK, Idle
  <2> QED
    BY <2>1, <2>2, ConcernsOwned, ConcernsFlight
<1>2. ASSUME NEW b \in Branches, NEW c \in Texts, Edit(b, c) PROVE Owned' /\ Flight'
  <2>1. \A i \in Items : queue[i].state = "taken" => queue'[i].state = "taken"
    BY <1>2 DEF Edit, WorkOK, QueueRow
  <2>2. UNCHANGED <<jobs, handover>>
    BY <1>2 DEF Edit
  <2>3. \A i \in Items : InFlight(i) => InFlight(i)'
    BY <2>1, <2>2 DEF InFlight, At
  <2> QED
    BY <2>1, <2>2, <2>3, WorkItems DEF Owned, Flight
<1>3. ASSUME NEW n \in 1 .. ChanCap, NEW ok \in BOOLEAN, Flush(n, ok)
      PROVE  Owned' /\ Flight'
  <2>1. UNCHANGED <<queue, jobs>> /\ batch.works = <<>>
    BY <1>3 DEF Flush
  <2>2. chan \in Seq(Work) /\ Len(chan) \in Nat
    BY DEF HandoverOK
  <2>3. /\ Len(batch'.works) = n /\ \A k \in 1 .. n : batch'.works[k] = chan[k]
        /\ Len(chan') = Len(chan) - n
        /\ \A k \in 1 .. Len(chan) - n : chan'[k] = chan[n + k]
        /\ n \in 1 .. Len(chan)
    BY <1>3, FlushParts
  <2>4. \A k \in 1 .. Len(chan') : n + k \in 1 .. Len(chan) /\ chan'[k] = chan[n + k]
    BY <2>2, <2>3
  <2>5. \A k \in 1 .. Len(batch'.works) : k \in 1 .. Len(chan) /\ batch'.works[k] = chan[k]
                                          /\ k <= n
    BY <2>2, <2>3
  <2>6. \A i : InFlight(i)' = InFlight(i)
    BY <2>1 DEF InFlight, At
  <2>7. /\ \A k \in 1 .. Len(chan') : InFlight(chan[k].item)'
        /\ \A k \in 1 .. Len(batch'.works) : InFlight(batch.works[k].item)'
    BY <2>4, <2>5, <2>6 DEF Flight
  <2>8. \A k, m \in 1 .. Len(chan') : chan'[k].item = chan'[m].item => k = m
    <3> SUFFICES ASSUME NEW k \in 1 .. Len(chan'), NEW m \in 1 .. Len(chan'),
                        chan'[k].item = chan'[m].item
                 PROVE  k = m
      OBVIOUS
    <3>1. n + k = n + m
      BY <2>4 DEF Flight
    <3> QED
      BY <3>1
  <2>9. \A k, m \in 1 .. Len(batch'.works) :
          batch'.works[k].item = batch'.works[m].item => k = m
    BY <2>5 DEF Flight
  <2>10. ASSUME NEW k \in 1 .. Len(batch'.works), NEW m \in 1 .. Len(chan')
         PROVE  batch'.works[k].item # chan'[m].item
    <3>1. n + m # k
      BY <2>2, <2>3, <2>5
    <3>2. n + m \in 1 .. Len(chan) /\ k \in 1 .. Len(chan)
      BY <2>4, <2>5
    <3>3. chan[k].item # chan[n + m].item
      BY <3>1, <3>2 DEF Flight
    <3> QED
      BY <2>4, <2>5, <3>3
  <2> QED
    <3>1. Owned'
      BY <2>1 DEF Owned
    <3> QED
      BY <2>7, <2>8, <2>9, <2>10, <3>1 DEF Flight
<1>4. ASSUME Conclude PROVE Owned' /\ Flight'
  <2> DEFINE works == batch.works
             x     == Head(works)
  <2>1. works \in Seq(Work) /\ works # <<>>
    BY <1>4 DEF Conclude, HandoverOK
  <2>2. /\ Len(works) \in Nat \ {0} /\ x = works[1]
        /\ batch'.works = Tail(works)
    BY <1>4, <2>1 DEF Conclude, HandoverOK
  <2>3. /\ Len(batch'.works) = Len(works) - 1
        /\ \A k \in 1 .. Len(works) - 1 : batch'.works[k] = works[k + 1]
    BY <2>1, <2>2
  <2>4. \A k \in 1 .. Len(batch'.works) : k + 1 \in 1 .. Len(works)
                                          /\ batch'.works[k] = works[k + 1] /\ k + 1 # 1
    BY <2>2, <2>3
  <2>5. InFlight(x.item) /\ x.item \in Items /\ 1 \in 1 .. Len(works)
    BY <2>2, WorkItems DEF Flight
  <2>6. jobs' = jobs /\ chan' = chan /\ \A i \in Items : i # x.item => queue'[i] = queue[i]
    BY <1>4 DEF Conclude, WorkOK
  <2>7. Owned'
    BY <2>5, <2>6 DEF Owned, InFlight, At
  <2>8. \A i \in Items : InFlight(i) /\ i # x.item => InFlight(i)'
    BY <2>6 DEF InFlight, At
  <2>9. /\ \A k \in 1 .. Len(chan) : chan[k].item # x.item /\ chan[k].item \in Items
        /\ \A k \in 1 .. Len(batch'.works) : /\ batch'.works[k].item # x.item
                                             /\ batch'.works[k].item \in Items
    <3>1. /\ \A k \in 1 .. Len(chan) : chan[k].item \in Items
          /\ \A k \in 1 .. Len(works) : works[k].item \in Items
      BY WorkItems
    <3> QED
      BY <2>2, <2>4, <2>5, <3>1 DEF Flight
  <2>10. /\ \A k \in 1 .. Len(chan) : InFlight(chan[k].item)
         /\ \A k \in 1 .. Len(works) : InFlight(works[k].item)
         /\ \A k, m \in 1 .. Len(chan) : chan[k].item = chan[m].item => k = m
         /\ \A k, m \in 1 .. Len(works) : works[k].item = works[m].item => k = m
         /\ \A k \in 1 .. Len(works), m \in 1 .. Len(chan) : works[k].item # chan[m].item
    BY DEF Flight
  <2> HIDE DEF works, x
  <2>11. /\ \A k \in 1 .. Len(chan') : InFlight(chan[k].item)'
         /\ \A k \in 1 .. Len(batch'.works) : InFlight(batch.works[k].item)'
    BY <2>4, <2>6, <2>8, <2>9, <2>10
  <2>12. \A k, m \in 1 .. Len(batch'.works) :
           batch'.works[k].item = batch'.works[m].item => k = m
    <3> SUFFICES ASSUME NEW k \in 1 .. Len(batch'.works), NEW m \in 1 .. Len(batch'.works),
                        batch'.works[k].item = batch'.works[m].item
                 PROVE  k = m
      OBVIOUS
    <3>1. k + 1 = m + 1
      BY <2>4, <2>10
    <3> QED
      BY <3>1, <2>3, <2>2
  <2>13. ASSUME NEW k \in 1 .. Len(batch'.works), NEW m \in 1 .. Len(chan')
         PROVE  batch'.works[k].item # chan'[m].item
    <3>1. k + 1 \in 1 .. Len(works) /\ batch'.works[k] = works[k + 1]
      BY <2>4
    <3>2. m \in 1 .. Len(chan) /\ chan'[m] = chan[m]
      BY <2>6
    <3>3. works[k + 1].item # chan[m].item
      BY <2>10, <3>1, <3>2
    <3> QED
      BY <3>1, <3>2, <3>3
  <2>14. \A k, m \in 1 .. Len(chan') : chan'[k].item = chan'[m].item => k = m
    BY <2>6, <2>10
  <2> QED
    BY <2>7, <2>11, <2>12, <2>13, <2>14 DEF Flight
<1>5. ASSUME CrashRestart PROVE Owned' /\ Flight'
  <2>1. chan' = <<>> /\ batch'.works = <<>> /\ \A i \in Items : jobs'[i].pc = "idle"
    BY <1>5 DEF CrashRestart, Idle
  <2>2. Len(chan') = 0 /\ Len(batch'.works) = 0
    BY <2>1
  <2> QED
    BY <2>1, <2>2 DEF Owned, Flight
<1>6. CASE BranchReconcile \/ Quiet \/ UNCHANGED vars
  <2>1. UNCHANGED <<queue, jobs, handover>>
    BY <1>6 DEF BranchReconcile, Quiet, vars
  <2>2. \A i : InFlight(i)' = InFlight(i)
    BY <2>1 DEF InFlight, At
  <2> QED
    BY <2>1, <2>2 DEF Owned, Flight
<1> QED
  BY <1>1, <1>2, <1>3, <1>4, <1>5, <1>6, HandlerFlight DEF Next

LEMMA InitOwned == Init => Owned /\ Flight
<1> SUFFICES ASSUME Init PROVE Owned /\ Flight
  OBVIOUS
<1>1. chan = <<>> /\ batch.works = <<>> /\ \A i \in Items : jobs[i].pc = "idle"
  BY DEF Init, Idle
<1>2. Len(chan) = 0 /\ Len(batch.works) = 0
  BY <1>1
<1> QED
  BY <1>1, <1>2 DEF Owned, Flight

\* Every variable keeps its type and a handler always has its row, although the
\* row is given back by another process: an item is handed to the batch writer
\* once, and is in no handler until that has concluded it.
THEOREM GenerationTypes == Spec => []TypeOK
<1>1. Init => Types /\ Owned /\ Flight
  BY InitTypes, InitOwned
<1>2. Types /\ Owned /\ Flight /\ [Next]_vars => (Types /\ Owned /\ Flight)'
  BY NextTypes, NextOwned
<1> QED
  BY <1>1, <1>2, TypeParts, PTL DEF Spec

-----------------------------------------------------------------------------
(* One generation per branch *)

\* Neither of the two things OneGenerationPerBranch excuses has happened
Clean == amiss \cap {"raced", "lost update"} = {}

Holds(b, f) == b \in rows[f].branches
Alive(f)    == rows[f].branches # {}

\* If the branch is in the row, the row is of the content of its checkout
Current(b, f) == Holds(b, f) => rows[f].hash = disk[b]

Disjoint == \A b \in Branches, f, g \in Files : Holds(b, f) /\ Holds(b, g) => f = g

Distinct == \A f, g \in Files :
              Alive(f) /\ Alive(g) /\ rows[f].hash = rows[g].hash => f = g

\* A row's stamp is a time at which its content was in some checkout: the mtime
\* of a checkout vouches for its content
Vouched == \A f \in Files : Alive(f) =>
             /\ rows[f].hash # Gone /\ rows[f].stamp # 0
             /\ \A b \in Branches : rows[f].stamp = mtime[b] => rows[f].hash = disk[b]

\* From the release of the old row to the look at the file after it, the branch is
\* in no other row, unless a second handler of the branch has put it into one
Leaving(i) == \A f \in Files :
  \/ jobs[i].pc \notin {"unpoint", "unhold", "unline"}
  \/ jobs[i].pc # "unline" /\ f = jobs[i].file
  \/ ~Holds(i.branch, f)
  \/ "doubled" \in amiss /\ Current(i.branch, f)

\* From that look to the entry into a row, it is in no row of another content,
Looking(i) == jobs[i].pc \in {"dedup", "share", "embed", "upsert", "merge", "track"} =>
                \A f \in Files : Current(i.branch, f)

\* the content to be entered is that of the checkout, and so is that of the row
\* that is to be written
Known(i) == jobs[i].pc \in {"share", "upsert", "merge", "track"} =>
              jobs[i].hash = disk[i.branch] /\ jobs[i].hash # Gone

Target(i) == \A f \in Files :
  jobs[i].pc = "track" /\ jobs[i].file = f /\ Alive(f) => rows[f].hash = jobs[i].hash

JobInv(i) == Leaving(i) /\ Looking(i) /\ Known(i) /\ Target(i)

Listing == /\ \A f \in Files : Alive(f) => f < fresh /\ InOrder(f)
           /\ \A i \in Items : jobs[i].file < fresh

Clock == /\ \A b \in Branches : mtime[b] <= edits /\ (disk[b] # Gone => mtime[b] # 0)
         /\ \A b, c \in Branches : mtime[b] = mtime[c] => b = c \/ mtime[b] = 0
         /\ \A f \in Files : Alive(f) => rows[f].stamp <= edits

Twins == \A i, j \in Items :
  i # j /\ i.branch = j.branch /\ ~At(i, "idle") /\ ~At(j, "idle") => "doubled" \in amiss

GenerationInv ==
  /\ Listing /\ Clock /\ Twins
  /\ Clean => Disjoint /\ Distinct /\ Vouched /\ \A i \in Items : JobInv(i)

LEMMA InvImplies == Types /\ GenerationInv => OneGenerationPerBranch
<1> SUFFICES ASSUME Types, GenerationInv, Clean,
                    NEW f \in Live, NEW g \in Live, f # g,
                    NEW b \in rows[f].branches, b \in rows[g].branches
             PROVE  FALSE
  BY Zenon DEF OneGenerationPerBranch, Clean
<1>1. f \in Files /\ g \in Files /\ b \in Branches
  BY DEF Live, Types, TableOK, Generation
<1> QED
  BY <1>1 DEF GenerationInv, Disjoint, Holds

LEMMA InitGeneration == Init => GenerationInv
<1> SUFFICES ASSUME Init PROVE GenerationInv
  OBVIOUS
<1>1. \A f \in Files : rows[f].branches = {}
  BY DEF Init, NoGeneration
<1>2. \A i \in Items : jobs[i].pc = "idle" /\ jobs[i].file = 0
  BY DEF Init, Idle, NoFile
<1>3. Listing /\ Clock /\ Twins
  BY <1>1, <1>2 DEF Init, Listing, Clock, Twins, Alive, At
<1>4. Disjoint /\ Distinct /\ Vouched
  BY <1>1 DEF Disjoint, Distinct, Vouched, Alive, Holds
<1>5. \A i \in Items : JobInv(i)
  BY <1>2 DEF JobInv, Leaving, Looking, Known, Target
<1> QED
  BY <1>3, <1>4, <1>5 DEF GenerationInv

\* Whatever is amiss remains so
Remembers == /\ Clean' => Clean
             /\ "doubled" \in amiss => "doubled" \in amiss'

LEMMA Remembered ==
  ASSUME amiss \subseteq amiss' \/ amiss \ {"merge cut off", "branch left out"} \subseteq amiss'
  PROVE  Remembers
BY DEF Remembers, Clean

\* The content, the branches and the stamp of each row are as they were
SameRows == \A f \in Files : /\ rows'[f].branches = rows[f].branches
                             /\ rows'[f].hash = rows[f].hash
                             /\ rows'[f].stamp = rows[f].stamp

\* What a step on the item i does to the rows: a branch is taken out, or that of
\* the item put in with the content of its checkout; no row changes its content
RowsGo(i) == \A f \in Files :
  /\ \A b \in Branches : Holds(b, f)' =>
       Holds(b, f) \/ (b = i.branch /\ rows'[f].hash = disk[b])
  /\ Alive(f)' => /\ Alive(f) \/ f = fresh
                  /\ Alive(f) => rows'[f].hash = rows[f].hash

LEMMA OthersStand ==
  ASSUME Types, GenerationInv, Clean, Remembers, UNCHANGED disk,
         NEW i \in Items, ~At(i, "idle"), RowsGo(i),
         NEW j \in Items, j # i, jobs'[j] = jobs[j]
  PROVE  JobInv(j)'
<1>0. JobInv(j) /\ j.branch \in Branches
  BY Domains DEF GenerationInv
<1>1. \A f \in Files, b \in Branches : Holds(b, f) => Alive(f)
  BY DEF Holds, Alive
<1>2. \A f \in Files, b \in Branches : Holds(b, f)' => Alive(f)'
  BY DEF Holds, Alive
<1>3. ~At(j, "idle") /\ j.branch = i.branch => "doubled" \in amiss'
  BY DEF GenerationInv, Twins, Remembers
<1>4. \A f \in Files : Current(j.branch, f) => Current(j.branch, f)'
  BY <1>0, <1>1, <1>2 DEF Current, RowsGo
<1>5. Leaving(j)'
  <2> SUFFICES ASSUME NEW f \in Files, jobs[j].pc \in {"unpoint", "unhold", "unline"},
                      jobs[j].pc = "unline" \/ f # jobs[j].file, Holds(j.branch, f)'
               PROVE  "doubled" \in amiss' /\ Current(j.branch, f)'
    BY Zenon DEF Leaving
  <2>1. CASE Holds(j.branch, f)
    BY <1>0, <1>4, <2>1 DEF JobInv, Leaving, Remembers
  <2>2. CASE ~Holds(j.branch, f)
    <3>1. j.branch = i.branch /\ rows'[f].hash = disk[j.branch]
      BY <1>0, <2>2 DEF RowsGo
    <3> QED
      BY <1>3, <3>1 DEF Current, At
  <2> QED
    BY <2>1, <2>2
<1>6. Looking(j)'
  BY <1>0, <1>4 DEF JobInv, Looking
<1>7. Known(j)'
  BY <1>0 DEF JobInv, Known
<1>8. Target(j)'
  <2> SUFFICES ASSUME NEW f \in Files, jobs[j].pc = "track", jobs[j].file = f, Alive(f)'
               PROVE  rows'[f].hash = jobs[j].hash
    BY DEF Target
  <2>1. f < fresh /\ fresh \in Nat
    BY DEF GenerationInv, Listing, Types, TableOK
  <2>2. Alive(f)
    BY <2>1, Domains DEF RowsGo
  <2> QED
    BY <1>0, <2>2 DEF RowsGo, JobInv, Target
<1> QED
  BY <1>5, <1>6, <1>7, <1>8 DEF JobInv

\* What a step may do to the job of an item: it stays below the new file_ids, and an
\* item that is taken up is the only one of its branch, or that is recorded
Steps(i) == /\ jobs'[i].file < fresh'
            /\ \/ ~At(i, "idle") \/ "doubled" \in amiss'
               \/ \A j \in Items : j # i /\ j.branch = i.branch => jobs'[j].pc = "idle"

LEMMA JobsKept ==
  ASSUME Types, Types', GenerationInv, Remembers, fresh <= fresh',
         \A j \in Items : jobs'[j] = jobs[j] \/ jobs'[j] = Idle \/ Steps(j)
  PROVE  Twins' /\ \A j \in Items : jobs'[j].file < fresh'
<1>1. fresh \in Nat /\ fresh' \in Nat /\ fresh' > 0 /\ \A j \in Items : jobs[j].file \in Nat
  BY JobFacts DEF Types, TableOK
<1>2. ASSUME NEW j \in Items PROVE jobs'[j].file < fresh'
  BY <1>1 DEF GenerationInv, Listing, Steps, Idle, NoFile
<1>3. Twins'
  <2> SUFFICES ASSUME NEW i \in Items, NEW j \in Items, i # j, i.branch = j.branch,
                      jobs'[i].pc # "idle", jobs'[j].pc # "idle"
               PROVE  "doubled" \in amiss'
    BY DEF Twins, At
  <2>1. CASE ~At(i, "idle") /\ ~At(j, "idle")
    BY <2>1 DEF GenerationInv, Twins, Remembers
  <2>2. CASE At(i, "idle")
    BY <2>2 DEF Steps, Idle, At
  <2>3. CASE At(j, "idle")
    BY <2>3 DEF Steps, Idle, At
  <2> QED
    BY <2>1, <2>2, <2>3
<1> QED
  BY <1>2, <1>3

\* A step that leaves the rows and the checkouts alone
LEMMA Unmoved ==
  ASSUME Types, Types', GenerationInv, Remembers, SameRows,
         UNCHANGED <<disk, mtime, edits, fresh>>,
         \A f \in Files : InOrder(f) => InOrder(f)',
         \A j \in Items : \/ jobs'[j] = jobs[j] \/ jobs'[j] = Idle
                          \/ Steps(j) /\ (Clean' => JobInv(j)')
  PROVE  GenerationInv'
<1>0. /\ \A f \in Files : Alive(f)' = Alive(f)
      /\ \A f \in Files : \A b : Holds(b, f)' = Holds(b, f)
  BY DEF SameRows, Alive, Holds
<1>1. Twins' /\ \A j \in Items : jobs'[j].file < fresh'
  <2>1. fresh <= fresh'
    BY DEF Types, TableOK
  <2> QED
    BY <2>1, JobsKept
<1>2. Listing' /\ Clock'
  BY <1>0, <1>1 DEF GenerationInv, Listing, Clock, SameRows
<1>3. ASSUME Clean' PROVE Disjoint' /\ Distinct' /\ Vouched' /\ \A i \in Items : JobInv(i)'
  <2>1. Disjoint /\ Distinct /\ Vouched /\ \A i \in Items : JobInv(i)
    BY <1>3 DEF GenerationInv, Remembers
  <2>2. Disjoint' /\ Distinct' /\ Vouched'
    BY <1>0, <2>1 DEF Disjoint, Distinct, Vouched, SameRows
  <2>3. ASSUME NEW i \in Items, jobs'[i] = jobs[i] PROVE JobInv(i)'
    <3>1. \A f \in Files : Current(i.branch, f)' = Current(i.branch, f)
      BY <1>0 DEF Current, SameRows
    <3>2. Leaving(i)' /\ Looking(i)'
      BY <1>0, <2>1, <2>3, <3>1 DEF JobInv, Leaving, Looking, Remembers
    <3>3. Known(i)' /\ Target(i)'
      BY <1>0, <2>1, <2>3 DEF JobInv, Known, Target, SameRows
    <3> QED
      BY <3>2, <3>3 DEF JobInv
  <2>4. ASSUME NEW i \in Items, jobs'[i] = Idle PROVE JobInv(i)'
    BY <2>4 DEF JobInv, Leaving, Looking, Known, Target, Idle
  <2> QED
    BY <1>3, <2>2, <2>3, <2>4
<1> QED
  BY <1>1, <1>2, <1>3 DEF GenerationInv

\* The mtime of a checkout vouches for its content
LEMMA HashIsRead ==
  ASSUME Types, Vouched, NEW b \in Branches
  PROVE  HashRead(b) = {disk[b]}
BY DEF HashRead, Vouched, Live, Alive

\* The newest holder of the branch, if there is one, is the only one
LEMMA OneHolder ==
  ASSUME Types, GenerationInv, NEW b \in Branches
  PROVE  /\ Holder(b) < fresh
         /\ Holder(b) = NoFile => \A f \in Files : ~Holds(b, f)
         /\ Holder(b) # NoFile => Holder(b) \in Files /\ Holds(b, Holder(b))
         /\ Clean => \A f \in Files : Holds(b, f) => f = Holder(b)
<1>1. recent \in Seq(Files) /\ fresh \in Nat \ {0}
  BY DEF Types, TableOK
<1>2. \A f \in Files : Holds(b, f) => Alive(f) /\ InOrder(f) /\ f < fresh
  BY DEF Holds, Alive, GenerationInv, Listing
<1>3. /\ Holder(b) = NoFile => \A f \in Files : ~Holds(b, f)
      /\ Holder(b) # NoFile => Holder(b) \in Files /\ Holds(b, Holder(b))
  BY <1>1, <1>2, HolderFacts DEF Holds
<1>4. Holder(b) < fresh
  BY <1>1, <1>2, <1>3 DEF NoFile
<1>5. Clean => \A f \in Files : Holds(b, f) => f = Holder(b)
  BY <1>3 DEF GenerationInv, Disjoint
<1> QED
  BY <1>3, <1>4, <1>5

\* The first look at row and file
LEMMA PrepareGeneration ==
  ASSUME Types, Types', GenerationInv, NEW i \in Items,
         \/ PrepareMissing(i) \/ PrepareSkip(i) \/ PrepareRechunk(i) \/ PrepareChange(i)
         \/ PrepareUntracked(i) \/ PrepareDelete(i)
  PROVE  GenerationInv'
<1> DEFINE f == Holder(i.branch)
           P(x) == [pc |-> "unpoint", file |-> f, hash |-> rows[f].hash,
                    seen |-> rows[f].branches, snap |-> queue[i].qdrant, ingest |-> x]
           Q(x) == [Idle EXCEPT !.snap = x, !.pc = IF x THEN "research" ELSE "dedup"]
<1>0. i.branch \in Branches /\ jobs \in [Items -> Aimed] /\ fresh > 0
  BY Domains DEF Types, WorkOK, TableOK
<1>1. /\ UNCHANGED <<checkout, table>>
      /\ \E more \in SUBSET Amiss : Take(i, more)
  <2>1. {} \in SUBSET Amiss /\ {"hash without points"} \in SUBSET Amiss
    BY DEF Amiss
  <2> QED
    BY <2>1 DEF PrepareMissing, PrepareSkip, PrepareRechunk, PrepareChange,
                PrepareUntracked, PrepareDelete, Ingests
<1>2. amiss \subseteq amiss'
      /\ ("doubled" \in amiss' \/ \A j \in Items : j.branch = i.branch => At(j, "idle"))
  BY <1>1 DEF Take
<1>3. Remembers
  BY <1>2, Remembered
<1>4. SameRows /\ \A g \in Files : InOrder(g)' = InOrder(g)
  BY <1>1 DEF SameRows, InOrder
<1>5. \/ jobs' = [jobs EXCEPT ![i] = Idle]
      \/ f # NoFile /\ \E x \in BOOLEAN : jobs' = [jobs EXCEPT ![i] = P(x)]
      \/ \E x \in BOOLEAN : /\ jobs' = [jobs EXCEPT ![i] = Q(x)]
                            /\ \/ x
                               \/ f = NoFile
                               \/ rows[f].hash \in HashRead(i.branch)
  <2>1. queue[i].qdrant \in BOOLEAN
    BY RowStatements DEF Types
  <2>2. CASE PrepareMissing(i)
    BY <2>2 DEF PrepareMissing, Close, Release
  <2>3. CASE PrepareSkip(i)
    BY <2>3 DEF PrepareSkip, Ingest
  <2>4. CASE PrepareRechunk(i)
    BY <2>1, <2>4 DEF PrepareRechunk, Ingest, SameContent
  <2>5. CASE PrepareChange(i)
    BY <2>5 DEF PrepareChange, Release, Held
  <2>6. CASE PrepareUntracked(i)
    BY <2>1, <2>6 DEF PrepareUntracked, Ingest
  <2>7. CASE PrepareDelete(i)
    BY <2>7 DEF PrepareDelete, Close, Release
  <2> QED
    BY <2>2, <2>3, <2>4, <2>5, <2>6, <2>7
<1>6. /\ f < fresh
      /\ f = NoFile => \A g \in Files : ~Holds(i.branch, g)
      /\ f # NoFile => f \in Files /\ Holds(i.branch, f)
      /\ Clean => \A g \in Files : Holds(i.branch, g) => g = f
  BY <1>0, OneHolder
<1>7. Clean => HashRead(i.branch) = {disk[i.branch]}
  BY <1>0, HashIsRead DEF GenerationInv
<1>8. \A g \in Files : Holds(i.branch, g)' = Holds(i.branch, g)
  BY <1>4 DEF SameRows, Holds
<1> HIDE DEF f
<1>9. CASE jobs' = [jobs EXCEPT ![i] = Idle]
  BY <1>0, <1>1, <1>3, <1>4, <1>9, Unmoved
<1>10. ASSUME f # NoFile, NEW x \in BOOLEAN, jobs' = [jobs EXCEPT ![i] = P(x)]
       PROVE  GenerationInv'
  <2>1. jobs'[i] = P(x) /\ \A j \in Items : j # i => jobs'[j] = jobs[j]
    BY <1>0, <1>10
  <2>2. Steps(i)
    BY <1>1, <1>2, <1>6, <2>1 DEF Steps, At
  <2>3. ASSUME Clean' PROVE JobInv(i)'
    <3>1. \A g \in Files : g # f => ~Holds(i.branch, g)'
      BY <1>3, <1>6, <1>8, <2>3 DEF Remembers
    <3> QED
      BY <2>1, <3>1 DEF JobInv, Leaving, Looking, Known, Target
  <2> QED
    BY <1>1, <1>3, <1>4, <2>1, <2>2, <2>3, Unmoved
<1>11. ASSUME NEW x \in BOOLEAN, jobs' = [jobs EXCEPT ![i] = Q(x)],
              x \/ f = NoFile \/ rows[f].hash \in HashRead(i.branch)
       PROVE  GenerationInv'
  <2>1. jobs'[i] = Q(x) /\ \A j \in Items : j # i => jobs'[j] = jobs[j]
    BY <1>0, <1>11
  <2>2. /\ jobs'[i].pc = IF x THEN "research" ELSE "dedup"
        /\ jobs'[i].file = NoFile
    BY <2>1 DEF Idle
  <2>3. Steps(i)
    BY <1>0, <1>1, <1>2, <2>1, <2>2 DEF Steps, At, NoFile
  <2>4. ASSUME Clean' PROVE JobInv(i)'
    <3>1. ASSUME ~x, NEW g \in Files, Holds(i.branch, g) PROVE rows[g].hash = disk[i.branch]
      BY <1>3, <1>6, <1>7, <1>11, <2>4, <3>1 DEF Remembers
    <3>2. Looking(i)'
      BY <1>1, <1>4, <1>8, <2>2, <3>1 DEF Looking, Current, SameRows
    <3> QED
      BY <2>2, <3>2 DEF JobInv, Leaving, Known, Target
  <2> QED
    BY <1>1, <1>3, <1>4, <2>1, <2>3, <2>4, Unmoved
<1> QED
  BY <1>5, <1>9, <1>10, <1>11

\* A handler that does not touch the rows
LEMMA HandlerGeneration ==
  ASSUME Types, Types', GenerationInv, NEW i \in Items,
         \/ Unpoint(i) \/ Unline(i) \/ Dedup(i) \/ Embed(i) \/ Upsert(i) \/ Merge(i)
  PROVE  GenerationInv'
<1>0. i.branch \in Branches /\ jobs \in [Items -> Aimed] /\ fresh > 0
  BY Domains DEF Types, WorkOK, TableOK
<1>1. UNCHANGED <<checkout, table>> /\ amiss \subseteq amiss' /\ ~At(i, "idle")
  BY DEF Unpoint, Unline, Dedup, Embed, Upsert, Merge, At
<1>2. Remembers
  BY <1>1, Remembered
<1>3. SameRows /\ \A g \in Files : InOrder(g)' = InOrder(g)
  BY <1>1 DEF SameRows, InOrder
<1>4. \A g \in Files : /\ Holds(i.branch, g)' = Holds(i.branch, g)
                       /\ Current(i.branch, g)' = Current(i.branch, g)
                       /\ Alive(g)' = Alive(g)
  BY <1>1, <1>3 DEF SameRows, Holds, Current, Alive
<1>5. \A j \in Items : j # i => jobs'[j] = jobs[j]
  BY <1>0 DEF Unpoint, Unline, Close, Ingest, Dedup, To, Embed, Upsert, Merge
<1>5a. Unline(i) => \/ jobs'[i] = Idle
                    \/ jobs'[i].pc \in {"research", "dedup"} /\ jobs'[i].file = NoFile
  <2>1. ASSUME NEW x, Ingest(i, x)
        PROVE  jobs'[i].pc \in {"research", "dedup"} /\ jobs'[i].file = NoFile
    <3>1. jobs'[i] = [Idle EXCEPT !.snap = x, !.pc = IF x THEN "research" ELSE "dedup"]
      BY <1>0, <2>1 DEF Ingest
    <3> QED
      BY <3>1 DEF Idle
  <2>2. Close(i) => jobs'[i] = Idle
    BY <1>0 DEF Close
  <2> QED
    BY <2>1, <2>2 DEF Unline
<1>6. jobs'[i] = Idle \/ jobs'[i].file < fresh
  <2>0. jobs[i] \in Job
    BY <1>0 DEF Aimed
  <2>1. jobs'[i] = Idle \/ jobs'[i].file = jobs[i].file \/ jobs'[i].file = NoFile
        \/ jobs'[i].file = Holder(i.branch)
    <3>1. CASE Unline(i)
      BY <1>5a, <3>1
    <3>2. CASE Unpoint(i)
      BY <1>0, <2>0, <3>2 DEF Unpoint, Job
    <3>3. CASE Dedup(i)
      BY <1>0, <2>0, <3>3 DEF Dedup, To, Job
    <3>4. CASE Embed(i) \/ Upsert(i) \/ Merge(i)
      BY <1>0, <2>0, <3>4 DEF Embed, Upsert, Merge, Job
    <3> QED
      BY <3>1, <3>2, <3>3, <3>4
  <2>2. jobs[i].file < fresh
    BY DEF GenerationInv, Listing
  <2>3. Holder(i.branch) < fresh
    BY <1>0, OneHolder
  <2> QED
    BY <1>0, <2>1, <2>2, <2>3 DEF NoFile
<1>7. Steps(i) \/ jobs'[i] = Idle
  BY <1>1, <1>6 DEF Steps
<1>8. ASSUME Clean' PROVE JobInv(i)' \/ jobs'[i] = Idle
  <2>1. JobInv(i) /\ Vouched /\ Remembers
    BY <1>2, <1>8 DEF GenerationInv, Remembers
  <2>2. CASE Unpoint(i)
    <3>1. At(i, "unpoint") /\ jobs'[i].pc = "unhold" /\ jobs'[i].file = jobs[i].file
      BY <1>0, <2>2 DEF Unpoint, At
    <3>2. Leaving(i)'
      BY <1>4, <2>1, <3>1 DEF JobInv, Leaving, At, Remembers
    <3> QED
      BY <3>1, <3>2 DEF JobInv, Looking, Known, Target
  <2>3. CASE Unline(i)
    <3>1. jobs'[i] = Idle \/ jobs'[i].pc \in {"research", "dedup"}
      BY <1>5a, <2>3
    <3>2. \A g \in Files : Current(i.branch, g)
      BY <2>1, <2>3 DEF JobInv, Leaving, Unline, At, Current
    <3>3. Looking(i)'
      BY <1>4, <3>2 DEF Looking
    <3>4. jobs'[i].pc \in {"research", "dedup"} => Leaving(i)' /\ Known(i)' /\ Target(i)'
      BY DEF Leaving, Known, Target
    <3> QED
      BY <3>1, <3>3, <3>4 DEF JobInv
  <2>4. ASSUME ~Unpoint(i), ~Unline(i) PROVE Looking(i)'
    BY <1>4, <2>1, <2>4 DEF JobInv, Looking, Dedup, Embed, Upsert, Merge, At
  <2>5. CASE Dedup(i)
    <3>1. PICK h \in HashRead(i.branch) :
            IF h \in stored /\ \E f \in RowOf(h) : rows[f].chunker
            THEN jobs' = [jobs EXCEPT ![i].pc = "share", ![i].hash = h]
            ELSE To(i, "embed")
      BY <2>5 DEF Dedup
    <3>2. h = disk[i.branch]
      BY <1>0, <2>1, <3>1, HashIsRead
    <3>3. (\E f \in RowOf(h) : rows[f].chunker) => h # Gone
      BY <2>1 DEF RowOf, Live, Vouched, Alive
    <3>4. jobs'[i].pc \in {"share", "embed"}
          /\ (jobs'[i].pc = "share" => jobs'[i].hash = h /\ h # Gone)
      <4>1. jobs[i] \in Job
        BY <1>0 DEF Aimed
      <4>2. CASE h \in stored /\ \E f \in RowOf(h) : rows[f].chunker
        <5>1. jobs' = [jobs EXCEPT ![i].pc = "share", ![i].hash = h]
          BY <3>1, <4>2
        <5> QED
          BY <1>0, <3>3, <4>1, <4>2, <5>1 DEF Job
      <4>3. CASE ~(h \in stored /\ \E f \in RowOf(h) : rows[f].chunker)
        <5>1. jobs' = [jobs EXCEPT ![i].pc = "embed"]
          BY <3>1, <4>3 DEF To
        <5> QED
          BY <1>0, <4>1, <5>1 DEF Job
      <4> QED
        BY <4>2, <4>3
    <3>5. Known(i)'
      BY <1>1, <3>2, <3>4 DEF Known
    <3>6. Looking(i)'
      BY <2>4, <2>5 DEF Dedup, Unpoint, Unline, At
    <3> QED
      BY <3>4, <3>5, <3>6 DEF JobInv, Leaving, Target
  <2>6. CASE Embed(i)
    <3>1. /\ jobs'[i].pc = "upsert" /\ jobs'[i].hash = disk[i.branch]
          /\ disk[i.branch] # Gone
      BY <1>0, <2>6 DEF Embed
    <3>2. Looking(i)'
      BY <2>4, <2>6 DEF Embed, Unpoint, Unline, At
    <3> QED
      BY <1>1, <3>1, <3>2 DEF JobInv, Leaving, Known, Target
  <2>7. CASE Upsert(i)
    <3>1. jobs[i].pc = "upsert" /\ jobs'[i].pc = "merge" /\ jobs'[i].hash = jobs[i].hash
      BY <1>0, <2>7 DEF Upsert, At
    <3>2. Looking(i)'
      BY <2>4, <2>7 DEF Upsert, Unpoint, Unline, At
    <3> QED
      BY <1>1, <2>1, <3>1, <3>2 DEF JobInv, Leaving, Known, Target
  <2>8. CASE Merge(i)
    <3>1. /\ jobs[i].pc = "merge" /\ jobs'[i].pc = "track" /\ jobs'[i].hash = jobs[i].hash
          /\ jobs'[i].file = Holder(i.branch)
      BY <1>0, <2>8 DEF Merge, At
    <3>2. Looking(i)'
      BY <2>4, <2>8 DEF Merge, Unpoint, Unline, At
    <3>3. Known(i)'
      BY <1>1, <2>1, <3>1 DEF JobInv, Known
    <3>4. Target(i)'
      <4> SUFFICES ASSUME NEW f \in Files, f = Holder(i.branch)
                   PROVE  rows'[f].hash = jobs'[i].hash
        BY <3>1 DEF Target
      <4>1. Holds(i.branch, f)
        BY <1>0, Domains, OneHolder
      <4>2. rows[f].hash = disk[i.branch]
        BY <2>1, <3>1, <4>1 DEF JobInv, Looking, Current
      <4> QED
        BY <1>3, <2>1, <3>1, <4>2 DEF JobInv, Known, SameRows
    <3> QED
      BY <3>1, <3>2, <3>3, <3>4 DEF JobInv, Leaving
  <2> QED
    BY <2>2, <2>3, <2>5, <2>6, <2>7, <2>8
<1> QED
  BY <1>1, <1>2, <1>3, <1>5, <1>7, <1>8, Unmoved

\* A handler's step on the rows
LEMMA RowsMoved ==
  ASSUME Types, Types', GenerationInv, UNCHANGED <<disk, mtime, edits>>,
         Remembers, NEW i \in Items, ~At(i, "idle"), fresh <= fresh',
         \A j \in Items : j # i => jobs'[j] = jobs[j], jobs'[i].file < fresh',
         \A f \in Files : Alive(f)' => f < fresh' /\ InOrder(f)' /\ rows'[f].stamp <= edits,
         Clean' => RowsGo(i) /\ Disjoint' /\ Distinct' /\ Vouched' /\ JobInv(i)'
  PROVE  GenerationInv'
<1>1. Twins' /\ \A j \in Items : jobs'[j].file < fresh'
  BY JobsKept DEF Steps
<1>2. Listing' /\ Clock'
  BY <1>1 DEF GenerationInv, Listing, Clock
<1>3. ASSUME Clean' PROVE \A j \in Items : JobInv(j)'
  BY <1>3, OthersStand DEF Remembers
<1> QED
  BY <1>1, <1>2, <1>3 DEF GenerationInv

LEMMA UnholdGeneration ==
  ASSUME Types, Types', GenerationInv, NEW i \in Items, Unhold(i)
  PROVE  GenerationInv'
<1>0. PICK f \in Files, left \in SUBSET Branches :
        f = jobs[i].file /\ left = jobs[i].seen \ {i.branch} /\ At(i, "unhold")
  BY JobFacts DEF Types, WorkOK, OnRow, Unhold, At
<1>a. /\ i.branch \in Branches /\ jobs \in [Items -> Aimed] /\ jobs[i] \in Job
      /\ recent \in Seq(Files) /\ rows \in [Files -> Generation]
  BY Domains, JobFacts DEF Types, WorkOK, TableOK, Aimed
<1>1. UNCHANGED <<checkout, fresh>> /\ amiss \subseteq amiss'
  BY DEF Unhold
<1>2. Remembers
  BY <1>1, Remembered
<1>3. /\ jobs'[i].pc = "unline" /\ jobs'[i].file = f
      /\ \A j \in Items : j # i => jobs'[j] = jobs[j]
  BY <1>0, <1>a DEF Unhold, To, Job
<1>4. \/ left = {} /\ rows'[f] = NoGeneration /\ recent' = Others(f)
      \/ Alive(f) /\ rows'[f] = [rows[f] EXCEPT !.branches = left] /\ recent' = <<f>> \o Others(f)
      \/ ~Alive(f) /\ rows'[f] = rows[f] /\ recent' = recent
  BY <1>0, <1>a DEF Unhold, Save, Live, Alive
<1>5. \A g \in Files : g # f => rows'[g] = rows[g]
  BY <1>0, <1>a DEF Unhold, Save
<1>6. /\ rows[f] \in Generation /\ NoGeneration.branches = {}
  BY <1>0, <1>a DEF NoGeneration
<1>7. /\ Alive(f)' => /\ Alive(f)
                     /\ rows'[f].hash = rows[f].hash /\ rows'[f].stamp = rows[f].stamp
      /\ Alive(f)' => recent' = <<f>> \o Others(f)
      /\ Holds(i.branch, f)' => FALSE
  BY <1>0, <1>4, <1>6 DEF Alive, Holds, Generation
<1>8. \A g \in Files : g # f => (Alive(g)' = Alive(g)) /\ \A b : Holds(b, g)' = Holds(b, g)
  BY <1>5 DEF Alive, Holds
<1>9. ASSUME NEW g \in Files, Alive(g)' PROVE g < fresh' /\ InOrder(g)' /\ rows'[g].stamp <= edits
  <2>1. Alive(g) /\ rows'[g].stamp = rows[g].stamp
    BY <1>5, <1>7, <1>8, <1>9
  <2>2. g < fresh /\ InOrder(g) /\ rows[g].stamp <= edits
    BY <2>1 DEF GenerationInv, Listing, Clock
  <2>3. InOrder(g)'
    <3>1. CASE g = f
      BY <1>0, <1>a, <1>7, <1>9, <3>1, SaveOrder
    <3>2. CASE g # f /\ recent' = recent
      BY <2>2, <3>2 DEF InOrder
    <3>3. CASE g # f /\ recent' # recent
      <4>1. recent' = <<f>> \o Others(f) \/ recent' = Others(f)
        BY <1>4, <3>3
      <4> QED
        BY <1>0, <1>a, <2>2, <3>3, <4>1, SaveOrder
    <3> QED
      BY <3>1, <3>2, <3>3
  <2> QED
    BY <1>1, <2>1, <2>2, <2>3
<1>10. ASSUME Clean' PROVE RowsGo(i) /\ Disjoint' /\ Distinct' /\ Vouched' /\ JobInv(i)'
  <2>1. Disjoint /\ Distinct /\ Vouched /\ JobInv(i)
    BY <1>2, <1>10 DEF GenerationInv, Remembers
  <2>2. Alive(f) => rows[f].branches = jobs[i].seen
    BY <1>0, <1>a, <1>10 DEF Unhold, Live, Alive, Clean
  <2>3. \A b \in Branches : Holds(b, f)' => Holds(b, f)
    BY <1>0, <1>4, <1>6, <2>2 DEF Holds, Alive, Generation
  <2>4. \A g \in Files, b \in Branches : Holds(b, g)' => Holds(b, g)
    BY <1>8, <2>3
  <2>5. \A g \in Files : Alive(g)' => /\ Alive(g) /\ rows'[g].hash = rows[g].hash
                                      /\ rows'[g].stamp = rows[g].stamp
    BY <1>5, <1>7, <1>8
  <2>6. RowsGo(i)
    BY <2>4, <2>5 DEF RowsGo
  <2>7. Disjoint' /\ Distinct'
    BY <2>1, <2>4, <2>5 DEF Disjoint, Distinct
  <2>8. Vouched'
    BY <1>1, <2>1, <2>5 DEF Vouched
  <2>9. Leaving(i)'
    <3> SUFFICES ASSUME NEW g \in Files, Holds(i.branch, g)'
                 PROVE  "doubled" \in amiss' /\ Current(i.branch, g)'
      BY DEF Leaving
    <3>1. g # f /\ Holds(i.branch, g)
      BY <1>0, <1>a, <1>7, <2>4
    <3>2. "doubled" \in amiss /\ Current(i.branch, g)
      BY <1>0, <1>a, <2>1, <3>1 DEF JobInv, Leaving, At
    <3> QED
      BY <1>1, <1>2, <1>5, <3>1, <3>2 DEF Remembers, Current, Holds
  <2>10. JobInv(i)'
    BY <1>3, <2>9 DEF JobInv, Looking, Known, Target
  <2> QED
    BY <2>6, <2>7, <2>8, <2>10
<1>11. jobs'[i].file < fresh' /\ fresh <= fresh'
  BY <1>0, <1>1, <1>3 DEF GenerationInv, Listing, Types, TableOK
<1>12. ~At(i, "idle")
  BY <1>0, <1>a DEF At
<1> QED
  BY <1>1, <1>2, <1>3, <1>9, <1>10, <1>11, <1>12, RowsMoved

\* The branch of the item is entered into the row f, with the content of its
\* checkout and the time of that
LEMMA RowWritten ==
  ASSUME Types, Types', GenerationInv, NEW i \in Items, NEW f \in Files,
         UNCHANGED <<checkout, amiss>>, ~At(i, "idle"),
         jobs'[i].pc \in {"sharesend", "search"}, jobs'[i].file = f,
         \A j \in Items : j # i => jobs'[j] = jobs[j],
         \A g \in Files : g # f => rows'[g] = rows[g], recent' = <<f>> \o Others(f),
         fresh <= fresh', Alive(f) \/ (f = fresh /\ fresh' = fresh + 1),
         rows'[f].stamp = Stamp(i.branch),
         Clean => /\ rows'[f].hash = disk[i.branch] /\ disk[i.branch] # Gone
                  /\ \A b \in Branches : (Holds(b, f)' => (Alive(f) /\ Holds(b, f)) \/ b = i.branch)
                  /\ IF Alive(f) THEN rows'[f].hash = rows[f].hash
                     ELSE \A g \in Files : Alive(g) => rows[g].hash # disk[i.branch]
                  /\ \A g \in Files : Holds(i.branch, g) => rows[g].hash = disk[i.branch]
  PROVE  GenerationInv'
<1>0. i.branch \in Branches /\ recent \in Seq(Files) /\ fresh \in Nat /\ fresh' \in Nat
      /\ mtime \in [Branches -> Nat] /\ edits \in Nat /\ f \in Nat
  BY Domains DEF Types, TableOK, CheckoutOK
<1>1. Remembers
  BY DEF Remembers, Clean
<1>2. f < fresh'
  BY <1>0 DEF GenerationInv, Listing
<1>3. \A g \in Files : g # f => (Alive(g)' = Alive(g)) /\ \A b : Holds(b, g)' = Holds(b, g)
  BY DEF Alive, Holds
<1>4. rows'[f].stamp <= edits
  BY <1>0 DEF Stamp, GenerationInv, Clock
<1>5. ASSUME NEW g \in Files, Alive(g)' PROVE g < fresh' /\ InOrder(g)' /\ rows'[g].stamp <= edits
  <2>1. CASE g = f
    BY <1>0, <1>2, <1>4, <2>1, SaveOrder
  <2>2. CASE g # f
    <3>1. g < fresh /\ InOrder(g) /\ rows[g].stamp <= edits /\ g \in Nat
      BY <1>3, <1>5, <2>2, Domains DEF GenerationInv, Listing, Clock
    <3>2. InOrder(g)'
      BY <1>0, <2>2, <3>1, SaveOrder
    <3> QED
      BY <1>0, <2>2, <3>1, <3>2
  <2> QED
    BY <2>1, <2>2
<1>6. ASSUME Clean' PROVE RowsGo(i) /\ Disjoint' /\ Distinct' /\ Vouched' /\ JobInv(i)'
  <2> DEFINE b == i.branch
  <2>0. Clean
    BY <1>1, <1>6 DEF Remembers
  <2>1. Disjoint /\ Distinct /\ Vouched
    BY <2>0 DEF GenerationInv
  <2>2. /\ rows'[f].hash = disk[b] /\ disk[b] # Gone
        /\ \A c \in Branches : (Holds(c, f)' => (Alive(f) /\ Holds(c, f)) \/ c = b)
        /\ Alive(f) => rows'[f].hash = rows[f].hash
        /\ ~Alive(f) => \A g \in Files : Alive(g) => rows[g].hash # disk[b]
        /\ \A g \in Files : Holds(b, g) => rows[g].hash = disk[b]
    BY <2>0
  <2>3. \A g \in Files : Alive(g) => rows'[g].hash = rows[g].hash
    BY <2>2
  <2>4. \A g \in Files : Alive(g)' => Alive(g) \/ g = f
    BY <1>3
  <2>5. \A g \in Files, c \in Branches : Holds(c, g)' => Holds(c, g) \/ (c = b /\ g = f)
    BY <1>3, <2>2
  <2>6. \A g \in Files, c \in Branches : (Holds(c, g) => Alive(g)) /\ (Holds(c, g)' => Alive(g)')
    BY DEF Holds, Alive
  <2>7. RowsGo(i)
    BY <2>2, <2>3, <2>4, <2>5 DEF RowsGo
  <2>8. Distinct'
    <3> SUFFICES ASSUME NEW g \in Files, NEW k \in Files, Alive(g)', Alive(k)',
                        rows'[g].hash = rows'[k].hash
                 PROVE  g = k
      BY DEF Distinct
    <3>1. CASE Alive(g) /\ Alive(k)
      BY <2>1, <2>3, <3>1 DEF Distinct
    <3>2. CASE ~Alive(g)
      BY <2>2, <2>3, <2>4, <3>2
    <3>3. CASE ~Alive(k)
      BY <2>2, <2>3, <2>4, <3>3
    <3> QED
      BY <3>1, <3>2, <3>3
  <2>9. Disjoint'
    <3> SUFFICES ASSUME NEW c \in Branches, NEW g \in Files, NEW k \in Files,
                        Holds(c, g)', Holds(c, k)'
                 PROVE  g = k
      BY DEF Disjoint
    <3>1. CASE c # b
      BY <2>1, <2>5, <3>1 DEF Disjoint
    <3>2. CASE c = b
      <4>1. rows'[g].hash = disk[b] /\ rows'[k].hash = disk[b]
        BY <1>0, <2>2, <2>3, <2>5, <2>6, <3>2
      <4> QED
        BY <2>6, <2>8, <4>1 DEF Distinct
    <3> QED
      BY <3>1, <3>2
  <2>10. Vouched'
    <3> SUFFICES ASSUME NEW g \in Files, Alive(g)'
                 PROVE  /\ rows'[g].hash # Gone /\ rows'[g].stamp # 0
                        /\ \A c \in Branches : rows'[g].stamp = mtime[c] => rows'[g].hash = disk[c]
      BY DEF Vouched
    <3>1. CASE g = f
      <4>1. rows'[f].stamp = mtime[b] /\ mtime[b] # 0
        BY <1>0, <2>2 DEF Stamp, GenerationInv, Clock
      <4>2. \A c \in Branches : mtime[b] = mtime[c] => c = b
        BY <1>0, <4>1 DEF GenerationInv, Clock
      <4> QED
        BY <2>2, <3>1, <4>1, <4>2
    <3>2. CASE g # f
      <4>1. Alive(g) /\ rows'[g] = rows[g]
        BY <1>3, <3>2
      <4> QED
        BY <2>1, <4>1 DEF Vouched
    <3> QED
      BY <3>1, <3>2
  <2>11. JobInv(i)'
    BY DEF JobInv, Leaving, Looking, Known, Target
  <2> QED
    BY <2>7, <2>8, <2>9, <2>10, <2>11
<1> QED
  BY <1>1, <1>2, <1>5, <1>6, RowsMoved

LEMMA WriteGeneration ==
  ASSUME Types, Types', GenerationInv, NEW i \in Items, Share(i) \/ Track(i)
  PROVE  GenerationInv'
<1> DEFINE b == i.branch
           h == jobs[i].hash
<1>0. /\ b \in Branches /\ jobs \in [Items -> Aimed] /\ jobs[i] \in Job
      /\ fresh \in Nat /\ rows \in [Files -> Generation]
  BY Domains DEF Types, WorkOK, TableOK, Aimed
<1>1. UNCHANGED <<checkout, amiss>> /\ ~At(i, "idle")
  BY DEF Share, Track, At
<1>2. Clean => /\ h = disk[b] /\ h # Gone
               /\ \A g \in Files : Current(b, g)
               /\ Track(i) => Target(i)
  <2>1. jobs[i].pc \in {"share", "track"}
    BY DEF Share, Track, At
  <2> QED
    BY <2>1 DEF GenerationInv, JobInv, Known, Looking
<1>3. \A g \in Files : Alive(g) => g < fresh
  BY DEF GenerationInv, Listing
<1>4. ASSUME NEW f \in Files, NEW pc \in {"sharesend", "search"},
             Admit(b, h, Stamp(b), f),
             jobs' = [jobs EXCEPT ![i].pc = pc, ![i].file = f]
      PROVE  GenerationInv'
  <2> DEFINE is == IF f \in Live THEN rows[f].branches ELSE {}
             g  == [hash |-> h, stamp |-> Stamp(b), branches |-> is \cup {b}, chunker |-> TRUE]
  <2>1. /\ jobs'[i].pc \in {"sharesend", "search"} /\ jobs'[i].file = f
        /\ \A j \in Items : j # i => jobs'[j] = jobs[j]
    BY <1>0, <1>4 DEF Job
  <2>2. /\ rows'[f] = g /\ \A k \in Files : k # f => rows'[k] = rows[k]
        /\ recent' = <<f>> \o Others(f)
    BY <1>0, <1>4 DEF Admit, Save
  <2>3. \/ Alive(f) /\ rows[f].hash = h /\ fresh' = fresh
        \/ /\ f = fresh /\ fresh' = fresh + 1
           /\ \A k \in Files : Alive(k) => rows[k].hash # h
    BY <1>4 DEF Admit, RowOf, Live, Alive
  <2>4. ~Alive(f) => is = {}
    BY DEF Live, Alive
  <2>5. Alive(f) => is = rows[f].branches
    BY DEF Live, Alive
  <2>6. f = fresh => ~Alive(f)
    BY <1>0, <1>3
  <2>7. /\ rows'[f].hash = h /\ rows'[f].stamp = Stamp(b) /\ rows'[f].branches = is \cup {b}
    BY <2>2
  <2> HIDE DEF is, g
  <2>8. fresh <= fresh' /\ (Alive(f) \/ (f = fresh /\ fresh' = fresh + 1))
    BY <1>0, <2>3
  <2>9. \A c \in Branches : (Holds(c, f)' => (Alive(f) /\ Holds(c, f)) \/ c = b)
    BY <2>4, <2>5, <2>7 DEF Holds
  <2>10. IF Alive(f) THEN rows'[f].hash = rows[f].hash
         ELSE \A k \in Files : Alive(k) => rows[k].hash # h
    BY <2>3, <2>6, <2>7
  <2>11. Clean => \A k \in Files : Holds(b, k) => rows[k].hash = disk[b]
    BY <1>2 DEF Current
  <2> QED
    BY <1>1, <1>2, <2>1, <2>2, <2>7, <2>8, <2>9, <2>10, <2>11, RowWritten
<1>5. CASE Share(i)
  <2>1. PICK f \in Files : /\ Admit(b, h, Stamp(b), f)
                           /\ jobs' = [jobs EXCEPT ![i].pc = "sharesend", ![i].file = f]
    BY <1>5 DEF Share
  <2> QED
    BY <1>4, <2>1
<1>6. CASE Track(i)
  <2>0. At(i, "track") /\ ~Clashes(jobs[i])
    BY <1>6 DEF Track
  <2>1. PICK f \in Files :
          /\ IF jobs[i].file = NoFile
             THEN Admit(b, h, Stamp(b), f)
             ELSE /\ f = jobs[i].file /\ UNCHANGED fresh
                  /\ Save(f, [rows[f] EXCEPT !.hash = h, !.chunker = TRUE,
                                             !.stamp = Stamp(b)])
          /\ jobs' = [jobs EXCEPT ![i].pc = "search", ![i].file = f]
    BY <1>6 DEF Track
  <2>2. CASE jobs[i].file = NoFile
    BY <1>4, <2>1, <2>2
  <2>3. CASE jobs[i].file # NoFile
    <3>1. /\ jobs'[i].pc \in {"sharesend", "search"} /\ jobs'[i].file = f
          /\ \A j \in Items : j # i => jobs'[j] = jobs[j]
      BY <1>0, <2>1 DEF Job
    <3>2. /\ \A k \in Files : k # f => rows'[k] = rows[k]
          /\ rows'[f] = [rows[f] EXCEPT !.hash = h, !.chunker = TRUE, !.stamp = Stamp(b)]
          /\ recent' = <<f>> \o Others(f) /\ fresh' = fresh /\ f = jobs[i].file
      BY <1>0, <2>1, <2>3 DEF Save
    <3>3. Alive(f)
      BY <2>0, <2>3, <3>2 DEF Clashes, Live, Alive
    <3>4. rows'[f].hash = h /\ rows'[f].stamp = Stamp(b)
          /\ rows'[f].branches = rows[f].branches
      <4>1. rows[f] \in Generation
        BY <1>0
      <4> QED
        BY <3>2, <4>1 DEF Generation
    <3>5. Clean => rows[f].hash = h
      BY <1>2, <1>6, <2>0, <3>2, <3>3 DEF Target, At
    <3>6. \A c \in Branches : Holds(c, f)' => Alive(f) /\ Holds(c, f)
      BY <3>3, <3>4 DEF Holds
    <3>7. Clean => \A k \in Files : Holds(b, k) => rows[k].hash = disk[b]
      BY <1>2 DEF Current
    <3>8. fresh <= fresh'
      BY <1>0, <3>2
    <3>9. Clean => rows'[f].hash = disk[b] /\ disk[b] # Gone /\ rows'[f].hash = rows[f].hash
      BY <1>2, <3>4, <3>5
    <3>10. recent' = <<f>> \o Others(f) /\ \A k \in Files : k # f => rows'[k] = rows[k]
      BY <3>2
    <3> QED
      BY <1>1, <3>1, <3>3, <3>4, <3>6, <3>7, <3>8, <3>9, <3>10, RowWritten
  <2> QED
    BY <2>2, <2>3
<1> QED
  BY <1>5, <1>6

\* A change of a checkout finds no handler of the branch between its look at the file
\* and its entry into a row, or is recorded
LEMMA EditGeneration ==
  ASSUME Types, Types', GenerationInv, NEW b \in Branches, NEW c \in Texts, Edit(b, c)
  PROVE  GenerationInv'
<1>0. disk \in [Branches -> Texts] /\ mtime \in [Branches -> Nat] /\ edits \in Nat
  BY DEF Types, CheckoutOK
<1>1. /\ disk'[b] = c /\ mtime'[b] = edits + 1 /\ edits' = edits + 1
      /\ \A d \in Branches : d # b => disk'[d] = disk[d] /\ mtime'[d] = mtime[d]
      /\ UNCHANGED <<table, jobs>> /\ amiss \subseteq amiss'
  BY <1>0 DEF Edit
<1>2. Remembers
  BY <1>1, Remembered
<1>3. \A f \in Files : /\ Alive(f)' = Alive(f) /\ InOrder(f)' = InOrder(f)
                       /\ \A d : Holds(d, f)' = Holds(d, f)
  BY <1>1 DEF Alive, InOrder, Holds
<1>4. Listing'
  BY <1>1, <1>3 DEF GenerationInv, Listing
<1>5. Clock'
  <2>1. \A d \in Branches : mtime[d] <= edits /\ mtime[d] \in Nat
    BY <1>0 DEF GenerationInv, Clock
  <2>2. \A f \in Files : Alive(f) => rows[f].stamp <= edits /\ rows[f].stamp \in Nat
    BY DEF GenerationInv, Clock, Types, TableOK, Generation
  <2>3. \A d \in Branches : mtime'[d] <= edits' /\ (disk'[d] # Gone => mtime'[d] # 0)
    BY <1>0, <1>1, <2>1 DEF GenerationInv, Clock
  <2>4. \A d, e \in Branches : mtime'[d] = mtime'[e] => d = e \/ mtime'[d] = 0
    BY <1>0, <1>1, <2>1 DEF GenerationInv, Clock
  <2>5. \A f \in Files : Alive(f)' => rows'[f].stamp <= edits'
    BY <1>0, <1>1, <1>3, <2>2
  <2> QED
    BY <2>3, <2>4, <2>5 DEF Clock
<1>6. Twins'
  BY <1>1, <1>2 DEF GenerationInv, Twins, Remembers, At
<1>7. ASSUME Clean' PROVE Disjoint' /\ Distinct' /\ Vouched' /\ \A i \in Items : JobInv(i)'
  <2>1. Disjoint /\ Distinct /\ Vouched /\ \A i \in Items : JobInv(i)
    BY <1>2, <1>7 DEF GenerationInv, Remembers
  <2>2. ~InHand(b)
    BY <1>7 DEF Edit, Clean
  <2>3. Disjoint' /\ Distinct'
    BY <1>1, <1>3, <2>1 DEF Disjoint, Distinct
  <2>4. Vouched'
    <3>1. \A f \in Files : Alive(f) => rows[f].stamp <= edits /\ rows[f].stamp \in Nat
      BY DEF GenerationInv, Clock, Types, TableOK, Generation
    <3>2. \A f \in Files : Alive(f) => rows[f].stamp # mtime'[b]
      BY <1>0, <1>1, <3>1
    <3> QED
      BY <1>1, <1>3, <2>1, <3>2 DEF Vouched
  <2>5. ASSUME NEW i \in Items, i.branch # b PROVE JobInv(i)'
    <3>1. i.branch \in Branches
      BY Domains
    <3>2. \A f \in Files : Current(i.branch, f)' = Current(i.branch, f)
      BY <1>1, <1>3, <2>5, <3>1 DEF Current
    <3>3. Leaving(i)' /\ Looking(i)'
      BY <1>1, <1>2, <1>3, <2>1, <3>2 DEF JobInv, Leaving, Looking, Remembers
    <3>4. Known(i)' /\ Target(i)'
      BY <1>1, <1>3, <2>1, <2>5, <3>1 DEF JobInv, Known, Target
    <3> QED
      BY <3>3, <3>4 DEF JobInv
  <2>6. ASSUME NEW i \in Items, i.branch = b PROVE JobInv(i)'
    <3>1. i = [branch |-> b, op |-> i.op] /\ i.op \in Ops
      BY <2>6 DEF Items
    <3>2. jobs[i].pc = "idle"
          \/ (jobs[i].pc \in {"unpoint", "unhold", "unline"} /\ "doubled" \notin amiss)
      BY <2>2, <3>1 DEF InHand
    <3>3. Leaving(i)'
      <4> SUFFICES ASSUME NEW f \in Files, jobs[i].pc \in {"unpoint", "unhold", "unline"},
                          ~(jobs[i].pc # "unline" /\ f = jobs[i].file)
                   PROVE  ~Holds(i.branch, f)
        BY <1>1, <1>3 DEF Leaving
      <4> QED
        BY <2>1, <3>2 DEF JobInv, Leaving
    <3>4. Looking(i)' /\ Known(i)' /\ Target(i)'
      BY <1>1, <3>2 DEF Looking, Known, Target
    <3> QED
      BY <3>3, <3>4 DEF JobInv
  <2> QED
    BY <2>3, <2>4, <2>5, <2>6
<1> QED
  BY <1>4, <1>5, <1>6, <1>7 DEF GenerationInv

LEMMA NextGeneration ==
  ASSUME Types, Types', GenerationInv, [Next]_vars
  PROVE  GenerationInv'
<1>0. jobs \in [Items -> Aimed]
  BY DEF Types, WorkOK
<1>1. ASSUME SameRows, UNCHANGED <<checkout, recent, fresh>>,
             amiss \subseteq amiss' \/ amiss \ {"merge cut off", "branch left out"} \subseteq amiss',
             \A j \in Items : jobs'[j] = jobs[j] \/ jobs'[j] = Idle
      PROVE  GenerationInv'
  <2>1. \A f \in Files : InOrder(f)' = InOrder(f)
    BY <1>1 DEF InOrder
  <2> QED
    BY <1>1, <2>1, Remembered, Unmoved
<1>2. rows' = rows => SameRows
  BY DEF SameRows
<1>3. ASSUME NEW i \in Items, Handler(i) PROVE GenerationInv'
  <2>1. CASE \/ ShareUnread(i) \/ EmbedGone(i) \/ SearchSkipped(i) \/ ResearchUntracked(i)
             \/ ShareSend(i) \/ Search(i)
    <3>1. jobs' = [jobs EXCEPT ![i] = Idle]
      BY <2>1 DEF ShareUnread, EmbedGone, SearchSkipped, ResearchUntracked, ShareSend,
                  Search, Close, Finish, Send
    <3>2. UNCHANGED <<checkout, table>> /\ amiss \subseteq amiss'
      BY <2>1 DEF ShareUnread, EmbedGone, SearchSkipped, ResearchUntracked, ShareSend,
                  Search
    <3> QED
      BY <1>0, <1>1, <1>2, <3>1, <3>2
  <2> QED
    BY <1>3, <2>1, PrepareGeneration, HandlerGeneration, UnholdGeneration, WriteGeneration
       DEF Handler
<1>4. ASSUME NEW i \in Items, HandlerFails(i) PROVE GenerationInv'
  BY <1>0, <1>1, <1>2, <1>4 DEF HandlerFails
<1>5. ASSUME NEW n \in 1 .. ChanCap, NEW ok \in BOOLEAN, Flush(n, ok) PROVE GenerationInv'
  <2>1. UNCHANGED <<checkout, table, jobs>> /\ amiss \subseteq amiss'
    BY <1>5 DEF Flush
  <2> QED
    BY <1>1, <1>2, <2>1
<1>6. CASE Conclude \/ BranchReconcile \/ Quiet \/ UNCHANGED vars
  <2>1. /\ UNCHANGED <<checkout, table, jobs>>
        /\ amiss \subseteq amiss' \/ amiss \ {"merge cut off", "branch left out"} \subseteq amiss'
    BY <1>6 DEF Conclude, BranchReconcile, Quiet, vars
  <2> QED
    BY <1>1, <1>2, <2>1
<1>7. CASE CrashRestart
  <2>1. SameRows
    <3>1. rows \in [Files -> Generation]
      BY DEF Types, TableOK
    <3>2. PICK keeps \in BOOLEAN :
            rows' = [f \in Files |-> IF f \in Live /\ ~keeps
                                     THEN [rows[f] EXCEPT !.chunker = FALSE] ELSE rows[f]]
      BY <1>7 DEF CrashRestart
    <3> QED
      BY <3>1, <3>2 DEF SameRows, Generation
  <2>2. /\ UNCHANGED <<checkout, recent, fresh>> /\ \A j \in Items : jobs'[j] = Idle
        /\ amiss \ {"merge cut off", "branch left out"} \subseteq amiss'
    BY <1>7 DEF CrashRestart
  <2> QED
    BY <1>1, <2>1, <2>2
<1> QED
  BY <1>3, <1>4, <1>5, <1>6, <1>7, EditGeneration DEF Next

\* Whatever the edits, the overlapping handlers, the failures and the crashes, a
\* branch is in at most one row of the path, unless a file changed under its handler
\* or a branch set was written back over a change: the content of a branch's row is
\* that of its checkout from the handler's look at the file to its entry into a row.
THEOREM OneGenerationThm == Spec => []OneGenerationPerBranch
<1>1. Init => Types /\ GenerationInv
  BY InitTypes, InitGeneration
<1>2. Types /\ GenerationInv /\ [Next]_vars => (Types /\ GenerationInv)'
  BY NextTypes, NextGeneration
<1> QED
  BY <1>1, <1>2, InvImplies, PTL DEF Spec
=============================================================================
