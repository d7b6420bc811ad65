------------------------ MODULE GenerationStoresProofs ------------------------
(***************************************************************************)
(* LinesFollowDisk, VectorsFollowDisk and RowsFollowDisk of Generations, for *)
(* any number of branches, contents, rows, handlers, edits and failures.     *)
(*                                                                         *)
(* What a settled queue promises of a store is not inductive: while rows are *)
(* open the stores may be anything.  The invariants say who will put right   *)
(* what is not right yet.  Of the lines: a row that its branch has outlived  *)
(* has an item that Frees it, and lines or a set that are not written have   *)
(* an item that Writes them, by its handler, the channel or a failed batch.  *)
(* Of the points: a branch is Fine, or an item Mends it, and whoever is in   *)
(* the middle of overwriting tags knows what it has to put back.  Of the     *)
(* rows, when handlers overlap: a branch is Tracked, in a row or by an item. *)
(***************************************************************************)
EXTENDS GenerationsProofs, FiniteSetTheorems

USE GenerationsAssumption DEF checkout, table, qdrant, search, handover, outside,
                              unread

-----------------------------------------------------------------------------
(* The lines follow the disk *)

\* An edit has left the branch in a row of another content
Behind(b, f) == Holds(b, f) /\ rows[f].hash # disk[b]

\* The item will take its branch out of the row: it is still to be taken up, and looks
\* for the row then, or it has found it
Frees(i, f) == /\ disk[i.branch] = Gone \/ i.op # "delete"
               /\ \/ queue[i].state = "pending"
                  \/ jobs[i].pc \in {"unpoint", "unhold"} /\ jobs[i].file = f

Freed == \A b \in Branches, f \in Files :
           Behind(b, f) => \E i \in Items : i.branch = b /\ Frees(i, f)

\* The lines of the row are those of its content, and the branch is with them
Written(b, f) == /\ lines[f] = rows[f].hash
                 /\ b \in meta[f] \/ "branch left out" \in amiss

Ingesting == {"dedup", "share", "embed", "upsert", "merge", "track"}

\* The item will see to that: it is still to be taken up, its handler is on the way to
\* the search sink, or what it sent is in the channel or in a batch that has failed
Writes(i, f) ==
  /\ i.op # "delete"
  /\ \/ queue[i].state = "pending"
     \/ jobs[i].pc \in Ingesting \cup {"research"}
     \/ jobs[i].pc \in {"sharesend", "search"} /\ jobs[i].file = f
     \/ \E n \in 1 .. Len(chan) : chan[n].item = i /\ chan[n].file = f
     \/ ~batch.ok /\ \E n \in 1 .. Len(batch.works) : batch.works[n].item = i

Covered == \A b \in Branches, f \in Files :
  Holds(b, f) /\ rows[f].hash = disk[b] =>
    Written(b, f) \/ \E i \in Items : i.branch = b /\ Writes(i, f)

\* What the cache holds of a row has been written
Cached == \A f \in Files :
  /\ f >= fresh => cache[f] = Gone
  /\ Alive(f) => cache[f] = Gone \/ (cache[f] = rows[f].hash /\ lines[f] = rows[f].hash)

\* Work for a row that is still there has the row's content
Good(x) == /\ x.text \in Contents /\ x.file < fresh /\ x.item.op # "delete"
           /\ Alive(x.file) => x.text = rows[x.file].hash

Sent == /\ \A n \in 1 .. Len(chan) : Good(chan[n])
        /\ \A n \in 1 .. Len(batch.works) : LET x == batch.works[n] IN
             Good(x) /\ (batch.ok /\ Alive(x.file) => lines[x.file] = x.text)

Writing(i) == LET j == jobs[i] IN
  /\ j.pc = "unline" /\ j.seen \subseteq {i.branch} => ~Alive(j.file)
  /\ j.pc \in {"sharesend", "search"} =>
       disk[i.branch] # Gone /\ (Alive(j.file) => rows[j.file].hash = disk[i.branch])
  /\ j.pc = "research" => \A f \in Files : Current(i.branch, f)
  /\ j.pc \in Ingesting \cup {"sharesend", "search", "research"} \/ j.ingest => i.op # "delete"

LinesInv == Clean => Freed /\ Covered /\ Cached /\ Sent /\ \A i \in Items : Writing(i)

\* A step about one item leaves the jobs and the rows of the others alone,
OneItem(i) == \A j \in Items : j # i => jobs'[j] = jobs[j] /\ queue'[j] = queue[j]

\* and of the lines, the sets and the cache of the rows that are there, only the branch
\* of the item in a set; it may send work that is good
Leaves(i) ==
  /\ \A f \in Files : Alive(f)' => lines'[f] = lines[f]
  /\ \A f \in Files, b \in Branches :
       Alive(f)' /\ b # i.branch /\ b \in meta[f] => b \in meta'[f]
  /\ \A f \in Files : Alive(f)' \/ f >= fresh => cache'[f] = cache[f]
  /\ "branch left out" \in amiss => "branch left out" \in amiss'
  /\ chan' = chan \/ \E x \in Work : chan' = Append(chan, x) /\ Good(x)'

\* The item keeps its own promises, or what it promised is no more to be done
Honours(i) ==
  /\ Writing(i)'
  /\ \A f \in Files : Behind(i.branch, f)' /\ Frees(i, f) => Frees(i, f)'
  /\ \A f \in Files : Holds(i.branch, f)' /\ rows'[f].hash = disk[i.branch] =>
       \/ Written(i.branch, f)' \/ Writes(i, f)'
       \/ Holds(i.branch, f) /\ ~Writes(i, f) /\ (Written(i.branch, f) => Written(i.branch, f)')

LEMMA LinesStep ==
  ASSUME Types, Types', GenerationInv, GenerationInv', LinesInv, Clean, NEW i \in Items,
         UNCHANGED <<disk, batch>>, RowsGo(i), fresh <= fresh',
         OneItem(i), Leaves(i), Honours(i)
  PROVE  LinesInv'
<1>0. /\ Freed /\ Covered /\ Cached /\ Sent /\ \A j \in Items : Writing(j)
      /\ i.branch \in Branches
  BY Domains DEF LinesInv
<1>1. /\ \A f \in Files : f \in Nat /\ (Alive(f) => f < fresh) /\ (Alive(f)' => f < fresh')
      /\ fresh \in Nat /\ fresh' \in Nat
      /\ \A f \in Files, b \in Branches : Holds(b, f) => Alive(f)
      /\ \A f \in Files, b \in Branches : Holds(b, f)' => Alive(f)'
      /\ \A j \in Items : jobs[j].file < fresh /\ j.branch \in Branches
  BY Domains DEF Types, TableOK, GenerationInv, Listing, Holds, Alive
<1>2. \A f \in Files : f < fresh /\ Alive(f)' => Alive(f) /\ rows'[f].hash = rows[f].hash
  BY <1>1 DEF RowsGo
<1>3. ASSUME NEW b \in Branches, NEW f \in Files, Holds(b, f)'
      PROVE  \/ Holds(b, f) /\ rows'[f].hash = rows[f].hash
             \/ b = i.branch /\ rows'[f].hash = disk[b]
  BY <1>1, <1>2, <1>3 DEF RowsGo
<1>4. Freed'
  <2> SUFFICES ASSUME NEW b \in Branches, NEW f \in Files, Behind(b, f)'
               PROVE  \E j \in Items : j.branch = b /\ Frees(j, f)'
    BY DEF Freed
  <2>1. Behind(b, f)
    BY <1>3 DEF Behind
  <2>2. PICK j \in Items : j.branch = b /\ Frees(j, f)
    BY <1>0, <2>1 DEF Freed
  <2>3. Frees(j, f)'
    BY <2>1, <2>2 DEF Frees, OneItem, Honours
  <2> QED
    BY <2>2, <2>3
<1>5. \A j \in Items, f \in Files : j # i /\ Writes(j, f) => Writes(j, f)'
  <2>1. Len(chan) \in Nat /\ Len(chan) <= Len(chan')
        /\ \A n \in 1 .. Len(chan) : chan'[n] = chan[n]
    <3>1. chan \in Seq(Work)
      BY DEF Types, HandoverOK
    <3>2. ASSUME NEW x \in Work, chan' = Append(chan, x)
          PROVE  Len(chan) <= Len(chan') /\ \A n \in 1 .. Len(chan) : chan'[n] = chan[n]
      BY <3>1, <3>2
    <3>3. Len(chan) \in Nat
      BY <3>1
    <3>4. CASE chan' = chan
      BY <3>3, <3>4
    <3>5. CASE chan' # chan
      BY <3>2, <3>3, <3>5 DEF Leaves
    <3> QED
      BY <3>4, <3>5
  <2> QED
    BY <2>1 DEF Writes, OneItem
<1>6. Covered'
  <2> SUFFICES ASSUME NEW b \in Branches, NEW f \in Files, Holds(b, f)', rows'[f].hash = disk[b]
               PROVE  Written(b, f)' \/ \E j \in Items : j.branch = b /\ Writes(j, f)'
    BY DEF Covered
  <2>1. CASE b # i.branch
    <3>1. Holds(b, f) /\ rows'[f].hash = rows[f].hash /\ Alive(f)'
      BY <1>1, <1>3, <2>1
    <3>2. Written(b, f) => Written(b, f)'
      BY <2>1, <3>1 DEF Written, Leaves
    <3> QED
      BY <1>0, <1>5, <2>1, <3>1, <3>2 DEF Covered
  <2>2. CASE b = i.branch
    <3>1. CASE Written(b, f)' \/ Writes(i, f)'
      BY <2>2, <3>1
    <3>2. CASE ~(Written(b, f)' \/ Writes(i, f)')
      <4>1. Holds(b, f) /\ ~Writes(i, f) /\ (Written(b, f) => Written(b, f)')
        BY <2>2, <3>2 DEF Honours
      <4>2. rows[f].hash = disk[b]
        BY <1>1, <1>2, <4>1
      <4>3. PICK j \in Items : j.branch = b /\ Writes(j, f)
        BY <1>0, <3>2, <4>1, <4>2 DEF Covered
      <4> QED
        BY <1>5, <4>1, <4>3
    <3> QED
      BY <3>1, <3>2
  <2> QED
    BY <2>1, <2>2
<1>7. Cached'
  <2>1. ASSUME NEW f \in Files, f >= fresh' PROVE cache'[f] = Gone
    <3>1. f >= fresh
      BY <1>1, <2>1
    <3> QED
      BY <1>0, <3>1 DEF Cached, Leaves
  <2>2. ASSUME NEW f \in Files, Alive(f)'
        PROVE  cache'[f] = Gone \/ (cache'[f] = rows'[f].hash /\ lines'[f] = rows'[f].hash)
    <3>1. CASE f < fresh
      BY <1>0, <1>2, <2>2, <3>1 DEF Cached, Leaves
    <3>2. CASE f >= fresh
      BY <1>0, <2>2, <3>2 DEF Cached, Leaves
    <3> QED
      BY <1>1, <3>1, <3>2
  <2> QED
    BY <2>1, <2>2 DEF Cached
<1>8. \A x \in Work : Good(x) => Good(x)'
  <2> SUFFICES ASSUME NEW x \in Work, Good(x) PROVE Good(x)'
    OBVIOUS
  <2>1. x.file \in Files
    BY DEF Work
  <2> QED
    BY <1>1, <1>2, <2>1 DEF Good
<1>9. Sent'
  <2>0. /\ \A n \in 1 .. Len(chan) : chan[n] \in Work
        /\ \A n \in 1 .. Len(batch.works) : batch.works[n] \in Work
    BY DEF Types, HandoverOK
  <2>1. ASSUME NEW n \in 1 .. Len(chan'), NEW x, x = chan'[n] PROVE Good(x)'
    <3>1. CASE chan' = chan
      BY <1>0, <1>8, <2>0, <2>1, <3>1 DEF Sent
    <3>2. ASSUME NEW y \in Work, chan' = Append(chan, y), Good(y)' PROVE Good(x)'
      <4>1. (n \in 1 .. Len(chan) /\ x = chan[n]) \/ x = y
        BY <2>1, <3>2 DEF Types, HandoverOK
      <4> QED
        BY <1>0, <1>8, <2>0, <3>2, <4>1 DEF Sent
    <3> QED
      BY <3>1, <3>2 DEF Leaves
  <2>2. ASSUME NEW n \in 1 .. Len(batch.works), NEW x, x = batch.works[n]
        PROVE  Good(x)' /\ (batch.ok /\ Alive(x.file)' => lines'[x.file] = x.text)
    <3>1. x \in Work /\ x.file \in Files /\ Good(x)
          /\ (batch.ok /\ Alive(x.file) => lines[x.file] = x.text)
      BY <1>0, <2>0, <2>2 DEF Work, Sent
    <3>2. x.file < fresh
      BY <3>1 DEF Good
    <3> QED
      BY <1>2, <1>8, <3>1, <3>2 DEF Leaves
  <2> QED
    BY <2>1, <2>2 DEF Sent, Good, Alive
<1>10. ASSUME NEW j \in Items, j # i PROVE Writing(j)'
  <2>0. Writing(j) /\ jobs'[j] = jobs[j] /\ jobs[j].file < fresh /\ j.branch \in Branches
    BY <1>0, <1>1, <1>10 DEF OneItem
  <2>1. jobs[j].pc \in OnRow => jobs[j].file \in Files
    BY JobFacts DEF Types
  <2>2. \A f \in Files : Current(j.branch, f) => Current(j.branch, f)'
    BY <1>3, <2>0 DEF Current
  <2>3. jobs[j].pc \in OnRow /\ Alive(jobs[j].file)' =>
          Alive(jobs[j].file) /\ rows'[jobs[j].file].hash = rows[jobs[j].file].hash
    BY <1>2, <2>0, <2>1
  <2> QED
    BY <2>0, <2>2, <2>3 DEF Writing, OnRow, Alive
<1> QED
  BY <1>4, <1>6, <1>7, <1>9, <1>10 DEF LinesInv, Honours

\* The row that the branch leaves: it goes with its last branch
Unheld(i, f, left) ==
  /\ f \in Files /\ left \in SUBSET Branches /\ At(i, "unhold")
  /\ jobs'[i] = [jobs[i] EXCEPT !.pc = "unline"] /\ OneItem(i)
  /\ \A g \in Files : g # f => rows'[g] = rows[g] /\ cache'[g] = cache[g]
  /\ \/ left = {} /\ rows'[f] = NoGeneration
     \/ Alive(f) /\ rows'[f] = [rows[f] EXCEPT !.branches = left] /\ left # {}
     \/ ~Alive(f) /\ rows'[f] = rows[f] /\ left # {}
  /\ ~Holds(i.branch, f)' /\ (left = {} => ~Alive(f)')
  /\ Alive(f)' => Alive(f) /\ rows'[f].hash = rows[f].hash /\ cache'[f] = cache[f]
                  /\ rows'[f].chunker = rows[f].chunker
  /\ Clean' => (Alive(f) => rows[f].branches = jobs[i].seen) /\ RowsGo(i)

LEMMA UnholdRows ==
  ASSUME Types, GenerationInv, NEW i \in Items, Unhold(i),
         NEW f, f = jobs[i].file, NEW left, left = jobs[i].seen \ {i.branch}
  PROVE  Unheld(i, f, left)
<1>0. f \in Files /\ left \in SUBSET Branches /\ At(i, "unhold")
  BY JobFacts DEF Types, WorkOK, OnRow, Unhold, At
<1>1. /\ i.branch \in Branches /\ jobs \in [Items -> Aimed] /\ jobs[i] \in Job
      /\ rows \in [Files -> Generation] /\ rows[f] \in Generation
      /\ cache \in [Files -> Texts]
  BY <1>0, Domains, JobFacts DEF Types, WorkOK, TableOK, LinesOK, Aimed
<1>2. jobs'[i] = [jobs[i] EXCEPT !.pc = "unline"] /\ OneItem(i)
  BY <1>1 DEF Unhold, To, OneItem
<1>3. \A g \in Files : g # f => rows'[g] = rows[g] /\ cache'[g] = cache[g]
  BY <1>0, <1>1 DEF Unhold, Save
<1>4. \/ left = {} /\ rows'[f] = NoGeneration
      \/ Alive(f) /\ rows'[f] = [rows[f] EXCEPT !.branches = left] /\ left # {}
      \/ ~Alive(f) /\ rows'[f] = rows[f] /\ left # {}
  BY <1>0, <1>1 DEF Unhold, Save, Live, Alive
<1>5. left # {} => cache' = cache
  BY DEF Unhold
<1>6. /\ NoGeneration.branches = {} /\ i.branch \notin left
      /\ \A g \in SUBSET Branches : LET x == [rows[f] EXCEPT !.branches = g] IN
           x.branches = g /\ x.hash = rows[f].hash /\ x.chunker = rows[f].chunker
  BY <1>1 DEF NoGeneration, Generation
<1>7. ~Holds(i.branch, f)' /\ (left = {} => ~Alive(f)')
  BY <1>0, <1>4, <1>6 DEF Alive, Holds
<1>8. Alive(f)' => Alive(f) /\ rows'[f].hash = rows[f].hash /\ cache'[f] = cache[f]
                   /\ rows'[f].chunker = rows[f].chunker
  <2>1. CASE left = {}
    BY <1>7, <2>1
  <2>2. CASE left # {} /\ Alive(f) /\ rows'[f] = [rows[f] EXCEPT !.branches = left]
    BY <1>0, <1>5, <1>6, <2>2
  <2>3. CASE left # {} /\ ~Alive(f) /\ rows'[f] = rows[f]
    BY <2>3 DEF Alive
  <2> QED
    BY <1>4, <2>1, <2>2, <2>3
<1>9. ASSUME Clean' PROVE (Alive(f) => rows[f].branches = jobs[i].seen) /\ RowsGo(i)
  <2>1. Alive(f) => rows[f].branches = jobs[i].seen
    BY <1>0, <1>9 DEF Unhold, Live, Alive, Clean
  <2>2. \A b \in Branches : Holds(b, f)' => Holds(b, f)
    BY <1>0, <1>4, <1>6, <2>1 DEF Holds, Alive
  <2>3. ASSUME NEW g \in Files
        PROVE  /\ \A b \in Branches : Holds(b, g)' => Holds(b, g)
               /\ Alive(g)' => Alive(g) /\ rows'[g].hash = rows[g].hash
    BY <1>3, <1>8, <2>2 DEF Holds, Alive
  <2>4. RowsGo(i)
    BY <2>3 DEF RowsGo
  <2> QED
    BY <2>1, <2>4
<1> QED
  BY <1>0, <1>2, <1>3, <1>4, <1>7, <1>8, <1>9, Zenon DEF Unheld

\* The row the branch enters: that of the content of its checkout, or a new one
Entered(i, f) ==
  /\ jobs'[i] = [jobs[i] EXCEPT !.pc = IF At(i, "share") THEN "sharesend" ELSE "search",
                                !.file = f]
  /\ OneItem(i) /\ RowsGo(i) /\ fresh <= fresh'
  /\ \A g \in Files : g # f => rows'[g] = rows[g]
  /\ rows'[f].hash = disk[i.branch] /\ disk[i.branch] # Gone /\ rows'[f].chunker
  /\ jobs[i].hash = disk[i.branch]
  /\ IF Alive(f) THEN rows[f].hash = disk[i.branch]
     ELSE f = fresh /\ \A g \in Files : Alive(g) => rows[g].hash # disk[i.branch]
  /\ \A b \in Branches : Holds(b, f)' => (Alive(f) /\ Holds(b, f)) \/ b = i.branch
  /\ \A b \in Branches : Holds(b, f) => Holds(b, f)'
  /\ IF At(i, "track") /\ jobs[i].file # NoFile
     THEN f = jobs[i].file /\ rows'[f].branches = rows[f].branches
     ELSE Holds(i.branch, f)'

LEMMA WriteRows ==
  ASSUME Types, GenerationInv, NEW i \in Items, Share(i) \/ Track(i), Clean
  PROVE  \E f \in Files : Entered(i, f)
<1> DEFINE b == i.branch
           h == jobs[i].hash
<1>0. /\ b \in Branches /\ jobs \in [Items -> Aimed] /\ jobs[i] \in Job
      /\ fresh \in Nat /\ rows \in [Files -> Generation]
      /\ \A g \in Files : (Alive(g) => g < fresh) /\ g \in Nat
  BY Domains DEF Types, WorkOK, TableOK, Aimed, GenerationInv, Listing
<1>1. /\ h = disk[b] /\ h # Gone
      /\ Track(i) => Target(i)
  <2>1. jobs[i].pc \in {"share", "track"}
    BY DEF Share, Track, At
  <2> QED
    BY <2>1 DEF GenerationInv, JobInv, Known
<1>2. OneItem(i)
  BY <1>0 DEF Share, Track, OneItem, Types, WorkOK
<1>3. ASSUME NEW f \in Files, Admit(b, h, Stamp(b), f)
      PROVE  /\ RowsGo(i) /\ fresh <= fresh' /\ \A g \in Files : g # f => rows'[g] = rows[g]
             /\ rows'[f].hash = h /\ rows'[f].chunker /\ Holds(b, f)'
             /\ IF Alive(f) THEN rows[f].hash = h
                ELSE f = fresh /\ \A g \in Files : Alive(g) => rows[g].hash # h
             /\ \A c \in Branches : Holds(c, f)' => (Alive(f) /\ Holds(c, f)) \/ c = b
             /\ \A c \in Branches : Holds(c, f) => Holds(c, f)'
  <2> DEFINE is == IF f \in Live THEN rows[f].branches ELSE {}
  <2>1. /\ rows'[f] = [hash |-> h, stamp |-> Stamp(b), branches |-> is \cup {b}, chunker |-> TRUE]
        /\ \A k \in Files : k # f => rows'[k] = rows[k]
    BY <1>0, <1>3 DEF Admit, Save
  <2>2. \/ Alive(f) /\ rows[f].hash = h /\ fresh' = fresh
        \/ /\ f = fresh /\ fresh' = fresh + 1
           /\ \A k \in Files : Alive(k) => rows[k].hash # h
    BY <1>3 DEF Admit, RowOf, Live, Alive
  <2>3. is = IF Alive(f) THEN rows[f].branches ELSE {}
    BY DEF Live, Alive
  <2> HIDE DEF is
  <2>4. rows'[f].hash = h /\ rows'[f].chunker /\ rows'[f].branches = is \cup {b}
    BY <2>1
  <2>5. Alive(f) => f # fresh
    BY <1>0
  <2>6. /\ \A c \in Branches : Holds(c, f)' => (Alive(f) /\ Holds(c, f)) \/ c = b
        /\ \A c \in Branches : Holds(c, f) => Holds(c, f)'
    BY <2>3, <2>4 DEF Holds, Alive
  <2>7. RowsGo(i)
    <3>1. ASSUME NEW g \in Files, g # f
          PROVE  /\ \A c \in Branches : Holds(c, g)' => Holds(c, g)
                 /\ Alive(g)' => Alive(g) /\ rows'[g].hash = rows[g].hash
      BY <2>1, <3>1 DEF Holds, Alive
    <3> QED
      BY <1>0, <1>1, <2>2, <2>4, <2>5, <2>6, <3>1 DEF RowsGo
  <2> QED
    BY <1>0, <2>1, <2>2, <2>4, <2>5, <2>6, <2>7 DEF Holds
<1>4. CASE Share(i)
  <2>1. PICK f \in Files : /\ Admit(b, h, Stamp(b), f)
                           /\ jobs' = [jobs EXCEPT ![i].pc = "sharesend", ![i].file = f]
    BY <1>4 DEF Share
  <2>2. At(i, "share") /\ ~At(i, "track")
    BY <1>4 DEF Share, At
  <2> QED
    BY <1>0, <1>1, <1>2, <1>3, <2>1, <2>2 DEF Entered
<1>5. CASE Track(i)
  <2>0. At(i, "track") /\ ~At(i, "share") /\ ~Clashes(jobs[i])
    BY <1>5 DEF Track, At
  <2>1. PICK f \in Files :
          /\ IF jobs[i].file = NoFile
             THEN Admit(b, h, Stamp(b), f)
             ELSE /\ f = jobs[i].file /\ UNCHANGED fresh
                  /\ Save(f, [rows[f] EXCEPT !.hash = h, !.chunker = TRUE,
                                             !.stamp = Stamp(b)])
          /\ jobs' = [jobs EXCEPT ![i].pc = "search", ![i].file = f]
    BY <1>5 DEF Track
  <2>2. CASE jobs[i].file = NoFile
    BY <1>0, <1>1, <1>2, <1>3, <2>0, <2>1, <2>2 DEF Entered
  <2>3. CASE jobs[i].file # NoFile
    <3>1. /\ \A k \in Files : k # f => rows'[k] = rows[k]
          /\ rows'[f] = [rows[f] EXCEPT !.hash = h, !.chunker = TRUE, !.stamp = Stamp(b)]
          /\ fresh' = fresh /\ f = jobs[i].file
      BY <1>0, <2>1, <2>3 DEF Save
    <3>2. Alive(f)
      BY <2>0, <2>3, <3>1 DEF Clashes, Live, Alive
    <3>3. rows'[f].hash = h /\ rows'[f].chunker /\ rows'[f].branches = rows[f].branches
      <4>1. rows[f] \in Generation
        BY <1>0
      <4> QED
        BY <3>1, <4>1 DEF Generation
    <3>4. rows[f].hash = h
      BY <1>1, <1>5, <2>0, <3>1, <3>2 DEF Target, At
    <3>5. RowsGo(i)
      <4>1. ASSUME NEW g \in Files
            PROVE  /\ \A c \in Branches : Holds(c, g)' => Holds(c, g)
                   /\ Alive(g)' => Alive(g) /\ rows'[g].hash = rows[g].hash
        BY <3>1, <3>2, <3>3, <3>4 DEF Holds, Alive
      <4> QED
        BY <4>1, Zenon DEF RowsGo
    <3>6. jobs'[i] = [jobs[i] EXCEPT !.pc = "search", !.file = f]
      BY <1>0, <2>1
    <3>7. \A c \in Branches : Holds(c, f)' = Holds(c, f)
      BY <3>3 DEF Holds
    <3>8. fresh <= fresh' /\ \A k \in Files : k # f => rows'[k] = rows[k]
      BY <1>0, <3>1
    <3>9. f = jobs[i].file
      BY <3>1
    <3> QED
      BY <1>1, <1>2, <2>0, <2>3, <3>2, <3>3, <3>4, <3>5, <3>6, <3>7, <3>8, <3>9 DEF Entered
  <2> QED
    BY <2>2, <2>3
<1> QED
  BY <1>4, <1>5

\* What a busy item promises, its row being taken
LEMMA BusyItem ==
  ASSUME Types, Owned, Flight, NEW i \in Items, ~At(i, "idle"), NEW f
  PROVE  /\ Writes(i, f) => \/ jobs[i].pc \in Ingesting \cup {"research"}
                            \/ jobs[i].pc \in {"sharesend", "search"} /\ jobs[i].file = f
         /\ Frees(i, f) => jobs[i].pc \in {"unpoint", "unhold"} /\ jobs[i].file = f
<1>1. queue[i].state = "taken" /\ ~InFlight(i)
  BY DEF Owned, At, InFlight
<1>2. /\ \A n \in 1 .. Len(chan) : chan[n].item # i
      /\ \A n \in 1 .. Len(batch.works) : batch.works[n].item # i
  BY <1>1 DEF Flight
<1> QED
  BY <1>1, <1>2 DEF Writes, Frees

\* A step on the item that leaves the rows alone
LEMMA RowsStay ==
  ASSUME Types, NEW i \in Items, rows' = rows
  PROVE  /\ RowsGo(i)
         /\ \A f : Alive(f)' = Alive(f) /\ \A b : Holds(b, f)' = Holds(b, f)
BY DEF RowsGo, Alive, Holds

LEMMA PrepareLines ==
  ASSUME Types, Types', GenerationInv, GenerationInv', LinesInv, Clean', NEW i \in Items,
         \/ PrepareMissing(i) \/ PrepareSkip(i) \/ PrepareRechunk(i) \/ PrepareChange(i)
         \/ PrepareUntracked(i) \/ PrepareDelete(i)
  PROVE  LinesInv'
<1> DEFINE b == i.branch
<1>0. b \in Branches /\ jobs \in [Items -> Aimed] /\ queue \in [Items -> QueueRow]
  BY Domains DEF Types, WorkOK
<1>1. /\ UNCHANGED <<checkout, table, search, cache, handover>> /\ amiss \subseteq amiss'
      /\ queue[i].state = "pending"
  BY DEF PrepareMissing, PrepareSkip, PrepareRechunk, PrepareChange,
         PrepareUntracked, PrepareDelete, Ingests, Take
<1>2. Clean
  BY <1>1 DEF Clean
<1>3. PICK f : /\ f = Holder(b)
               /\ f = NoFile => \A g \in Files : ~Holds(b, g)
               /\ f # NoFile => f \in Files /\ Holds(b, f)
               /\ \A g \in Files : Holds(b, g) => g = f
  BY <1>0, <1>2, OneHolder
<1>4. HashRead(b) = {disk[b]}
  BY <1>0, <1>2, HashIsRead DEF GenerationInv
<1>5. \A g \in Files : Holds(b, g) => rows[g].hash # Gone
  BY <1>2 DEF GenerationInv, Vouched, Holds, Alive
<1>6. \/ /\ jobs' = [jobs EXCEPT ![i] = Idle]
         /\ f = NoFile \/ (i.op = "delete" /\ disk[b] # Gone)
      \/ /\ f # NoFile /\ rows[f].hash # disk[b]
         /\ \E x \in BOOLEAN :
              /\ jobs' = [jobs EXCEPT ![i] =
                   [pc |-> "unpoint", file |-> f, hash |-> rows[f].hash,
                    seen |-> rows[f].branches, snap |-> queue[i].qdrant, ingest |-> x]]
              /\ IF x THEN i.op # "delete" ELSE disk[b] = Gone
      \/ /\ i.op # "delete" /\ (f = NoFile \/ rows[f].hash = disk[b])
         /\ \E x \in BOOLEAN : jobs' = [jobs EXCEPT ![i] = [Idle EXCEPT !.snap = x,
                                          !.pc = IF x THEN "research" ELSE "dedup"]]
  <2>1. queue[i].qdrant \in BOOLEAN
    BY RowStatements DEF Types
  <2>2. CASE PrepareMissing(i)
    BY <1>3, <1>5, <2>2 DEF PrepareMissing, Close, Release
  <2>3. CASE PrepareSkip(i)
    BY <1>3, <1>4, <2>3 DEF PrepareSkip, Ingest, SameContent
  <2>4. CASE PrepareRechunk(i)
    BY <1>3, <1>4, <2>1, <2>4 DEF PrepareRechunk, Ingest, SameContent, Ingests
  <2>5. CASE PrepareChange(i)
    BY <1>3, <1>4, <2>5 DEF PrepareChange, Release, Held, NewContent, Ingests
  <2>6. CASE PrepareUntracked(i)
    BY <1>3, <2>1, <2>6 DEF PrepareUntracked, Ingest, Ingests
  <2>7. CASE PrepareDelete(i)
    BY <1>3, <1>5, <2>7 DEF PrepareDelete, Close, Release
  <2> QED
    BY <2>2, <2>3, <2>4, <2>5, <2>6, <2>7
<1>7. OneItem(i)
  <2>1. \A j \in Items : j # i => jobs'[j] = jobs[j]
    BY <1>0, <1>6
  <2>2. \A j \in Items : j # i => queue'[j] = queue[j]
    BY <1>0 DEF PrepareMissing, PrepareSkip, PrepareRechunk, PrepareChange, PrepareUntracked,
                PrepareDelete, Close, Taken, Decides
  <2> QED
    BY <2>1, <2>2 DEF OneItem
<1>8. Leaves(i) /\ RowsGo(i)
  BY <1>1, RowsStay DEF Leaves
<1>9. \A g \in Files : Holds(b, g)' = Holds(b, g) /\ Behind(b, g)' = Behind(b, g)
                       /\ Current(b, g)' = Current(b, g)
  BY <1>1 DEF Holds, Behind, Current
<1>10. CASE /\ jobs' = [jobs EXCEPT ![i] = Idle]
            /\ f = NoFile \/ (i.op = "delete" /\ disk[b] # Gone)
  <2>1. jobs'[i] = Idle
    BY <1>0, <1>10
  <2>2. Writing(i)'
    BY <2>1 DEF Writing, Idle, Ingesting
  <2>3. Honours(i)
    BY <1>1, <1>3, <1>9, <1>10, <2>2 DEF Honours, Behind, Frees, Writes, Written
  <2> QED
    BY <1>1, <1>2, <1>7, <1>8, <2>3, LinesStep DEF Types, TableOK
<1>11. ASSUME f # NoFile, rows[f].hash # disk[b], NEW x \in BOOLEAN,
              jobs' = [jobs EXCEPT ![i] =
                   [pc |-> "unpoint", file |-> f, hash |-> rows[f].hash,
                    seen |-> rows[f].branches, snap |-> queue[i].qdrant, ingest |-> x]],
              IF x THEN i.op # "delete" ELSE disk[b] = Gone
       PROVE  LinesInv'
  <2>1. jobs'[i].pc = "unpoint" /\ jobs'[i].file = f /\ jobs'[i].ingest = x
    BY <1>0, <1>11
  <2>2. Writing(i)'
    BY <1>11, <2>1 DEF Writing, Ingesting
  <2>3. ASSUME NEW g \in Files, Holds(b, g)' PROVE Frees(i, g)' /\ rows'[g].hash # disk[b]
    BY <1>1, <1>3, <1>9, <1>11, <2>1, <2>3 DEF Frees
  <2>4. Honours(i)
    BY <2>2, <2>3 DEF Honours, Behind
  <2> QED
    BY <1>1, <1>2, <1>7, <1>8, <2>4, LinesStep DEF Types, TableOK
<1>12. ASSUME i.op # "delete", f = NoFile \/ rows[f].hash = disk[b], NEW x \in BOOLEAN,
              jobs' = [jobs EXCEPT ![i] = [Idle EXCEPT !.snap = x,
                                          !.pc = IF x THEN "research" ELSE "dedup"]]
       PROVE  LinesInv'
  <2>1. jobs'[i].pc \in {"research", "dedup"} /\ ~jobs'[i].ingest
    BY <1>0, <1>12 DEF Idle
  <2>2. \A g \in Files : Current(b, g)
    BY <1>3, <1>12 DEF Current
  <2>3. Writing(i)'
    BY <1>1, <1>9, <1>12, <2>1, <2>2 DEF Writing, Ingesting
  <2>4. \A g \in Files : Writes(i, g)' /\ ~Behind(b, g)'
    BY <1>9, <1>12, <2>1, <2>2 DEF Writes, Ingesting, Behind, Current
  <2>5. Honours(i)
    BY <2>3, <2>4 DEF Honours
  <2> QED
    BY <1>1, <1>2, <1>7, <1>8, <2>5, LinesStep DEF Types, TableOK
<1> QED
  BY <1>6, <1>10, <1>11, <1>12

LEMMA LeaveLines ==
  ASSUME Types, Types', Owned, Flight, GenerationInv, GenerationInv', LinesInv, Clean',
         NEW i \in Items, Unpoint(i) \/ Unhold(i) \/ Unline(i)
  PROVE  LinesInv'
<1> DEFINE b == i.branch
<1>0. /\ b \in Branches /\ jobs \in [Items -> Aimed] /\ jobs[i] \in Job
      /\ jobs[i].file \in Files /\ ~At(i, "idle") /\ jobs[i].pc \in {"unpoint", "unhold", "unline"}
      /\ lines \in [Files -> Texts] /\ meta \in [Files -> SUBSET Branches]
  <2>1. jobs[i].pc \in {"unpoint", "unhold", "unline"}
    BY DEF Unpoint, Unhold, Unline, At
  <2> QED
    BY <2>1, Domains, JobFacts DEF Types, WorkOK, LinesOK, OnRow, Aimed, At
<1>1. UNCHANGED <<checkout, batch, chan, fresh>> /\ amiss \subseteq amiss'
  BY DEF Unpoint, Unhold, Unline
<1>2. Clean
  BY <1>1 DEF Clean
<1>3. /\ JobInv(i) /\ Writing(i) /\ jobs[i].file < fresh /\ fresh <= fresh'
  BY <1>1, <1>2 DEF GenerationInv, Listing, LinesInv, Types, TableOK
<1>4. \A g : ~Writes(i, g) /\ (Frees(i, g) => At(i, "unpoint") \/ At(i, "unhold"))
             /\ (Frees(i, g) => jobs[i].file = g)
  BY <1>0, BusyItem DEF At, Ingesting
<1>5. CASE Unpoint(i)
  <2>1. /\ jobs'[i].pc = "unhold" /\ jobs'[i].file = jobs[i].file /\ jobs'[i].ingest = jobs[i].ingest
        /\ UNCHANGED <<rows, lines, meta, cache, queue>>
    BY <1>0, <1>5 DEF Unpoint, Job
  <2>2. OneItem(i) /\ RowsGo(i) /\ Leaves(i)
    BY <1>0, <1>1, <1>5, <2>1, RowsStay DEF Unpoint, OneItem, Leaves
  <2>3. Writing(i)'
    BY <1>3, <2>1 DEF Writing, Ingesting
  <2>4. \A g \in Files : Frees(i, g) => Frees(i, g)'
    BY <1>1, <2>1, <1>4 DEF Frees
  <2>5. \A g \in Files : Holds(b, g)' = Holds(b, g) /\ Written(b, g)' = Written(b, g)
    BY <1>5, <2>1 DEF Holds, Written, Unpoint
  <2>6. Honours(i)
    BY <1>4, <2>3, <2>4, <2>5 DEF Honours
  <2> QED
    BY <1>1, <1>2, <1>3, <2>2, <2>6, LinesStep
<1>6. CASE Unhold(i)
  <2>1. PICK f, left : f = jobs[i].file /\ left = jobs[i].seen \ {i.branch}
    OBVIOUS
  <2>1u. Unheld(i, f, left)
    BY <1>6, <2>1, UnholdRows
  <2>2. /\ jobs'[i] = [jobs[i] EXCEPT !.pc = "unline"] /\ OneItem(i)
        /\ \A g \in Files : g # f => rows'[g] = rows[g] /\ cache'[g] = cache[g]
        /\ ~Holds(i.branch, f)' /\ (left = {} => ~Alive(f)')
        /\ Alive(f)' => cache'[f] = cache[f]
        /\ RowsGo(i)
    BY <1>1, <2>1u DEF Unheld
  <2>3. /\ jobs'[i].pc = "unline" /\ jobs'[i].file = f /\ jobs'[i].ingest = jobs[i].ingest
        /\ jobs'[i].seen = jobs[i].seen
    BY <1>0, <2>1, <2>2 DEF Job
  <2>4. Leaves(i)
    <3>1. f < fresh /\ fresh \in Nat /\ f \in Nat
      BY <1>0, <1>3, <2>1, Domains DEF Types, TableOK
    <3>2. UNCHANGED search
      BY <1>6 DEF Unhold
    <3>3. \A g \in Files : Alive(g)' \/ g >= fresh => cache'[g] = cache[g]
      BY <2>2, <3>1
    <3> QED
      BY <1>1, <3>2, <3>3 DEF Leaves
  <2>5. Writing(i)'
    <3>1. jobs[i].seen \subseteq {i.branch} => ~Alive(f)'
      BY <2>1, <2>2
    <3> QED
      BY <1>3, <2>3, <3>1 DEF Writing, Ingesting, Alive
  <2>6. \A g \in Files : Frees(i, g) => ~Holds(i.branch, g)'
    BY <1>4, <2>1, <2>2
  <2>7. ASSUME NEW g \in Files, Holds(i.branch, g)'
        PROVE  Holds(i.branch, g) /\ Written(i.branch, g)' = Written(i.branch, g)
    <3>1. g # f /\ rows'[g] = rows[g]
      BY <2>2, <2>7
    <3>2. UNCHANGED <<search, amiss>> \/ ("branch left out" \in amiss' <=> "branch left out" \in amiss)
      BY <1>6 DEF Unhold
    <3> QED
      BY <1>6, <2>7, <3>1, <3>2 DEF Holds, Written, Unhold
  <2>8. Honours(i)
    BY <1>4, <2>5, <2>6, <2>7 DEF Honours, Behind
  <2> QED
    BY <1>1, <1>2, <1>3, <2>2, <2>4, <2>8, LinesStep
<1>7. CASE Unline(i)
  <2>1. \/ /\ jobs'[i] = Idle /\ ~jobs[i].ingest
        \/ /\ jobs'[i].pc \in {"research", "dedup"} /\ ~jobs'[i].ingest /\ jobs[i].ingest
    <3>1. ASSUME NEW x, Ingest(i, x)
          PROVE  jobs'[i].pc \in {"research", "dedup"} /\ ~jobs'[i].ingest
      <4>1. jobs'[i] = [Idle EXCEPT !.snap = x, !.pc = IF x THEN "research" ELSE "dedup"]
        BY <1>0, <3>1 DEF Ingest
      <4> QED
        BY <4>1 DEF Idle
    <3>2. Close(i) => jobs'[i] = Idle
      BY <1>0 DEF Close
    <3> QED
      BY <1>7, <3>1, <3>2 DEF Unline
  <2>2. OneItem(i) /\ UNCHANGED <<rows, cache>>
    BY <1>0, <1>7 DEF Unline, OneItem, Ingest, Close, Types, WorkOK
  <2>3. PICK f : f = jobs[i].file
    OBVIOUS
  <2>4. /\ \A g \in Files : Alive(g) => lines'[g] = lines[g]
        /\ \A g \in Files, c \in Branches : Alive(g) /\ c \in meta[g] =>
             c \in meta'[g] \/ (c = b /\ g = f)
    <3>1. jobs[i].seen \subseteq {b} => ~Alive(f)
      BY <1>3, <1>7, <2>3 DEF Writing, Unline, At
    <3>2. f \in Files
      BY <1>0, <2>3
    <3>3. /\ lines' = IF jobs[i].seen \subseteq {b} THEN [lines EXCEPT ![f] = Gone] ELSE lines
          /\ meta' = [meta EXCEPT ![f] = IF jobs[i].seen \subseteq {b} THEN {} ELSE @ \ {b}]
      BY <1>7, <2>3 DEF Unline
    <3> QED
      BY <1>0, <3>1, <3>2, <3>3
  <2>5. Holds(b, f) => "branch left out" \in amiss'
    BY <1>7, <2>3 DEF Unline, Holds
  <2>6. \A g \in Files : Alive(g)' = Alive(g) /\ Holds(b, g)' = Holds(b, g)
                          /\ Current(b, g)' = Current(b, g)
    BY <1>1, <2>2 DEF Holds, Alive, Current
  <2>7. Leaves(i) /\ RowsGo(i)
    BY <1>1, <2>2, <2>4, <2>6, RowsStay DEF Leaves
  <2>8. Writing(i)'
    <3>1. \A g \in Files : Current(b, g)
      BY <1>3, <1>7 DEF JobInv, Leaving, Unline, At, Current
    <3> QED
      BY <1>3, <2>1, <2>6, <3>1 DEF Writing, Ingesting, Idle
  <2>9. \A g \in Files : ~Frees(i, g)
    BY <1>4, <1>7 DEF Unline, At
  <2>10. ASSUME NEW g \in Files, Holds(b, g), Written(b, g) PROVE Written(b, g)'
    <3>1. Alive(g)
      BY <2>10 DEF Holds, Alive
    <3> QED
      BY <1>0, <1>1, <2>2, <2>4, <2>5, <2>10, <3>1 DEF Written
  <2>11. Honours(i)
    BY <1>4, <2>6, <2>8, <2>9, <2>10 DEF Honours
  <2> QED
    BY <1>1, <1>2, <1>3, <2>2, <2>7, <2>11, LinesStep
<1> QED
  BY <1>5, <1>6, <1>7

LEMMA IngestLines ==
  ASSUME Types, Types', Owned, Flight, GenerationInv, GenerationInv', LinesInv, Clean',
         NEW i \in Items,
         Dedup(i) \/ Embed(i) \/ Upsert(i) \/ Merge(i) \/ Share(i) \/ Track(i)
  PROVE  LinesInv'
<1> DEFINE b == i.branch
<1>0. /\ b \in Branches /\ jobs \in [Items -> Aimed] /\ jobs[i] \in Job
      /\ ~At(i, "idle") /\ jobs[i].pc \in Ingesting
  <2>1. jobs[i].pc \in Ingesting
    BY DEF Dedup, Embed, Upsert, Merge, Share, Track, At, Ingesting
  <2> QED
    BY <2>1, Domains, JobFacts DEF Types, WorkOK, Aimed, At, Ingesting
<1>1. UNCHANGED <<checkout, batch, chan, search, cache, amiss>>
  BY DEF Dedup, Embed, Upsert, Merge, Share, Track
<1>2. Clean
  BY <1>1 DEF Clean
<1>3. Writing(i) /\ i.op # "delete"
  BY <1>0, <1>2 DEF LinesInv, Writing
<1>4. \A g : ~Frees(i, g)
  BY <1>0, BusyItem DEF Ingesting
<1>5. Leaves(i)
  BY <1>1 DEF Leaves
<1>6. CASE Dedup(i) \/ Embed(i) \/ Upsert(i) \/ Merge(i)
  <2>1. jobs'[i].pc \in Ingesting
    BY <1>0, <1>6 DEF Dedup, Embed, Upsert, Merge, To, Job, Ingesting
  <2>2. OneItem(i) /\ RowsGo(i) /\ fresh' = fresh
    BY <1>0, <1>6, RowsStay DEF Dedup, Embed, Upsert, Merge, To, OneItem
  <2>3. Writing(i)' /\ \A g : Writes(i, g)'
    BY <1>3, <2>1 DEF Writing, Writes, Ingesting
  <2>4. Honours(i)
    BY <1>4, <2>3 DEF Honours
  <2> QED
    BY <1>1, <1>2, <1>5, <2>2, <2>4, LinesStep DEF Types, TableOK
<1>7. CASE Share(i) \/ Track(i)
  <2>1. PICK f \in Files : Entered(i, f)
    BY <1>2, <1>7, WriteRows
  <2>2. /\ jobs'[i].pc \in {"sharesend", "search"} /\ jobs'[i].file = f
        /\ rows'[f].hash = disk[b] /\ disk[b] # Gone
        /\ OneItem(i) /\ RowsGo(i) /\ fresh <= fresh'
    BY <1>0, <2>1 DEF Entered, Job
  <2>3. Alive(f)'
    <3>1. CASE At(i, "track") /\ jobs[i].file # NoFile
      <4>1. f = jobs[i].file /\ rows'[f].branches = rows[f].branches
            /\ (Alive(f) \/ f = fresh)
        BY <2>1, <3>1 DEF Entered
      <4>2. jobs[i].file < fresh /\ fresh \in Nat
        BY DEF GenerationInv, Listing, Types, TableOK
      <4> QED
        BY <4>1, <4>2 DEF Alive
    <3>2. CASE ~(At(i, "track") /\ jobs[i].file # NoFile)
      BY <2>1, <3>2 DEF Entered, Holds, Alive
    <3> QED
      BY <3>1, <3>2
  <2>4. Writing(i)' /\ Writes(i, f)'
    BY <1>1, <1>3, <2>2 DEF Writing, Writes, Ingesting
  <2>5. ASSUME NEW g \in Files, Holds(b, g)', rows'[g].hash = disk[b] PROVE g = f
    <3>1. Alive(g)'
      BY <2>5 DEF Holds, Alive
    <3>2. Distinct'
      BY DEF GenerationInv
    <3> QED
      BY <2>2, <2>3, <2>5, <3>1, <3>2 DEF Distinct
  <2>6. Honours(i)
    BY <1>4, <2>4, <2>5 DEF Honours
  <2> QED
    BY <1>1, <1>2, <1>5, <2>2, <2>6, LinesStep
<1> QED
  BY <1>6, <1>7

LEMMA SendLines ==
  ASSUME Types, Types', Owned, Flight, GenerationInv, GenerationInv', LinesInv, Clean',
         NEW i \in Items, ShareSend(i) \/ Search(i)
  PROVE  LinesInv'
<1> DEFINE b == i.branch
<1>0. /\ b \in Branches /\ jobs \in [Items -> Aimed] /\ queue \in [Items -> QueueRow]
      /\ chan \in Seq(Work) /\ disk \in [Branches -> Texts] /\ fresh \in Nat
      /\ ~At(i, "idle") /\ jobs[i].pc \in {"sharesend", "search", "research"}
  <2>1. jobs[i].pc \in {"sharesend", "search", "research"}
    BY DEF ShareSend, Search, Searches, At
  <2> QED
    BY <2>1, Domains DEF Types, WorkOK, HandoverOK, CheckoutOK, TableOK, At
<1>1. UNCHANGED <<checkout, table, batch, search, cache, amiss>> /\ disk[b] # Gone
  BY DEF ShareSend, Search
<1>2. Clean
  BY <1>1 DEF Clean
<1>3. /\ Writing(i) /\ i.op # "delete" /\ jobs[i].file < fresh
      /\ jobs[i].pc # "research" => jobs[i].file \in Files
  BY <1>0, <1>2, JobFacts DEF LinesInv, Writing, GenerationInv, Listing, OnRow, Types
<1>4. \A g : ~Frees(i, g) /\ (Writes(i, g) => At(i, "research") \/ jobs[i].file = g)
  BY <1>0, BusyItem DEF Ingesting, At
<1>5. PICK f \in Files, done \in BOOLEAN :
        /\ Send(i, f, disk[b], done)
        /\ IF At(i, "research") THEN f = Holder(b) /\ f # NoFile ELSE f = jobs[i].file
  <2>1. CASE ShareSend(i)
    BY <1>3, <2>1 DEF ShareSend, At
  <2>2. CASE Search(i)
    BY <2>2 DEF Search, Searches, At
  <2> QED
    BY <2>1, <2>2
<1>6. /\ f < fresh /\ (Alive(f) => rows[f].hash = disk[b])
      /\ \A g \in Files : Holds(b, g) /\ At(i, "research") => g = f
  <2>1. CASE At(i, "research")
    <3>1. Holds(b, f) /\ f < fresh /\ \A g \in Files : Holds(b, g) => g = f
      BY <1>0, <1>2, <1>5, <2>1, OneHolder
    <3> QED
      BY <1>3, <2>1, <3>1 DEF Writing, Current, At
  <2>2. CASE ~At(i, "research")
    BY <1>0, <1>3, <1>5, <2>2 DEF Writing, At
  <2> QED
    BY <2>1, <2>2
<1>7. PICK x \in Work : x.item = i /\ x.file = f /\ x.text = disk[b] /\ chan' = Append(chan, x)
  <2>1. disk[b] \in Contents
    BY <1>0, <1>1 DEF Texts
  <2> QED
    BY <1>5, <2>1 DEF Send, Work
<1>8. Good(x)'
  <2>1. x.text \in Contents /\ x.file < fresh' /\ x.item.op # "delete"
    BY <1>1, <1>3, <1>6, <1>7 DEF Work
  <2> QED
    BY <1>1, <1>6, <1>7, <2>1 DEF Good, Alive
<1>9. jobs'[i] = Idle /\ OneItem(i)
  BY <1>0, <1>5 DEF Send, OneItem
<1>10. Leaves(i) /\ RowsGo(i)
  BY <1>1, <1>7, <1>8, RowsStay DEF Leaves
<1>11. Writing(i)'
  BY <1>9 DEF Writing, Idle, Ingesting
<1>12. Writes(i, f)'
  <2>1. Len(chan') \in 1 .. Len(chan') /\ chan'[Len(chan')] = x
    BY <1>0, <1>7
  <2> QED
    BY <1>3, <1>7, <2>1 DEF Writes
<1>13. \A g \in Files : Holds(b, g)' = Holds(b, g) /\ Written(b, g)' = Written(b, g)
  BY <1>1 DEF Holds, Written
<1>14. Honours(i)
  BY <1>4, <1>5, <1>6, <1>11, <1>12, <1>13 DEF Honours
<1> QED
  BY <1>1, <1>2, <1>9, <1>10, <1>14, LinesStep DEF Types, TableOK

LEMMA EndLines ==
  ASSUME Types, Types', Owned, Flight, GenerationInv, GenerationInv', LinesInv, Clean',
         NEW i \in Items,
         \/ ShareUnread(i) \/ EmbedGone(i) \/ SearchSkipped(i) \/ ResearchUntracked(i)
         \/ HandlerFails(i)
  PROVE  LinesInv'
<1> DEFINE b == i.branch
<1>0. /\ b \in Branches /\ jobs \in [Items -> Aimed] /\ queue \in [Items -> QueueRow]
      /\ fresh \in Nat
  BY Domains DEF Types, WorkOK, TableOK
<1>1. UNCHANGED <<checkout, table, handover, search, cache>> /\ amiss \subseteq amiss'
  BY DEF ShareUnread, EmbedGone, SearchSkipped, ResearchUntracked, HandlerFails
<1>2. Clean
  BY <1>1 DEF Clean
<1>3. Writing(i) /\ Vouched /\ Cached
  BY <1>2 DEF LinesInv, GenerationInv
<1>4. jobs'[i] = Idle /\ OneItem(i)
  BY <1>0 DEF ShareUnread, EmbedGone, SearchSkipped, ResearchUntracked, HandlerFails,
              Close, Finish, OneItem
<1>5. Leaves(i) /\ RowsGo(i)
  BY <1>1, RowsStay DEF Leaves
<1>6. Writing(i)'
  BY <1>4 DEF Writing, Idle, Ingesting
<1>7. \A g \in Files : /\ Holds(b, g)' = Holds(b, g) /\ (Written(b, g) => Written(b, g)')
                       /\ Current(b, g)' = Current(b, g)
                       /\ Holds(b, g) => Alive(g) /\ rows[g].hash # Gone
  BY <1>1, <1>3 DEF Holds, Written, Current, Vouched, Alive
<1>8. Honours(i)
  <2>1. CASE ShareUnread(i)
    BY <1>3, <2>1 DEF ShareUnread, At, Writing
  <2>2. CASE EmbedGone(i)
    <3>1. \A g : ~Frees(i, g)
      BY <2>2, BusyItem DEF EmbedGone, At
    <3>2. disk[b] = Gone
      BY <2>2 DEF EmbedGone
    <3> QED
      BY <1>1, <1>6, <1>7, <3>1, <3>2 DEF Honours
  <2>3. CASE SearchSkipped(i)
    <3>1. PICK f \in Files :
            /\ Searches(i, f) /\ disk[b] \in {Gone, cache[f]}
            /\ amiss' = amiss \cup {"branch left out" : x \in {b} \ meta[f]}
      BY <2>3 DEF SearchSkipped
    <3>2. jobs[i].pc \in {"search", "research"} /\ ~At(i, "idle")
      BY <3>1 DEF Searches, At
    <3>3. \A g : ~Frees(i, g) /\ (Writes(i, g) => At(i, "research") \/ jobs[i].file = g)
      BY <3>2, BusyItem DEF Ingesting, At
    <3>4. \A g \in Files : Holds(b, g) /\ (At(i, "research") \/ jobs[i].file = g) => g = f
      BY <1>0, <1>2, <3>1, OneHolder DEF Searches, At
    <3>5. ASSUME Holds(b, f) PROVE Written(b, f)'
      <4>1. disk[b] # Gone
        BY <1>3, <1>7, <3>2, <3>5 DEF Writing, Current
      <4>2. cache[f] = disk[b] /\ cache[f] # Gone
        BY <3>1, <4>1
      <4>3. lines[f] = rows[f].hash
        BY <1>3, <1>7, <3>5, <4>2 DEF Cached
      <4>4. b \in meta[f] \/ "branch left out" \in amiss'
        BY <3>1
      <4> QED
        BY <1>1, <4>3, <4>4 DEF Written
    <3> QED
      BY <1>6, <1>7, <3>3, <3>4, <3>5 DEF Honours
  <2>4. CASE ResearchUntracked(i)
    <3>1. \A g \in Files : ~Holds(b, g)
      BY <1>0, <2>4, OneHolder DEF ResearchUntracked
    <3> QED
      BY <1>6, <1>7, <3>1 DEF Honours, Behind
  <2>5. CASE HandlerFails(i)
    <3>1. queue'[i].state = "pending"
      BY <1>0, <2>5 DEF HandlerFails, Retry, QueueRow
    <3>2. \A g \in Files : /\ Frees(i, g) => Frees(i, g)'
                           /\ Writes(i, g)' \/ ~Writes(i, g)
      BY <1>1, <3>1 DEF Frees, Writes
    <3> QED
      BY <1>6, <1>7, <3>2 DEF Honours
  <2> QED
    BY <2>1, <2>2, <2>3, <2>4, <2>5
<1> QED
  BY <1>1, <1>2, <1>4, <1>5, <1>8, LinesStep DEF Types, TableOK

LEMMA EditLines ==
  ASSUME Types, Types', Owned, GenerationInv, LinesInv, Clean',
         NEW b \in Branches, NEW c \in Texts, Edit(b, c)
  PROVE  LinesInv'
<1>0. /\ disk \in [Branches -> Texts] /\ queue \in [Items -> QueueRow]
      /\ UNCHANGED <<table, jobs, search, cache, handover>> /\ amiss \subseteq amiss'
      /\ disk'[b] = c /\ \A d \in Branches : d # b => disk'[d] = disk[d]
      /\ ~InHand(b)
  BY DEF Types, CheckoutOK, WorkOK, Edit, Clean
<1>1. Clean
  BY <1>0 DEF Clean
<1>2. /\ Freed /\ Covered /\ Cached /\ Sent /\ \A j \in Items : Writing(j)
      /\ Vouched
  BY <1>1 DEF LinesInv, GenerationInv
<1>3. PICK op \in Ops : /\ op = IF disk[b] = Gone THEN "add"
                                ELSE IF c = Gone THEN "delete" ELSE "update"
                        /\ op # "delete" \/ c = Gone
  BY DEF Ops
<1>4. PICK i \in Items : i = [branch |-> b, op |-> op]
  BY <1>3, Domains
<1>5. /\ i.branch = b /\ (i.op # "delete" \/ c = Gone) /\ (c # Gone => i.op # "delete")
      /\ queue'[i].state = "pending"
      /\ \A j \in Items : j # i => queue'[j] = queue[j]
  <2>1. queue' = IF queue[i].state = "none"
                 THEN [queue EXCEPT ![i].state = "pending"] ELSE queue
    BY <1>3, <1>4 DEF Edit
  <2>2. queue[i].state # "taken"
    BY <1>3, <1>4 DEF Edit, Clean
  <2>3. queue[i] \in QueueRow
    BY <1>0
  <2> QED
    BY <1>0, <1>3, <1>4, <2>1, <2>2, <2>3 DEF QueueRow
<1>6. \A f : /\ Alive(f)' = Alive(f) /\ \A d : Holds(d, f)' = Holds(d, f)
             /\ \A d : Written(d, f) => Written(d, f)'
  BY <1>0 DEF Alive, Holds, Written
<1>7. ASSUME NEW d \in Branches, d # b, NEW j \in Items, j.branch = d
      PROVE  \A f : /\ Frees(j, f) => Frees(j, f)'
                    /\ Writes(j, f) => Writes(j, f)'
  <2>1. j # i /\ queue'[j] = queue[j] /\ disk'[j.branch] = disk[j.branch]
    BY <1>0, <1>5, <1>7
  <2> QED
    BY <1>0, <2>1 DEF Frees, Writes
<1>8. \A f : Frees(i, f)' /\ (c # Gone => Writes(i, f)')
  BY <1>0, <1>5 DEF Frees, Writes
<1>9. Freed'
  <2> SUFFICES ASSUME NEW d \in Branches, NEW f \in Files, Behind(d, f)'
               PROVE  \E j \in Items : j.branch = d /\ Frees(j, f)'
    BY DEF Freed
  <2>1. CASE d = b
    BY <1>5, <1>8, <2>1
  <2>2. CASE d # b
    <3>1. Behind(d, f)
      BY <1>0, <1>6, <2>2 DEF Behind
    <3> QED
      BY <1>2, <1>7, <2>2, <3>1 DEF Freed
  <2> QED
    BY <2>1, <2>2
<1>10. Covered'
  <2> SUFFICES ASSUME NEW d \in Branches, NEW f \in Files, Holds(d, f)', rows'[f].hash = disk'[d]
               PROVE  Written(d, f)' \/ \E j \in Items : j.branch = d /\ Writes(j, f)'
    BY DEF Covered
  <2>1. Holds(d, f) /\ rows'[f].hash = rows[f].hash /\ rows[f].hash # Gone
    BY <1>0, <1>2, <1>6 DEF Vouched, Alive, Holds
  <2>2. CASE d = b
    BY <1>0, <1>5, <1>8, <2>1, <2>2
  <2>3. CASE d # b
    BY <1>0, <1>2, <1>6, <1>7, <2>1, <2>3 DEF Covered
  <2> QED
    BY <2>2, <2>3
<1>11. Cached' /\ Sent'
  BY <1>0, <1>2, <1>6 DEF Cached, Sent, Good, Alive
<1>12. ASSUME NEW j \in Items PROVE Writing(j)'
  <2>1. Writing(j) /\ jobs'[j] = jobs[j] /\ j.branch \in Branches
    BY <1>0, <1>2, Domains
  <2>2. CASE j.branch # b
    <3>1. disk'[j.branch] = disk[j.branch]
      BY <1>0, <2>1, <2>2
    <3>2. \A f \in Files : Current(j.branch, f)' = Current(j.branch, f)
      BY <1>0, <1>6, <3>1 DEF Current
    <3> QED
      BY <1>0, <2>1, <3>1, <3>2 DEF Writing, Alive
  <2>3. CASE j.branch = b
    <3>1. j = [branch |-> b, op |-> j.op] /\ j.op \in Ops
      BY <2>3 DEF Items
    <3>2. jobs[j].pc = "idle" \/ jobs[j].pc \in {"unpoint", "unhold", "unline"}
      BY <1>0, <3>1 DEF InHand
    <3> QED
      BY <1>0, <2>1, <3>2 DEF Writing, Alive, Ingesting
  <2> QED
    BY <2>2, <2>3
<1> QED
  BY <1>9, <1>10, <1>11, <1>12 DEF LinesInv

\* What is open for a branch is taken up again, and the sets are those of the table
LEMMA CrashLines ==
  ASSUME Types, Types', Owned, Flight, GenerationInv, LinesInv, Clean', CrashRestart
  PROVE  LinesInv'
<1>0. /\ UNCHANGED <<checkout, fresh, cache>> /\ Clean
      /\ \A j \in Items : /\ jobs'[j] = Idle
                          /\ queue[j].state \in {"taken", "pending"} => queue'[j].state = "pending"
      /\ chan' = <<>> /\ batch' = [ok |-> TRUE, works |-> <<>>]
      /\ \A f \in Files : /\ Alive(f) => lines'[f] = lines[f]
                          /\ meta'[f] = Mirrored[f]
      /\ rows \in [Files -> Generation]
  <2>1. /\ UNCHANGED <<checkout, fresh, cache>> /\ Clean /\ chan' = <<>>
        /\ batch' = [ok |-> TRUE, works |-> <<>>] /\ rows \in [Files -> Generation]
    BY DEF CrashRestart, Types, TableOK, Clean
  <2>2. \A j \in Items :
          /\ jobs'[j] = Idle
          /\ queue[j].state \in {"taken", "pending"} => queue'[j].state = "pending"
    <3> SUFFICES ASSUME NEW j \in Items
                 PROVE  /\ jobs'[j] = Idle
                        /\ queue[j].state \in {"taken", "pending"} => queue'[j].state = "pending"
      OBVIOUS
    <3>1. /\ jobs' = [k \in Items |-> Idle]
          /\ queue' = [k \in Items |-> IF queue[k].state = "taken"
                          THEN [queue[k] EXCEPT !.state = "pending"] ELSE queue[k]]
      BY DEF CrashRestart
    <3>2. queue[j] \in QueueRow
      BY DEF Types, WorkOK
    <3> QED
      BY <3>1, <3>2 DEF QueueRow
  <2>3. \A f \in Files : (Alive(f) => lines'[f] = lines[f]) /\ meta'[f] = Mirrored[f]
    BY DEF CrashRestart, Live, Alive
  <2> QED
    BY <2>1, <2>2, <2>3
<1>1. /\ Freed /\ Covered /\ Cached /\ Sent /\ Vouched
  BY <1>0 DEF LinesInv, GenerationInv
<1>2. ASSUME NEW f \in Files
      PROVE  /\ rows'[f].hash = rows[f].hash /\ rows'[f].branches = rows[f].branches
             /\ Alive(f)' = Alive(f) /\ \A d : Holds(d, f)' = Holds(d, f)
  <2>1. PICK keeps \in BOOLEAN :
          rows' = [g \in Files |-> IF g \in Live /\ ~keeps
                                   THEN [rows[g] EXCEPT !.chunker = FALSE] ELSE rows[g]]
    BY DEF CrashRestart
  <2>2. rows'[f].hash = rows[f].hash /\ rows'[f].branches = rows[f].branches
    BY <1>0, <2>1 DEF Generation
  <2> QED
    BY <2>2 DEF Alive, Holds
<1>3. /\ \A n \in 1 .. Len(chan) : queue[chan[n].item].state = "taken"
      /\ \A n \in 1 .. Len(batch.works) : queue[batch.works[n].item].state = "taken"
  BY DEF Flight, InFlight
<1>4. \A j \in Items, f \in Files :
        /\ Frees(j, f) => Frees(j, f)'
        /\ Writes(j, f) => Writes(j, f)'
  <2> SUFFICES ASSUME NEW j \in Items, NEW f \in Files
               PROVE  (Frees(j, f) => Frees(j, f)') /\ (Writes(j, f) => Writes(j, f)')
    OBVIOUS
  <2>1. Frees(j, f) \/ Writes(j, f) => queue[j].state \in {"taken", "pending"}
    BY <1>3 DEF Frees, Writes, Owned, Ingesting
  <2>2. queue[j].state \in {"taken", "pending"} => queue'[j].state = "pending"
    BY <1>0
  <2> QED
    BY <1>0, <2>1, <2>2 DEF Frees, Writes
<1>5. Freed'
  BY <1>0, <1>1, <1>2, <1>4 DEF Freed, Behind
<1>6. Covered'
  <2> SUFFICES ASSUME NEW d \in Branches, NEW f \in Files, Holds(d, f)', rows'[f].hash = disk'[d]
               PROVE  Written(d, f)' \/ \E j \in Items : j.branch = d /\ Writes(j, f)'
    BY DEF Covered
  <2>1. Holds(d, f) /\ rows[f].hash = disk[d] /\ Alive(f) /\ f \in Live /\ rows[f].hash # Gone
    BY <1>0, <1>1, <1>2 DEF Alive, Holds, Vouched, Live
  <2>2. CASE Written(d, f)
    BY <1>0, <1>2, <2>1, <2>2 DEF Written, Mirrored, Holds
  <2>3. CASE ~Written(d, f)
    BY <1>1, <1>4, <2>1, <2>3 DEF Covered
  <2> QED
    BY <2>2, <2>3
<1>7. Cached'
  BY <1>0, <1>1, <1>2 DEF Cached
<1>8. Sent'
  BY <1>0 DEF Sent
<1>9. \A j \in Items : Writing(j)'
  BY <1>0 DEF Writing, Idle, Ingesting
<1> QED
  BY <1>5, <1>6, <1>7, <1>8, <1>9 DEF LinesInv

\* Nothing is open when the sets are reconciled
LEMMA SettledLines ==
  ASSUME Owned, Flight, LinesInv, Clean, Settled
  PROVE  /\ \A b \in Branches, f \in Files : Holds(b, f) =>
              rows[f].hash = disk[b] /\ Written(b, f)
         /\ \A i \in Items : At(i, "idle")
         /\ Cached /\ Sent
<1>1. Freed /\ Covered /\ Cached /\ Sent
  BY DEF LinesInv
<1>2. \A i \in Items : queue[i].state = "none" /\ jobs[i].pc = "idle"
  BY DEF Settled, Owned
<1>3. /\ \A n \in 1 .. Len(chan) : queue[chan[n].item].state = "taken"
      /\ \A n \in 1 .. Len(batch.works) : queue[batch.works[n].item].state = "taken"
  BY DEF Flight, InFlight
<1>4. \A i \in Items : \A f : ~Frees(i, f) /\ ~Writes(i, f)
  BY <1>2, <1>3 DEF Frees, Writes, Ingesting
<1> QED
  BY <1>1, <1>2, <1>4 DEF Freed, Covered, Behind, At

LEMMA ReconcileLines ==
  ASSUME Types, Types', Owned, Flight, GenerationInv, LinesInv, Clean', BranchReconcile
  PROVE  LinesInv'
<1>0. /\ UNCHANGED <<checkout, table, lines, cache, queue, jobs, handover>> /\ Settled
      /\ Clean /\ \A f \in Files : Alive(f) => meta'[f] = Mirrored[f]
  BY DEF BranchReconcile, Clean, Live, Alive
<1>1. /\ \A b \in Branches, f \in Files : Holds(b, f) => rows[f].hash = disk[b] /\ Written(b, f)
      /\ \A i \in Items : At(i, "idle") /\ Writing(i)
      /\ Cached /\ Sent /\ Vouched
  BY <1>0, SettledLines DEF LinesInv, GenerationInv
<1>2. \A f : Alive(f)' = Alive(f) /\ \A b : Holds(b, f)' = Holds(b, f)
  BY <1>0 DEF Alive, Holds
<1>3. \A b \in Branches, f \in Files : Holds(b, f)' => ~Behind(b, f)' /\ Written(b, f)'
  <2> SUFFICES ASSUME NEW b \in Branches, NEW f \in Files, Holds(b, f)
               PROVE  ~Behind(b, f)' /\ Written(b, f)'
    BY <1>2
  <2>1. f \in Live /\ Alive(f) /\ rows[f].hash # Gone /\ Written(b, f)
    BY <1>1 DEF Live, Alive, Holds, Vouched
  <2> QED
    BY <1>0, <1>1, <2>1 DEF Behind, Written, Mirrored, Holds
<1>4. Freed' /\ Covered'
  BY <1>3 DEF Freed, Covered, Behind
<1>5. Cached' /\ Sent'
  BY <1>0, <1>1, <1>2 DEF Cached, Sent, Good
<1>6. \A i \in Items : Writing(i)'
  BY <1>0, <1>1 DEF Writing, At, Ingesting, Alive
<1> QED
  BY <1>4, <1>5, <1>6 DEF LinesInv

\* The last change of a file is one of its changes, and there is one if there is any
LEMMA LastFacts ==
  ASSUME NEW works \in Seq(Work), NEW f
  PROVE  /\ \A x \in LastOf(works, f) : \E n \in 1 .. Len(works) : x = works[n] /\ x.file = f
         /\ \A n \in 1 .. Len(works) : works[n].file = f => LastOf(works, f) # {}
<1> DEFINE of == {n \in 1 .. Len(works) : works[n].file = f}
<1>1. LastOf(works, f) = {works[n] : n \in {m \in of : \A k \in of : k <= m}}
  BY DEF LastOf
<1>2. ASSUME NEW n \in 1 .. Len(works), works[n].file = f PROVE LastOf(works, f) # {}
  <2> DEFINE back == {Len(works) - k : k \in of}
  <2>1. back \in SUBSET Nat /\ back # {}
    BY <1>2
  <2>2. PICK d \in back : \A e \in back : d <= e
    <3> HIDE DEF back
    <3> QED
      BY <2>1, Smallest
  <2>3. PICK m \in of : d = Len(works) - m
    BY <2>2
  <2>4. \A k \in of : k <= m
    <3> SUFFICES ASSUME NEW k \in of PROVE k <= m
      OBVIOUS
    <3>1. Len(works) - k \in back
      OBVIOUS
    <3>2. d <= Len(works) - k /\ k \in Nat /\ m \in Nat /\ Len(works) \in Nat
      BY <2>2, <3>1
    <3> QED
      BY <2>3, <3>2
  <2> HIDE DEF of, back
  <2> QED
    BY <1>1, <2>3, <2>4
<1>3. \A x \in LastOf(works, f) : \E n \in 1 .. Len(works) : x = works[n] /\ x.file = f
  BY <1>1
<1> QED
  BY <1>2, <1>3

\* What is in the channel goes into the batch; a batch that commits writes what is good
LEMMA FlushLines ==
  ASSUME Types, Types', GenerationInv, LinesInv, Clean',
         NEW n \in 1 .. ChanCap, NEW ok \in BOOLEAN, Flush(n, ok)
  PROVE  LinesInv'
<1>0. /\ UNCHANGED <<checkout, table, cache, queue, jobs>> /\ amiss \subseteq amiss'
      /\ ~ok => UNCHANGED search
      /\ batch.works = <<>> /\ batch'.ok = ok /\ Len(batch.works) = 0
      /\ lines \in [Files -> Texts] /\ meta \in [Files -> SUBSET Branches]
  BY DEF Flush, Types, LinesOK
<1>1. Clean
  BY <1>0 DEF Clean
<1>2. /\ Freed /\ Covered /\ Cached /\ Sent /\ \A j \in Items : Writing(j)
  BY <1>1 DEF LinesInv
<1>3. /\ batch'.works \in Seq(Work) /\ Len(batch'.works) = n
      /\ \A k \in 1 .. n : batch'.works[k] = chan[k] /\ k \in 1 .. Len(chan)
      /\ chan' \in Seq(Work) /\ Len(chan') = Len(chan) - n
      /\ \A k \in 1 .. Len(chan) - n : chan'[k] = chan[n + k] /\ n + k \in 1 .. Len(chan)
      /\ Len(chan) \in Nat /\ n \in 1 .. Len(chan)
      /\ \A k \in 1 .. Len(chan) : chan[k] \in Work
  BY FlushParts DEF Types, HandoverOK
<1>4. \A f : /\ Alive(f)' = Alive(f) /\ \A d : Holds(d, f)' = Holds(d, f)
             /\ \A d : Current(d, f)' = Current(d, f)
  BY <1>0 DEF Alive, Holds, Current
<1>5. \A x : Good(x)' = Good(x)
  BY <1>0, <1>4 DEF Good
<1>6. ASSUME ok, NEW f \in Files
      PROVE  /\ lines'[f] = IF LastOf(batch'.works, f) = {} THEN lines[f]
                            ELSE CHOOSE t \in Contents :
                                   \E x \in LastOf(batch'.works, f) : x.text = t
             /\ meta[f] \subseteq meta'[f]
  BY <1>0, <1>6 DEF Flush
<1>7. ASSUME ok, NEW f \in Files, Alive(f), LastOf(batch'.works, f) # {}
      PROVE  lines'[f] = rows[f].hash
  <2>1. \A x \in LastOf(batch'.works, f) : x.text = rows[f].hash /\ x.text \in Contents
    <3> SUFFICES ASSUME NEW x \in LastOf(batch'.works, f)
                 PROVE  x.text = rows[f].hash /\ x.text \in Contents
      OBVIOUS
    <3>0. PICK k \in 1 .. Len(batch'.works) : x = batch'.works[k] /\ x.file = f
      <4>1. batch'.works \in Seq(Work)
        BY <1>3
      <4> QED
        BY <4>1, LastFacts
    <3>1. x = chan[k] /\ x.file = f /\ k \in 1 .. Len(chan)
      BY <1>3, <3>0
    <3>2. Good(x)
      BY <1>2, <3>1 DEF Sent
    <3> QED
      BY <1>7, <3>1, <3>2 DEF Good
  <2>2. \E t \in Contents : \E x \in LastOf(batch'.works, f) : x.text = t
    BY <1>7, <2>1
  <2>3. PICK t \in Contents : t = lines'[f] /\ \E x \in LastOf(batch'.works, f) : x.text = t
    BY <1>6, <1>7, <2>2
  <2> QED
    BY <2>1, <2>3
<1>8. \A f \in Files : Alive(f) => lines'[f] \in {lines[f], rows[f].hash}
  <2> SUFFICES ASSUME NEW f \in Files, Alive(f) PROVE lines'[f] \in {lines[f], rows[f].hash}
    OBVIOUS
  <2>1. CASE ~ok
    BY <1>0, <2>1
  <2>2. CASE ok
    BY <1>6, <1>7, <2>2
  <2> QED
    BY <2>1, <2>2
<1>9. \A f \in Files, d \in Branches : Alive(f) /\ Written(d, f) => Written(d, f)'
  <2> SUFFICES ASSUME NEW f \in Files, NEW d \in Branches, Alive(f), Written(d, f)
               PROVE  Written(d, f)'
    OBVIOUS
  <2>1. meta[f] \subseteq meta'[f]
    BY <1>0, <1>6
  <2> QED
    BY <1>0, <1>8, <2>1 DEF Written
<1>10. ASSUME NEW k \in 1 .. Len(chan), k <= n, ok, NEW f \in Files, chan[k].file = f, Alive(f),
              NEW d \in Branches, d = chan[k].item.branch
       PROVE  Written(d, f)' /\ lines'[f] = chan[k].text
  <2>1. batch'.works[k].file = f /\ k \in 1 .. Len(batch'.works)
    BY <1>3, <1>10
  <2>2. LastOf(batch'.works, f) # {}
    BY <1>3, <2>1, LastFacts
  <2>3. lines'[f] = rows[f].hash
    BY <1>7, <1>10, <2>2
  <2>4. d \in meta'[f] \/ "branch left out" \in amiss'
    <3>1. amiss' = amiss \cup {"branch left out" : m \in
                {l \in 1 .. n : chan[l].item.branch \notin meta'[chan[l].file]}}
      BY <1>10 DEF Flush
    <3>2. k \in 1 .. n
      BY <1>3, <1>10
    <3>3. d \notin meta'[f] => "branch left out" \in amiss'
      BY <1>10, <3>1, <3>2
    <3> QED
      BY <3>3
  <2>5. Good(chan[k])
    BY <1>2 DEF Sent
  <2> QED
    BY <1>0, <1>10, <2>3, <2>4, <2>5 DEF Written, Good
<1>11. ASSUME NEW i \in Items, NEW f \in Files, Writes(i, f), Holds(i.branch, f)
       PROVE  Writes(i, f)' \/ Written(i.branch, f)'
  <2>1. CASE \/ queue[i].state = "pending"
             \/ jobs[i].pc \in Ingesting \cup {"research"}
             \/ jobs[i].pc \in {"sharesend", "search"} /\ jobs[i].file = f
    BY <1>0, <1>11, <2>1 DEF Writes
  <2>2. ASSUME NEW k \in 1 .. Len(chan), chan[k].item = i, chan[k].file = f
        PROVE  Writes(i, f)' \/ Written(i.branch, f)'
    <3>1. CASE k <= n /\ ok
      <4>1. Alive(f) /\ i.branch \in Branches
        BY <1>11, Domains DEF Holds, Alive
      <4> QED
        BY <1>10, <2>2, <3>1, <4>1
    <3>2. CASE k <= n /\ ~ok
      <4>1. k \in 1 .. Len(batch'.works) /\ batch'.works[k].item = i /\ ~batch'.ok
        BY <1>0, <1>3, <2>2, <3>2
      <4> QED
        BY <1>11, <4>1 DEF Writes
    <3>3. CASE k > n
      <4>1. k - n \in 1 .. Len(chan') /\ chan'[k - n] = chan[n + (k - n)]
        BY <1>3, <3>3
      <4>2. n + (k - n) = k
        BY <1>3
      <4> QED
        BY <1>11, <2>2, <4>1, <4>2 DEF Writes
    <3> QED
      BY <1>3, <3>1, <3>2, <3>3
  <2> QED
    BY <1>0, <1>11, <2>1, <2>2 DEF Writes
<1>12. Freed'
  BY <1>0, <1>2, <1>4 DEF Freed, Behind, Frees
<1>13. Covered'
  <2> SUFFICES ASSUME NEW d \in Branches, NEW f \in Files, Holds(d, f), rows[f].hash = disk[d]
               PROVE  Written(d, f)' \/ \E j \in Items : j.branch = d /\ Writes(j, f)'
    BY <1>0, <1>4 DEF Covered
  <2>1. CASE Written(d, f)
    BY <1>9, <2>1 DEF Holds, Alive
  <2>2. CASE ~Written(d, f)
    <3>1. PICK j \in Items : j.branch = d /\ Writes(j, f)
      BY <1>2, <2>2 DEF Covered
    <3> QED
      BY <1>11, <3>1
  <2> QED
    BY <2>1, <2>2
<1>14. Cached'
  BY <1>0, <1>2, <1>4, <1>8 DEF Cached
<1>15. Sent'
  <2>1. ASSUME NEW k \in 1 .. Len(chan'), NEW x, x = chan'[k] PROVE Good(x)'
    <3>1. k \in 1 .. Len(chan) - n
      BY <1>3, <2>1
    <3>2. n + k \in 1 .. Len(chan) /\ x = chan[n + k]
      BY <1>3, <2>1, <3>1
    <3> QED
      BY <1>2, <1>5, <3>2 DEF Sent
  <2>2. ASSUME NEW k \in 1 .. Len(batch'.works), NEW x, x = batch'.works[k]
        PROVE  Good(x)' /\ (batch'.ok /\ Alive(x.file)' => lines'[x.file] = x.text)
    <3>1. k \in 1 .. n /\ k \in 1 .. Len(chan) /\ x = chan[k] /\ k <= n /\ chan[k] \in Work
      BY <1>3, <2>2
    <3>2. Good(x) /\ x.file \in Files /\ x.item.branch \in Branches
      BY <1>2, <3>1, Domains DEF Sent, Work
    <3> QED
      BY <1>0, <1>4, <1>5, <1>10, <3>1, <3>2
  <2> QED
    BY <2>1, <2>2 DEF Sent, Good, Alive
<1>16. \A i \in Items : Writing(i)'
  BY <1>0, <1>2, <1>4 DEF Writing
<1> QED
  BY <1>12, <1>13, <1>14, <1>15, <1>16 DEF LinesInv

\* An item of a batch is concluded: its lines are there, or it is to be taken up again
LEMMA ConcludeLines ==
  ASSUME Types, Types', Flight, GenerationInv, LinesInv, Clean', Conclude
  PROVE  LinesInv'
<1>0. /\ UNCHANGED <<checkout, table, search, jobs, chan, amiss>>
      /\ batch.works # <<>> /\ queue \in [Items -> QueueRow] /\ batch.works \in Seq(Work)
      /\ cache \in [Files -> Texts] /\ fresh \in Nat /\ Files \subseteq Nat
  BY Domains DEF Conclude, Types, WorkOK, HandoverOK, LinesOK, TableOK
<1>1. Clean
  BY <1>0 DEF Clean
<1>2. /\ Freed /\ Covered /\ Cached /\ Sent /\ \A j \in Items : Writing(j)
  BY <1>1 DEF LinesInv
<1>3. PICK x \in Work : x = Head(batch.works) /\ x = batch.works[1]
                        /\ x.item \in Items /\ x.file \in Files /\ Good(x)
                        /\ (batch.ok /\ Alive(x.file) => lines[x.file] = x.text)
  <2>1. batch.works[1] \in Work /\ Head(batch.works) = batch.works[1] /\ 1 \in 1 .. Len(batch.works)
    BY <1>0
  <2> QED
    BY <1>2, <2>1 DEF Work, Sent
<1>4. /\ \A k \in 1 .. Len(batch.works) - 1 : /\ batch'.works[k] = batch.works[k + 1]
                                              /\ k + 1 \in 1 .. Len(batch.works)
      /\ Len(batch'.works) = Len(batch.works) - 1 /\ Len(batch.works) \in Nat
      /\ batch'.ok = (Len(batch.works) = 1 \/ batch.ok)
  BY <1>0 DEF Conclude
<1>5. /\ \A j \in Items : j # x.item => queue'[j] = queue[j]
      /\ ~batch.ok => queue'[x.item].state = "pending"
      /\ queue[x.item].state = "taken" /\ At(x.item, "idle")
  <2>1. queue' = [queue EXCEPT ![x.item] =
                 IF ~batch.ok THEN Retry(queue[x.item])
                 ELSE IF queue[x.item].qdrant THEN NoItem
                 ELSE [queue[x.item] EXCEPT !.state = "pending"]]
    BY <1>3 DEF Conclude
  <2>2. queue[x.item] \in QueueRow
    BY <1>0, <1>3
  <2>3. InFlight(x.item)
    BY <1>0, <1>3 DEF Flight
  <2> QED
    BY <1>0, <1>3, <2>1, <2>2, <2>3 DEF Retry, QueueRow, InFlight
<1>6. /\ \A f \in Files : f # x.file \/ ~Alive(f) \/ ~batch.ok => cache'[f] = cache[f]
      /\ batch.ok /\ Alive(x.file) => cache'[x.file] = x.text
  BY <1>0, <1>3 DEF Conclude, Live, Alive
<1>7. \A f : /\ Alive(f)' = Alive(f) /\ \A d : Holds(d, f)' = Holds(d, f)
             /\ \A d : Current(d, f)' = Current(d, f) /\ Written(d, f)' = Written(d, f)
                       /\ Behind(d, f)' = Behind(d, f)
  BY <1>0 DEF Alive, Holds, Current, Written, Behind
<1>8. \A y : Good(y)' = Good(y)
  BY <1>0, <1>7 DEF Good
<1>9. \A i \in Items, f \in Files : Frees(i, f) => Frees(i, f)'
  <2> SUFFICES ASSUME NEW i \in Items, NEW f \in Files, Frees(i, f) PROVE Frees(i, f)'
    OBVIOUS
  <2>1. i # x.item
    BY <1>5 DEF Frees, At
  <2> QED
    BY <1>0, <1>5, <2>1 DEF Frees
<1>10. \A i \in Items, f \in Files : Writes(i, f) => Writes(i, f)'
  <2> SUFFICES ASSUME NEW i \in Items, NEW f \in Files, Writes(i, f) PROVE Writes(i, f)'
    OBVIOUS
  <2>1. CASE \/ jobs[i].pc \in Ingesting \cup {"research"}
             \/ jobs[i].pc \in {"sharesend", "search"} /\ jobs[i].file = f
             \/ \E n \in 1 .. Len(chan) : chan[n].item = i /\ chan[n].file = f
    BY <1>0, <2>1 DEF Writes
  <2>2. CASE queue[i].state = "pending"
    BY <1>5, <2>2 DEF Writes
  <2>3. ASSUME ~batch.ok, NEW n \in 1 .. Len(batch.works), batch.works[n].item = i
        PROVE  Writes(i, f)'
    <3>1. CASE n = 1
      BY <1>3, <1>5, <2>3, <3>1 DEF Writes
    <3>2. CASE n # 1
      <4>1. n - 1 \in 1 .. Len(batch.works) - 1 /\ (n - 1) + 1 = n
        BY <1>4, <3>2
      <4>2. batch'.works[n - 1].item = i /\ n - 1 \in 1 .. Len(batch'.works) /\ ~batch'.ok
        <5>1. Len(batch.works) # 1
          BY <1>4, <3>2
        <5> QED
          BY <1>4, <2>3, <4>1, <5>1
      <4> QED
        BY <4>2 DEF Writes
    <3> QED
      BY <3>1, <3>2
  <2> QED
    BY <2>1, <2>2, <2>3 DEF Writes
<1>11. Freed'
  BY <1>2, <1>7, <1>9 DEF Freed
<1>12. Covered'
  BY <1>0, <1>2, <1>7, <1>10 DEF Covered
<1>13. Cached'
  <2>1. x.file < fresh /\ (Alive(x.file) => x.text = rows[x.file].hash)
    BY <1>3 DEF Good
  <2>2. \A f \in Files : f >= fresh => cache'[f] = Gone
    <3> SUFFICES ASSUME NEW f \in Files, f >= fresh PROVE cache'[f] = Gone
      OBVIOUS
    <3>1. f # x.file
      BY <1>0, <1>3, <2>1
    <3> QED
      BY <1>2, <1>6, <3>1 DEF Cached
  <2>3. ASSUME NEW f \in Files, Alive(f)
        PROVE  cache'[f] = Gone \/ (cache'[f] = rows[f].hash /\ lines[f] = rows[f].hash)
    BY <1>2, <1>3, <1>6, <2>1, <2>3 DEF Cached
  <2> QED
    BY <1>0, <1>7, <2>2, <2>3 DEF Cached
<1>14. Sent'
  <2>1. ASSUME NEW k \in 1 .. Len(batch'.works), NEW y, y = batch'.works[k]
        PROVE  Good(y)' /\ (batch'.ok /\ Alive(y.file)' => lines'[y.file] = y.text)
    <3>1. k + 1 \in 1 .. Len(batch.works) /\ y = batch.works[k + 1] /\ Len(batch.works) # 1
      BY <1>4, <2>1
    <3>2. Good(y) /\ (batch.ok /\ Alive(y.file) => lines[y.file] = y.text)
      BY <1>2, <3>1 DEF Sent
    <3> QED
      BY <1>0, <1>4, <1>7, <1>8, <3>1, <3>2
  <2>2. ASSUME NEW k \in 1 .. Len(chan), NEW y, y = chan[k] PROVE Good(y)'
    BY <1>2, <1>8, <2>2 DEF Sent
  <2> QED
    BY <1>0, <2>1, <2>2 DEF Sent, Good, Alive
<1>15. \A i \in Items : Writing(i)'
  BY <1>0, <1>2, <1>7 DEF Writing
<1> QED
  BY <1>11, <1>12, <1>13, <1>14, <1>15 DEF LinesInv

LEMMA InitLines == Init => LinesInv
<1> SUFFICES ASSUME Init PROVE LinesInv
  OBVIOUS
<1>1. \A f \in Files : ~Alive(f) /\ cache[f] = Gone /\ \A b \in Branches : ~Holds(b, f)
  BY DEF Init, NoGeneration, Alive, Holds
<1>2. chan = <<>> /\ batch.works = <<>> /\ \A i \in Items : jobs[i] = Idle
  BY DEF Init
<1>3. Freed /\ Covered /\ Cached
  BY <1>1 DEF Freed, Covered, Cached, Behind
<1>4. Sent
  BY <1>2 DEF Sent
<1>5. \A i \in Items : Writing(i)
  BY <1>2 DEF Writing, Idle, Ingesting
<1> QED
  BY <1>3, <1>4, <1>5 DEF LinesInv

LEMMA NextLines ==
  ASSUME Types, Types', Owned, Flight, GenerationInv, GenerationInv', LinesInv, [Next]_vars
  PROVE  LinesInv'
<1> SUFFICES ASSUME Clean' PROVE LinesInv'
  BY DEF LinesInv
<1>1. ASSUME NEW i \in Items, Handler(i) PROVE LinesInv'
  BY <1>1, PrepareLines, LeaveLines, IngestLines, SendLines, EndLines DEF Handler
<1>2. ASSUME NEW i \in Items, HandlerFails(i) PROVE LinesInv'
  BY <1>2, EndLines
<1>3. CASE UNCHANGED vars
  <2>1. UNCHANGED <<disk, rows, fresh, lines, meta, cache, queue, jobs, chan, batch, amiss>>
    BY <1>3 DEF vars
  <2>2. /\ \A f : Alive(f)' = Alive(f) /\ \A b : Holds(b, f)' = Holds(b, f)
        /\ \A b, f : /\ Behind(b, f)' = Behind(b, f) /\ Written(b, f)' = Written(b, f)
                     /\ Current(b, f)' = Current(b, f)
        /\ \A i, f : Frees(i, f)' = Frees(i, f) /\ Writes(i, f)' = Writes(i, f)
    BY <2>1 DEF Alive, Holds, Behind, Written, Current, Frees, Writes
  <2>3. /\ \A x : Good(x)' = Good(x)
        /\ \A i : Writing(i)' = Writing(i)
    BY <2>1, <2>2 DEF Good, Writing
  <2>4. Freed /\ Covered /\ Cached /\ Sent /\ \A i \in Items : Writing(i)
    BY <2>1 DEF LinesInv, Clean
  <2>5. Freed' /\ Covered' /\ Cached' /\ Sent'
    BY <2>1, <2>2, <2>3, <2>4 DEF Freed, Covered, Cached, Sent, Good
  <2> QED
    BY <2>3, <2>4, <2>5 DEF LinesInv
<1> QED
  BY <1>1, <1>2, <1>3, EditLines, FlushLines, ConcludeLines, ReconcileLines, CrashLines
     DEF Next, Quiet

\* The lines and branch sets in search.db are those of the table and of the checkouts
\* once the queue is empty, for any number of branches, handlers, failures and crashes,
\* and whatever becomes of the points: a row that its branch has outlived always has an
\* item that will take the branch out of it, and lines that are not yet what they should
\* be have an item, a change in the channel or a failed batch that will bring them.
THEOREM LinesFollowDiskThm == Spec => []LinesFollowDisk
<1>1. Init => Types /\ Owned /\ Flight /\ GenerationInv /\ LinesInv
  BY InitTypes, InitOwned, InitGeneration, InitLines
<1>2. Types /\ Owned /\ Flight /\ GenerationInv /\ LinesInv /\ [Next]_vars
        => (Types /\ Owned /\ Flight /\ GenerationInv /\ LinesInv)'
  BY NextTypes, NextOwned, NextGeneration, NextLines
<1>3. Types /\ Owned /\ Flight /\ GenerationInv /\ LinesInv => LinesFollowDisk
  <2> SUFFICES ASSUME Types, Owned, Flight, GenerationInv, LinesInv, Settled,
                      amiss \cap {"raced", "lost update", "branch left out"} = {},
                      NEW b \in Branches, Holder(b) # NoFile
               PROVE  lines[Holder(b)] = disk[b] /\ b \in meta[Holder(b)]
    BY DEF LinesFollowDisk
  <2>1. Clean /\ "branch left out" \notin amiss
    BY DEF Clean
  <2>2. Holder(b) \in Files /\ Holds(b, Holder(b))
    BY OneHolder
  <2>3. rows[Holder(b)].hash = disk[b] /\ Written(b, Holder(b))
    BY <2>1, <2>2, SettledLines
  <2> QED
    BY <2>1, <2>3 DEF Written
<1> QED
  BY <1>1, <1>2, <1>3, PTL DEF Spec

-----------------------------------------------------------------------------
(* The points follow the disk *)

\* Nothing has happened but what a settled queue makes up for
Calm == amiss \subseteq {"reconciled", "branch left out", "merge cut off"}

Alone == \A i, j \in Items : ~At(i, "idle") /\ ~At(j, "idle") => i = j

TagsStored == \A c \in Contents : tags[c] # {} => c \in stored

\* The branch may be missing from the tags of its row's points: they are to be stored
\* anew, or the handler that has overwritten them holds what they had
Excused(b, f) ==
  \/ /\ ~rows[f].chunker
     /\ \/ "merge cut off" \in amiss
        \/ /\ "reconciled" \in amiss
           /\ rows[f].branches = {b} \/ tags[rows[f].hash] = {}
  \/ \E i \in Items : At(i, "merge") /\ jobs[i].hash = rows[f].hash /\ b \in jobs[i].seen

\* Row and points are as the checkout of the branch wants them
Fine(b) ==
  IF disk[b] = Gone THEN \A f \in Files : ~Holds(b, f)
  ELSE \E f \in Files : /\ Holds(b, f) /\ rows[f].hash = disk[b]
                        /\ b \in tags[disk[b]] \/ Excused(b, f)

Leave == {"unpoint", "unhold", "unline"}

\* The item will see to that: it is still to be taken up, its handler is on the way, or
\* it has decided on points that it has not stored, and will not be concluded before
Mends(i) ==
  IF disk[i.branch] = Gone THEN queue[i].state = "pending" \/ jobs[i].pc \in Leave
  ELSE /\ i.op # "delete"
       /\ \/ queue[i].state = "pending"
          \/ jobs[i].pc \in Ingesting
          \/ jobs[i].pc \in Leave /\ jobs[i].ingest
          \/ /\ queue[i].state = "taken" /\ queue[i].decided /\ ~queue[i].qdrant
             /\ jobs[i].pc \notin Leave
          \/ At(i, "research") /\ \A f \in Files : ~Holds(i.branch, f)

Mended(b) == \E i \in Items : i.branch = b /\ Mends(i)

\* A handler that takes its branch out of a row knows the row's branches, and either
\* it or another item of the branch has still to look at the file
Releasing(i) == LET j == jobs[i] IN
  /\ j.pc \in {"unpoint", "unhold"} => j.seen = rows[j.file].branches /\ i.branch \in j.seen
  /\ j.pc \in Leave => Mended(i.branch)

\* One that shares points has put its branch into the tags
Sharing(i) == LET j == jobs[i] IN
  /\ j.pc = "share" => i.branch \in tags[j.hash] /\ \E f \in RowOf(j.hash) : rows[f].chunker
  /\ j.pc = "sharesend" => Fine(i.branch)

\* One that stores points overwrites none that are as they should be, unless they are
\* of another chunker
Storing(i) == jobs[i].pc \in {"embed", "upsert", "merge"} =>
  \A f \in Files : Alive(f) /\ rows[f].hash = disk[i.branch] =>
    ~rows[f].chunker \/ \A b \in Branches : Holds(b, f) => Mended(b)

\* ... and puts back every branch of the row
Merging(i) == LET j == jobs[i] IN
  /\ j.pc \in {"merge", "track"} =>
       /\ i.branch \in tags[j.hash]
       /\ \A b \in Branches, f \in Files : Holds(b, f) /\ rows[f].hash = j.hash =>
            b \in tags[j.hash] \/ (j.pc = "merge" /\ b \in j.seen)
  /\ j.pc = "track" /\ j.file # NoFile => Holds(i.branch, j.file)

Handled(i) == Releasing(i) /\ Sharing(i) /\ Storing(i) /\ Merging(i)

VectorsInv == Calm => /\ Alone /\ TagsStored
                      /\ \A b \in Branches : Fine(b) \/ Mended(b)
                      /\ \A i \in Items : Handled(i)

LEMMA CalmIsClean ==
  Calm => Clean /\ "doubled" \notin amiss /\ "overlap" \notin amiss
          /\ "hash without points" \notin amiss /\ "sink without row" \notin amiss
          /\ "lost update" \notin amiss /\ "raced" \notin amiss
BY DEF Calm, Clean

\* Only the crash and the reconcile take anything back
LEMMA CalmBefore ==
  ASSUME Calm', amiss \subseteq amiss' \/ amiss \ {"merge cut off", "branch left out"} \subseteq amiss'
  PROVE  Calm
BY DEF Calm

\* Nothing that the promise is about has changed
LEMMA FineStays ==
  ASSUME UNCHANGED <<disk, rows, tags>>, amiss \subseteq amiss',
         \A j \in Items : At(j, "merge") => jobs'[j] = jobs[j]
  PROVE  \A b \in Branches : Fine(b) => Fine(b)'
<1>1. \A b, f : Holds(b, f)' = Holds(b, f)
  BY DEF Holds
<1>2. \A b, f : Excused(b, f) => Excused(b, f)'
  BY DEF Excused, At
<1> QED
  BY <1>1, <1>2 DEF Fine

\* A step that leaves rows and points alone, and no promise undone
Promised == /\ \A j \in Items : Mends(j) => Mends(j)'
            /\ \A j \in Items : jobs'[j] = jobs[j] \/ (jobs'[j] = Idle /\ ~At(j, "merge"))

LEMMA VectorsStay ==
  ASSUME Types, VectorsInv, Calm, UNCHANGED <<disk, rows, stored, tags>>,
         amiss \subseteq amiss', Promised
  PROVE  VectorsInv'
<1>0. /\ Alone /\ TagsStored /\ \A b \in Branches : Fine(b) \/ Mended(b)
      /\ \A i \in Items : Handled(i)
  BY DEF VectorsInv
<1>1. \A b \in Branches : Fine(b) => Fine(b)'
  BY FineStays DEF Promised
<1>2. \A b : Mended(b) => Mended(b)'
  BY DEF Mended, Promised
<1>3. Alone' /\ TagsStored'
  BY <1>0 DEF Alone, TagsStored, Promised, At, Idle
<1>4. /\ \A b, f : Holds(b, f)' = Holds(b, f)
      /\ \A f : Alive(f)' = Alive(f)
      /\ \A h : RowOf(h)' = RowOf(h)
  BY DEF Holds, Alive, RowOf, Live
<1>5. ASSUME NEW i \in Items PROVE Handled(i)'
  <2>1. Handled(i) /\ i.branch \in Branches
    BY <1>0, Domains
  <2>2. CASE jobs'[i] = Idle
    <3>1. jobs'[i].pc = "idle"
      BY <2>2 DEF Idle
    <3> QED
      BY <3>1 DEF Handled, Releasing, Sharing, Storing, Merging, Leave
  <2>3. CASE jobs'[i] = jobs[i]
    <3>1. Releasing(i)' /\ Sharing(i)'
      BY <1>1, <1>2, <1>4, <2>1, <2>3 DEF Handled, Releasing, Sharing
    <3>2. Storing(i)' /\ Merging(i)'
      BY <1>1, <1>2, <1>4, <2>1, <2>3 DEF Handled, Storing, Merging
    <3> QED
      BY <3>1, <3>2 DEF Handled
  <2> QED
    BY <2>2, <2>3 DEF Promised
<1> QED
  BY <1>0, <1>1, <1>2, <1>3, <1>5 DEF VectorsInv

\* A step of the only handler
Lone(i) == \A j \in Items : j # i => At(j, "idle")

LEMMA MendsKept ==
  ASSUME NEW i \in Items, Lone(i), OneItem(i), UNCHANGED disk
  PROVE  /\ \A j \in Items : j # i /\ Mends(j) => Mends(j)'
         /\ \A b : b # i.branch \/ (Mends(i) => Mends(i)') => (Mended(b) => Mended(b)')
<1>1. \A j \in Items : j # i /\ Mends(j) => Mends(j)'
  <2> SUFFICES ASSUME NEW j \in Items, j # i, Mends(j) PROVE Mends(j)'
    OBVIOUS
  <2>1. jobs'[j] = jobs[j] /\ queue'[j] = queue[j] /\ jobs[j].pc = "idle"
    BY DEF OneItem, Lone, At
  <2> QED
    BY <2>1 DEF Mends, Leave, Ingesting, At
<1> QED
  BY <1>1 DEF Mended

\* It keeps its own promises, and harms no other branch
Harmless(i) ==
  /\ TagsStored' /\ Handled(i)'
  /\ Fine(i.branch) \/ Mends(i) => Fine(i.branch)' \/ Mended(i.branch)'
  /\ \A b \in Branches : b # i.branch /\ Fine(b) => Fine(b)'

LEMMA VectorsStep ==
  ASSUME VectorsInv, Calm, NEW i \in Items, Lone(i), OneItem(i), UNCHANGED disk,
         Harmless(i)
  PROVE  VectorsInv'
<1>0. \A b \in Branches : Fine(b) \/ Mended(b)
  BY DEF VectorsInv
<1>1. Alone'
  BY DEF Alone, Lone, OneItem, At
<1>2. ASSUME NEW j \in Items PROVE Handled(j)'
  <2>1. j # i => jobs'[j].pc = "idle"
    BY DEF Lone, OneItem, At
  <2>2. j # i => Handled(j)'
    BY <2>1 DEF Handled, Releasing, Sharing, Storing, Merging, Leave
  <2> QED
    BY <2>2 DEF Harmless
<1>3. ASSUME NEW b \in Branches PROVE Fine(b)' \/ Mended(b)'
  <2>1. CASE b # i.branch
    BY <1>0, <2>1, MendsKept DEF Harmless
  <2>2. CASE b = i.branch
    <3>1. \A j \in Items : j # i /\ Mends(j) => Mends(j)'
      BY MendsKept
    <3>2. CASE Fine(b) \/ Mends(i)
      BY <2>2, <3>2 DEF Harmless, Mended
    <3>3. CASE ~Fine(b) /\ ~Mends(i)
      <4>1. PICK j \in Items : j.branch = b /\ Mends(j)
        BY <1>0, <3>3 DEF Mended
      <4> QED
        BY <3>1, <3>3, <4>1 DEF Mended
    <3> QED
      BY <3>2, <3>3
  <2> QED
    BY <2>1, <2>2
<1> QED
  BY <1>1, <1>2, <1>3 DEF VectorsInv, Harmless

LEMMA PrepareVectors ==
  ASSUME Types, Types', GenerationInv, VectorsInv, Calm', NEW i \in Items,
         \/ PrepareMissing(i) \/ PrepareSkip(i) \/ PrepareRechunk(i) \/ PrepareChange(i)
         \/ PrepareUntracked(i) \/ PrepareDelete(i)
  PROVE  VectorsInv'
<1> DEFINE b == i.branch
<1>0. b \in Branches /\ jobs \in [Items -> Aimed] /\ queue \in [Items -> QueueRow]
      /\ disk \in [Branches -> Texts] /\ queue[i] \in QueueRow
  BY Domains DEF Types, WorkOK, CheckoutOK
<1>1. /\ UNCHANGED <<checkout, table, search, cache, handover>> /\ amiss \subseteq amiss'
      /\ queue[i].state = "pending"
      /\ (\E j \in Items : ~At(j, "idle")) => "overlap" \in amiss'
  BY DEF PrepareMissing, PrepareSkip, PrepareRechunk, PrepareChange,
         PrepareUntracked, PrepareDelete, Ingests, Take
<1>2. Calm /\ Clean
  BY <1>1, CalmBefore, CalmIsClean
<1>3. \A j \in Items : At(j, "idle")
  BY <1>1 DEF Calm
<1>4. PICK f : /\ f = Holder(b)
               /\ f = NoFile => \A g \in Files : ~Holds(b, g)
               /\ f # NoFile => f \in Files /\ Holds(b, f)
               /\ \A g \in Files : Holds(b, g) => g = f
  BY <1>0, <1>2, OneHolder
<1>5. HashRead(b) = {disk[b]}
  BY <1>0, <1>2, HashIsRead DEF GenerationInv
<1>6. \A g \in Files : Holds(b, g) => rows[g].hash # Gone
  BY <1>2 DEF GenerationInv, Vouched, Holds, Alive
<1>7. OneItem(i)
  BY <1>0 DEF PrepareMissing, PrepareSkip, PrepareRechunk, PrepareChange, PrepareUntracked,
              PrepareDelete, Close, Taken, Decides, Release, Ingest, OneItem
<1>8. \A d, g : Holds(d, g)' = Holds(d, g)
  BY <1>1 DEF Holds
<1>9. TagsStored' /\ \A d \in Branches : Fine(d) => Fine(d)'
  <2>1. CASE UNCHANGED qdrant
    <3>1. TagsStored'
      BY <1>2, <2>1 DEF VectorsInv, TagsStored
    <3>2. \A d \in Branches : Fine(d) => Fine(d)'
      BY <1>1, <1>3, <2>1, FineStays DEF At
    <3> QED
      BY <3>1, <3>2
  <2>2. CASE recent = <<>> /\ Sweep
    <3>1. \A d \in Branches, g \in Files : ~Holds(d, g)
      BY <2>2 DEF GenerationInv, Listing, InOrder, Holds, Alive
    <3>2. \A d \in Branches : Fine(d) => Fine(d)'
      BY <1>1, <1>8, <3>1 DEF Fine
    <3>3. TagsStored'
      BY <2>2 DEF Sweep, TagsStored
    <3> QED
      BY <3>2, <3>3
  <2> QED
    BY <2>1, <2>2 DEF PrepareMissing, PrepareSkip, PrepareRechunk, PrepareChange,
                      PrepareUntracked, PrepareDelete, unread
<1>10. ASSUME jobs'[i].pc \in {"idle", "dedup", "research"},
              Fine(b) \/ Mends(i) => Fine(b)' \/ Mends(i)'
       PROVE  VectorsInv'
  <2>1. Handled(i)'
    BY <1>10 DEF Handled, Releasing, Sharing, Storing, Merging, Leave
  <2>2. Harmless(i)
    BY <1>9, <1>10, <2>1 DEF Harmless, Mended
  <2>3. Lone(i)
    BY <1>3 DEF Lone
  <2> QED
    BY <1>1, <1>2, <1>7, <2>2, <2>3, VectorsStep
<1>11. ASSUME f # NoFile, NEW x \in BOOLEAN, Release(i, f, x), Mends(i)' PROVE VectorsInv'
  <2>1. /\ jobs'[i].pc = "unpoint" /\ jobs'[i].file = f /\ jobs'[i].seen = rows[f].branches
    BY <1>0, <1>11 DEF Release
  <2>2. Mended(b)'
    BY <1>11 DEF Mended
  <2>3. Handled(i)'
    BY <1>1, <1>4, <1>11, <2>1, <2>2 DEF Handled, Releasing, Sharing, Storing, Merging, Leave, Holds
  <2>4. Harmless(i)
    BY <1>9, <1>11, <2>3 DEF Harmless, Mended
  <2>5. Lone(i)
    BY <1>3 DEF Lone
  <2> QED
    BY <1>1, <1>2, <1>7, <2>4, <2>5, VectorsStep
<1>12. ASSUME NEW x, Ingest(i, x) PROVE jobs'[i].pc = IF x THEN "research" ELSE "dedup"
  <2>1. jobs'[i] = [Idle EXCEPT !.snap = x, !.pc = IF x THEN "research" ELSE "dedup"]
    BY <1>0, <1>12 DEF Ingest
  <2> QED
    BY <2>1 DEF Idle
<1>13. ASSUME NEW x, Release(i, f, x)
       PROVE  jobs'[i].pc = "unpoint" /\ jobs'[i].ingest = x
  BY <1>0, <1>13 DEF Release
<1>14. Close(i) => jobs'[i].pc = "idle"
  BY <1>0 DEF Close, Idle
<1>15. Decides(i) => queue'[i].state = "taken" /\ queue'[i].decided /\ ~queue'[i].qdrant
  BY <1>0 DEF Decides, Taken, QueueRow
<1>16. CASE PrepareMissing(i)
  <2>1. disk[b] = Gone /\ (IF f = NoFile THEN Close(i) ELSE Release(i, f, FALSE))
    BY <1>4, <1>16 DEF PrepareMissing
  <2>2. CASE f = NoFile
    <3>1. Fine(b)'
      BY <1>1, <1>4, <1>8, <2>1, <2>2 DEF Fine
    <3> QED
      BY <1>10, <1>14, <2>1, <2>2, <3>1
  <2>3. CASE f # NoFile
    <3>1. Mends(i)'
      BY <1>1, <1>13, <2>1, <2>3 DEF Mends, Leave
    <3> QED
      BY <1>11, <2>1, <2>3, <3>1
  <2> QED
    BY <2>2, <2>3
<1>17. CASE PrepareSkip(i)
  <2>1. /\ disk[b] # Gone /\ f # NoFile /\ rows[f].hash = disk[b] /\ Ingest(i, TRUE)
        /\ Shows(rows[f].hash, b) \/ "hash without points" \in amiss'
        /\ UNCHANGED qdrant
    BY <1>4, <1>5, <1>17 DEF PrepareSkip, Held, SameContent, Take
  <2>2. b \in tags[disk[b]]
    BY <2>1 DEF Calm, Shows
  <2>3. Fine(b)'
    BY <1>1, <1>4, <1>8, <2>1, <2>2 DEF Fine
  <2> QED
    BY <1>10, <1>12, <2>1, <2>3
<1>18. CASE PrepareRechunk(i)
  <2>1. disk[b] # Gone /\ i.op # "delete" /\ Decides(i) /\ Ingest(i, queue[i].qdrant)
    BY <1>18 DEF PrepareRechunk, Held, Ingests
  <2>2. jobs'[i].pc \in {"research", "dedup"}
    BY <1>12, <2>1
  <2>3. Mends(i)'
    BY <1>1, <1>15, <2>1, <2>2 DEF Mends, Leave
  <2> QED
    BY <1>10, <2>2, <2>3
<1>19. CASE PrepareChange(i)
  <2>1. disk[b] # Gone /\ i.op # "delete" /\ Release(i, f, TRUE) /\ f # NoFile
    BY <1>4, <1>19 DEF PrepareChange, Held, Ingests
  <2>2. Mends(i)'
    BY <1>1, <1>13, <2>1 DEF Mends, Leave
  <2> QED
    BY <1>11, <2>1, <2>2
<1>20. CASE PrepareUntracked(i)
  <2>1. disk[b] # Gone /\ i.op # "delete" /\ Ingest(i, queue[i].qdrant) /\ f = NoFile
    BY <1>4, <1>20 DEF PrepareUntracked, Ingests
  <2>2. jobs'[i].pc \in {"research", "dedup"}
    BY <1>12, <2>1
  <2>3. Mends(i)'
    BY <1>1, <1>4, <1>8, <2>1, <2>2 DEF Mends, Ingesting, At
  <2> QED
    BY <1>10, <2>2, <2>3
<1>21. CASE PrepareDelete(i)
  <2>1. /\ i.op = "delete"
        /\ IF disk[b] = Gone /\ f # NoFile THEN Release(i, f, FALSE) ELSE Close(i)
    BY <1>4, <1>21 DEF PrepareDelete
  <2>2. CASE disk[b] = Gone /\ f # NoFile
    <3>1. Mends(i)'
      BY <1>1, <1>13, <2>1, <2>2 DEF Mends, Leave
    <3> QED
      BY <1>11, <2>1, <2>2, <3>1
  <2>3. CASE disk[b] = Gone /\ f = NoFile
    <3>1. Fine(b)'
      BY <1>1, <1>4, <1>8, <2>3 DEF Fine
    <3> QED
      BY <1>10, <1>14, <2>1, <2>3, <3>1
  <2>4. CASE disk[b] # Gone
    <3>1. ~Mends(i)
      BY <2>1, <2>4 DEF Mends
    <3> QED
      BY <1>0, <1>9, <1>10, <1>14, <2>1, <2>4, <3>1
  <2> QED
    BY <2>2, <2>3, <2>4
<1> QED
  BY <1>16, <1>17, <1>18, <1>19, <1>20, <1>21

LEMMA BusyLone ==
  ASSUME VectorsInv, Calm, NEW i \in Items, ~At(i, "idle")
  PROVE  /\ Lone(i) /\ Handled(i) /\ TagsStored
         /\ \A b \in Branches : Fine(b) \/ Mended(b)
BY DEF VectorsInv, Alone, Lone

LEMMA LeaveVectors ==
  ASSUME Types, Types', Owned, Flight, GenerationInv, GenerationInv', VectorsInv, Calm',
         NEW i \in Items, Unpoint(i) \/ Unhold(i) \/ Unline(i)
  PROVE  VectorsInv'
<1> DEFINE b == i.branch
<1>0. /\ b \in Branches /\ jobs \in [Items -> Aimed] /\ jobs[i] \in Job
      /\ jobs[i].file \in Files /\ ~At(i, "idle") /\ jobs[i].pc \in Leave
      /\ queue[i].state = "taken"
  <2>1. jobs[i].pc \in Leave
    BY DEF Unpoint, Unhold, Unline, At, Leave
  <2> QED
    BY <2>1, Domains, JobFacts DEF Types, WorkOK, OnRow, Aimed, At, Leave, Owned
<1>1. UNCHANGED <<checkout, batch, chan, fresh>> /\ amiss \subseteq amiss'
  BY DEF Unpoint, Unhold, Unline
<1>2. Calm /\ Clean /\ "doubled" \notin amiss
  BY <1>1, CalmBefore, CalmIsClean
<1>3. /\ Lone(i) /\ Handled(i) /\ TagsStored /\ JobInv(i) /\ Disjoint /\ Distinct /\ Vouched
      /\ \A d \in Branches : Fine(d) \/ Mended(d)
  BY <1>0, <1>2, BusyLone DEF GenerationInv
<1>4. Mended(b)
  BY <1>0, <1>3 DEF Handled, Releasing
<1>4a. \A j \in Items : ~At(j, "merge")
  BY <1>0, <1>3 DEF Lone, At, Leave
<1>5. CASE Unpoint(i)
  <2>1. /\ jobs'[i].pc = "unhold" /\ jobs'[i].file = jobs[i].file /\ jobs'[i].ingest = jobs[i].ingest
        /\ jobs'[i].seen = rows[jobs[i].file].branches
        /\ UNCHANGED <<rows, recent, queue, amiss>>
    BY <1>0, <1>5 DEF Unpoint, Job
  <2>2. OneItem(i)
    BY <1>0, <1>5 DEF Unpoint, OneItem
  <2>3. jobs[i].seen = rows[jobs[i].file].branches /\ b \in jobs[i].seen
    BY <1>3, <1>5 DEF Unpoint, At, Handled, Releasing
  <2>4. Mends(i) => Mends(i)'
    BY <1>0, <1>1, <2>1 DEF Mends, Leave, Ingesting, At
  <2>5. Mended(b)'
    BY <1>1, <1>3, <1>4, <2>2, <2>4, MendsKept
  <2>6. Handled(i)'
    BY <2>1, <2>3, <2>5 DEF Handled, Releasing, Sharing, Storing, Merging, Leave
  <2>7. PICK f \in Files, h \in Texts : f = jobs[i].file /\ h = rows[f].hash /\ h # Gone /\ Holds(b, f)
    BY <1>0, <1>3, <2>3 DEF Vouched, Alive, Holds, Types, TableOK, Generation
  <2>8. \/ /\ rows[f].branches = {b} /\ stored' = stored \ {h}
           /\ tags' = [c \in Contents |-> IF c = h THEN {} ELSE tags[c]]
        \/ /\ stored' = stored
           /\ \E k : tags' = [tags EXCEPT ![k] = @ \ {b}]
    BY <1>5, <2>3, <2>7 DEF Unpoint
  <2>9. tags \in [Contents -> SUBSET Branches] /\ disk \in [Branches -> Texts]
    BY DEF Types, PointsOK, CheckoutOK
  <2>10. /\ \A c \in Contents : tags'[c] \subseteq tags[c]
         /\ \A c \in Contents, d \in Branches :
              d # b /\ d \in tags[c] => d \in tags'[c] \/ (c = h /\ rows[f].branches = {b})
    BY <2>8, <2>9
  <2>11. TagsStored'
    <3>1. CASE stored' = stored
      BY <1>3, <2>10, <3>1 DEF TagsStored
    <3>2. CASE stored' # stored
      BY <1>3, <2>8, <2>9, <3>2 DEF TagsStored
    <3> QED
      BY <3>1, <3>2
  <2>12. ASSUME NEW d \in Branches, d # b, Fine(d) PROVE Fine(d)'
    <3>0. \A e, g : Holds(e, g)' = Holds(e, g)
      BY <2>1 DEF Holds
    <3>1. CASE disk[d] = Gone
      BY <1>1, <2>12, <3>0, <3>1 DEF Fine
    <3>2. CASE disk[d] # Gone
      <4>1. PICK g \in Files : /\ Holds(d, g) /\ rows[g].hash = disk[d]
                               /\ d \in tags[disk[d]] \/ Excused(d, g)
        BY <2>12, <3>2 DEF Fine
      <4>2. disk[d] \in Contents
        BY <2>9, <3>2 DEF Texts
      <4>3. ~(disk[d] = h /\ rows[f].branches = {b})
        <5>1. disk[d] = h => g = f
          BY <1>3, <2>7, <4>1 DEF Distinct, Alive, Holds
        <5> QED
          BY <2>12, <4>1, <5>1 DEF Holds
      <4>4. d \in tags[disk[d]] => d \in tags'[disk[d]]
        BY <2>10, <2>12, <4>2, <4>3
      <4>5. Excused(d, g) => Excused(d, g)'
        BY <1>4a, <2>1, <2>10, <4>1, <4>2 DEF Excused
      <4> QED
        BY <1>1, <2>1, <3>0, <3>2, <4>1, <4>4, <4>5 DEF Fine
    <3> QED
      BY <3>1, <3>2
  <2>13. Harmless(i)
    BY <2>5, <2>6, <2>11, <2>12 DEF Harmless
  <2> QED
    BY <1>1, <1>2, <1>3, <2>2, <2>13, VectorsStep
<1>6. CASE Unhold(i)
  <2>1. PICK f, left : f = jobs[i].file /\ left = jobs[i].seen \ {i.branch}
    OBVIOUS
  <2>2. Unheld(i, f, left)
    BY <1>6, <2>1, UnholdRows
  <2>3. Clean'
    <3>1. Calm'
      OBVIOUS
    <3> QED
      BY <3>1 DEF Calm, Clean
  <2>4. /\ jobs'[i] = [jobs[i] EXCEPT !.pc = "unline"] /\ OneItem(i) /\ f \in Files
        /\ \A g \in Files : g # f => rows'[g] = rows[g]
        /\ \/ left = {} /\ rows'[f] = NoGeneration
           \/ Alive(f) /\ rows'[f] = [rows[f] EXCEPT !.branches = left] /\ left # {}
           \/ ~Alive(f) /\ rows'[f] = rows[f] /\ left # {}
        /\ ~Holds(i.branch, f)'
        /\ Alive(f)' => Alive(f) /\ rows'[f].hash = rows[f].hash /\ rows'[f].chunker = rows[f].chunker
        /\ RowsGo(i)
    BY <2>2, <2>3 DEF Unheld
  <2>5. UNCHANGED <<qdrant, queue>> /\ amiss' = amiss
    <3>1. amiss' = amiss \/ "lost update" \in amiss'
      BY <1>6 DEF Unhold
    <3> QED
      BY <1>6, <3>1 DEF Unhold, Calm
  <2>6. jobs'[i].pc = "unline" /\ jobs'[i].ingest = jobs[i].ingest
    BY <1>0, <2>4 DEF Job
  <2>7. Mends(i) => Mends(i)'
    BY <1>0, <1>1, <2>5, <2>6 DEF Mends, Leave, Ingesting, At
  <2>8. Mended(b)'
    BY <1>1, <1>3, <1>4, <2>4, <2>7, MendsKept
  <2>9. Handled(i)'
    BY <2>6, <2>8 DEF Handled, Releasing, Sharing, Storing, Merging, Leave
  <2>10. jobs[i].seen = rows[f].branches /\ b \in jobs[i].seen
    BY <1>3, <1>6, <2>1 DEF Unhold, At, Handled, Releasing
  <2>11. ASSUME NEW d \in Branches, d # b, NEW g \in Files, Holds(d, g)
         PROVE  /\ Holds(d, g)' /\ rows'[g].hash = rows[g].hash /\ rows'[g].chunker = rows[g].chunker
                /\ (rows[g].branches = {d} => rows'[g].branches = {d})
    <3>1. CASE g # f
      BY <2>4, <2>11, <3>1 DEF Holds
    <3>2. CASE g = f
      <4>1. d \in left /\ Alive(f)
        BY <2>1, <2>10, <2>11, <3>2 DEF Holds, Alive
      <4>2. rows'[f] = [rows[f] EXCEPT !.branches = left] /\ rows[f] \in Generation
        BY <2>4, <4>1 DEF Types, TableOK
      <4>3. rows'[f].branches = left
        BY <4>2 DEF Generation
      <4>4. rows[g].branches # {d}
        BY <2>10, <2>11, <3>2
      <4> QED
        BY <2>4, <3>2, <4>1, <4>3, <4>4 DEF Holds, Alive
    <3> QED
      BY <3>1, <3>2
  <2>12. ASSUME NEW d \in Branches, d # b, Fine(d) PROVE Fine(d)'
    <3>1. CASE disk[d] = Gone
      <4>1. \A g \in Files : Holds(d, g)' => Holds(d, g)
        BY <2>4, <2>12 DEF RowsGo
      <4> QED
        BY <1>1, <2>12, <3>1, <4>1 DEF Fine
    <3>2. CASE disk[d] # Gone
      <4>1. PICK g \in Files : /\ Holds(d, g) /\ rows[g].hash = disk[d]
                               /\ d \in tags[disk[d]] \/ Excused(d, g)
        BY <2>12, <3>2 DEF Fine
      <4>2. Excused(d, g) => Excused(d, g)'
        BY <1>4a, <2>5, <2>11, <2>12, <4>1 DEF Excused
      <4> QED
        BY <1>1, <2>5, <2>11, <2>12, <3>2, <4>1, <4>2 DEF Fine
    <3> QED
      BY <3>1, <3>2
  <2>13. TagsStored'
    BY <1>3, <2>5 DEF TagsStored
  <2>14. Harmless(i)
    BY <2>8, <2>9, <2>12, <2>13 DEF Harmless
  <2> QED
    BY <1>1, <1>2, <1>3, <2>4, <2>14, VectorsStep
<1>7. CASE Unline(i)
  <2>1. \/ jobs'[i].pc = "idle" /\ ~jobs[i].ingest
        \/ jobs'[i].pc \in {"research", "dedup"} /\ jobs[i].ingest
    <3>1. ASSUME NEW x, Ingest(i, x) PROVE jobs'[i].pc \in {"research", "dedup"}
      <4>1. jobs'[i] = [Idle EXCEPT !.snap = x, !.pc = IF x THEN "research" ELSE "dedup"]
        BY <1>0, <3>1 DEF Ingest
      <4> QED
        BY <4>1 DEF Idle
    <3>2. Close(i) => jobs'[i].pc = "idle"
      BY <1>0 DEF Close, Idle
    <3> QED
      BY <1>7, <3>1, <3>2 DEF Unline
  <2>2. OneItem(i) /\ UNCHANGED <<table, qdrant>>
    BY <1>0, <1>7 DEF Unline, OneItem, Ingest, Close, Types, WorkOK
  <2>3. \A g \in Files : ~Holds(b, g) /\ ~Holds(b, g)'
    BY <1>2, <1>3, <1>7, <2>2 DEF JobInv, Leaving, Unline, At, Holds
  <2>4. \A d \in Branches : Fine(d) => Fine(d)'
    BY <1>1, <1>4a, <2>2, FineStays
  <2>5. Handled(i)'
    BY <2>1 DEF Handled, Releasing, Sharing, Storing, Merging, Leave
  <2>6. Fine(b) \/ Mends(i) => Fine(b)' \/ Mends(i)'
    <3>1. CASE disk[b] = Gone
      BY <1>1, <2>3, <3>1 DEF Fine
    <3>2. CASE disk[b] # Gone
      <4>1. ~Fine(b)
        BY <2>3, <3>2 DEF Fine
      <4>2. Mends(i) => i.op # "delete" /\ jobs[i].ingest
        BY <1>0, <1>7, <3>2 DEF Mends, Unline, At, Leave, Ingesting
      <4>3. i.op # "delete" /\ jobs[i].ingest => Mends(i)'
        BY <1>1, <2>1, <2>3, <3>2 DEF Mends, Ingesting, At
      <4> QED
        BY <4>1, <4>2, <4>3
    <3> QED
      BY <3>1, <3>2
  <2>7. TagsStored'
    BY <1>3, <2>2 DEF TagsStored
  <2>8. Harmless(i)
    BY <2>4, <2>5, <2>6, <2>7 DEF Harmless, Mended
  <2> QED
    BY <1>1, <1>2, <1>3, <2>2, <2>8, VectorsStep
<1> QED
  BY <1>5, <1>6, <1>7

\* The look at the points, and their storing
LEMMA StoreVectors ==
  ASSUME Types, Types', Owned, Flight, GenerationInv, GenerationInv', VectorsInv, Calm',
         NEW i \in Items, Dedup(i) \/ Embed(i) \/ Upsert(i) \/ Merge(i)
  PROVE  VectorsInv'
<1> DEFINE b == i.branch
<1>0. /\ b \in Branches /\ jobs \in [Items -> Aimed] /\ jobs[i] \in Job
      /\ ~At(i, "idle") /\ jobs[i].pc \in {"dedup", "embed", "upsert", "merge"}
      /\ tags \in [Contents -> SUBSET Branches] /\ disk \in [Branches -> Texts]
  <2>1. jobs[i].pc \in {"dedup", "embed", "upsert", "merge"}
    BY DEF Dedup, Embed, Upsert, Merge, At
  <2> QED
    BY <2>1, Domains, JobFacts DEF Types, WorkOK, Aimed, At, PointsOK, CheckoutOK
<1>1. UNCHANGED <<checkout, table, batch, chan, search, cache, queue, amiss>>
  BY DEF Dedup, Embed, Upsert, Merge
<1>2. Calm /\ Clean
  BY <1>1, CalmBefore, CalmIsClean
<1>3. /\ Lone(i) /\ Handled(i) /\ TagsStored /\ JobInv(i) /\ Disjoint /\ Distinct /\ Vouched
      /\ \A d \in Branches : Fine(d) \/ Mended(d)
  BY <1>0, <1>2, BusyLone DEF GenerationInv
<1>4. OneItem(i)
  BY <1>0, <1>1 DEF Dedup, Embed, Upsert, Merge, To, OneItem
<1>5. /\ \A d, g : Holds(d, g)' = Holds(d, g)
      /\ \A g : Alive(g)' = Alive(g)
      /\ \A d \in Branches, g \in Files : Holds(d, g) => Alive(g) /\ rows[g].hash # Gone
  BY <1>1, <1>3 DEF Holds, Alive, Vouched
<1>6. jobs'[i].pc \in Ingesting
  BY <1>0 DEF Dedup, Embed, Upsert, Merge, To, Job, Ingesting
<1>7. Mends(i) => Mends(i)'
  BY <1>0, <1>1, <1>6 DEF Mends, Leave, Ingesting, At, Owned
<1>8. \A d : Mended(d) => Mended(d)'
  BY <1>1, <1>3, <1>4, <1>7, MendsKept
<1>9. ASSUME TagsStored', Sharing(i)', Storing(i)', Merging(i)',
             \A d \in Branches : d # b /\ Fine(d) => Fine(d)',
             Fine(b) => Fine(b)' \/ Mends(i)'
      PROVE  VectorsInv'
  <2>1. Releasing(i)'
    BY <1>6 DEF Releasing, Leave, Ingesting
  <2>2. Fine(b) \/ Mends(i) => Fine(b)' \/ Mended(b)'
    BY <1>7, <1>9 DEF Mended
  <2>3. Harmless(i)
    BY <1>9, <2>1, <2>2 DEF Harmless, Handled
  <2> QED
    BY <1>1, <1>2, <1>3, <1>4, <2>3, VectorsStep
<1>10. CASE Dedup(i)
  <2>1. PICK h \in HashRead(b) :
            IF h \in stored /\ \E f \in RowOf(h) : rows[f].chunker
            THEN /\ tags' = [tags EXCEPT ![h] = @ \cup {b}]
                 /\ jobs' = [jobs EXCEPT ![i].pc = "share", ![i].hash = h]
            ELSE To(i, "embed") /\ UNCHANGED tags
    BY <1>10 DEF Dedup
  <2>2. h = disk[b] /\ stored' = stored /\ jobs[i].pc = "dedup"
    BY <1>0, <1>3, <1>10, <2>1, HashIsRead DEF Dedup, At
  <2>3. CASE h \in stored /\ \E f \in RowOf(h) : rows[f].chunker
    <3>1. PICK f \in RowOf(h) : rows[f].chunker
      BY <2>3
    <3>2. f \in Files /\ Alive(f) /\ rows[f].hash = h
      BY <3>1 DEF RowOf, Live, Alive
    <3>3. h # Gone /\ h \in Contents
      BY <1>0, <1>3, <2>2, <3>2 DEF Vouched, Texts
    <3>4. /\ tags' = [tags EXCEPT ![h] = @ \cup {b}]
          /\ jobs' = [jobs EXCEPT ![i].pc = "share", ![i].hash = h]
      BY <2>1, <2>3
    <3>5. /\ jobs'[i].pc = "share" /\ jobs'[i].hash = h
          /\ b \in tags'[h]
          /\ \A c \in Contents : c # h => tags'[c] = tags[c]
      BY <1>0, <3>3, <3>4 DEF Job
    <3>5a. ASSUME NEW c \in Contents, NEW e \in tags[c] PROVE e \in tags'[c]
      BY <1>0, <3>3, <3>4
    <3>6. TagsStored'
      BY <1>3, <2>2, <2>3, <3>5 DEF TagsStored
    <3>7. Sharing(i)'
      <4>1. RowOf(h)' = RowOf(h)
        BY <1>1 DEF RowOf, Live
      <4>2. \E g \in RowOf(h)' : rows'[g].chunker
        BY <1>1, <3>1, <4>1
      <4> QED
        BY <3>5, <4>2 DEF Sharing, RowOf, Live
    <3>8. Storing(i)' /\ Merging(i)'
      BY <3>5 DEF Storing, Merging
    <3>9. ASSUME NEW d \in Branches, Fine(d) PROVE Fine(d)'
      <4>1. CASE disk[d] = Gone
        BY <1>1, <1>5, <3>9, <4>1 DEF Fine
      <4>2. CASE disk[d] # Gone
        <5>1. PICK g \in Files : /\ Holds(d, g) /\ rows[g].hash = disk[d]
                                 /\ d \in tags[disk[d]] \/ Excused(d, g)
          BY <3>9, <4>2 DEF Fine
        <5>2. disk[d] \in Contents
          BY <1>0, <4>2 DEF Texts
        <5>3. rows[g].hash = h => rows[g].chunker
          BY <1>3, <1>5, <3>1, <3>2, <5>1 DEF Distinct
        <5>4. \A j \in Items : ~At(j, "merge")
          BY <1>3, <2>2 DEF Lone, At
        <5>5. Excused(d, g) => Excused(d, g)'
          BY <1>1, <3>5, <5>1, <5>2, <5>3, <5>4 DEF Excused
        <5>6. d \in tags[disk[d]] => d \in tags'[disk[d]]
          BY <3>5a, <5>2
        <5> QED
          BY <1>1, <1>5, <4>2, <5>1, <5>5, <5>6 DEF Fine
      <4> QED
        BY <4>1, <4>2
    <3> QED
      BY <1>0, <1>9, <3>6, <3>7, <3>8, <3>9
  <2>4. CASE ~(h \in stored /\ \E f \in RowOf(h) : rows[f].chunker)
    <3>1. jobs'[i].pc = "embed" /\ tags' = tags
      BY <1>0, <2>1, <2>4 DEF To, Job
    <3>2. TagsStored' /\ Sharing(i)' /\ Merging(i)'
      BY <1>3, <2>2, <3>1 DEF TagsStored, Sharing, Merging
    <3>3. \A j \in Items : ~At(j, "merge")
      BY <1>3, <2>2 DEF Lone, At
    <3>4. \A d \in Branches : Fine(d) => Fine(d)'
      BY <1>1, <3>1, <3>3, FineStays
    <3>5. ASSUME NEW f \in Files, Alive(f), rows[f].hash = disk[b], rows[f].chunker,
                 NEW d \in Branches, Holds(d, f)
          PROVE  Mended(d)
      <4>1. f \in RowOf(h) /\ h # Gone
        BY <1>3, <2>2, <3>5 DEF RowOf, Live, Alive, Vouched
      <4>2. tags[h] = {} /\ h \in Contents
        BY <1>0, <1>3, <2>2, <2>4, <3>5, <4>1 DEF TagsStored, Texts
      <4>3. ~Excused(d, f)
        BY <3>3, <3>5 DEF Excused
      <4>4. ~Fine(d)
        <5>1. CASE disk[d] = Gone
          BY <3>5, <5>1 DEF Fine
        <5>2. ASSUME NEW g \in Files, Holds(d, g), rows[g].hash = disk[d], disk[d] # Gone
              PROVE  ~(d \in tags[disk[d]] \/ Excused(d, g))
          <6>1. g = f
            BY <1>3, <3>5, <5>2 DEF Disjoint
          <6> QED
            BY <2>2, <3>5, <4>2, <4>3, <5>2, <6>1
        <5> QED
          BY <5>1, <5>2 DEF Fine
      <4> QED
        BY <1>3, <4>4
    <3>6. Storing(i)'
      BY <1>1, <1>5, <1>8, <3>5 DEF Storing
    <3> QED
      BY <1>0, <1>9, <3>2, <3>4, <3>6
  <2> QED
    BY <2>3, <2>4
<1>11. CASE Embed(i)
  <2>1. jobs'[i].pc = "upsert" /\ UNCHANGED qdrant /\ jobs[i].pc = "embed"
    BY <1>0, <1>11 DEF Embed, At
  <2>2. TagsStored' /\ Sharing(i)' /\ Merging(i)'
    BY <1>3, <2>1 DEF TagsStored, Sharing, Merging
  <2>3. \A j \in Items : ~At(j, "merge")
    BY <1>3, <2>1 DEF Lone, At
  <2>4. \A d \in Branches : Fine(d) => Fine(d)'
    BY <1>1, <2>1, <2>3, FineStays
  <2>5. Storing(i)'
    BY <1>1, <1>3, <1>5, <1>8, <2>1 DEF Handled, Storing
  <2> QED
    BY <1>0, <1>9, <2>2, <2>4, <2>5
<1>12. CASE Upsert(i)
  <2>1. PICK h : h = jobs[i].hash
    OBVIOUS
  <2>2. /\ jobs[i].pc = "upsert" /\ h = disk[b] /\ h # Gone /\ h \in Contents
    BY <1>0, <1>3, <1>12, <2>1 DEF Upsert, At, JobInv, Known, Texts
  <2>3. /\ jobs'[i].pc = "merge" /\ jobs'[i].hash = h
        /\ jobs'[i].seen = tags[h] \cup UNION {rows[f].branches : f \in RowOf(h)}
        /\ stored' = stored \cup {h}
        /\ tags'[h] = {b} /\ \A c \in Contents : c # h => tags'[c] = tags[c]
    BY <1>0, <1>12, <2>1, <2>2 DEF Upsert, Job
  <2>4. \A f \in Files, d \in Branches : Holds(d, f) /\ rows[f].hash = h => d \in jobs'[i].seen
    BY <2>3 DEF RowOf, Live, Holds
  <2>5. TagsStored'
    BY <1>3, <2>3 DEF TagsStored
  <2>6. Sharing(i)' /\ Merging(i)'
    BY <1>1, <1>5, <2>3, <2>4 DEF Sharing, Merging
  <2>7. Storing(i)'
    BY <1>1, <1>3, <1>5, <1>8, <2>2 DEF Handled, Storing
  <2>8. ASSUME NEW d \in Branches, d # b, Fine(d) PROVE Fine(d)'
    <3>1. CASE disk[d] = Gone
      BY <1>1, <1>5, <2>8, <3>1 DEF Fine
    <3>2. CASE disk[d] # Gone
      <4>1. PICK g \in Files : /\ Holds(d, g) /\ rows[g].hash = disk[d]
                               /\ d \in tags[disk[d]] \/ Excused(d, g)
        BY <2>8, <3>2 DEF Fine
      <4>2. disk[d] \in Contents
        BY <1>0, <3>2 DEF Texts
      <4>3. CASE disk[d] = h
        <5>1. Excused(d, g)'
          BY <1>1, <2>3, <2>4, <4>1, <4>3 DEF Excused, At
        <5> QED
          BY <1>1, <1>5, <3>2, <4>1, <5>1 DEF Fine
      <4>4. CASE disk[d] # h
        <5>1. \A j \in Items : ~At(j, "merge")
          BY <1>3, <2>2 DEF Lone, At
        <5>2. tags'[disk[d]] = tags[disk[d]]
          BY <2>3, <4>2, <4>4
        <5>3. Excused(d, g) => Excused(d, g)'
          BY <1>1, <4>1, <5>1, <5>2 DEF Excused
        <5> QED
          BY <1>1, <1>5, <3>2, <4>1, <5>2, <5>3 DEF Fine
      <4> QED
        BY <4>3, <4>4
    <3> QED
      BY <3>1, <3>2
  <2>9. Fine(b) => Fine(b)'
    <3> SUFFICES ASSUME Fine(b) PROVE Fine(b)'
      OBVIOUS
    <3>1. PICK g \in Files : Holds(b, g) /\ rows[g].hash = disk[b]
      BY <2>2 DEF Fine
    <3> QED
      BY <1>1, <1>5, <2>2, <2>3, <3>1 DEF Fine
  <2> QED
    BY <1>9, <2>5, <2>6, <2>7, <2>8, <2>9
<1>13. CASE Merge(i)
  <2>1. PICK h : h = jobs[i].hash
    OBVIOUS
  <2>2. /\ jobs[i].pc = "merge" /\ h = disk[b] /\ h # Gone /\ h \in Contents
        /\ b \in tags[h]
        /\ \A d \in Branches, f \in Files : Holds(d, f) /\ rows[f].hash = h =>
             d \in tags[h] \cup jobs[i].seen
    <3>1. jobs[i].pc = "merge"
      BY <1>13 DEF Merge, At
    <3>2. h = disk[b] /\ h # Gone
      BY <1>3, <2>1, <3>1 DEF JobInv, Known
    <3>3. h \in Contents
      BY <1>0, <3>2 DEF Texts
    <3>4. /\ b \in tags[h]
          /\ \A d \in Branches, f \in Files : Holds(d, f) /\ rows[f].hash = h =>
               d \in tags[h] \cup jobs[i].seen
      BY <1>3, <2>1, <3>1 DEF Handled, Merging
    <3> QED
      BY <3>1, <3>2, <3>3, <3>4
  <2>3. /\ jobs'[i].pc = "track" /\ jobs'[i].hash = h /\ jobs'[i].file = Holder(b)
        /\ stored' = stored
        /\ tags'[h] = tags[h] \cup jobs[i].seen
        /\ \A c \in Contents : c # h => tags'[c] = tags[c]
    BY <1>0, <1>13, <2>1, <2>2 DEF Merge, Job
  <2>4. TagsStored'
    BY <1>3, <2>2, <2>3 DEF TagsStored
  <2>5. Sharing(i)' /\ Storing(i)'
    BY <2>3 DEF Sharing, Storing
  <2>6. Merging(i)'
    <3>1. Holder(b) # NoFile => Holds(b, Holder(b))
      BY <1>0, OneHolder
    <3>2. /\ b \in tags'[h]
          /\ \A d \in Branches, f \in Files : Holds(d, f) /\ rows[f].hash = h => d \in tags'[h]
      BY <2>2, <2>3
    <3>3. jobs'[i].file # NoFile => Holds(i.branch, jobs[i].file)'
      <4>1. PICK f : f = Holder(b)
        OBVIOUS
      <4>2. f # NoFile => b \in rows'[f].branches
        BY <1>1, <3>1, <4>1 DEF Holds
      <4> QED
        BY <2>3, <4>1, <4>2 DEF Holds
    <3> QED
      BY <1>1, <1>5, <2>3, <3>2, <3>3 DEF Merging
  <2>7. ASSUME NEW d \in Branches, Fine(d) PROVE Fine(d)'
    <3>1. CASE disk[d] = Gone
      BY <1>1, <1>5, <2>7, <3>1 DEF Fine
    <3>2. CASE disk[d] # Gone
      <4>1. PICK g \in Files : /\ Holds(d, g) /\ rows[g].hash = disk[d]
                               /\ d \in tags[disk[d]] \/ Excused(d, g)
        BY <2>7, <3>2 DEF Fine
      <4>2. disk[d] \in Contents
        BY <1>0, <3>2 DEF Texts
      <4>3. CASE disk[d] = h
        <5>1. d \in tags'[h]
          BY <2>2, <2>3, <4>1, <4>3
        <5> QED
          BY <1>1, <1>5, <3>2, <4>1, <4>3, <5>1 DEF Fine
      <4>4. CASE disk[d] # h
        <5>1. \A j \in Items : ~(At(j, "merge") /\ jobs[j].hash = rows[g].hash)
          BY <1>3, <2>1, <4>1, <4>4 DEF Lone, At
        <5>2. tags'[disk[d]] = tags[disk[d]]
          BY <2>3, <4>2, <4>4
        <5>3. Excused(d, g) => Excused(d, g)'
          BY <1>1, <4>1, <5>1, <5>2 DEF Excused
        <5> QED
          BY <1>1, <1>5, <3>2, <4>1, <5>2, <5>3 DEF Fine
      <4> QED
        BY <4>3, <4>4
    <3> QED
      BY <3>1, <3>2
  <2> QED
    BY <1>0, <1>9, <2>4, <2>5, <2>6, <2>7
<1> QED
  BY <1>10, <1>11, <1>12, <1>13

\* The entry into the row, whose points have the tags of all its branches
LEMMA EnterVectors ==
  ASSUME Types, Types', Owned, Flight, GenerationInv, GenerationInv', VectorsInv, Calm',
         NEW i \in Items, Share(i) \/ Track(i)
  PROVE  VectorsInv'
<1> DEFINE b == i.branch
<1>0. /\ b \in Branches /\ jobs \in [Items -> Aimed] /\ jobs[i] \in Job
      /\ ~At(i, "idle") /\ jobs[i].pc \in {"share", "track"}
      /\ disk \in [Branches -> Texts] /\ UNCHANGED <<checkout, qdrant, amiss>>
  <2>1. jobs[i].pc \in {"share", "track"} /\ UNCHANGED <<checkout, qdrant, amiss>>
    BY DEF Share, Track, At
  <2> QED
    BY <2>1, Domains, JobFacts DEF Types, WorkOK, Aimed, At, CheckoutOK
<1>1. Calm /\ Clean
  BY <1>0, CalmBefore, CalmIsClean
<1>2. /\ Lone(i) /\ Handled(i) /\ TagsStored /\ Distinct /\ Vouched /\ Distinct'
  BY <1>0, <1>1, BusyLone DEF GenerationInv, Calm, Clean
<1>3. PICK f \in Files : Entered(i, f)
  BY <1>1, WriteRows
<1>4. PICK h : h = disk[b]
  OBVIOUS
<1>5. /\ jobs'[i].pc \in {"sharesend", "search"}
      /\ OneItem(i) /\ RowsGo(i) /\ \A g \in Files : g # f => rows'[g] = rows[g]
      /\ rows'[f].hash = h /\ h # Gone /\ rows'[f].chunker /\ jobs[i].hash = h
      /\ Alive(f) => rows[f].hash = h
      /\ \A d \in Branches : Holds(d, f)' => (Alive(f) /\ Holds(d, f)) \/ d = b
      /\ \A d \in Branches : Holds(d, f) => Holds(d, f)'
  BY <1>0, <1>3, <1>4 DEF Entered, Job
<1>6. Holds(b, f)' /\ b \in tags[h]
  <2>1. CASE jobs[i].pc = "share"
    BY <1>2, <1>3, <1>5, <2>1 DEF Entered, Handled, Sharing, At
  <2>2. CASE jobs[i].pc = "track" /\ jobs[i].file = NoFile
    BY <1>2, <1>3, <1>5, <2>2 DEF Entered, Handled, Merging
  <2>3. CASE jobs[i].pc = "track" /\ jobs[i].file # NoFile
    <3>1. Holds(b, jobs[i].file) /\ b \in tags[jobs[i].hash]
      BY <1>2, <2>3 DEF Handled, Merging
    <3>2. f = jobs[i].file
      BY <1>3, <2>3 DEF Entered, At
    <3> QED
      BY <1>0, <1>5, <3>1, <3>2
  <2> QED
    BY <1>0, <2>1, <2>2, <2>3
<1>7. ASSUME NEW d \in Branches, Holds(d, f), d \in tags[h] \/ Excused(d, f)
      PROVE  d \in tags[h]
  <2>1. Alive(f) /\ rows[f].hash = h
    BY <1>5, <1>7 DEF Alive, Holds
  <2>2. CASE jobs[i].pc = "share"
    <3>1. PICK g \in RowOf(h) : rows[g].chunker
      BY <1>2, <1>5, <2>2 DEF Handled, Sharing
    <3>2. g = f
      BY <1>2, <2>1, <3>1 DEF Distinct, RowOf, Live, Alive
    <3>3. \A j \in Items : ~At(j, "merge")
      BY <1>2, <2>2 DEF Lone, At
    <3> QED
      BY <1>7, <3>1, <3>2, <3>3 DEF Excused
  <2>3. CASE jobs[i].pc = "track"
    BY <1>2, <1>5, <1>7, <2>1, <2>3 DEF Handled, Merging
  <2> QED
    BY <1>0, <2>2, <2>3
<1>8. Fine(b)'
  BY <1>0, <1>4, <1>5, <1>6 DEF Fine
<1>9. ASSUME NEW d \in Branches, d # b, Fine(d) PROVE Fine(d)'
  <2>1. CASE disk[d] = Gone
    <3>1. \A g \in Files : Holds(d, g)' => Holds(d, g)
      BY <1>5, <1>9 DEF RowsGo
    <3> QED
      BY <1>0, <1>9, <2>1, <3>1 DEF Fine
  <2>2. CASE disk[d] # Gone
    <3>1. PICK g \in Files : /\ Holds(d, g) /\ rows[g].hash = disk[d]
                             /\ d \in tags[disk[d]] \/ Excused(d, g)
      BY <1>9, <2>2 DEF Fine
    <3>2. CASE g = f
      <4>1. Alive(f) /\ disk[d] = h
        BY <1>5, <3>1, <3>2 DEF Alive, Holds
      <4>2. d \in tags[h]
        BY <1>7, <3>1, <3>2, <4>1
      <4> QED
        BY <1>0, <1>5, <2>2, <3>1, <3>2, <4>1, <4>2 DEF Fine
    <3>3. CASE g # f
      <4>1. rows'[g] = rows[g]
        BY <1>5, <3>3
      <4>2. \A j \in Items : ~At(j, "merge")
        BY <1>0, <1>2 DEF Lone, At
      <4>3. Excused(d, g) => Excused(d, g)'
        BY <1>0, <4>1, <4>2 DEF Excused
      <4> QED
        BY <1>0, <2>2, <3>1, <4>1, <4>3 DEF Fine, Holds
    <3> QED
      BY <3>2, <3>3
  <2> QED
    BY <2>1, <2>2
<1>10. Handled(i)' /\ TagsStored'
  BY <1>0, <1>2, <1>5, <1>8 DEF Handled, Releasing, Sharing, Storing, Merging, Leave, TagsStored
<1>11. Harmless(i)
  BY <1>8, <1>9, <1>10 DEF Harmless
<1> QED
  BY <1>0, <1>1, <1>2, <1>5, <1>11, VectorsStep

\* The ends of a handler: what it has promised is done, or the row is open again
LEMMA EndVectors ==
  ASSUME Types, Owned, Flight, GenerationInv, VectorsInv, Calm', NEW i \in Items,
         \/ ShareSend(i) \/ ShareUnread(i) \/ EmbedGone(i) \/ Search(i) \/ SearchSkipped(i)
         \/ ResearchUntracked(i) \/ HandlerFails(i)
  PROVE  VectorsInv'
<1> DEFINE b == i.branch
<1>0. /\ b \in Branches /\ jobs \in [Items -> Aimed] /\ queue \in [Items -> QueueRow]
      /\ queue[i] \in QueueRow
  BY Domains DEF Types, WorkOK
<1>1. UNCHANGED <<checkout, table, qdrant>> /\ amiss \subseteq amiss'
  BY DEF ShareSend, ShareUnread, EmbedGone, Search, SearchSkipped, ResearchUntracked,
         HandlerFails
<1>2. Calm
  BY <1>1, CalmBefore
<1>3. jobs'[i] = Idle /\ OneItem(i)
  BY <1>0 DEF ShareSend, ShareUnread, EmbedGone, Search, SearchSkipped, ResearchUntracked,
              HandlerFails, Close, Finish, Send, OneItem
<1>4. ~At(i, "merge")
  BY DEF ShareSend, ShareUnread, EmbedGone, Search, Searches, SearchSkipped,
         ResearchUntracked, HandlerFails, At
<1>5. \A d, g : Holds(d, g)' = Holds(d, g)
  BY <1>1 DEF Holds
<1>6. ASSUME NEW j \in Items, j # i, Mends(j) PROVE Mends(j)'
  BY <1>1, <1>3, <1>5, <1>6 DEF OneItem, Mends, At
<1>7. ASSUME Mends(i) => Mends(i)' PROVE VectorsInv'
  <2>1. Promised
    BY <1>3, <1>4, <1>6, <1>7 DEF Promised, OneItem
  <2> QED
    BY <1>1, <1>2, <2>1, VectorsStay
<1>8. CASE ShareSend(i)
  <2>1. jobs[i].pc = "sharesend"
    BY <1>8 DEF ShareSend, At
  <2>2. Lone(i) /\ Fine(b) /\ TagsStored
    BY <1>2, <2>1, BusyLone DEF Handled, Sharing, At
  <2>3. \A d \in Branches : Fine(d) => Fine(d)'
    BY <1>1, <1>3, <1>4, FineStays DEF OneItem
  <2>4. Handled(i)' /\ TagsStored'
    BY <1>1, <1>3, <2>2 DEF Idle, Handled, Releasing, Sharing, Storing, Merging, Leave, TagsStored
  <2>5. Harmless(i)
    BY <1>0, <2>2, <2>3, <2>4 DEF Harmless
  <2> QED
    BY <1>1, <1>2, <1>3, <2>2, <2>5, VectorsStep
<1>9. CASE ShareUnread(i) \/ EmbedGone(i)
  <2>1. disk[b] = Gone /\ jobs[i].pc \in {"sharesend", "embed"}
    BY <1>9 DEF ShareUnread, EmbedGone, At
  <2>2. ~Mends(i)
    BY <2>1 DEF Mends, Leave, Owned
  <2> QED
    BY <1>7, <2>2
<1>10. ASSUME Search(i) \/ SearchSkipped(i)
       PROVE  /\ queue[i].state = "taken" /\ jobs[i].pc \in {"search", "research"}
              /\ Mends(i) => disk[b] # Gone /\ i.op # "delete" /\ queue[i].decided
                             /\ ~queue[i].qdrant
  <2>1. jobs[i].pc \in {"search", "research"}
        /\ (At(i, "research") => Holder(b) # NoFile)
    BY <1>10 DEF Search, SearchSkipped, Searches, At
  <2>2. queue[i].state = "taken"
    BY <2>1 DEF Owned
  <2>3. At(i, "research") => \E f \in Files : Holds(b, f)
    BY <1>0, <2>1, OneHolder
  <2> QED
    BY <2>1, <2>2, <2>3 DEF Mends, Leave, Ingesting
<1>11. CASE Search(i)
  <2>1. PICK f \in Files : Send(i, f, disk[b], FALSE)
    BY <1>11 DEF Search
  <2>2. queue'[i].state = queue[i].state /\ queue'[i].decided = queue[i].decided
        /\ (queue[i].decided /\ ~queue[i].qdrant => ~queue'[i].qdrant)
    BY <1>0, <2>1 DEF Send, QueueRow
  <2>3. jobs'[i].pc = "idle"
    BY <1>3 DEF Idle
  <2>4. Mends(i) => Mends(i)'
    BY <1>1, <1>10, <1>11, <2>2, <2>3 DEF Mends, Leave
  <2> QED
    BY <1>7, <2>4
<1>12. CASE SearchSkipped(i)
  <2>1. queue[i].decided /\ ~queue[i].qdrant => queue'[i].state = "pending"
    BY <1>0, <1>12 DEF SearchSkipped, Finish, QueueRow
  <2>2. Mends(i) => Mends(i)'
    BY <1>1, <1>10, <1>12, <2>1 DEF Mends
  <2> QED
    BY <1>7, <2>2
<1>13. CASE ResearchUntracked(i) \/ HandlerFails(i)
  <2>1. queue'[i].state = "pending"
    <3>1. CASE ResearchUntracked(i)
      <4>1. queue'[i] = NoItem => ~Calm'
        BY <3>1 DEF ResearchUntracked, Calm
      <4>2. queue'[i] = NoItem \/ queue'[i].state = "pending"
        <5>1. \/ queue' = [queue EXCEPT ![i] = NoItem]
              \/ queue' = [queue EXCEPT ![i].state = "pending"]
          BY <3>1 DEF ResearchUntracked, Finish, Close
        <5> QED
          BY <1>0, <5>1 DEF QueueRow
      <4> QED
        BY <4>1, <4>2
    <3>2. CASE HandlerFails(i)
      BY <1>0, <3>2 DEF HandlerFails, Retry, QueueRow
    <3> QED
      BY <1>13, <3>1, <3>2
  <2>2. Mends(i) => Mends(i)'
    BY <1>1, <2>1 DEF Mends
  <2> QED
    BY <1>7, <2>2
<1> QED
  BY <1>8, <1>9, <1>11, <1>12, <1>13

\* The batch writer removes no row whose decision has not been carried out
LEMMA WriterVectors ==
  ASSUME Types, Flight, VectorsInv, Calm', Conclude \/ \E n, ok : Flush(n, ok)
  PROVE  VectorsInv'
<1>1. UNCHANGED <<checkout, table, qdrant, jobs>> /\ amiss \subseteq amiss'
  BY DEF Conclude, Flush
<1>2. Calm
  BY <1>1, CalmBefore
<1>3. \A d, g : Holds(d, g)' = Holds(d, g)
  BY <1>1 DEF Holds
<1>4. ASSUME NEW j \in Items, Mends(j), ~Mends(j)' PROVE FALSE
  <2>1. CASE \E n, ok : Flush(n, ok)
    <3>1. queue' = queue
      BY <2>1 DEF Flush
    <3> QED
      BY <1>1, <1>3, <1>4, <3>1 DEF Mends, At
  <2>2. CASE Conclude
    <3>1. PICK x : x = Head(batch.works)
      OBVIOUS
    <3>2. /\ queue' = [queue EXCEPT ![x.item] =
                         IF ~batch.ok THEN Retry(queue[x.item])
                         ELSE IF queue[x.item].qdrant THEN NoItem
                         ELSE [queue[x.item] EXCEPT !.state = "pending"]]
          /\ batch.works # <<>>
      BY <2>2, <3>1 DEF Conclude
    <3>3. x \in Work /\ x.item \in Items /\ InFlight(x.item)
      <4>1. batch.works \in Seq(Work) /\ 1 \in 1 .. Len(batch.works) /\ x = batch.works[1]
        BY <3>1, <3>2 DEF Types, HandoverOK
      <4> QED
        <5>1. x \in Work
          BY <4>1
        <5>2. InFlight(batch.works[1].item)
          BY <4>1 DEF Flight
        <5> QED
          BY <4>1, <5>1, <5>2 DEF Work
    <3>4. queue \in [Items -> QueueRow] /\ queue[x.item] \in QueueRow
      BY <3>3 DEF Types, WorkOK
    <3>5. j = x.item
      <4> SUFFICES ASSUME j # x.item PROVE FALSE
        OBVIOUS
      <4>1. queue'[j] = queue[j]
        BY <3>2, <3>4
      <4> QED
        BY <1>1, <1>3, <1>4, <4>1 DEF Mends, At
    <3>6. /\ disk[j.branch] # Gone /\ j.op # "delete" /\ ~queue[j].qdrant
      BY <1>4, <3>3, <3>5 DEF Mends, InFlight, At, Leave, Ingesting
    <3>7. queue'[j].state = "pending"
      BY <3>2, <3>4, <3>5, <3>6 DEF Retry, QueueRow
    <3> QED
      BY <1>1, <1>4, <3>6, <3>7 DEF Mends
  <2> QED
    BY <2>1, <2>2
<1>5. Promised
  BY <1>1, <1>4 DEF Promised
<1> QED
  BY <1>1, <1>2, <1>5, VectorsStay

\* Between two handlers of the branch, the edit leaves an item that looks again
LEMMA EditVectors ==
  ASSUME Types, VectorsInv, Calm', NEW b \in Branches, NEW c \in Texts, Edit(b, c)
  PROVE  VectorsInv'
<1>0. /\ disk \in [Branches -> Texts] /\ queue \in [Items -> QueueRow]
      /\ UNCHANGED <<table, qdrant, jobs>> /\ amiss \subseteq amiss'
      /\ disk'[b] = c /\ \A d \in Branches : d # b => disk'[d] = disk[d]
      /\ ~InHand(b) /\ c # disk[b]
  BY DEF Types, CheckoutOK, WorkOK, Edit, Calm
<1>1. Calm /\ "doubled" \notin amiss
  BY <1>0, CalmBefore, CalmIsClean
<1>2. /\ Alone /\ TagsStored /\ \A d \in Branches : Fine(d) \/ Mended(d)
      /\ \A i \in Items : Handled(i)
  BY <1>1 DEF VectorsInv
<1>3. PICK op \in Ops : op = IF disk[b] = Gone THEN "add"
                             ELSE IF c = Gone THEN "delete" ELSE "update"
  BY DEF Ops
<1>4. PICK i \in Items : i = [branch |-> b, op |-> op]
  BY <1>3, Domains
<1>5. /\ i.branch = b /\ (c # Gone => i.op # "delete") /\ queue'[i].state = "pending"
      /\ \A j \in Items : j # i => queue'[j] = queue[j]
  <2>1. queue' = IF queue[i].state = "none"
                 THEN [queue EXCEPT ![i].state = "pending"] ELSE queue
    BY <1>3, <1>4 DEF Edit
  <2>2. queue[i].state # "taken"
    BY <1>3, <1>4 DEF Edit, Calm
  <2>3. queue[i] \in QueueRow
    BY <1>0
  <2> QED
    BY <1>0, <1>3, <1>4, <2>1, <2>2, <2>3 DEF QueueRow
<1>6. /\ \A d, f : Holds(d, f)' = Holds(d, f)
      /\ \A f : Alive(f)' = Alive(f)
      /\ \A h : RowOf(h)' = RowOf(h)
      /\ \A d, f : Excused(d, f) => Excused(d, f)'
  BY <1>0 DEF Holds, Alive, RowOf, Live, Excused, At
<1>7. \A d \in Branches : d # b /\ Fine(d) => Fine(d)'
  BY <1>0, <1>6 DEF Fine
<1>8. Mended(b)'
  BY <1>0, <1>5 DEF Mended, Mends
<1>9. ASSUME NEW d \in Branches, Mended(d) PROVE Mended(d)'
  <2>1. CASE d = b
    BY <1>8, <2>1
  <2>2. CASE d # b
    <3>1. PICK j \in Items : j.branch = d /\ Mends(j)
      BY <1>9 DEF Mended
    <3>2. queue'[j] = queue[j] /\ disk'[d] = disk[d]
      BY <1>0, <1>5, <2>2, <3>1
    <3>3. Mends(j)'
      BY <1>0, <1>6, <3>1, <3>2 DEF Mends, At
    <3> QED
      BY <3>1, <3>3 DEF Mended
  <2> QED
    BY <2>1, <2>2
<1>10. ASSUME NEW j \in Items PROVE Handled(j)'
  <2>1. Handled(j) /\ jobs'[j] = jobs[j] /\ j.branch \in Branches
    BY <1>0, <1>2, Domains
  <2>2. CASE j.branch # b
    <3>1. disk'[j.branch] = disk[j.branch]
      BY <1>0, <2>1, <2>2
    <3>2. Releasing(j)' /\ Sharing(j)'
      BY <1>0, <1>6, <1>7, <1>9, <2>1, <2>2 DEF Handled, Releasing, Sharing
    <3>3. Storing(j)' /\ Merging(j)'
      BY <1>0, <1>6, <1>9, <2>1, <3>1 DEF Handled, Storing, Merging
    <3> QED
      BY <3>2, <3>3 DEF Handled
  <2>3. CASE j.branch = b
    <3>1. j = [branch |-> b, op |-> j.op] /\ j.op \in Ops
      BY <2>3 DEF Items
    <3>2. jobs[j].pc = "idle" \/ jobs[j].pc \in Leave
      BY <1>0, <3>1 DEF InHand, Leave
    <3>3. Releasing(j)'
      BY <1>0, <1>8, <2>1, <2>3 DEF Handled, Releasing
    <3> QED
      BY <2>1, <3>2, <3>3 DEF Handled, Sharing, Storing, Merging, Leave
  <2> QED
    BY <2>2, <2>3
<1>11. Alone' /\ TagsStored'
  BY <1>0, <1>2 DEF Alone, At, TagsStored
<1>12. \A d \in Branches : Fine(d)' \/ Mended(d)'
  BY <1>2, <1>7, <1>8, <1>9
<1> QED
  BY <1>10, <1>11, <1>12 DEF VectorsInv

\* A merge that is cut off leaves points that are to be stored anew: of a row of another
\* chunker, or with an item for each branch of the row
LEMMA CrashVectors ==
  ASSUME Types, Owned, GenerationInv, VectorsInv, Calm', CrashRestart
  PROVE  VectorsInv'
<1>0. /\ UNCHANGED <<disk, stored, tags>>
      /\ amiss \ {"merge cut off", "branch left out"} \subseteq amiss'
      /\ amiss \ {"branch left out"} \subseteq amiss'
      /\ \A j \in Items : At(j, "merge") => "merge cut off" \in amiss'
  BY DEF CrashRestart
<1>1. Calm /\ Clean
  BY <1>0, CalmBefore, CalmIsClean
<1>2. /\ TagsStored /\ \A d \in Branches : Fine(d) \/ Mended(d)
      /\ \A i \in Items : Handled(i) /\ JobInv(i)
  BY <1>1 DEF VectorsInv, GenerationInv
<1>3. \A j \in Items :
        /\ jobs'[j] = Idle
        /\ queue[j].state \in {"taken", "pending"} => queue'[j].state = "pending"
  <2> SUFFICES ASSUME NEW j \in Items
               PROVE  /\ jobs'[j] = Idle
                      /\ queue[j].state \in {"taken", "pending"} => queue'[j].state = "pending"
    OBVIOUS
  <2>1. /\ jobs' = [k \in Items |-> Idle]
        /\ queue' = [k \in Items |-> IF queue[k].state = "taken"
                        THEN [queue[k] EXCEPT !.state = "pending"] ELSE queue[k]]
    BY DEF CrashRestart
  <2>2. queue[j] \in QueueRow
    BY DEF Types, WorkOK
  <2> QED
    BY <2>1, <2>2 DEF QueueRow
<1>4. ASSUME NEW f \in Files
      PROVE  /\ rows'[f].hash = rows[f].hash /\ rows'[f].branches = rows[f].branches
             /\ ~rows[f].chunker => ~rows'[f].chunker
             /\ \A d : Holds(d, f)' = Holds(d, f)
  <2>1. PICK keeps \in BOOLEAN :
          rows' = [g \in Files |-> IF g \in Live /\ ~keeps
                                   THEN [rows[g] EXCEPT !.chunker = FALSE] ELSE rows[g]]
    BY DEF CrashRestart
  <2>2. rows[f] \in Generation
    BY DEF Types, TableOK
  <2>3. /\ rows'[f].hash = rows[f].hash /\ rows'[f].branches = rows[f].branches
        /\ ~rows[f].chunker => ~rows'[f].chunker
    BY <2>1, <2>2 DEF Generation
  <2> QED
    BY <2>3 DEF Holds
<1>5. ASSUME NEW d \in Branches, Mended(d) PROVE Mended(d)'
  <2>1. PICK j \in Items : j.branch = d /\ Mends(j)
    BY <1>5 DEF Mended
  <2>2. queue[j].state \in {"taken", "pending"}
    BY <2>1 DEF Mends, Owned, Leave, Ingesting, At
  <2>3. queue'[j].state = "pending"
    BY <1>3, <2>2
  <2>4. Mends(j)'
    BY <1>0, <2>1, <2>3 DEF Mends
  <2> QED
    BY <2>1, <2>4 DEF Mended
<1>6. ASSUME NEW d \in Branches, Fine(d) PROVE Fine(d)' \/ Mended(d)'
  <2>1. CASE disk[d] = Gone
    BY <1>0, <1>4, <1>6, <2>1 DEF Fine
  <2>2. CASE disk[d] # Gone
    <3>1. PICK g \in Files : /\ Holds(d, g) /\ rows[g].hash = disk[d]
                             /\ d \in tags[disk[d]] \/ Excused(d, g)
      BY <1>6, <2>2 DEF Fine
    <3>2. Holds(d, g)' /\ rows'[g].hash = disk[d]
      BY <1>4, <3>1
    <3>3. CASE d \in tags[disk[d]] \/ Excused(d, g)'
      BY <1>0, <2>2, <3>2, <3>3 DEF Fine
    <3>4. CASE d \notin tags[disk[d]] /\ ~Excused(d, g)'
      <4>1. PICK i \in Items : At(i, "merge") /\ jobs[i].hash = rows[g].hash /\ d \in jobs[i].seen
        <5>1. ~(/\ ~rows[g].chunker
                /\ \/ "merge cut off" \in amiss
                   \/ /\ "reconciled" \in amiss
                      /\ rows[g].branches = {d} \/ tags[rows[g].hash] = {})
          BY <1>0, <1>4, <3>4 DEF Excused
        <5> QED
          BY <3>1, <3>4, <5>1 DEF Excused
      <4>2. "merge cut off" \in amiss'
        BY <1>0, <4>1
      <4>3. rows[g].chunker
        BY <1>4, <3>4, <4>2 DEF Excused
      <4>4. jobs[i].hash = disk[i.branch]
        BY <1>2, <4>1 DEF JobInv, Known, At
      <4>5. Mended(d)
        BY <1>2, <3>1, <4>1, <4>3, <4>4 DEF Handled, Storing, At, Alive, Holds
      <4> QED
        BY <1>5, <4>5
    <3> QED
      BY <3>3, <3>4
  <2> QED
    BY <2>1, <2>2
<1>7. Alone' /\ TagsStored' /\ \A j \in Items : Handled(j)'
  <2>1. \A j \in Items : jobs'[j].pc = "idle"
    BY <1>3 DEF Idle
  <2>2. Alone' /\ \A j \in Items : Handled(j)'
    BY <2>1 DEF Alone, At, Handled, Releasing, Sharing, Storing, Merging, Leave
  <2> QED
    BY <1>0, <1>2, <2>2 DEF TagsStored
<1> QED
  BY <1>2, <1>5, <1>6, <1>7 DEF VectorsInv

\* No row is open: nothing is left to be mended
LEMMA SettledVectors ==
  ASSUME Owned, VectorsInv, Calm, Settled
  PROVE  /\ \A b \in Branches : Fine(b)
         /\ TagsStored /\ \A i \in Items : jobs[i].pc = "idle"
<1>1. \A i \in Items : queue[i].state = "none" /\ jobs[i].pc = "idle"
  BY DEF Settled, Owned
<1>2. \A i \in Items : ~Mends(i)
  BY <1>1 DEF Mends, Leave, Ingesting, At
<1> QED
  BY <1>1, <1>2 DEF VectorsInv, Mended

\* The reconcile restores the tags of a row of several branches, unless there are none
LEMMA ReconcileVectors ==
  ASSUME Types, Owned, VectorsInv, Calm', BranchReconcile
  PROVE  VectorsInv'
<1>1. /\ UNCHANGED <<disk, rows, stored, queue, jobs>> /\ Settled
      /\ amiss \ {"merge cut off", "branch left out"} \subseteq amiss'
      /\ "merge cut off" \in amiss => "reconciled" \in amiss'
  BY DEF BranchReconcile
<1>2. Calm
  BY <1>1, CalmBefore
<1>3. /\ \A b \in Branches : Fine(b)
      /\ TagsStored /\ \A i \in Items : jobs[i].pc = "idle"
  BY <1>1, <1>2, SettledVectors
<1>4. tags \in [Contents -> SUBSET Branches] /\ disk \in [Branches -> Texts]
      /\ rows \in [Files -> Generation]
  BY DEF Types, PointsOK, CheckoutOK, TableOK
<1>5. ASSUME NEW c \in Contents
      PROVE  /\ tags[c] \subseteq tags'[c] /\ (tags[c] = {} => tags'[c] = {})
             /\ tags[c] # {} => \A f \in RowOf(c) :
                  Cardinality(rows[f].branches) >= 2 => rows[f].branches \subseteq tags'[c]
  <2>1. tags'[c] = IF tags[c] = {} THEN {}
                   ELSE tags[c] \cup UNION {rows[f].branches : f \in
                          {g \in RowOf(c) : Cardinality(rows[g].branches) >= 2}}
    BY DEF BranchReconcile
  <2>2. CASE tags[c] = {}
    BY <2>1, <2>2
  <2>3. CASE tags[c] # {}
    BY <2>1, <2>3, Zenon
  <2> QED
    BY <2>2, <2>3
<1>6. ASSUME NEW S \in SUBSET Branches, NEW b \in S, S # {b} PROVE Cardinality(S) >= 2
  <2>1. IsFiniteSet(S) /\ Cardinality(S) \in Nat
    BY FS_Subset, FS_CardinalityType
  <2>2. Cardinality(S) # 0
    BY <1>6, <2>1, FS_EmptySet
  <2>3. Cardinality(S) # 1
    <3> SUFFICES ASSUME Cardinality(S) = 1 PROVE FALSE
      OBVIOUS
    <3>1. PICK x : S = {x}
      BY <2>1, FS_Singleton
    <3> QED
      BY <1>6, <3>1
  <2> QED
    BY <2>1, <2>2, <2>3
<1>7. ASSUME NEW b \in Branches PROVE Fine(b)'
  <2>0. \A d, f : Holds(d, f)' = Holds(d, f)
    BY <1>1 DEF Holds
  <2>1. CASE disk[b] = Gone
    BY <1>1, <1>3, <2>0, <2>1 DEF Fine
  <2>2. CASE disk[b] # Gone
    <3>1. PICK f \in Files : /\ Holds(b, f) /\ rows[f].hash = disk[b]
                             /\ b \in tags[disk[b]] \/ Excused(b, f)
      BY <1>3, <2>2 DEF Fine
    <3>2. PICK c \in Contents : c = disk[b]
      BY <1>4, <2>2 DEF Texts
    <3>3. CASE b \in tags'[c]
      BY <1>1, <2>0, <2>2, <3>1, <3>2, <3>3 DEF Fine
    <3>4. CASE b \notin tags'[c]
      <4>1. b \notin tags[c]
        BY <1>5, <3>4
      <4>2. /\ ~rows[f].chunker
            /\ \/ "merge cut off" \in amiss
               \/ /\ "reconciled" \in amiss
                  /\ rows[f].branches = {b} \/ tags[c] = {}
        BY <1>3, <3>1, <3>2, <4>1 DEF Excused, At
      <4>3. "reconciled" \in amiss'
        BY <1>1, <4>2
      <4>4. rows[f].branches = {b} \/ tags'[c] = {}
        <5> SUFFICES ASSUME rows[f].branches # {b}, tags[c] # {} PROVE FALSE
          BY <1>5
        <5>1. f \in RowOf(c) /\ b \in rows[f].branches /\ rows[f].branches \in SUBSET Branches
          BY <1>4, <3>1, <3>2 DEF RowOf, Live, Holds, Generation
        <5>2. Cardinality(rows[f].branches) >= 2
          BY <1>6, <5>1
        <5> QED
          BY <1>5, <3>4, <5>1, <5>2
      <4>5. Excused(b, f)'
        BY <1>1, <3>1, <3>2, <4>2, <4>3, <4>4 DEF Excused
      <4> QED
        BY <1>1, <2>0, <2>2, <3>1, <4>5 DEF Fine
    <3> QED
      BY <3>3, <3>4
  <2> QED
    BY <2>1, <2>2
<1>8. TagsStored'
  BY <1>1, <1>3, <1>5 DEF TagsStored
<1>9. Alone' /\ \A i \in Items : Handled(i)'
  BY <1>1, <1>3 DEF Alone, At, Handled, Releasing, Sharing, Storing, Merging, Leave
<1> QED
  BY <1>7, <1>8, <1>9 DEF VectorsInv

LEMMA InitVectors == Init => VectorsInv
<1> SUFFICES ASSUME Init PROVE VectorsInv
  OBVIOUS
<1>1. /\ \A b \in Branches : disk[b] = Gone /\ \A f \in Files : ~Holds(b, f)
      /\ \A i \in Items : jobs[i].pc = "idle"
      /\ \A c \in Contents : tags[c] = {}
  BY DEF Init, NoGeneration, Holds, Idle
<1>2. Alone /\ TagsStored /\ \A b \in Branches : Fine(b)
  BY <1>1 DEF Alone, At, TagsStored, Fine
<1>3. \A i \in Items : Handled(i)
  BY <1>1 DEF Handled, Releasing, Sharing, Storing, Merging, Leave
<1> QED
  BY <1>2, <1>3 DEF VectorsInv

LEMMA NextVectors ==
  ASSUME Types, Types', Owned, Flight, GenerationInv, GenerationInv', VectorsInv, [Next]_vars
  PROVE  VectorsInv'
<1> SUFFICES ASSUME Calm' PROVE VectorsInv'
  BY DEF VectorsInv
<1>1. ASSUME NEW i \in Items, Handler(i) PROVE VectorsInv'
  BY <1>1, PrepareVectors, LeaveVectors, StoreVectors, EnterVectors, EndVectors DEF Handler
<1>2. ASSUME NEW i \in Items, HandlerFails(i) PROVE VectorsInv'
  BY <1>2, EndVectors
<1>3. CASE UNCHANGED vars
  <2>1. /\ UNCHANGED <<disk, rows, stored, tags, queue, jobs, amiss>>
    BY <1>3 DEF vars
  <2>2. Promised
    BY <2>1 DEF Promised, Mends, Holds, At
  <2>3. Calm
    BY <2>1 DEF Calm
  <2> QED
    BY <2>1, <2>2, <2>3, VectorsStay
<1> QED
  BY <1>1, <1>2, <1>3, EditVectors, WriterVectors, ReconcileVectors, CrashVectors
     DEF Next, Quiet

\* The rows and the points are those of the checkouts once the queue is empty, for any
\* number of branches, contents, failures and crashes, as long as the handlers of the
\* path run one after another: a branch that is not as it should be always has an item
\* that will see to it, and a set of tags that was overwritten is put back, or its
\* points are to be stored anew.
THEOREM VectorsFollowDiskThm == Spec => []VectorsFollowDisk
<1>1. Init => Types /\ Owned /\ Flight /\ GenerationInv /\ VectorsInv
  BY InitTypes, InitOwned, InitGeneration, InitVectors
<1>2. Types /\ Owned /\ Flight /\ GenerationInv /\ VectorsInv /\ [Next]_vars
        => (Types /\ Owned /\ Flight /\ GenerationInv /\ VectorsInv)'
  BY NextTypes, NextOwned, NextGeneration, NextVectors
<1>3. Types /\ Owned /\ Flight /\ GenerationInv /\ VectorsInv => VectorsFollowDisk
  <2> SUFFICES ASSUME Types, Owned, GenerationInv, VectorsInv, Settled,
                      amiss \subseteq {"reconciled", "branch left out"},
                      NEW b \in Branches, NEW f, f = Holder(b)
               PROVE  IF disk[b] = Gone THEN f = NoFile
                      ELSE /\ f # NoFile /\ rows[f].hash = disk[b]
                           /\ Shows(disk[b], b) \/ Cut(f)
    BY DEF VectorsFollowDisk
  <2>1. Calm /\ Clean /\ "merge cut off" \notin amiss
    BY DEF Calm, Clean
  <2>2. Fine(b) /\ TagsStored /\ \A i \in Items : jobs[i].pc = "idle"
    BY <2>1, SettledVectors
  <2>3. /\ f # NoFile => f \in Files /\ Holds(b, f)
        /\ \A g \in Files : Holds(b, g) => g = f
    BY <2>1, OneHolder
  <2>4. CASE disk[b] = Gone
    BY <2>2, <2>3, <2>4 DEF Fine
  <2>5. CASE disk[b] # Gone
    <3>1. /\ f \in Files /\ Holds(b, f) /\ rows[f].hash = disk[b]
          /\ b \in tags[disk[b]] \/ Excused(b, f)
      BY <2>2, <2>3, <2>5 DEF Fine
    <3>2. disk[b] \in Contents /\ f # NoFile
      BY <2>5, <3>1, Domains DEF Types, CheckoutOK, Texts
    <3>3. CASE b \in tags[disk[b]]
      BY <2>2, <2>5, <3>1, <3>2, <3>3 DEF TagsStored, Shows
    <3>4. CASE Excused(b, f)
      <4>1. /\ "reconciled" \in amiss
            /\ rows[f].branches = {b} \/ tags[rows[f].hash] = {}
        BY <2>1, <2>2, <3>4 DEF Excused, At
      <4>2. Cut(f)
        BY <4>1, FS_Singleton DEF Cut
      <4> QED
        BY <2>5, <3>1, <3>2, <4>2
    <3> QED
      BY <3>1, <3>3, <3>4
  <2> QED
    BY <2>4, <2>5
<1> QED
  BY <1>1, <1>2, <1>3, PTL DEF Spec

-----------------------------------------------------------------------------
(* The rows follow the disk *)

\* Nothing has happened that can cost a branch its row
Steady == Clean /\ "doubled" \notin amiss /\ "sink without row" \notin amiss

\* An item of the branch will look at the file, and is not taken up yet
Awaited(b) == \E i \in Items : i.branch = b /\ i.op # "delete" /\ queue[i].state = "pending"

\* Its handler will put the branch into a row, unless it fails and is awaited again
Tracks(i) == /\ i.op # "delete"
             /\ \/ jobs[i].pc \in Ingesting \cup {"research"}
                \/ jobs[i].pc \in Leave /\ jobs[i].ingest

Tracked(b) == \/ \E f \in Files : Holds(b, f)
              \/ Awaited(b)
              \/ \E i \in Items : i.branch = b /\ Tracks(i)

\* One handler of a branch at a time; one that takes its branch out is followed by a look
\* at the file, if it is there again; and the row that was looked up keeps the branch
Keeping(i) ==
  /\ \A j \in Items : ~At(i, "idle") /\ ~At(j, "idle") /\ i.branch = j.branch => i = j
  /\ jobs[i].pc \in Leave /\ disk[i.branch] # Gone => Tracks(i) \/ Awaited(i.branch)
  /\ At(i, "track") /\ jobs[i].file # NoFile =>
       jobs[i].file \in Files /\ Holds(i.branch, jobs[i].file)

RowsInv == Steady => /\ \A b \in Branches : disk[b] # Gone => Tracked(b)
                     /\ \A i \in Items : Keeping(i)

LEMMA SteadyBefore ==
  ASSUME Steady', amiss \ {"merge cut off", "branch left out"} \subseteq amiss'
  PROVE  Steady
BY DEF Steady, Clean

\* The only handler of its branch
Solo(i) == \A j \in Items : j # i /\ j.branch = i.branch => At(j, "idle")

\* A step of a handler that is alone on its branch
LEMMA RowsStep ==
  ASSUME Types, RowsInv, Steady, NEW i \in Items, Solo(i), OneItem(i), UNCHANGED disk,
         \A b \in Branches, f \in Files : b # i.branch /\ Holds(b, f) => Holds(b, f)',
         disk[i.branch] # Gone => Tracked(i.branch)',
         jobs'[i].pc \in Leave /\ disk[i.branch] # Gone => Tracks(i)' \/ Awaited(i.branch)',
         At(i, "track")' /\ jobs'[i].file # NoFile =>
           jobs'[i].file \in Files /\ Holds(i.branch, jobs[i].file)'
  PROVE  RowsInv'
<1>0. /\ \A b \in Branches : disk[b] # Gone => Tracked(b)
      /\ \A j \in Items : Keeping(j) /\ j.branch \in Branches
  BY Domains DEF RowsInv
<1>1. ASSUME NEW b \in Branches, b # i.branch
      PROVE  (Tracked(b) => Tracked(b)') /\ (Awaited(b) => Awaited(b)')
  <2>1. \A j \in Items : j.branch = b => jobs'[j] = jobs[j] /\ queue'[j] = queue[j]
    BY <1>1 DEF OneItem
  <2>2. Awaited(b) => Awaited(b)'
    BY <2>1 DEF Awaited
  <2>3. \A j \in Items : j.branch = b /\ Tracks(j) => Tracks(j)'
    BY <2>1 DEF Tracks
  <2> QED
    BY <1>1, <2>2, <2>3 DEF Tracked
<1>2. ASSUME NEW b \in Branches, disk'[b] # Gone PROVE Tracked(b)'
  BY <1>0, <1>1, <1>2
<1>3. ASSUME NEW j \in Items PROVE Keeping(j)'
  <2>1. CASE j = i
    <3>1. \A k \in Items : ~At(k, "idle")' /\ k.branch = i.branch => k = i
      BY DEF Solo, OneItem, At
    <3> QED
      BY <2>1, <3>1 DEF Keeping
  <2>2. CASE j # i /\ j.branch = i.branch
    <3>1. jobs'[j].pc = "idle"
      BY <2>2 DEF Solo, OneItem, At
    <3> QED
      BY <3>1 DEF Keeping, At, Leave
  <2>3. CASE j.branch # i.branch
    <3>1. \A k \in Items : k.branch = j.branch => jobs'[k] = jobs[k]
      BY <2>3 DEF OneItem
    <3>2. Tracks(j)' = Tracks(j) /\ (Awaited(j.branch) => Awaited(j.branch)')
      BY <1>0, <1>1, <2>3, <3>1 DEF Tracks
    <3> QED
      BY <1>0, <2>3, <3>1, <3>2 DEF Keeping, At
  <2> QED
    BY <2>1, <2>2, <2>3
<1> QED
  BY <1>2, <1>3 DEF RowsInv

\* A step that takes nothing out of the rows, and at most gives up a handler whose item
\* is awaited again
LEMMA RowsEase ==
  ASSUME Types, RowsInv, Steady, UNCHANGED disk,
         \A b \in Branches, f \in Files : Holds(b, f) => Holds(b, f)',
         \A i \in Items :
           /\ queue[i].state = "pending" => queue'[i].state = "pending"
           /\ \/ jobs'[i] = jobs[i]
              \/ jobs'[i].pc = "idle" /\ (Tracks(i) => queue'[i].state = "pending")
  PROVE  RowsInv'
<1>0. /\ \A b \in Branches : disk[b] # Gone => Tracked(b)
      /\ \A i \in Items : Keeping(i) /\ i.branch \in Branches
  BY Domains DEF RowsInv
<1>1. \A b : Awaited(b) => Awaited(b)'
  BY DEF Awaited
<1>2. \A i \in Items : Tracks(i) => Tracks(i)' \/ Awaited(i.branch)'
  <2> SUFFICES ASSUME NEW i \in Items, Tracks(i) PROVE Tracks(i)' \/ Awaited(i.branch)'
    OBVIOUS
  <2>1. CASE jobs'[i] = jobs[i]
    BY <2>1 DEF Tracks
  <2>2. CASE queue'[i].state = "pending"
    BY <2>2 DEF Tracks, Awaited
  <2> QED
    BY <2>1, <2>2
<1>3. \A b \in Branches : Tracked(b) => Tracked(b)'
  BY <1>1, <1>2 DEF Tracked
<1>4. ASSUME NEW i \in Items PROVE Keeping(i)'
  <2>1. CASE jobs'[i].pc = "idle"
    BY <2>1 DEF Keeping, At, Leave
  <2>2. CASE jobs'[i] = jobs[i] /\ ~At(i, "idle")
    <3>1. \A j \in Items : ~At(j, "idle")' /\ i.branch = j.branch => i = j
      BY <1>0, <2>2 DEF Keeping, At
    <3>2. jobs'[i].pc \in Leave /\ disk[i.branch] # Gone => Tracks(i)' \/ Awaited(i.branch)'
      BY <1>0, <1>1, <1>2, <2>2 DEF Keeping
    <3>3. At(i, "track")' /\ jobs'[i].file # NoFile =>
            jobs'[i].file \in Files /\ Holds(i.branch, jobs[i].file)'
      <4> SUFFICES ASSUME jobs[i].pc = "track", jobs[i].file # NoFile
                   PROVE  jobs'[i].file \in Files /\ Holds(i.branch, jobs[i].file)'
        BY <2>2 DEF At
      <4>1. PICK f \in Files : f = jobs[i].file /\ Holds(i.branch, f)
        BY <1>0 DEF Keeping, At
      <4>2. Holds(i.branch, f)' /\ jobs'[i].file = f
        BY <1>0, <2>2, <4>1
      <4> QED
        BY <4>2 DEF Holds
    <3> QED
      BY <3>1, <3>2, <3>3 DEF Keeping
  <2>3. CASE jobs'[i] = jobs[i] /\ At(i, "idle")
    BY <2>3 DEF Keeping, At, Leave
  <2> QED
    BY <2>1, <2>2, <2>3
<1> QED
  BY <1>0, <1>3, <1>4 DEF RowsInv

LEMMA BusySolo ==
  ASSUME RowsInv, Steady, NEW i \in Items, ~At(i, "idle")
  PROVE  Solo(i) /\ Keeping(i)
BY DEF RowsInv, Keeping, Solo

LEMMA PrepareRows ==
  ASSUME Types, GenerationInv, RowsInv, Steady', NEW i \in Items,
         \/ PrepareMissing(i) \/ PrepareSkip(i) \/ PrepareRechunk(i) \/ PrepareChange(i)
         \/ PrepareUntracked(i) \/ PrepareDelete(i)
  PROVE  RowsInv'
<1> DEFINE b == i.branch
<1>0. b \in Branches /\ jobs \in [Items -> Aimed] /\ queue \in [Items -> QueueRow]
  BY Domains DEF Types, WorkOK
<1>1. /\ UNCHANGED <<checkout, table>> /\ amiss \subseteq amiss'
      /\ (\E j \in Items : ~At(j, "idle") /\ j.branch = b) => "doubled" \in amiss'
  BY DEF PrepareMissing, PrepareSkip, PrepareRechunk, PrepareChange,
         PrepareUntracked, PrepareDelete, Ingests, Take
<1>2. Steady
  BY <1>1, SteadyBefore
<1>3. Solo(i) /\ \A j \in Items : j.branch = b => jobs[j].pc = "idle"
  BY <1>1 DEF Steady, Solo, At
<1>4. OneItem(i)
  BY <1>0 DEF PrepareMissing, PrepareSkip, PrepareRechunk, PrepareChange, PrepareUntracked,
              PrepareDelete, Close, Taken, Decides, Release, Ingest, OneItem
<1>5. \A d, f : Holds(d, f) => Holds(d, f)'
  BY <1>1 DEF Holds
<1>6. ASSUME NEW x, Ingest(i, x) PROVE jobs'[i].pc \in {"research", "dedup"}
  <2>1. jobs'[i] = [Idle EXCEPT !.snap = x, !.pc = IF x THEN "research" ELSE "dedup"]
    BY <1>0, <1>6 DEF Ingest
  <2> QED
    BY <2>1 DEF Idle
<1>7. ASSUME NEW f, NEW x, Release(i, f, x)
      PROVE  jobs'[i].pc = "unpoint" /\ jobs'[i].ingest = x
  BY <1>0, <1>7 DEF Release
<1>8. Close(i) => jobs'[i].pc = "idle"
  BY <1>0 DEF Close, Idle
<1>9. jobs'[i].pc \in {"idle", "unpoint", "research", "dedup"}
  BY <1>6, <1>7, <1>8 DEF PrepareMissing, PrepareSkip, PrepareRechunk, PrepareChange,
                          PrepareUntracked, PrepareDelete
<1>10. ASSUME disk[b] # Gone PROVE Tracks(i)' \/ (i.op = "delete" /\ jobs'[i].pc = "idle")
  <2>1. CASE PrepareMissing(i)
    BY <1>10, <2>1 DEF PrepareMissing
  <2>2. CASE PrepareSkip(i) \/ PrepareRechunk(i) \/ PrepareUntracked(i)
    <3>1. i.op # "delete" /\ jobs'[i].pc \in {"research", "dedup"}
      BY <1>6, <2>2 DEF PrepareSkip, PrepareRechunk, PrepareUntracked, Ingests
    <3> QED
      BY <3>1 DEF Tracks, Ingesting
  <2>3. CASE PrepareChange(i)
    <3>1. i.op # "delete" /\ jobs'[i].pc = "unpoint" /\ jobs'[i].ingest = TRUE
      BY <1>7, <2>3 DEF PrepareChange, Ingests
    <3> QED
      BY <3>1 DEF Tracks, Leave
  <2>4. CASE PrepareDelete(i)
    BY <1>8, <1>10, <2>4 DEF PrepareDelete
  <2> QED
    BY <2>1, <2>2, <2>3, <2>4
<1>11. ASSUME disk[b] # Gone PROVE Tracked(b)'
  <2>1. CASE Tracks(i)'
    BY <2>1 DEF Tracked
  <2>2. CASE i.op = "delete"
    <3>1. Tracked(b)
      BY <1>0, <1>2, <1>11 DEF RowsInv
    <3>2. \A j \in Items : j.branch = b => ~Tracks(j)
      BY <1>3 DEF Tracks, Ingesting, Leave
    <3>3. Awaited(b) => Awaited(b)'
      BY <1>4, <2>2 DEF Awaited, OneItem
    <3> QED
      BY <1>5, <3>1, <3>2, <3>3 DEF Tracked
  <2> QED
    BY <1>10, <1>11, <2>1, <2>2
<1>12. jobs'[i].pc \in Leave /\ disk[b] # Gone => Tracks(i)'
  BY <1>10 DEF Leave
<1>13. ~At(i, "track")'
  BY <1>9 DEF At
<1> QED
  BY <1>1, <1>2, <1>3, <1>4, <1>5, <1>11, <1>12, <1>13, RowsStep

LEMMA LeaveRows ==
  ASSUME Types, Owned, GenerationInv, RowsInv, Steady', NEW i \in Items,
         Unpoint(i) \/ Unhold(i) \/ Unline(i)
  PROVE  RowsInv'
<1> DEFINE b == i.branch
<1>0. /\ b \in Branches /\ jobs \in [Items -> Aimed] /\ jobs[i] \in Job
      /\ ~At(i, "idle") /\ jobs[i].pc \in Leave /\ queue[i].state = "taken"
  <2>1. jobs[i].pc \in Leave
    BY DEF Unpoint, Unhold, Unline, At, Leave
  <2> QED
    BY <2>1, Domains, JobFacts DEF Types, WorkOK, Aimed, At, Leave, Owned
<1>1. UNCHANGED checkout /\ amiss \subseteq amiss'
  BY DEF Unpoint, Unhold, Unline
<1>2. Steady
  BY <1>1, SteadyBefore
<1>3. Solo(i) /\ Keeping(i)
  BY <1>0, <1>2, BusySolo
<1>4. disk[b] # Gone => Tracks(i) \/ Awaited(b)
  BY <1>0, <1>3 DEF Keeping
<1>5. OneItem(i) /\ (\A d \in Branches, f \in Files : d # b /\ Holds(d, f) => Holds(d, f)')
  <2>1. CASE Unpoint(i)
    BY <1>0, <2>1 DEF Unpoint, OneItem, Holds
  <2>2. CASE Unline(i)
    BY <1>0, <2>2 DEF Unline, OneItem, Ingest, Close, Types, WorkOK, Holds
  <2>3. CASE Unhold(i)
    <3>1. PICK f, left : f = jobs[i].file /\ left = jobs[i].seen \ {i.branch}
      OBVIOUS
    <3>2. Unheld(i, f, left)
      BY <2>3, <3>1, UnholdRows
    <3>3. Clean'
      BY DEF Steady
    <3>4. /\ OneItem(i) /\ f \in Files
          /\ \A g \in Files : g # f => rows'[g] = rows[g]
          /\ \/ left = {} /\ rows'[f] = NoGeneration
             \/ Alive(f) /\ rows'[f] = [rows[f] EXCEPT !.branches = left] /\ left # {}
             \/ ~Alive(f) /\ rows'[f] = rows[f] /\ left # {}
          /\ Alive(f) => rows[f].branches = jobs[i].seen
      BY <3>2, <3>3 DEF Unheld
    <3>5. rows[f] \in Generation
      BY <3>4 DEF Types, TableOK
    <3>6. ASSUME NEW d \in Branches, d # b, Holds(d, f) PROVE Holds(d, f)'
      <4>1. Alive(f) /\ d \in left
        BY <3>1, <3>4, <3>6 DEF Alive, Holds
      <4>2. rows'[f] = [rows[f] EXCEPT !.branches = left]
        BY <3>4, <4>1
      <4> QED
        BY <3>5, <4>1, <4>2 DEF Holds, Generation
    <3> QED
      BY <3>4, <3>6 DEF Holds
  <2> QED
    BY <2>1, <2>2, <2>3
<1>6. Awaited(b) => Awaited(b)'
  BY <1>0, <1>5 DEF Awaited, OneItem
<1>7. Tracks(i) => Tracks(i)'
  <2>1. CASE Unpoint(i)
    <3>1. jobs'[i].pc = "unhold" /\ jobs'[i].ingest = jobs[i].ingest
      BY <1>0, <2>1 DEF Unpoint
    <3> QED
      BY <1>0, <3>1 DEF Tracks, Leave, Ingesting
  <2>2. CASE Unhold(i)
    <3>1. jobs'[i].pc = "unline" /\ jobs'[i].ingest = jobs[i].ingest
      <4>1. jobs' = [jobs EXCEPT ![i].pc = "unline"]
        BY <2>2 DEF Unhold, To
      <4> QED
        BY <1>0, <4>1 DEF Job
    <3> QED
      BY <1>0, <3>1 DEF Tracks, Leave, Ingesting
  <2>3. CASE Unline(i)
    <3> SUFFICES ASSUME Tracks(i) PROVE Tracks(i)'
      OBVIOUS
    <3>1. i.op # "delete" /\ jobs[i].ingest
      BY <1>0 DEF Tracks, Leave, Ingesting
    <3>2. jobs' = [jobs EXCEPT ![i] = [Idle EXCEPT !.snap = jobs[i].snap,
                     !.pc = IF jobs[i].snap THEN "research" ELSE "dedup"]]
      BY <2>3, <3>1 DEF Unline, Ingest
    <3>3. jobs'[i].pc \in {"research", "dedup"}
      BY <1>0, <3>2 DEF Idle
    <3> QED
      BY <3>1, <3>3 DEF Tracks, Ingesting
  <2> QED
    BY <2>1, <2>2, <2>3
<1>8. ~At(i, "track")'
  <2>1. CASE Unpoint(i)
    <3>1. jobs'[i].pc = "unhold"
      BY <1>0, <2>1 DEF Unpoint
    <3> QED
      BY <3>1 DEF At
  <2>2. CASE Unhold(i)
    <3>1. jobs' = [jobs EXCEPT ![i].pc = "unline"]
      BY <2>2 DEF Unhold, To
    <3>2. jobs'[i].pc = "unline"
      BY <1>0, <3>1 DEF Job
    <3> QED
      BY <3>2 DEF At
  <2>3. CASE Unline(i)
    <3>1. PICK j : j = [Idle EXCEPT !.snap = jobs[i].snap,
                          !.pc = IF jobs[i].snap THEN "research" ELSE "dedup"]
      OBVIOUS
    <3>2. jobs' = [jobs EXCEPT ![i] = Idle] \/ jobs' = [jobs EXCEPT ![i] = j]
      BY <2>3, <3>1 DEF Unline, Ingest, Close
    <3>3. j.pc # "track" /\ Idle.pc # "track"
      BY <3>1 DEF Idle
    <3>4. jobs'[i] = Idle \/ jobs'[i] = j
      BY <1>0, <3>2
    <3> QED
      BY <3>3, <3>4 DEF At
  <2> QED
    BY <2>1, <2>2, <2>3
<1>9. disk[b] # Gone => Tracked(b)' /\ (Tracks(i)' \/ Awaited(b)')
  BY <1>4, <1>6, <1>7 DEF Tracked
<1> QED
  BY <1>1, <1>2, <1>3, <1>5, <1>8, <1>9, RowsStep

LEMMA IngestRows ==
  ASSUME Types, GenerationInv, RowsInv, Steady', NEW i \in Items,
         Dedup(i) \/ Embed(i) \/ Upsert(i) \/ Merge(i) \/ Share(i) \/ Track(i)
  PROVE  RowsInv'
<1> DEFINE b == i.branch
<1>0. /\ b \in Branches /\ jobs \in [Items -> Aimed] /\ jobs[i] \in Job
      /\ ~At(i, "idle") /\ jobs[i].pc \in Ingesting
  <2>1. jobs[i].pc \in Ingesting
    BY DEF Dedup, Embed, Upsert, Merge, Share, Track, At, Ingesting
  <2> QED
    BY <2>1, Domains, JobFacts DEF Types, WorkOK, Aimed, At, Ingesting
<1>1. UNCHANGED <<checkout, amiss>>
  BY DEF Dedup, Embed, Upsert, Merge, Share, Track
<1>2. Steady
  BY <1>1, SteadyBefore
<1>3. Solo(i) /\ Keeping(i) /\ (disk[b] # Gone => Tracked(b))
  BY <1>0, <1>2, BusySolo DEF RowsInv
<1>4. CASE Dedup(i) \/ Embed(i) \/ Upsert(i) \/ Merge(i)
  <2>1. jobs'[i].pc \in Ingesting /\ UNCHANGED <<rows, queue>>
    BY <1>0, <1>4 DEF Dedup, Embed, Upsert, Merge, To, Job, Ingesting
  <2>2. OneItem(i)
    BY <1>0, <1>4 DEF Dedup, Embed, Upsert, Merge, To, OneItem
  <2>3. \A d, f : Holds(d, f)' = Holds(d, f)
    BY <2>1 DEF Holds
  <2>4. \A j \in Items : Tracks(j) => Tracks(j)'
    BY <1>0, <2>1, <2>2 DEF Tracks, OneItem, Ingesting, Leave
  <2>5. Tracked(b) => Tracked(b)'
    BY <2>1, <2>3, <2>4 DEF Tracked, Awaited
  <2>6. ASSUME jobs'[i].pc = "track", jobs'[i].file # NoFile
        PROVE  jobs'[i].file \in Files /\ Holds(b, jobs[i].file)'
    <3>1. Merge(i)
      BY <1>0, <1>4, <2>6 DEF Dedup, Embed, Upsert, To, Job
    <3>2. PICK f : f = Holder(b)
      OBVIOUS
    <3>3. jobs'[i].file = f
      BY <1>0, <3>1, <3>2 DEF Merge, Job
    <3>4. f \in Files /\ Holds(b, f)
      BY <1>0, <2>6, <3>2, <3>3, OneHolder
    <3> QED
      BY <2>1, <3>3, <3>4 DEF Holds
  <2>7. jobs'[i].pc \notin Leave
    BY <2>1 DEF Ingesting, Leave
  <2> QED
    BY <1>1, <1>2, <1>3, <2>2, <2>3, <2>5, <2>6, <2>7, RowsStep DEF At
<1>5. CASE Share(i) \/ Track(i)
  <2>1. PICK f \in Files : Entered(i, f)
    BY <1>2, <1>5, WriteRows DEF Steady
  <2>2. /\ jobs'[i].pc \in {"sharesend", "search"} /\ OneItem(i)
        /\ \A g \in Files : g # f => rows'[g] = rows[g]
        /\ \A d \in Branches : Holds(d, f) => Holds(d, f)'
    BY <1>0, <2>1 DEF Entered, Job
  <2>3. Holds(b, f)'
    <3>1. CASE At(i, "track") /\ jobs[i].file # NoFile
      <4>1. f = jobs[i].file
        BY <2>1, <3>1 DEF Entered
      <4>2. Holds(b, f)
        BY <1>3, <3>1, <4>1 DEF Keeping
      <4> QED
        BY <1>0, <2>2, <4>2
    <3>2. CASE ~(At(i, "track") /\ jobs[i].file # NoFile)
      BY <2>1, <3>2 DEF Entered
    <3> QED
      BY <3>1, <3>2
  <2>4. \A d \in Branches, g \in Files : Holds(d, g) => Holds(d, g)'
    BY <2>2 DEF Holds
  <2>5. Tracked(b)'
    BY <2>3 DEF Tracked
  <2>6. jobs'[i].pc \notin Leave /\ jobs'[i].pc # "track"
    BY <2>2 DEF Leave
  <2> QED
    BY <1>1, <1>2, <1>3, <2>2, <2>4, <2>5, <2>6, RowsStep DEF At
<1> QED
  BY <1>4, <1>5

LEMMA EndRows ==
  ASSUME Types, Owned, GenerationInv, RowsInv, Steady', NEW i \in Items,
         \/ ShareSend(i) \/ ShareUnread(i) \/ EmbedGone(i) \/ Search(i) \/ SearchSkipped(i)
         \/ ResearchUntracked(i)
  PROVE  RowsInv'
<1> DEFINE b == i.branch
<1>0. /\ b \in Branches /\ jobs \in [Items -> Aimed] /\ queue \in [Items -> QueueRow]
      /\ ~At(i, "idle") /\ queue[i].state = "taken"
  <2>1. jobs[i].pc # "idle"
    BY DEF ShareSend, ShareUnread, EmbedGone, Search, Searches, SearchSkipped,
           ResearchUntracked, At
  <2> QED
    BY <2>1, Domains DEF Types, WorkOK, At, Owned
<1>1. UNCHANGED <<checkout, table>> /\ amiss \subseteq amiss'
  BY DEF ShareSend, ShareUnread, EmbedGone, Search, SearchSkipped, ResearchUntracked
<1>2. Steady
  BY <1>1, SteadyBefore
<1>3. Solo(i) /\ (disk[b] # Gone => Tracked(b))
  BY <1>0, <1>2, BusySolo DEF RowsInv
<1>4. jobs'[i] = Idle /\ OneItem(i)
  BY <1>0 DEF ShareSend, ShareUnread, EmbedGone, Search, SearchSkipped, ResearchUntracked,
              Close, Finish, Send, OneItem
<1>5. \A d, f : Holds(d, f) => Holds(d, f)'
  BY <1>1 DEF Holds
<1>6. Awaited(b) => Awaited(b)'
  BY <1>0, <1>4 DEF Awaited, OneItem
<1>7. ASSUME disk[b] # Gone PROVE Tracked(b)'
  <2>1. CASE \E f \in Files : Holds(b, f)
    BY <1>5, <2>1 DEF Tracked
  <2>2. CASE Awaited(b)
    BY <1>6, <2>2 DEF Tracked
  <2>3. CASE ~(\E f \in Files : Holds(b, f)) /\ ~Awaited(b)
    <3>1. PICK j \in Items : j.branch = b /\ Tracks(j)
      BY <1>3, <1>7, <2>3 DEF Tracked
    <3>2. j = i
      <4>1. jobs[j].pc # "idle"
        BY <3>1 DEF Tracks, Ingesting, Leave
      <4> QED
        BY <1>3, <3>1, <4>1 DEF Solo, At
    <3>3. Holder(b) = NoFile
      BY <1>0, <2>3, OneHolder
    <3>4. i.op # "delete" /\ jobs[i].pc \in Ingesting \cup Leave \cup {"research"}
      BY <3>1, <3>2 DEF Tracks
    <3>5. ResearchUntracked(i)
      BY <1>7, <3>3, <3>4 DEF ShareSend, ShareUnread, EmbedGone, Search, Searches,
                              SearchSkipped, At, Ingesting, Leave
    <3>6. queue'[i].state = "pending"
      <4>1. queue'[i] = NoItem => ~Steady'
        BY <3>5 DEF ResearchUntracked, Steady
      <4>2. queue'[i] = NoItem \/ queue'[i].state = "pending"
        <5>1. \/ queue' = [queue EXCEPT ![i] = NoItem]
              \/ queue' = [queue EXCEPT ![i].state = "pending"]
          BY <3>5 DEF ResearchUntracked, Finish, Close
        <5> QED
          BY <1>0, <5>1 DEF QueueRow
      <4> QED
        BY <4>1, <4>2
    <3> QED
      BY <3>4, <3>6 DEF Tracked, Awaited
  <2> QED
    BY <2>1, <2>2, <2>3
<1>8. jobs'[i].pc = "idle"
  BY <1>4 DEF Idle
<1>9. jobs'[i].pc \notin Leave /\ ~At(i, "track")'
  BY <1>8 DEF Leave, At
<1> QED
  BY <1>1, <1>2, <1>3, <1>4, <1>5, <1>7, <1>9, RowsStep

LEMMA FailRows ==
  ASSUME Types, RowsInv, Steady', NEW i \in Items, HandlerFails(i)
  PROVE  RowsInv'
<1>0. jobs \in [Items -> Aimed] /\ queue \in [Items -> QueueRow] /\ queue[i] \in QueueRow
  BY DEF Types, WorkOK
<1>1. UNCHANGED <<checkout, table, amiss>>
  BY DEF HandlerFails
<1>2. Steady
  BY <1>1, SteadyBefore
<1>3. /\ jobs' = [jobs EXCEPT ![i] = Idle]
      /\ queue' = [queue EXCEPT ![i] = Retry(queue[i])]
  BY DEF HandlerFails
<1>4. Idle.pc = "idle" /\ Retry(queue[i]).state = "pending"
  BY <1>0 DEF Idle, Retry, QueueRow
<1>5. ASSUME NEW j \in Items
      PROVE  /\ queue[j].state = "pending" => queue'[j].state = "pending"
             /\ jobs'[j] = jobs[j] \/ (jobs'[j].pc = "idle" /\ queue'[j].state = "pending")
  <2>1. CASE j = i
    BY <1>0, <1>3, <1>4, <2>1
  <2>2. CASE j # i
    BY <1>0, <1>3, <2>2
  <2> QED
    BY <2>1, <2>2
<1>6. \A d \in Branches, f \in Files : Holds(d, f) => Holds(d, f)'
  BY <1>1 DEF Holds
<1> QED
  BY <1>1, <1>2, <1>5, <1>6, RowsEase

\* An edit leaves an item behind that will look at the file, unless it is gone
LEMMA EditRows ==
  ASSUME Types, RowsInv, Steady', NEW b \in Branches, NEW c \in Texts, Edit(b, c)
  PROVE  RowsInv'
<1>0. /\ disk \in [Branches -> Texts] /\ queue \in [Items -> QueueRow]
      /\ UNCHANGED <<table, jobs>> /\ amiss \subseteq amiss'
      /\ disk'[b] = c /\ \A d \in Branches : d # b => disk'[d] = disk[d]
  BY DEF Types, CheckoutOK, WorkOK, Edit
<1>1. Steady
  BY <1>0, SteadyBefore
<1>2. /\ \A d \in Branches : disk[d] # Gone => Tracked(d)
      /\ \A j \in Items : Keeping(j) /\ j.branch \in Branches
  BY <1>1, Domains DEF RowsInv
<1>3. PICK op \in Ops : op = IF disk[b] = Gone THEN "add"
                             ELSE IF c = Gone THEN "delete" ELSE "update"
  BY DEF Ops
<1>4. PICK i \in Items : i = [branch |-> b, op |-> op]
  BY <1>3, Domains
<1>5. /\ i.branch = b /\ (c # Gone => i.op # "delete") /\ queue'[i].state = "pending"
      /\ \A j \in Items : j # i => queue'[j] = queue[j]
  <2>1. queue' = IF queue[i].state = "none"
                 THEN [queue EXCEPT ![i].state = "pending"] ELSE queue
    BY <1>3, <1>4 DEF Edit
  <2>2. queue[i].state # "taken"
    BY <1>3, <1>4 DEF Edit, Steady, Clean
  <2>3. queue[i] \in QueueRow
    BY <1>0
  <2> QED
    BY <1>0, <1>3, <1>4, <2>1, <2>2, <2>3 DEF QueueRow
<1>6. /\ \A d, f : Holds(d, f)' = Holds(d, f)
      /\ \A j \in Items : Tracks(j)' = Tracks(j)
  BY <1>0 DEF Holds, Tracks
<1>7. c # Gone => Awaited(b)'
  BY <1>5 DEF Awaited
<1>8. ASSUME NEW d \in Branches, d # b PROVE Awaited(d) => Awaited(d)'
  BY <1>5, <1>8 DEF Awaited
<1>9. ASSUME NEW d \in Branches, disk'[d] # Gone PROVE Tracked(d)'
  <2>1. CASE d = b
    BY <1>0, <1>7, <1>9, <2>1 DEF Tracked
  <2>2. CASE d # b
    BY <1>0, <1>2, <1>6, <1>8, <1>9, <2>2 DEF Tracked
  <2> QED
    BY <2>1, <2>2
<1>10. ASSUME NEW j \in Items PROVE Keeping(j)'
  <2>1. jobs[j].pc \in Leave /\ disk'[j.branch] # Gone => Tracks(j) \/ Awaited(j.branch)'
    <3>1. CASE j.branch = b
      BY <1>0, <1>7, <3>1
    <3>2. CASE j.branch # b
      BY <1>0, <1>2, <1>8, <3>2 DEF Keeping
    <3> QED
      BY <3>1, <3>2
  <2> QED
    BY <1>0, <1>2, <1>6, <2>1 DEF Keeping, At
<1> QED
  BY <1>9, <1>10 DEF RowsInv

\* The batch writer takes up nothing that waits
LEMMA WriterRows ==
  ASSUME Types, Flight, RowsInv, Steady', Conclude \/ \E n, ok : Flush(n, ok)
  PROVE  RowsInv'
<1>1. UNCHANGED <<checkout, table, jobs>> /\ amiss \subseteq amiss'
  BY DEF Conclude, Flush
<1>2. Steady
  BY <1>1, SteadyBefore
<1>3. ASSUME NEW j \in Items, queue[j].state = "pending" PROVE queue'[j].state = "pending"
  <2>1. CASE \E n, ok : Flush(n, ok)
    BY <1>3, <2>1 DEF Flush
  <2>2. CASE Conclude
    <3>1. PICK x : x = Head(batch.works)
      OBVIOUS
    <3>2. /\ queue' = [queue EXCEPT ![x.item] =
                         IF ~batch.ok THEN Retry(queue[x.item])
                         ELSE IF queue[x.item].qdrant THEN NoItem
                         ELSE [queue[x.item] EXCEPT !.state = "pending"]]
          /\ batch.works # <<>>
      BY <2>2, <3>1 DEF Conclude
    <3>3. batch.works \in Seq(Work) /\ 1 \in 1 .. Len(batch.works) /\ x = batch.works[1]
      BY <3>1, <3>2 DEF Types, HandoverOK
    <3>4. InFlight(batch.works[1].item)
      BY <3>3 DEF Flight
    <3>5. x.item # j
      BY <1>3, <3>3, <3>4 DEF InFlight
    <3> QED
      BY <1>3, <3>2, <3>5 DEF Types, WorkOK
  <2> QED
    BY <2>1, <2>2
<1>4. \A d \in Branches, f \in Files : Holds(d, f) => Holds(d, f)'
  BY <1>1 DEF Holds
<1> QED
  BY <1>1, <1>2, <1>3, <1>4, RowsEase

\* What was taken up waits again
LEMMA CrashRows ==
  ASSUME Types, Owned, RowsInv, Steady', CrashRestart
  PROVE  RowsInv'
<1>1. UNCHANGED checkout /\ amiss \ {"merge cut off", "branch left out"} \subseteq amiss'
  BY DEF CrashRestart
<1>2. Steady
  BY <1>1, SteadyBefore
<1>3. ASSUME NEW j \in Items
      PROVE  /\ jobs'[j].pc = "idle"
             /\ queue[j].state \in {"taken", "pending"} => queue'[j].state = "pending"
  <2>1. /\ jobs' = [k \in Items |-> Idle]
        /\ queue' = [k \in Items |-> IF queue[k].state = "taken"
                        THEN [queue[k] EXCEPT !.state = "pending"] ELSE queue[k]]
    BY DEF CrashRestart
  <2>2. queue[j] \in QueueRow
    BY DEF Types, WorkOK
  <2> QED
    BY <2>1, <2>2 DEF QueueRow, Idle
<1>4. \A j \in Items : Tracks(j) => queue[j].state = "taken"
  BY DEF Tracks, Owned, Ingesting, Leave
<1>5. ASSUME NEW f \in Files, NEW d \in Branches, Holds(d, f) PROVE Holds(d, f)'
  <2>1. PICK keeps \in BOOLEAN :
          rows' = [g \in Files |-> IF g \in Live /\ ~keeps
                                   THEN [rows[g] EXCEPT !.chunker = FALSE] ELSE rows[g]]
    BY DEF CrashRestart
  <2>2. rows[f] \in Generation
    BY DEF Types, TableOK
  <2> QED
    BY <1>5, <2>1, <2>2 DEF Generation, Holds
<1> QED
  BY <1>1, <1>2, <1>3, <1>4, <1>5, RowsEase

LEMMA InitRows == Init => RowsInv
<1> SUFFICES ASSUME Init PROVE RowsInv
  OBVIOUS
<1>1. (\A b \in Branches : disk[b] = Gone) /\ \A i \in Items : jobs[i].pc = "idle"
  BY DEF Init, Idle
<1> QED
  BY <1>1 DEF RowsInv, Keeping, At, Leave

LEMMA NextRows ==
  ASSUME Types, Owned, Flight, GenerationInv, RowsInv, [Next]_vars
  PROVE  RowsInv'
<1> SUFFICES ASSUME Steady' PROVE RowsInv'
  BY DEF RowsInv
<1>1. ASSUME NEW i \in Items, Handler(i) PROVE RowsInv'
  BY <1>1, PrepareRows, LeaveRows, IngestRows, EndRows DEF Handler
<1>2. ASSUME NEW i \in Items, HandlerFails(i) PROVE RowsInv'
  BY <1>2, FailRows
<1>3. CASE BranchReconcile \/ UNCHANGED vars
  <2>1. /\ UNCHANGED <<checkout, table, queue, jobs>>
        /\ amiss \ {"merge cut off", "branch left out"} \subseteq amiss'
    BY <1>3 DEF BranchReconcile, vars
  <2>2. Steady
    BY <2>1, SteadyBefore
  <2>3. \A d \in Branches, f \in Files : Holds(d, f) => Holds(d, f)'
    BY <2>1 DEF Holds
  <2> QED
    BY <2>1, <2>2, <2>3, RowsEase
<1> QED
  BY <1>1, <1>2, <1>3, EditRows, WriterRows, CrashRows DEF Next, Quiet

\* Each branch is in the row of the content its checkout has once the queue is empty,
\* for any number of branches, contents, handlers, failures and crashes, also where
\* handlers of several branches share a row: a branch whose file is there is in a row,
\* or has an item that will look at the file, or a handler that will put it into one.
THEOREM RowsFollowDiskThm == Spec => []RowsFollowDisk
<1>1. Init => Types /\ Owned /\ Flight /\ GenerationInv /\ LinesInv /\ RowsInv
  BY InitTypes, InitOwned, InitGeneration, InitLines, InitRows
<1>2. Types /\ Owned /\ Flight /\ GenerationInv /\ LinesInv /\ RowsInv /\ [Next]_vars
        => (Types /\ Owned /\ Flight /\ GenerationInv /\ LinesInv /\ RowsInv)'
  BY NextTypes, NextOwned, NextGeneration, NextLines, NextRows
<1>3. Types /\ Owned /\ Flight /\ GenerationInv /\ LinesInv /\ RowsInv => RowsFollowDisk
  <2> SUFFICES ASSUME Types, Owned, Flight, GenerationInv, LinesInv, RowsInv, Settled, Steady,
                      NEW b \in Branches
               PROVE  IF disk[b] = Gone THEN Holder(b) = NoFile
                      ELSE Holder(b) # NoFile /\ rows[Holder(b)].hash = disk[b]
    BY DEF RowsFollowDisk, Steady, Clean
  <2>1. Clean /\ Vouched
    BY DEF Steady, GenerationInv
  <2>2. \A f \in Files : Holds(b, f) => rows[f].hash = disk[b] /\ disk[b] # Gone
    BY <2>1, SettledLines DEF Vouched, Holds, Alive
  <2>3. /\ Holder(b) # NoFile => Holder(b) \in Files /\ Holds(b, Holder(b))
        /\ Holder(b) = NoFile => \A f \in Files : ~Holds(b, f)
    BY OneHolder
  <2>4. ASSUME disk[b] # Gone PROVE Holder(b) # NoFile
    <3>1. \A i \in Items : queue[i].state = "none" /\ jobs[i].pc = "idle"
      BY DEF Settled, Owned
    <3>2. ~Awaited(b) /\ \A i \in Items : ~Tracks(i)
      BY <3>1 DEF Awaited, Tracks, Ingesting, Leave
    <3> QED
      BY <2>3, <2>4, <3>2 DEF RowsInv, Tracked
  <2> QED
    BY <2>2, <2>3, <2>4
<1> QED
  BY <1>1, <1>2, <1>3, PTL DEF Spec
=============================================================================
