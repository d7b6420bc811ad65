-------------------------- MODULE BranchSwitchProofs --------------------------
(***************************************************************************)
(* Types, NoFabrication, AwayKept and HeadFollowsTree of BranchSwitch, for    *)
(* any number of branches, contents, moves and scans.                        *)
(***************************************************************************)
EXTENDS BranchSwitch, SequenceTheorems, TLAPS

\* What NoFabrication needs: an ingest is under way for the branch that is checked
\* out, with the file that is there, a generation was verified alone, and no branch
\* is in two generations.
Truthful ==
  /\ \A b \in Branches : Holders(b) \subseteq had[b]
  /\ \A c, d \in Contents : c # d => rows[c] \cap rows[d] = {}
  /\ Ingesting => job.branch = head /\ job.text = disk
  /\ \A u \in bulks : /\ u.branch \in Branches /\ u.seen \subseteq had[u.branch]
                      /\ \A c, d \in u.seen : c = d

Frame ==
  /\ head \in Branches
  /\ had = [b \in Branches |-> had[b]]
  /\ disk \in had[head]
  /\ bulk # NoBulk => bulk.key \in bulks

FabricationInv == Frame /\ (amiss = {} => Truthful)

\* Truthful, element by element
LEMMA TruthfulPoints ==
  ASSUME Truthful
  PROVE  /\ \A b \in Branches, c \in Contents : b \in rows[c] => c \in had[b]
         /\ \A c, d \in Contents : \A x : x \in rows[c] /\ x \in rows[d] => c = d
  BY DEF Truthful, Holders

LEMMA InitFabrication == Init => FabricationInv
<1> SUFFICES ASSUME Init PROVE FabricationInv
  OBVIOUS
<1>1. Frame
  BY DEF Init, Frame
<1>2. Truthful
  BY DEF Init, Truthful, Holders, Ingesting
<1> QED
  BY <1>1, <1>2 DEF FabricationInv

\* The tree moves on: what was true of a branch stays true
LEMMA MoveFabrication ==
  ASSUME FabricationInv, NEW c, NEW b \in Branches,
         head' = b, disk' = c, had' = [had EXCEPT ![b] = @ \cup {c}],
         UNCHANGED <<rows, job, bulks, bulk>>,
         amiss' = {} => amiss = {} /\ (Ingesting => b = head /\ c = disk)
  PROVE  FabricationInv'
<1>1. \A a \in Branches : had[a] \subseteq had'[a]
  BY DEF FabricationInv, Frame
<1>2. Frame'
  BY DEF FabricationInv, Frame
<1>3. ASSUME amiss' = {} PROVE Truthful'
  BY <1>1, <1>3 DEF FabricationInv, Truthful, Holders, Ingesting
<1> QED
  BY <1>2, <1>3 DEF FabricationInv

\* A step that neither moves the tree nor writes a row
LEMMA QuietFabrication ==
  ASSUME FabricationInv, UNCHANGED <<head, disk, had, rows, job, bulks, bulk>>,
         amiss \subseteq amiss'
  PROVE  FabricationInv'
<1>1. Frame'
  BY DEF FabricationInv, Frame
<1>2. ASSUME amiss' = {} PROVE Truthful'
  BY <1>2 DEF FabricationInv, Truthful, Holders, Ingesting
<1> QED
  BY <1>1, <1>2 DEF FabricationInv

LEMMA RekeyFabrication ==
  ASSUME FabricationInv, NEW e, GitUnchanged(e)
  PROVE  FabricationInv'
<1> USE DEF HandleGit, checkout
<1>1. amiss \subseteq amiss' /\ (amiss' = {} => e.branch = head)
  BY DEF GitUnchanged, Enqueue, Amend, Late, If
<1>2. CASE bulks' = bulks
  BY <1>1, <1>2, QuietFabrication DEF GitUnchanged
<1>3. CASE disk \in Shared(e) /\ Rekey(e)
  <2> DEFINE u    == [branch |-> e.branch, from |-> e.from, seen |-> Shared(e)]
             same == {s \in bulks : s.branch = e.branch /\ s.from = e.from}
  <2>1. CASE \E s \in same : bulk # NoBulk /\ bulk.key = s
    BY <1>1, <1>3, <2>1, QuietFabrication DEF GitUnchanged, Rekey
  <2>2. CASE ~ \E s \in same : bulk # NoBulk /\ bulk.key = s
    <3>1. bulks' = (bulks \ same) \cup {u}
      BY <1>3, <2>2 DEF Rekey
    <3>2. Frame'
      BY <2>2, <3>1 DEF FabricationInv, Frame, GitUnchanged
    <3>3. ASSUME amiss' = {} PROVE Truthful'
      <4>1. Truthful
        BY <1>1, <3>3 DEF FabricationInv
      <4>2. e.branch = head
        BY <1>1, <3>3
      <4>3. \A c, d \in Shared(e) : c = d
        BY <4>1 DEF Truthful, Shared, Holders
      <4>4. u.seen \subseteq had[u.branch] /\ u.branch \in Branches
        BY <1>3, <4>2, <4>3 DEF FabricationInv, Frame
      <4> HIDE DEF u, same
      <4>5. \A v \in bulks' : v \in bulks \/ v = u
        BY <3>1
      <4>6. UNCHANGED <<had, rows, job, head, disk>>
        BY DEF GitUnchanged
      <4>7. \A c, d \in u.seen : c = d
        BY <4>3 DEF u
      <4> QED
        BY <4>1, <4>4, <4>5, <4>6, <4>7 DEF Truthful, Holders, Ingesting
    <3> QED
      BY <3>2, <3>3 DEF FabricationInv
  <2> QED
    BY <2>1, <2>2
<1> QED
  BY <1>2, <1>3 DEF GitUnchanged
LEMMA TakeFabrication ==
  ASSUME FabricationInv, NEW op \in Ops, Take(op)
  PROVE  FabricationInv'
<1> USE DEF Take, checkout, bulkwork
<1>1. Frame'
  BY DEF FabricationInv, Frame
<1>2. ASSUME amiss' = {} PROVE Truthful'
  BY <1>2 DEF FabricationInv, Truthful, Holders, Ingesting
<1> QED
  BY <1>1, <1>2 DEF FabricationInv

\* Rows only shrink
LEMMA DeleteFabrication ==
  ASSUME FabricationInv, FinishDelete
  PROVE  FabricationInv'
<1> USE DEF FinishDelete, Finished, checkout, bulkwork
<1>1. Frame'
  BY DEF FabricationInv, Frame
<1>2. \A c \in Contents : rows'[c] \subseteq rows[c]
  BY DEF Strip
<1>3. ASSUME amiss' = {} PROVE Truthful'
  <2>1. Truthful
    BY <1>3 DEF FabricationInv
  <2>2. \A b \in Branches : Holders(b)' \subseteq Holders(b)
    BY <1>2 DEF Holders
  <2>3. \A c, d \in Contents : c # d => rows'[c] \cap rows'[d] = {}
    BY <1>2, <2>1 DEF Truthful
  <2> QED
    BY <2>1, <2>2, <2>3 DEF Truthful, Ingesting
<1> QED
  BY <1>1, <1>3 DEF FabricationInv

\* The branch leaves the one generation that held it for the one of the tree
LEMMA IngestFabrication ==
  ASSUME FabricationInv, FinishIngest
  PROVE  FabricationInv'
<1> USE DEF FinishIngest, Finished, checkout, bulkwork
<1>1. Frame'
  BY DEF FabricationInv, Frame
<1>2. ASSUME amiss' = {} PROVE Truthful'
  <2>1. /\ Truthful /\ head \in Branches /\ disk \in had[head]
        /\ job.branch = head /\ job.text = disk
    BY <1>2 DEF FabricationInv, Frame, Truthful, Ingesting
  <2>2. PICK held \in Found(head) :
          rows' = IF held = disk THEN rows
                  ELSE [c \in Contents |-> IF c = disk THEN rows[c] \cup {head}
                                           ELSE Strip(held, head)[c]]
    BY <2>1
  <2>3. CASE held = disk
    BY <2>1, <2>2, <2>3 DEF Truthful, Holders, Ingesting
  <2>4. CASE held # disk
    <3>1. \A c \in Contents :
            rows'[c] = IF c = disk THEN rows[c] \cup {head}
                       ELSE IF c = held THEN rows[c] \ {head} ELSE rows[c]
      BY <2>2, <2>4 DEF Strip
    <3>2. \A d \in Contents : head \in rows[d] => d = held
      BY <2>1, <2>2 DEF Truthful, Holders, Found
    <3>3. \A d \in Contents \ {disk} : head \notin rows'[d] /\ rows'[d] \subseteq rows[d]
      BY <3>1, <3>2
    <3>4. \A c, d \in Contents : c # d => rows'[c] \cap rows'[d] = {}
      <4> SUFFICES ASSUME NEW c \in Contents, NEW d \in Contents, NEW x,
                          x \in rows'[c], x \in rows'[d], c # d
                   PROVE  FALSE
        OBVIOUS
      <4>1. x # head
        BY <3>3
      <4>2. x \in rows[c] /\ x \in rows[d]
        BY <3>1, <4>1
      <4> QED
        BY <2>1, <4>2, TruthfulPoints
    <3>5. \A b \in Branches : Holders(b)' \subseteq had[b]
      <4> SUFFICES ASSUME NEW b \in Branches, NEW c \in Contents, b \in rows'[c]
                   PROVE  c \in had[b]
        BY DEF Holders
      <4>1. CASE c = disk /\ b = head
        BY <2>1, <4>1
      <4>2. CASE c # disk \/ b # head
        <5>1. b \in rows[c]
          BY <3>1, <4>2
        <5> QED
          BY <2>1, <5>1, TruthfulPoints
      <4> QED
        BY <4>1, <4>2
    <3> QED
      BY <2>1, <3>4, <3>5 DEF Truthful, Ingesting
  <2> QED
    BY <2>3, <2>4
<1> QED
  BY <1>1, <1>2 DEF FabricationInv

\* Unless it is flagged, what is tagged was verified, and the branch was in no other
LEMMA BulkFabrication ==
  ASSUME FabricationInv, FinishBulk
  PROVE  FabricationInv'
<1> USE DEF FinishBulk, Tag
<1> DEFINE b    == bulk.key.branch
           seen == bulk.key.seen
           tags == Tagged
<1>1. UNCHANGED <<head, disk, had, job>> /\ bulks' \subseteq bulks /\ bulk' = NoBulk
      /\ bulk.key \in bulks
  BY DEF FinishBulk, checkout, FabricationInv, Frame
<1>2. Frame'
  BY <1>1 DEF FabricationInv, Frame
<1>3. ASSUME amiss' = {} PROVE Truthful'
  <2>1. amiss = {} /\ \A c \in tags : c \in seen /\ Holders(b) \ {c} = {}
    BY <1>3 DEF FinishBulk, Amend, If
  <2>2. Truthful
    BY <2>1 DEF FabricationInv
  <2>3. b \in Branches /\ seen \subseteq had[b] /\ \A c, d \in seen : c = d
    BY <1>1, <2>2 DEF Truthful
  <2>4. \A c \in Contents : rows'[c] = IF c \in tags THEN rows[c] \cup {b} ELSE rows[c]
    BY DEF FinishBulk
  <2> HIDE DEF b, seen, tags
  <2>5. \A c \in tags, d \in Contents : b \in rows[d] => d = c
    BY <2>1 DEF Holders
  <2>6. \A c, d \in Contents : c # d => rows'[c] \cap rows'[d] = {}
    <3> SUFFICES ASSUME NEW c \in Contents, NEW d \in Contents, c # d,
                        NEW x, x \in rows'[c], x \in rows'[d]
                 PROVE  FALSE
      OBVIOUS
    <3>1. CASE x = b
      <4>1. ~(c \in tags /\ d \in tags)
        BY <2>1, <2>3
      <4>2. (c \in tags \/ x \in rows[c]) /\ (d \in tags \/ x \in rows[d])
        BY <2>4
      <4>3. ~(x \in rows[c] /\ x \in rows[d])
        BY <2>2, TruthfulPoints
      <4> QED
        BY <2>5, <3>1, <4>1, <4>2, <4>3
    <3>2. CASE x # b
      <4>1. x \in rows[c]
        BY <2>4, <3>2
      <4>2. x \in rows[d]
        BY <2>4, <3>2
      <4> QED
        BY <2>2, <4>1, <4>2, TruthfulPoints
    <3> QED
      BY <3>1, <3>2
  <2>7. \A a \in Branches : Holders(a)' \subseteq had[a]
    <3> SUFFICES ASSUME NEW a \in Branches, NEW c \in Contents, a \in rows'[c]
                 PROVE  c \in had[a]
      BY DEF Holders
    <3>1. CASE c \in tags /\ a = b
      BY <2>1, <2>3, <3>1
    <3>2. CASE c \notin tags \/ a # b
      <4>1. a \in rows[c]
        BY <2>4, <3>2
      <4> QED
        BY <2>2, <4>1, TruthfulPoints
    <3> QED
      BY <3>1, <3>2
  <2> QED
    BY <1>1, <2>2, <2>6, <2>7 DEF Truthful, Ingesting
<1> QED
  BY <1>2, <1>3 DEF FabricationInv

\* A failure, of the handler of an event or of something else
Mishap(e) ==
  \/ NoticeFails \/ FsFails \/ ScanFails \/ GitFails(e) \/ GiveUp \/ GiveUpBulk

LEMMA MishapFlagged == ASSUME NEW e, Mishap(e) PROVE amiss' = amiss \cup {"failed"}
  BY DEF Mishap, NoticeFails, FsFails, ScanFails, GitFails, GiveUp, GiveUpBulk, Tag, Amend

LEMMA StepFabrication == FabricationInv /\ [Next]_vars => FabricationInv'
<1> SUFFICES ASSUME FabricationInv, [Next]_vars PROVE FabricationInv'
  OBVIOUS
<1>1. ASSUME NEW c \in Texts, Edit(c) PROVE FabricationInv'
  <2>1. head \in Branches
    BY DEF FabricationInv, Frame
  <2> QED
    BY <1>1, <2>1, MoveFabrication DEF Edit, Becomes, Amend, Raced, If, bulkwork
<1>2. CASE Commit
  BY <1>2, QuietFabrication DEF Commit, Logged, Amend, If, bulkwork
<1>3. ASSUME NEW b \in Branches, Checkout(b) PROVE FabricationInv'
  <2> DEFINE c == IF disk = text[tip[head]] THEN text[tip[b]] ELSE disk
  <2>1. head' = b /\ disk' = c /\ had' = [had EXCEPT ![b] = @ \cup {c}]
        /\ UNCHANGED <<rows, job, bulks, bulk>>
    BY <1>3 DEF Checkout, Becomes, bulkwork
  <2>2. amiss' = {} => amiss = {} /\ ~Ingesting
    BY <1>3 DEF Checkout, Logged, Amend, If
  <2> HIDE DEF c
  <2> QED
    BY <2>1, <2>2, MoveFabrication
<1>4. ASSUME NEW n \in Commits, Reset(n) PROVE FabricationInv'
  <2>1. head \in Branches
    BY DEF FabricationInv, Frame
  <2>2. amiss' = {} => amiss = {} /\ (Ingesting => text[n] = disk)
    BY <1>4 DEF Reset, Logged, Amend, Raced, If
  <2> QED
    BY <1>4, <2>1, <2>2, MoveFabrication DEF Reset, Becomes, bulkwork
<1>5. CASE Notice
  BY <1>5, QuietFabrication DEF Notice, checkout, bulkwork
<1>6. CASE HandleFs
  BY <1>6, QuietFabrication DEF HandleFs, Enqueue, Amend, checkout, bulkwork
<1>7. CASE AskScan
  BY <1>7, QuietFabrication DEF AskScan, checkout, bulkwork
<1>8. CASE RunScan
  BY <1>8, QuietFabrication DEF RunScan, Enqueue, Amend, checkout, bulkwork
<1>9. CASE Sweep
  BY <1>9, QuietFabrication DEF Sweep, Enqueue, Amend, checkout, bulkwork
<1>10. ASSUME NEW e, GitChanged(e) PROVE FabricationInv'
  BY <1>10, QuietFabrication DEF GitChanged, HandleGit, Enqueue, Amend, checkout
<1>11. ASSUME NEW e, GitIgnored(e) PROVE FabricationInv'
  BY <1>11, QuietFabrication DEF GitIgnored, HandleGit, Amend, checkout
<1>12. ASSUME NEW e, GitReset(e) PROVE FabricationInv'
  BY <1>12, QuietFabrication DEF GitReset, HandleGit, Amend, checkout
<1>13. ASSUME NEW u \in bulks, TakeBulk(u) PROVE FabricationInv'
  <2>1. Frame'
    BY <1>13 DEF TakeBulk, FabricationInv, Frame, checkout
  <2>2. ASSUME amiss' = {} PROVE Truthful'
    BY <1>13, <2>2 DEF TakeBulk, FabricationInv, Truthful, Holders, Ingesting, checkout
  <2> QED
    BY <2>1, <2>2 DEF FabricationInv
<1>14. ASSUME NEW e, Mishap(e) PROVE FabricationInv'
  <2>1. /\ amiss' # {} /\ UNCHANGED <<head, disk, had>>
        /\ UNCHANGED <<bulks, bulk>> \/ bulk' = NoBulk
    BY <1>14, MishapFlagged DEF Mishap, NoticeFails, FsFails, ScanFails, GitFails, GiveUp,
       GiveUpBulk, HandleGit, Finished, Tag, checkout, bulkwork
  <2> QED
    BY <2>1 DEF FabricationInv, Frame
<1>15. CASE UNCHANGED vars
  BY <1>15, QuietFabrication DEF vars, checkout, bulkwork
<1> QED
  BY <1>1, <1>2, <1>3, <1>4, <1>5, <1>6, <1>7, <1>8, <1>9, <1>10, <1>11, <1>12, <1>13,
     <1>14, <1>15, RekeyFabrication, TakeFabrication, DeleteFabrication, IngestFabrication,
     BulkFabrication DEF Next, Rest, Mishap

\* The index never says of a branch a content that the tree never had on it: an
\* ingest is stamped with the branch checked out (effective_ingest_branch), and a
\* re-key adds it only to the generation that enqueue_unchanged_files verified.
THEOREM NoFabricationThm == Spec => []NoFabrication
<1>1. FabricationInv => NoFabrication
  BY DEF FabricationInv, Truthful, NoFabrication, NothingMadeUp
<1> QED
  BY <1>1, InitFabrication, StepFabrication, PTL DEF Spec

-----------------------------------------------------------------------------
(* What is left clean and in order stays so *)

Shape ==
  /\ text \in Seq(Texts) /\ tip \in [Branches -> Commits]
  /\ head \in Branches /\ disk \in Texts /\ kept \subseteq Branches
  /\ queue = [o \in Ops |-> queue[o]]
  /\ job # NoJob => job.op \in Ops /\ queue[job.op] # None

\* What AwayKept needs: the branch is not checked out, and nothing enqueued or under
\* way can write for it
Untouched(b) ==
  /\ b # head /\ Holders(b) = {text[tip[b]]} \ {Gone}
  /\ queue["delete"] # None => queue["delete"] # b
  /\ job # NoJob /\ job.op = "delete" => job.branch # b
  /\ \A u \in bulks : u.branch # b

KeptInv == amiss = {} => \A b \in kept : Untouched(b)

LEMMA InitShape == Init => Shape
<1> SUFFICES ASSUME Init PROVE Shape
  OBVIOUS
<1>1. PICK n \in 1 .. 2 : text \in [1 .. n -> Texts]
  BY DEF Init
<1>2. text \in Seq(Texts)
  BY <1>1, SeqDef
<1>3. \A b \in Branches : text[tip[b]] \in Texts
  BY <1>2 DEF Init, Commits
<1> QED
  BY <1>2, <1>3 DEF Init, Shape

\* Enqueue keeps the row of the operation under way
LEMMA EnqueueShape ==
  ASSUME Shape, NEW op \in Ops, NEW b, NEW flags, Enqueue(op, b, flags), job' = job
  PROVE  /\ queue' = [o \in Ops |-> queue'[o]]
         /\ job' # NoJob => job'.op \in Ops /\ queue'[job'.op] # None
         /\ \/ queue'["delete"] = queue["delete"]
            \/ op = "delete" /\ queue["delete"] = None /\ queue'["delete"] = b
         /\ amiss \subseteq amiss'
  BY DEF Shape, Enqueue, Amend, Ops

LEMMA StepShape == Shape /\ [Next]_vars => Shape'
<1> SUFFICES ASSUME Shape, [Next]_vars PROVE Shape'
  OBVIOUS
<1> USE DEF checkout
<1> DEFINE Work == /\ queue' = [o \in Ops |-> queue'[o]]
                   /\ job' # NoJob => job'.op \in Ops /\ queue'[job'.op] # None
<1>0. ASSUME UNCHANGED <<text, tip, head, disk, kept>>, Work PROVE Shape'
  BY <1>0 DEF Shape, Commits
<1>a. ASSUME UNCHANGED <<queue, job>> PROVE Work
  BY <1>a DEF Shape
<1>1. ASSUME NEW c \in Texts, Edit(c) PROVE Shape'
  BY <1>1 DEF Edit, Becomes, Shape, Commits
<1>2. CASE Commit
  BY <1>2 DEF Commit, Shape, Commits
<1>3. ASSUME NEW b \in Branches, Checkout(b) PROVE Shape'
  <2>1. text[tip[b]] \in Texts
    BY DEF Shape, Commits
  <2> QED
    BY <1>3, <2>1 DEF Checkout, Becomes, Shape, Commits
<1>4. ASSUME NEW n \in Commits, Reset(n) PROVE Shape'
  BY <1>4 DEF Reset, Becomes, Shape, Commits
<1>5. CASE Notice
  BY <1>0, <1>a, <1>5 DEF Notice
<1>6. CASE HandleFs
  BY <1>0, <1>a, <1>6, EnqueueShape DEF HandleFs, Ops
<1>7. CASE AskScan
  BY <1>0, <1>a, <1>7 DEF AskScan
<1>8. CASE RunScan
  BY <1>0, <1>a, <1>8, EnqueueShape DEF RunScan, Ops
<1>9. CASE Sweep
  BY <1>0, <1>9, EnqueueShape DEF Sweep, Ops
<1>10. ASSUME NEW e, GitChanged(e) PROVE Shape'
  <2> DEFINE op == IF text[e.old] = Gone THEN "add"
                   ELSE IF text[e.new] = Gone THEN "delete" ELSE "update"
  <2>1. op \in Ops /\ Enqueue(op, e.branch, Late(e))
    BY <1>10 DEF GitChanged, Ops
  <2>2. UNCHANGED <<text, tip, head, disk, kept, job>>
    BY <1>10 DEF GitChanged, HandleGit, Enqueue
  <2> HIDE DEF op
  <2> QED
    BY <1>0, <2>1, <2>2, EnqueueShape
<1>11. ASSUME NEW e, GitUnchanged(e) PROVE Shape'
  BY <1>0, <1>a, <1>11, EnqueueShape DEF GitUnchanged, HandleGit, Ops
<1>12. ASSUME NEW e, GitIgnored(e) \/ GitReset(e) PROVE Shape'
  BY <1>0, <1>a, <1>12 DEF GitIgnored, GitReset, HandleGit
<1>13. ASSUME NEW op \in Ops, Take(op) PROVE Shape'
  BY <1>0, <1>13 DEF Take, Shape
<1>14. CASE FinishDelete \/ FinishIngest \/ GiveUp
  BY <1>0, <1>14 DEF FinishDelete, FinishIngest, GiveUp, Finished, Shape
<1>15. ASSUME NEW u, TakeBulk(u) PROVE Shape'
  BY <1>0, <1>a, <1>15 DEF TakeBulk
<1>16. CASE FinishBulk \/ GiveUpBulk
  BY <1>0, <1>a, <1>16 DEF FinishBulk, GiveUpBulk, Tag
<1>17. CASE UNCHANGED vars
  BY <1>0, <1>a, <1>17 DEF vars
<1>18. ASSUME NEW e, NoticeFails \/ FsFails \/ ScanFails \/ GitFails(e) PROVE Shape'
  BY <1>0, <1>a, <1>18 DEF NoticeFails, FsFails, ScanFails, GitFails, HandleGit
<1> QED
  BY <1>1, <1>2, <1>3, <1>4, <1>5, <1>6, <1>7, <1>8, <1>9, <1>10, <1>11, <1>12, <1>13,
     <1>14, <1>15, <1>16, <1>17, <1>18 DEF Next, Rest

\* A step on the branch that is checked out leaves the kept branches alone
LEMMA ElsewhereKept ==
  ASSUME KeptInv, UNCHANGED <<head, kept>>, amiss' = {} => amiss = {},
         \A b \in kept : b # head => text'[tip'[b]] = text[tip[b]],
         amiss' = {} =>
           /\ \A b \in kept, c \in Contents : b # head /\ Untouched(b) =>
                (b \in rows'[c] <=> b \in rows[c])
           /\ \/ queue'["delete"] = queue["delete"]
              \/ queue'["delete"] \in {head, None}
           /\ \/ UNCHANGED job
              \/ job' = NoJob
              \/ job'.op = "delete" => queue["delete"] # None /\ job'.branch = queue["delete"]
           /\ \A u \in bulks' : u \in bulks \/ u.branch = head
  PROVE  KeptInv'
<1> SUFFICES ASSUME amiss' = {}, NEW b \in kept PROVE Untouched(b)'
  BY DEF KeptInv
<1>1. Untouched(b)
  BY DEF KeptInv
<1>2. b # head'
  BY <1>1 DEF Untouched
<1>3. Holders(b)' = {text'[tip'[b]]} \ {Gone}
  <2>1. Holders(b)' = Holders(b)
    BY <1>1, <1>2 DEF Holders
  <2> QED
    BY <1>1, <1>2, <2>1 DEF Untouched
<1>4. queue'["delete"] # None => queue'["delete"] # b
  BY <1>1 DEF Untouched
<1>5. job' # NoJob /\ job'.op = "delete" => job'.branch # b
  BY <1>1 DEF Untouched
<1>6. \A u \in bulks' : u.branch # b
  BY <1>1 DEF Untouched
<1> QED
  BY <1>2, <1>3, <1>4, <1>5, <1>6 DEF Untouched

\* The branch that is left in order is kept: nothing is enqueued for it
LEMMA CheckoutKept ==
  ASSUME Shape, KeptInv, NEW b \in Branches, Checkout(b)
  PROVE  KeptInv'
<1> SUFFICES ASSUME amiss' = {}, NEW a \in kept' PROVE Untouched(a)'
  BY DEF KeptInv
<1>1. amiss = {} /\ head' = b /\ a # b /\ b # head
  BY DEF Checkout, Logged, Amend
<1>2. UNCHANGED <<text, tip, queue, job, bulks, rows>> /\ Holders(a)' = Holders(a)
  BY DEF Checkout, bulkwork, Holders
<1>3. CASE a \in kept
  BY <1>1, <1>2, <1>3 DEF KeptInv, Untouched
<1>4. CASE a \notin kept
  <2>1. a = head /\ Orderly(head) /\ disk = text[tip[head]]
    BY <1>4 DEF Checkout, Orderly
  <2>2. job = NoJob /\ bulks = {} /\ queue["delete"] = None
    BY <2>1 DEF Orderly, Settled, Shape, Ops
  <2> QED
    BY <1>1, <1>2, <2>1, <2>2 DEF Orderly, Untouched
<1> QED
  BY <1>3, <1>4

LEMMA StepKept ==
  FabricationInv /\ Shape /\ KeptInv /\ [Next]_vars => KeptInv'
<1> SUFFICES ASSUME FabricationInv, Shape, KeptInv, [Next]_vars PROVE KeptInv'
  OBVIOUS
<1> USE DEF checkout, bulkwork
<1>0. ASSUME UNCHANGED <<text, tip, head, kept, rows, job>>, amiss \subseteq amiss',
             amiss' = {} => /\ \/ queue'["delete"] = queue["delete"]
                               \/ queue'["delete"] \in {head, None}
                            /\ \A u \in bulks' : u \in bulks \/ u.branch = head
      PROVE  KeptInv'
  BY <1>0, ElsewhereKept
<1>1. ASSUME NEW c \in Texts, Edit(c) PROVE KeptInv'
  BY <1>1, <1>0 DEF Edit, Amend
<1>2. CASE Commit
  <2>1. \A b \in kept : b # head => text'[tip'[b]] = text[tip[b]]
    BY <1>2 DEF Commit, Shape, Commits
  <2>2. UNCHANGED <<head, kept, queue, job, bulks, rows>> /\ amiss \subseteq amiss'
    BY <1>2 DEF Commit, Logged, Amend
  <2> QED
    BY <2>1, <2>2, ElsewhereKept
<1>3. ASSUME NEW n \in Commits, Reset(n) PROVE KeptInv'
  <2>1. \A b \in kept : b # head => text'[tip'[b]] = text[tip[b]]
    BY <1>3 DEF Reset, Shape
  <2>2. UNCHANGED <<head, kept, queue, job, bulks, rows>> /\ amiss \subseteq amiss'
    BY <1>3 DEF Reset, Logged, Amend
  <2> QED
    BY <2>1, <2>2, ElsewhereKept
<1>4. CASE Notice
  BY <1>0, <1>4 DEF Notice
<1>5. CASE HandleFs
  BY <1>0, <1>5, EnqueueShape DEF HandleFs, Ops
<1>6. CASE AskScan
  BY <1>0, <1>6 DEF AskScan
<1>7. CASE RunScan
  BY <1>0, <1>7, EnqueueShape DEF RunScan, Ops
<1>8. CASE Sweep
  BY <1>0, <1>8, EnqueueShape DEF Sweep, Ops
<1>9. ASSUME NEW e, GitChanged(e) PROVE KeptInv'
  <2> DEFINE op == IF text[e.old] = Gone THEN "add"
                   ELSE IF text[e.new] = Gone THEN "delete" ELSE "update"
  <2>1. op \in Ops /\ Enqueue(op, e.branch, Late(e))
    BY <1>9 DEF GitChanged, Ops
  <2>2. UNCHANGED <<text, tip, head, kept, rows, job, bulks>>
    BY <1>9 DEF GitChanged, HandleGit
  <2>3. amiss' = {} => e.branch = head
    BY <2>1 DEF Enqueue, Amend, Late, If
  <2> HIDE DEF op
  <2> QED
    BY <1>0, <2>1, <2>2, <2>3, EnqueueShape
<1>10. ASSUME NEW e, GitUnchanged(e) PROVE KeptInv'
  <2>1. amiss \subseteq amiss' /\ (amiss' = {} => e.branch = head)
    BY <1>10 DEF GitUnchanged, Enqueue, Amend, Late, If
  <2>2. queue'["delete"] = queue["delete"]
    <3>1. \/ UNCHANGED queue
          \/ queue' = IF queue["add"] = None THEN [queue EXCEPT !["add"] = e.branch] ELSE queue
      BY <1>10 DEF GitUnchanged, Enqueue
    <3> QED
      BY <3>1 DEF Shape, Ops
  <2>3. \A u \in bulks' : u \in bulks \/ u.branch = e.branch
    BY <1>10 DEF GitUnchanged, Rekey
  <2>4. UNCHANGED <<text, tip, head, kept, rows, job>>
    BY <1>10 DEF GitUnchanged, HandleGit
  <2> QED
    BY <1>0, <2>1, <2>2, <2>3, <2>4
<1>11. ASSUME NEW e, GitIgnored(e) \/ GitReset(e) PROVE KeptInv'
  BY <1>0, <1>11 DEF GitIgnored, GitReset, HandleGit, Amend
<1>12. ASSUME NEW op \in Ops, Take(op) PROVE KeptInv'
  <2>1. job'.op = "delete" => queue["delete"] # None /\ job'.branch = queue["delete"]
    BY <1>12 DEF Take
  <2> QED
    BY <1>12, <2>1, ElsewhereKept DEF Take
<1>13. CASE FinishDelete
  <2>1. \A b \in kept, c \in Contents : Untouched(b) => (b \in rows'[c] <=> b \in rows[c])
    BY <1>13 DEF FinishDelete, Finished, Strip, Untouched
  <2>2. queue'["delete"] = None
    BY <1>13 DEF FinishDelete, Finished, Shape, Ops
  <2> QED
    BY <1>13, <2>1, <2>2, ElsewhereKept DEF FinishDelete, Finished
<1>14. CASE FinishIngest
  <2>1. amiss = {} => job.branch = head
    BY <1>14 DEF FinishIngest, Finished, FabricationInv, Truthful, Ingesting
  <2>2. ASSUME amiss = {}, NEW b \in kept, NEW c \in Contents, b # head
        PROVE  b \in rows'[c] <=> b \in rows[c]
    <3>1. PICK held : rows' = IF held = job.text THEN rows
                              ELSE [a \in Contents |-> IF a = job.text
                                                       THEN rows[a] \cup {head}
                                                       ELSE Strip(held, head)[a]]
      BY <1>14, <2>1, <2>2 DEF FinishIngest
    <3>2. CASE held = job.text
      BY <3>1, <3>2
    <3>3. CASE held # job.text
      <4>1. rows'[c] = IF c = job.text THEN rows[c] \cup {head}
                       ELSE IF c = held THEN rows[c] \ {head} ELSE rows[c]
        BY <3>1, <3>3 DEF Strip
      <4> QED
        BY <2>2, <4>1
    <3> QED
      BY <3>2, <3>3
  <2>3. queue'["delete"] = queue["delete"] /\ job' = NoJob
    BY <1>14 DEF FinishIngest, Finished, Shape
  <2>4. UNCHANGED <<text, tip, head, kept, bulks, amiss>>
    BY <1>14 DEF FinishIngest, Finished
  <2> QED
    BY <2>2, <2>3, <2>4, ElsewhereKept
<1>15. ASSUME NEW u, TakeBulk(u) PROVE KeptInv'
  BY <1>0, <1>15 DEF TakeBulk
<1>16. CASE FinishBulk
  <2>1. \A b \in kept, c \in Contents : Untouched(b) => (b \in rows'[c] <=> b \in rows[c])
    <3>1. bulk.key \in bulks
      BY <1>16 DEF FinishBulk, Tag, FabricationInv, Frame
    <3>2. \A b \in kept : Untouched(b) => b # bulk.key.branch
      BY <3>1 DEF Untouched
    <3> QED
      BY <1>16, <3>2 DEF FinishBulk, Tag
  <2>2. amiss \subseteq amiss' /\ bulks' \subseteq bulks
        /\ UNCHANGED <<text, tip, head, kept, queue, job>>
    BY <1>16 DEF FinishBulk, Tag, Amend
  <2> QED
    BY <2>1, <2>2, ElsewhereKept
<1>17. CASE UNCHANGED vars
  BY <1>0, <1>17 DEF vars
<1>18. ASSUME NEW e, Mishap(e) PROVE KeptInv'
  BY <1>18, MishapFlagged DEF KeptInv
<1> QED
  BY <1>1, <1>2, <1>3, <1>4, <1>5, <1>6, <1>7, <1>8, <1>9, <1>10, <1>11, <1>12, <1>13,
     <1>14, <1>15, <1>16, <1>17, <1>18, CheckoutKept DEF Next, Rest, Mishap

\* A branch that was left clean and in order stays indexed with its own commit: an
\* ingest follows HEAD, a delete carries the branch it was enqueued for, and a re-key
\* writes only for the branch of its event.
THEOREM AwayKeptThm == Spec => []AwayKept
<1>1. Init => KeptInv
  BY DEF Init, KeptInv
<1>2. KeptInv => AwayKept
  BY DEF KeptInv, Untouched, AwayKept
<1> QED
  BY <1>1, <1>2, InitFabrication, StepFabrication, InitShape, StepShape, StepKept, PTL
     DEF Spec

-----------------------------------------------------------------------------
(* Types *)

\* An entry that has not been read is one: the git watcher sends no empty event
GitTypes ==
  /\ reflog \in Entry \cup {NoEntry} /\ noticed \in BOOLEAN
  /\ ~noticed => reflog \in Entry
  /\ sent \in [old : Nat, new : Nat, branch : Branches]
  /\ gitq \in Seq(Event)

EdgeTypes ==
  /\ event \in Kinds \cup {None} /\ scan \in Branches \cup {None}
  /\ moves \in Nat /\ scans \in Nat
  /\ had \in [Branches -> SUBSET Texts] /\ amiss \subseteq Amiss

WorkTypes ==
  /\ queue \in [Ops -> Branches \cup {None}] /\ job \in Job \cup {NoJob}
  /\ bulks \subseteq Bulk /\ bulk \in InHand \cup {NoBulk}
  /\ rows \in [Contents -> SUBSET Branches]

Known == FabricationInv /\ Shape
TypesInv == GitTypes /\ EdgeTypes /\ WorkTypes

LEMMA KnownHolds == (Init => Known) /\ (Known /\ [Next]_vars => Known')
  BY InitFabrication, StepFabrication, InitShape, StepShape DEF Known

LEMMA InitTypes == Init => TypesInv
<1> SUFFICES ASSUME Init PROVE TypesInv
  OBVIOUS
<1>1. Shape
  BY InitShape
<1>2. GitTypes
  BY DEF Init, GitTypes
<1>3. EdgeTypes
  BY <1>1 DEF Init, EdgeTypes, Shape, Kinds, Amiss
<1>4. WorkTypes
  BY DEF Init, WorkTypes, Ops
<1> QED
  BY <1>2, <1>3, <1>4 DEF TypesInv

\* No commit is forgotten
LEMMA GitStays ==
  ASSUME GitTypes, text \in Seq(Texts), Len(text') >= Len(text), Len(text') \in Nat,
         UNCHANGED <<sent, gitq>>,
         \/ UNCHANGED <<reflog, noticed>>
         \/ reflog' \in Entry' /\ noticed' = FALSE
  PROVE  GitTypes'
<1>1. Commits \subseteq Commits'
  BY DEF Commits
<1>2. Entry \subseteq Entry' /\ Event \subseteq Event'
  BY <1>1 DEF Entry, Event
<1>3. gitq' \in Seq(Event')
  BY <1>2 DEF GitTypes
<1> QED
  BY <1>2, <1>3 DEF GitTypes

LEMMA EnqueueTypes ==
  ASSUME EdgeTypes, WorkTypes, NEW op \in Ops, NEW b \in Branches,
         NEW flags \in SUBSET Amiss, Enqueue(op, b, flags)
  PROVE  queue' \in [Ops -> Branches \cup {None}] /\ amiss' \subseteq Amiss
<1>1. "label" \in Amiss
  BY DEF Amiss
<1>2. amiss' \subseteq Amiss
  BY <1>1 DEF Enqueue, Amend, If, EdgeTypes
<1>3. queue' \in [Ops -> Branches \cup {None}]
  BY DEF Enqueue, WorkTypes
<1> QED
  BY <1>2, <1>3

\* A move of the tree: an entry is logged, the rest is as it was
LEMMA MoveTypes ==
  ASSUME Known, TypesInv, \/ \E c \in Texts : Edit(c)
                          \/ Commit
                          \/ \E b \in Branches : Checkout(b)
                          \/ \E n \in Commits : Reset(n)
  PROVE  TypesInv'
<1> USE DEF Known, TypesInv
<1>1. tip[head] \in Commits /\ head \in Branches /\ disk \in Texts
      /\ text \in Seq(Texts) /\ tip \in [Branches -> Commits]
  BY DEF Shape
<1>2. Len(text) \in Nat
  BY <1>1
<1>3. WorkTypes'
  BY DEF WorkTypes, Edit, Commit, Checkout, Reset, bulkwork
<1>4. GitTypes'
  <2>1. CASE \E c \in Texts : Edit(c)
    BY <1>1, <1>2, <2>1, GitStays DEF Edit, git
  <2>2. CASE Commit
    <3>1. Len(text') = Len(text) + 1
      BY <1>1, <2>2 DEF Commit
    <3>2. reflog' \in Entry' /\ noticed' = FALSE /\ UNCHANGED <<sent, gitq>>
      BY <1>1, <1>2, <2>2, <3>1 DEF Commit, Logged, Entry, Commits
    <3>3. Len(text') >= Len(text) /\ Len(text') \in Nat
      BY <1>2, <3>1
    <3> QED
      BY <1>1, <3>2, <3>3, GitStays
  <2>3. CASE \E b \in Branches : Checkout(b)
    <3>1. reflog' \in Entry' /\ noticed' = FALSE /\ UNCHANGED <<sent, gitq, text>>
      BY <1>1, <2>3 DEF Checkout, Logged, Entry, Commits
    <3>2. Len(text') >= Len(text) /\ Len(text') \in Nat
      BY <1>2, <3>1
    <3> QED
      BY <1>1, <3>1, <3>2, GitStays
  <2>4. CASE \E n \in Commits : Reset(n)
    <3>1. reflog' \in Entry' /\ noticed' = FALSE /\ UNCHANGED <<sent, gitq, text>>
      BY <1>1, <2>4 DEF Reset, Logged, Entry, Commits
    <3>2. Len(text') >= Len(text) /\ Len(text') \in Nat
      BY <1>2, <3>1
    <3> QED
      BY <1>1, <3>1, <3>2, GitStays
  <2> QED
    BY <2>1, <2>2, <2>3, <2>4
<1>5. EdgeTypes'
  <2>1. \A n \in Commits : text[n] \in Texts
    BY <1>1 DEF Commits
  <2>2. ASSUME NEW b \in Branches, NEW c \in Texts, had' = [had EXCEPT ![b] = @ \cup {c}]
        PROVE  had' \in [Branches -> SUBSET Texts]
    BY <2>2 DEF EdgeTypes
  <2>3. CASE \E c \in Texts : Edit(c)
    <3>1. PICK c \in Texts : Edit(c)
      BY <2>3
    <3>2. had' \in [Branches -> SUBSET Texts]
      BY <1>1, <2>2, <3>1 DEF Edit
    <3>3. amiss' \subseteq Amiss
      BY <3>1 DEF Edit, Amend, Raced, If, EdgeTypes, Amiss
    <3> QED
      BY <3>1, <3>2, <3>3 DEF Edit, Move, Becomes, EdgeTypes, Kinds
  <2>4. CASE Commit
    BY <2>4 DEF Commit, Move, Logged, Amend, If, EdgeTypes, Amiss
  <2>5. CASE \E b \in Branches : Checkout(b)
    <3>1. PICK b \in Branches : Checkout(b)
      BY <2>5
    <3>2. PICK c : c = IF disk = text[tip[head]] THEN text[tip[b]] ELSE disk
      OBVIOUS
    <3>3. c \in Texts
      BY <1>1, <2>1, <3>2
    <3>4. had' \in [Branches -> SUBSET Texts]
      BY <2>2, <3>1, <3>2, <3>3 DEF Checkout
    <3>5. amiss' \subseteq Amiss
      BY <3>1 DEF Checkout, Logged, Amend, If, EdgeTypes, Amiss
    <3>6. event' \in Kinds \cup {None}
      BY <3>1, <3>2 DEF Checkout, Becomes, EdgeTypes, Kinds
    <3> QED
      BY <3>1, <3>4, <3>5, <3>6 DEF Checkout, Move, EdgeTypes
  <2>6. CASE \E n \in Commits : Reset(n)
    <3>1. PICK n \in Commits : Reset(n)
      BY <2>6
    <3>2. had' \in [Branches -> SUBSET Texts]
      BY <1>1, <2>1, <2>2, <3>1 DEF Reset
    <3>3. amiss' \subseteq Amiss
      BY <3>1 DEF Reset, Logged, Amend, Raced, If, EdgeTypes, Amiss
    <3> QED
      BY <3>1, <3>2, <3>3 DEF Reset, Becomes, Move, EdgeTypes, Kinds
  <2> QED
    BY <2>3, <2>4, <2>5, <2>6
<1> QED
  BY <1>3, <1>4, <1>5

\* A handler takes the event from the head of the queue
LEMMA HandledTypes ==
  ASSUME Known, TypesInv, NEW e \in {gitq[n] : n \in 1 .. Len(gitq)}, HandleGit(e)
  PROVE  e \in Event /\ GitTypes'
<1> USE DEF Known, TypesInv
<1>1. gitq \in Seq(Event) /\ gitq # <<>>
  BY DEF GitTypes, HandleGit
<1>2. e \in Event /\ Tail(gitq) \in Seq(Event)
  BY <1>1
<1>3. UNCHANGED <<text, reflog, noticed, sent>> /\ gitq' = Tail(gitq)
  BY DEF HandleGit, checkout
<1>4. Entry' = Entry /\ Event' = Event
  BY <1>3 DEF Entry, Event, Commits
<1> QED
  BY <1>2, <1>3, <1>4 DEF GitTypes

LEMMA EventTypes ==
  ASSUME Known, TypesInv, NEW e \in {gitq[n] : n \in 1 .. Len(gitq)},
         GitChanged(e) \/ GitUnchanged(e) \/ GitIgnored(e) \/ GitReset(e) \/ GitFails(e)
  PROVE  TypesInv'
<1> USE DEF Known, TypesInv
<1>1. HandleGit(e)
  BY DEF GitChanged, GitUnchanged, GitIgnored, GitReset, GitFails
<1>2. e \in Event /\ GitTypes'
  BY <1>1, HandledTypes
<1>3. e.branch \in Branches /\ e.from \in Branches
  BY <1>2 DEF Event
<1>4. Late(e) \subseteq Amiss /\ Passed(e) \subseteq Amiss /\ Waiting(e) \subseteq Amiss
      /\ \A p : If(p, "absorbed") \subseteq Amiss
  BY DEF Late, Passed, Waiting, If, Amiss
<1>5. UNCHANGED <<event, moves, scans, had, job, bulk, rows>>
  BY <1>1 DEF HandleGit, bounds, checkout
<1>6. CASE GitChanged(e)
  <2> DEFINE op == IF text[e.old] = Gone THEN "add"
                   ELSE IF text[e.new] = Gone THEN "delete" ELSE "update"
  <2>1. op \in Ops /\ Enqueue(op, e.branch, Late(e)) /\ UNCHANGED <<bulks, scan>>
    BY <1>6 DEF GitChanged, Ops
  <2> HIDE DEF op
  <2>2. queue' \in [Ops -> Branches \cup {None}] /\ amiss' \subseteq Amiss
    BY <1>3, <1>4, <2>1, EnqueueTypes
  <2> QED
    BY <1>2, <1>5, <2>1, <2>2 DEF EdgeTypes, WorkTypes
<1>7. CASE GitUnchanged(e)
  <2>1. bulks' \subseteq Bulk
    <3>1. CASE UNCHANGED bulks
      BY <3>1 DEF WorkTypes
    <3>2. CASE Rekey(e)
      <4>1. Shared(e) \subseteq Contents
        BY DEF Shared, Holders
      <4>2. [branch |-> e.branch, from |-> e.from, seen |-> Shared(e)] \in Bulk
        BY <1>3, <4>1 DEF Bulk
      <4> QED
        BY <3>2, <4>2 DEF Rekey, WorkTypes
    <3> QED
      BY <1>7, <3>1, <3>2 DEF GitUnchanged
  <2>2. queue' \in [Ops -> Branches \cup {None}] /\ amiss' \subseteq Amiss
    <3>1. CASE Enqueue("add", e.branch, Late(e))
      BY <1>3, <1>4, <3>1, EnqueueTypes DEF Ops
    <3>2. CASE ~Enqueue("add", e.branch, Late(e))
      BY <1>4, <1>7, <3>2 DEF GitUnchanged, Amend, EdgeTypes, WorkTypes
    <3> QED
      BY <3>1, <3>2
  <2>3. UNCHANGED scan
    BY <1>7 DEF GitUnchanged
  <2> QED
    BY <1>2, <1>5, <2>1, <2>2, <2>3 DEF EdgeTypes, WorkTypes
<1>8. CASE GitIgnored(e)
  BY <1>2, <1>4, <1>5, <1>8 DEF GitIgnored, Amend, EdgeTypes, WorkTypes
<1>9. CASE GitReset(e)
  <2>1. scan' \in Branches \cup {None}
    BY <1>9 DEF GitReset, Scan, EdgeTypes, Shape
  <2> QED
    BY <1>2, <1>4, <1>5, <1>9, <2>1 DEF GitReset, Amend, EdgeTypes, WorkTypes
<1>10. CASE GitFails(e)
  BY <1>2, <1>5, <1>10 DEF GitFails, Amend, EdgeTypes, WorkTypes, Amiss
<1> QED
  BY <1>6, <1>7, <1>8, <1>9, <1>10

LEMMA StepTypes == Known /\ TypesInv /\ [Next]_vars => TypesInv'
<1> SUFFICES ASSUME Known, TypesInv, [Next]_vars PROVE TypesInv'
  OBVIOUS
<1> USE DEF Known, TypesInv, checkout, git, bulkwork, bounds
<1>a. ASSUME UNCHANGED <<text, git>> PROVE GitTypes'
  BY <1>a DEF GitTypes, Entry, Event, Commits
<1>b. {} \in SUBSET Amiss /\ head \in Branches /\ disk \in Texts
  BY DEF Shape
<1>1. CASE Notice
  <2>1. reflog \in Entry /\ reflog.old \in Nat /\ reflog.new \in Nat
    BY <1>1 DEF Notice, GitTypes, Entry, Commits
  <2>2. [kind |-> reflog.kind, from |-> reflog.from, old |-> reflog.old,
         new |-> reflog.new, branch |-> head] \in Event
    BY <1>b, <2>1 DEF Entry, Event
  <2>3. gitq' \in Seq(Event)
    BY <1>1, <2>2 DEF Notice, GitTypes
  <2>4. Event' = Event /\ Entry' = Entry
    BY <1>1 DEF Notice, Event, Entry, Commits
  <2>5. GitTypes'
    BY <1>1, <1>b, <2>1, <2>3, <2>4 DEF Notice, GitTypes
  <2> QED
    BY <1>1, <2>5 DEF Notice, EdgeTypes, WorkTypes
<1>2. CASE HandleFs
  <2>1. queue' \in [Ops -> Branches \cup {None}] /\ amiss' \subseteq Amiss
    <3>1. CASE UNCHANGED <<queue, amiss>>
      BY <3>1 DEF EdgeTypes, WorkTypes
    <3>2. CASE \E op \in Ops : Enqueue(op, head, {})
      BY <1>b, <3>2, EnqueueTypes
    <3> QED
      BY <1>2, <3>1, <3>2 DEF HandleFs, Ops
  <2> QED
    BY <1>2, <1>a, <2>1 DEF HandleFs, EdgeTypes, WorkTypes
<1>3. CASE AskScan
  BY <1>3, <1>a, <1>b DEF AskScan, Scan, EdgeTypes, WorkTypes
<1>4. CASE RunScan
  <2>1. queue' \in [Ops -> Branches \cup {None}] /\ amiss' \subseteq Amiss
    <3>1. scan \in Branches
      BY <1>4 DEF RunScan, EdgeTypes
    <3> QED
      BY <1>4, <1>b, <3>1, EnqueueTypes DEF RunScan, EdgeTypes, WorkTypes, Ops
  <2> QED
    BY <1>4, <1>a, <2>1 DEF RunScan, EdgeTypes, WorkTypes
<1>5. CASE Sweep
  <2>1. queue' \in [Ops -> Branches \cup {None}] /\ amiss' \subseteq Amiss
    BY <1>5, <1>b, EnqueueTypes DEF Sweep, Ops
  <2> QED
    BY <1>5, <1>a, <2>1 DEF Sweep, EdgeTypes, WorkTypes
<1>6. ASSUME NEW op \in Ops, Take(op) PROVE TypesInv'
  <2>1. job' \in Job
    BY <1>6, <1>b DEF Take, Job, WorkTypes
  <2> QED
    BY <1>6, <1>a, <2>1 DEF Take, EdgeTypes, WorkTypes
<1>c. ASSUME Finished, rows' \in [Contents -> SUBSET Branches], amiss' \subseteq Amiss
      PROVE  TypesInv'
  <2>1. queue' \in [Ops -> Branches \cup {None}] /\ job' = NoJob
    BY <1>c DEF Finished, WorkTypes
  <2> QED
    BY <1>c, <1>a, <2>1 DEF Finished, EdgeTypes, WorkTypes
<1>7. CASE FinishDelete \/ FinishIngest \/ GiveUp
  <2>1. Finished /\ amiss' \subseteq Amiss
    BY <1>7 DEF FinishDelete, FinishIngest, GiveUp, EdgeTypes, Amend, Amiss
  <2>2. job.branch \in Branches
    BY <2>1 DEF Finished, WorkTypes, Job
  <2>3. rows' \in [Contents -> SUBSET Branches]
    BY <1>7, <2>2 DEF FinishDelete, FinishIngest, GiveUp, Strip, WorkTypes
  <2> QED
    BY <1>c, <2>1, <2>3
<1>8. CASE NoticeFails \/ FsFails \/ ScanFails
  <2>1. amiss' \subseteq Amiss
    BY <1>8 DEF NoticeFails, FsFails, ScanFails, Amend, EdgeTypes, Amiss
  <2>2. GitTypes'
    BY <1>8, <1>a DEF NoticeFails, FsFails, ScanFails, GitTypes, Entry, Event, Commits
  <2> QED
    BY <1>8, <2>1, <2>2 DEF NoticeFails, FsFails, ScanFails, EdgeTypes, WorkTypes
<1>9. ASSUME NEW u \in bulks, TakeBulk(u) PROVE TypesInv'
  <2>1. bulk' \in InHand
    BY <1>9 DEF TakeBulk, InHand, Holders, WorkTypes
  <2> QED
    BY <1>9, <1>a, <2>1 DEF TakeBulk, EdgeTypes, WorkTypes
<1>10. CASE FinishBulk \/ GiveUpBulk
  <2>1. PICK tags, flags : Tag(tags, flags) /\ flags \subseteq Amiss
    BY <1>10 DEF FinishBulk, GiveUpBulk, If, Amiss
  <2>2. bulk.key.branch \in Branches
    BY <2>1 DEF Tag, WorkTypes, InHand, Bulk
  <2>3. rows' \in [Contents -> SUBSET Branches]
    BY <2>1, <2>2 DEF Tag, WorkTypes
  <2>4. amiss' \subseteq Amiss
    BY <2>1 DEF Tag, Amend, EdgeTypes
  <2> QED
    BY <2>1, <1>a, <2>3, <2>4 DEF Tag, EdgeTypes, WorkTypes
<1>11. CASE UNCHANGED vars
  BY <1>11, <1>a DEF vars, EdgeTypes, WorkTypes
<1> QED
  BY <1>1, <1>2, <1>3, <1>4, <1>5, <1>6, <1>7, <1>8, <1>9, <1>10, <1>11, MoveTypes,
     EventTypes DEF Next, Rest

\* The types of BranchSwitch hold, also once something went wrong: a handler's row
\* stays in the queue until it is done, and a re-key in hand stays enqueued although
\* the payload of a later one of the same branches replaces it.
THEOREM SwitchTypes == Spec => []TypeOK
<1>1. Known /\ TypesInv => TypeOK
  BY DEF Known, TypesInv, FabricationInv, Frame, Shape, GitTypes, EdgeTypes, WorkTypes,
         TypeOK
<1> QED
  BY <1>1, KnownHolds, InitTypes, StepTypes, PTL DEF Spec

-----------------------------------------------------------------------------
(* The index follows the tree *)

\* A branch has the file's generation, or a re-key that will tag it is enqueued
Promised(b) ==
  \/ disk \in Holders(b)
  \/ \E u \in bulks : /\ u.branch = b /\ disk \in Holders(u.from)
                      /\ bulk # NoBulk => (bulk.key = u => disk \in bulk.found)

\* A checkout that leaves the file alone
Coming(e) == e.kind = "switch" /\ ~Changed(e) /\ Promised(e.from)

\* What will have the file indexed: its event, an ingest, or the checkout that is not
\* handled yet.  An event of another branch will be handled too late.
Awaited ==
  \/ event \in {"create", "modify"}
  \/ queue["add"] # None \/ queue["update"] # None
  \/ ~noticed /\ Coming(reflog)
  \/ \E n \in 1 .. Len(gitq) : Coming(gitq[n]) \/ gitq[n].branch # head

\* HEAD is on another branch than the git watcher knows of
Leaving == ~noticed /\ reflog.kind = "switch"

Ordered ==
  /\ event = "remove" => disk = Gone
  /\ Leaving <=> sent.branch # head
  /\ gitq # <<>> /\ ~Leaving => gitq[Len(gitq)].branch = head

FollowInv ==
  amiss = {} => Ordered /\ (disk # Gone => Promised(head) \/ Awaited)

LEMMA InitFollow == Init => FollowInv
<1> SUFFICES ASSUME Init PROVE FollowInv
  OBVIOUS
<1>1. Ordered
  BY DEF Init, Ordered, Leaving, NoEntry, None, Kinds
<1>2. disk \in Texts
  BY InitShape DEF Shape
<1>3. disk # Gone => disk \in Holders(head)
  BY <1>2 DEF Init, Holders, Texts
<1> QED
  BY <1>1, <1>3 DEF FollowInv, Promised

\* What is awaited stays so while HEAD, the tree, the events and the items do
LEMMA AwaitedStands ==
  ASSUME Awaited, UNCHANGED <<text, head, event, noticed, reflog, gitq>>,
         \A op \in Ops : queue[op] # None => queue'[op] # None,
         \A b : Promised(b) => Promised(b)'
  PROVE  Awaited'
<1>1. \A e : Changed(e)' <=> Changed(e)
  BY DEF Changed
<1>2. \A e : Coming(e) => Coming(e)'
  BY <1>1 DEF Coming
<1> QED
  BY <1>2 DEF Awaited, Ops

\* A step beside HEAD, the tree and the events
LEMMA BesideFollow ==
  ASSUME FollowInv, UNCHANGED <<text, head, disk, event, git>>, amiss \subseteq amiss',
         disk # Gone /\ amiss' = {} =>
           \/ /\ \A op \in Ops : queue[op] # None => queue'[op] # None
              /\ \A b : Promised(b) => Promised(b)'
           \/ Promised(head)' \/ Awaited'
  PROVE  FollowInv'
<1> USE DEF git
<1> SUFFICES ASSUME amiss' = {} PROVE Ordered' /\ (disk # Gone => Promised(head)' \/ Awaited')
  BY DEF FollowInv
<1>1. Ordered /\ (disk # Gone => Promised(head) \/ Awaited)
  BY DEF FollowInv
<1>2. Ordered'
  BY <1>1 DEF Ordered, Leaving
<1>3. ASSUME disk # Gone PROVE Promised(head)' \/ Awaited'
  BY <1>1, <1>3, AwaitedStands
<1> QED
  BY <1>2, <1>3

\* An enqueue takes no row away
LEMMA EnqueueKeeps ==
  ASSUME TypesInv, NEW op \in Ops, NEW b, NEW flags, Enqueue(op, b, flags)
  PROVE  /\ \A o \in Ops : queue[o] # None => queue'[o] # None
         /\ op # "delete" /\ b # None => queue'[op] # None
         /\ amiss' = {} => amiss = {} /\ flags = {}
         /\ amiss \subseteq amiss'
  BY DEF Enqueue, Amend, TypesInv, WorkTypes

\* A re-key in hand is of what it found, and what it found is still there
LEMMA BulkFollow ==
  ASSUME Known, TypesInv, FollowInv, FinishBulk
  PROVE  FollowInv'
<1> USE DEF checkout, git, Tag
<1>1. UNCHANGED <<text, head, disk, event, git, queue>> /\ amiss \subseteq amiss'
  BY DEF FinishBulk, Amend
<1>2. bulks' = bulks \ {bulk.key} /\ bulk' = NoBulk /\ bulk # NoBulk /\ bulk.key \in bulks
  BY DEF FinishBulk, Known, FabricationInv, Frame
<1> DEFINE tags == Tagged
<1>3. \A c \in Contents :
        rows'[c] = IF c \in tags THEN rows[c] \cup {bulk.key.branch} ELSE rows[c]
  BY DEF FinishBulk
<1>4. \A b : Holders(b) \subseteq Holders(b)'
  BY <1>3 DEF Holders
<1>5. ASSUME NEW b, Promised(b) PROVE Promised(b)'
  <2>1. CASE disk \in Holders(b)
    BY <1>1, <1>4, <2>1 DEF Promised
  <2>2. CASE \E u \in bulks : /\ u.branch = b /\ disk \in Holders(u.from)
                              /\ bulk # NoBulk => (bulk.key = u => disk \in bulk.found)
    <3>1. PICK u \in bulks : /\ u.branch = b /\ disk \in Holders(u.from)
                             /\ bulk # NoBulk => (bulk.key = u => disk \in bulk.found)
      BY <2>2
    <3>2. CASE bulk.key = u
      <4>1. disk \in tags /\ disk \in Contents
        BY <1>2, <3>1, <3>2 DEF Holders, Tagged
      <4>2. b \in rows'[disk]
        BY <1>3, <3>1, <3>2, <4>1
      <4> QED
        BY <1>1, <4>1, <4>2 DEF Promised, Holders
    <3>3. CASE bulk.key # u
      BY <1>1, <1>2, <1>4, <3>1, <3>3 DEF Promised
    <3> QED
      BY <3>2, <3>3
  <2> QED
    BY <1>5, <2>1, <2>2 DEF Promised
<1> QED
  BY <1>1, <1>5, BesideFollow

LEMMA TakeBulkFollow ==
  ASSUME Known, TypesInv, FollowInv, NEW u \in bulks, TakeBulk(u)
  PROVE  FollowInv'
<1> USE DEF checkout, git
<1>1. UNCHANGED <<text, head, disk, event, git, queue, amiss, bulks, rows>>
  BY DEF TakeBulk
<1>2. \A b : Holders(b)' = Holders(b)
  BY <1>1 DEF Holders
<1>3. ASSUME NEW b, Promised(b) PROVE Promised(b)'
  <2>1. CASE disk \in Holders(b)
    BY <1>1, <1>2, <2>1 DEF Promised
  <2>2. CASE disk \notin Holders(b)
    <3>1. PICK v \in bulks : v.branch = b /\ disk \in Holders(v.from)
      BY <1>3, <2>2 DEF Promised
    <3>2. bulk'.key = v => disk \in bulk'.found
      BY <2>2, <3>1 DEF TakeBulk, Holders
    <3> QED
      BY <1>1, <1>2, <3>1, <3>2 DEF Promised
  <2> QED
    BY <2>1, <2>2
<1> QED
  BY <1>1, <1>3, BesideFollow

\* An ingest ends with the branch in the file's generation
LEMMA IngestFollow ==
  ASSUME Known, TypesInv, FollowInv, FinishIngest
  PROVE  FollowInv'
<1> USE DEF checkout, git, Finished
<1>1. UNCHANGED <<text, head, disk, event, git, amiss>>
  BY DEF FinishIngest
<1>2. ASSUME disk # Gone, amiss = {} PROVE Promised(head)'
  <2>1. job.branch = head /\ job.text = disk /\ disk \in Contents
    BY <1>2 DEF FinishIngest, Known, FabricationInv, Truthful, Shape, Texts, Ingesting
  <2>2. PICK held \in Found(head) :
          rows' = IF held = disk THEN rows
                  ELSE [c \in Contents |-> IF c = disk THEN rows[c] \cup {head}
                                           ELSE Strip(held, head)[c]]
    BY <2>1 DEF FinishIngest
  <2>3. head \in rows'[disk]
    <3>1. CASE held = disk
      BY <1>2, <2>2, <3>1 DEF Holders, Found
    <3>2. CASE held # disk
      BY <2>1, <2>2, <3>2
    <3> QED
      BY <3>1, <3>2
  <2> QED
    BY <1>1, <2>1, <2>3 DEF Promised, Holders
<1> QED
  BY <1>1, <1>2, BesideFollow

\* A change of the tree leaves an event
LEMMA EventFollows ==
  ASSUME NEW c, Becomes(c), disk' # Gone, disk' # disk
  PROVE  event' \in {"create", "modify"}
  BY DEF Becomes

\* A move that keeps HEAD, and whose entry is the only one not read
LEMMA StayFollow ==
  ASSUME Known, TypesInv, FollowInv, NEW c, Becomes(c), amiss \subseteq amiss',
         UNCHANGED <<head, sent, gitq, queue, bulks, bulk, rows>>,
         \A n \in 1 .. Len(text) : text'[n] = text[n],
         amiss' = {} => \/ UNCHANGED <<noticed, reflog>>
                        \/ noticed /\ reflog'.kind # "switch"
  PROVE  FollowInv'
<1> SUFFICES ASSUME amiss' = {}
             PROVE  Ordered' /\ (disk' # Gone => Promised(head)' \/ Awaited')
  BY DEF FollowInv
<1>1. Ordered /\ (disk # Gone => Promised(head) \/ Awaited)
  BY DEF FollowInv
<1>2. Leaving' <=> Leaving
  BY DEF Leaving
<1>3. Ordered'
  <2>1. event' = "remove" => disk' = Gone
    BY <1>1 DEF Becomes, Ordered
  <2> QED
    BY <1>1, <1>2, <2>1 DEF Ordered
<1>4. ASSUME disk' # Gone PROVE Promised(head)' \/ Awaited'
  <2>1. CASE disk' # disk
    BY <1>4, <2>1, EventFollows DEF Awaited
  <2>2. CASE disk' = disk
    <3>1. event' = event
      BY <2>2 DEF Becomes
    <3>2. \A b : Promised(b)' <=> Promised(b)
      BY <2>2 DEF Promised, Holders
    <3>3. \A e : e.old \in Commits /\ e.new \in Commits => (Coming(e)' <=> Coming(e))
      BY <3>2 DEF Coming, Changed, Commits
    <3>4. ~noticed => reflog \in Entry
      BY DEF TypesInv, GitTypes
    <3>5. \A n \in 1 .. Len(gitq) : gitq[n] \in Event
      BY DEF TypesInv, GitTypes
    <3>6. ~noticed /\ Coming(reflog) => ~noticed' /\ Coming(reflog)'
      BY <3>3, <3>4 DEF Entry
    <3>7. \A n \in 1 .. Len(gitq) : Coming(gitq[n]) => Coming(gitq[n])'
      BY <3>3, <3>5 DEF Event
    <3> QED
      BY <1>1, <1>4, <2>2, <3>1, <3>2, <3>6, <3>7 DEF Awaited
  <2> QED
    BY <2>1, <2>2
<1> QED
  BY <1>3, <1>4

\* A checkout that leaves the file alone takes the promise along; one that comes
\* before an earlier event was handled will have that event handled too late
LEMMA CheckoutFollow ==
  ASSUME Known, TypesInv, FollowInv, NEW b \in Branches, Checkout(b)
  PROVE  FollowInv'
<1> SUFFICES ASSUME amiss' = {}
             PROVE  Ordered' /\ (disk' # Gone => Promised(head)' \/ Awaited')
  BY DEF FollowInv
<1>1. amiss = {} /\ noticed /\ ~noticed' /\ b # head /\ head' = b
      /\ reflog' = [kind |-> "switch", from |-> head, old |-> tip[head], new |-> tip[b]]
  BY DEF Checkout, Logged, Amend, If, TypesInv, GitTypes
<1>2. Ordered /\ (disk # Gone => Promised(head) \/ Awaited)
  BY <1>1 DEF FollowInv
<1>3. UNCHANGED <<text, tip, sent, gitq, queue, bulks, bulk, rows>>
  BY DEF Checkout, Logged, bulkwork
<1>4. PICK c : Becomes(c) /\ (c # disk \/ text[tip[head]] = text[tip[b]])
  BY DEF Checkout
<1>5. Ordered'
  <2>1. event' = "remove" => disk' = Gone
    BY <1>2, <1>4 DEF Becomes, Ordered
  <2>2. Leaving' /\ sent.branch = head
    BY <1>1, <1>2 DEF Ordered, Leaving
  <2> QED
    BY <1>1, <1>3, <2>1, <2>2 DEF Ordered
<1>6. ASSUME disk' # Gone PROVE Promised(head)' \/ Awaited'
  <2>1. CASE disk' # disk
    BY <1>4, <1>6, <2>1, EventFollows DEF Awaited
  <2>2. CASE disk' = disk
    <3>1. event' = event /\ text[tip[head]] = text[tip[b]]
      BY <1>4, <2>2 DEF Becomes
    <3>2. \A a : Promised(a)' <=> Promised(a)
      BY <1>3, <2>2 DEF Promised, Holders
    <3>3. CASE Promised(head)
      <4>1. Coming(reflog)'
        BY <1>1, <1>3, <3>1, <3>2, <3>3 DEF Coming, Changed
      <4> QED
        BY <1>1, <4>1 DEF Awaited
    <3>4. CASE gitq # <<>>
      <4>1. gitq[Len(gitq)].branch = head /\ Len(gitq) \in 1 .. Len(gitq)
        BY <1>1, <1>2, <3>4 DEF Ordered, Leaving, TypesInv, GitTypes
      <4> QED
        BY <1>1, <1>3, <4>1 DEF Awaited
    <3>5. CASE event \in {"create", "modify"} \/ queue["add"] # None \/ queue["update"] # None
      BY <1>3, <3>1, <3>5 DEF Awaited
    <3> QED
      BY <1>1, <1>2, <1>6, <2>2, <3>3, <3>4, <3>5 DEF Awaited
  <2> QED
    BY <2>1, <2>2
<1> QED
  BY <1>5, <1>6

\* An entry of a checkout is not the one sent before
LEMMA NoticeFollow ==
  ASSUME Known, TypesInv, FollowInv, Notice
  PROVE  FollowInv'
<1> USE DEF checkout, bulkwork
<1> DEFINE new == [kind |-> reflog.kind, from |-> reflog.from, old |-> reflog.old,
                   new |-> reflog.new, branch |-> head]
<1> SUFFICES ASSUME amiss = {}
             PROVE  Ordered' /\ (disk # Gone => Promised(head)' \/ Awaited')
  BY DEF FollowInv, Notice
<1>1. Ordered /\ (disk # Gone => Promised(head) \/ Awaited)
  BY DEF FollowInv
<1>2. UNCHANGED <<text, head, disk, event, queue, bulks, bulk, rows>>
      /\ ~noticed /\ noticed' = TRUE /\ sent'.branch = head
  BY DEF Notice
<1>3. gitq \in Seq(Event) /\ reflog \in Entry
  BY <1>2 DEF TypesInv, GitTypes
<1>4. (gitq' = gitq /\ ~Leaving) \/ gitq' = Append(gitq, new)
  BY <1>1 DEF Notice, Ordered
<1>5. Ordered'
  <2>1. ~Leaving' /\ sent'.branch = head'
    BY <1>2 DEF Leaving
  <2>2. gitq' # <<>> => gitq'[Len(gitq')].branch = head
    <3>1. CASE gitq' = gitq /\ ~Leaving
      BY <1>1, <3>1 DEF Ordered
    <3>2. CASE gitq' = Append(gitq, new)
      BY <1>3, <3>2
    <3> QED
      BY <1>4, <3>1, <3>2
  <2> QED
    BY <1>1, <1>2, <2>1, <2>2 DEF Ordered
<1>6. ASSUME disk # Gone PROVE Promised(head)' \/ Awaited'
  <2>1. \A a : Promised(a)' <=> Promised(a)
    BY <1>2 DEF Promised, Holders
  <2>2. \A e : Coming(e)' <=> Coming(e)
    BY <1>2, <2>1 DEF Coming, Changed
  <2>3. \A n \in 1 .. Len(gitq) : n \in 1 .. Len(gitq') /\ gitq'[n] = gitq[n]
    <3>1. CASE gitq' = gitq
      BY <3>1
    <3>2. CASE gitq' = Append(gitq, new)
      BY <1>3, <3>2
    <3> QED
      BY <1>4, <3>1, <3>2
  <2>4. CASE Coming(reflog)
    <3>1. Leaving /\ gitq' = Append(gitq, new)
      BY <1>2, <1>4, <2>4 DEF Leaving, Coming
    <3>2. Len(gitq') \in 1 .. Len(gitq') /\ gitq'[Len(gitq')] = new
      BY <1>3, <3>1
    <3>3. Coming(new)
      BY <2>4 DEF Coming, Changed
    <3> QED
      BY <2>2, <3>2, <3>3 DEF Awaited
  <2>5. CASE \E n \in 1 .. Len(gitq) : Coming(gitq[n]) \/ gitq[n].branch # head
    BY <1>2, <2>2, <2>3, <2>5 DEF Awaited
  <2> QED
    BY <1>1, <1>2, <1>6, <2>1, <2>4, <2>5 DEF Awaited
<1> QED
  BY <1>2, <1>5, <1>6

\* The other events move up; what is awaited is awaited still, but for the event
LEMMA HandledFollow ==
  ASSUME TypesInv, Ordered, NEW e, HandleGit(e), e.branch = head,
         \A op \in Ops : queue[op] # None => queue'[op] # None,
         \A b : Promised(b) => Promised(b)'
  PROVE  Ordered' /\ (Awaited => Awaited' \/ Coming(e))
<1> USE DEF checkout
<1>1. UNCHANGED <<text, head, disk, event, noticed, reflog, sent>>
  BY DEF HandleGit
<1>2. gitq \in Seq(Event) /\ gitq # <<>> /\ gitq' = Tail(gitq) /\ e = gitq[1]
  BY DEF HandleGit, TypesInv, GitTypes
<1>3. \A n \in 1 .. Len(gitq) : n # 1 => n - 1 \in 1 .. Len(gitq') /\ gitq'[n - 1] = gitq[n]
  BY <1>2
<1>4. gitq' # <<>> => gitq'[Len(gitq')] = gitq[Len(gitq)]
  BY <1>2
<1>5. Ordered'
  BY <1>1, <1>2, <1>4 DEF Ordered, Leaving
<1>6. \A d : Coming(d) => Coming(d)'
  BY <1>1 DEF Coming, Changed
<1>7. ASSUME NEW n \in 1 .. Len(gitq), Coming(gitq[n]) \/ gitq[n].branch # head
      PROVE  Awaited' \/ Coming(e)
  <2>1. CASE n = 1
    BY <1>2, <1>7, <2>1
  <2>2. CASE n # 1
    <3>1. PICK m \in 1 .. Len(gitq') : gitq'[m] = gitq[n]
      BY <1>3, <2>2
    <3>2. Coming(gitq[n]) => Coming(gitq[m])'
      BY <1>1, <3>1 DEF Coming, Changed
    <3> QED
      BY <1>1, <1>7, <3>1, <3>2 DEF Awaited
  <2> QED
    BY <2>1, <2>2
<1>8. Awaited => Awaited' \/ Coming(e)
  <2> SUFFICES ASSUME Awaited PROVE Awaited' \/ Coming(e)
    OBVIOUS
  <2>1. CASE event \in {"create", "modify"} \/ queue["add"] # None \/ queue["update"] # None
    BY <1>1, <2>1 DEF Awaited, Ops
  <2>2. CASE ~noticed /\ Coming(reflog)
    <3>1. Coming(reflog)'
      BY <1>1, <2>2 DEF Coming, Changed
    <3> QED
      BY <1>1, <2>2, <3>1 DEF Awaited
  <2> QED
    BY <1>7, <2>1, <2>2 DEF Awaited
<1> QED
  BY <1>5, <1>8

\* Handlers of an event of something else than a checkout that leaves the file alone
LEMMA EventFollow ==
  ASSUME Known, TypesInv, FollowInv, NEW e \in {gitq[n] : n \in 1 .. Len(gitq)},
         GitChanged(e) \/ GitIgnored(e) \/ GitReset(e)
  PROVE  FollowInv'
<1> USE DEF checkout, Known
<1> SUFFICES ASSUME amiss' = {}
             PROVE  Ordered' /\ (disk' # Gone => Promised(head)' \/ Awaited')
  BY DEF FollowInv
<1>1. HandleGit(e) /\ ~Coming(e) /\ UNCHANGED <<head, disk, rows, bulks, bulk>>
  BY DEF GitChanged, GitIgnored, GitReset, HandleGit, Coming
<1>2. amiss = {} /\ e.branch = head /\ \A o \in Ops : queue[o] # None => queue'[o] # None
  <2>1. CASE GitChanged(e)
    <3>1. PICK op \in Ops : Enqueue(op, e.branch, Late(e))
      BY <2>1 DEF GitChanged, Ops
    <3> QED
      BY <3>1, EnqueueKeeps DEF Late, If
  <2>2. CASE GitIgnored(e) \/ GitReset(e)
    BY <2>2 DEF GitIgnored, GitReset, Amend, Late, If
  <2> QED
    BY <2>1, <2>2
<1>3. \A b : Promised(b)' <=> Promised(b)
  BY <1>1 DEF Promised, Holders
<1>4. Ordered /\ (disk # Gone => Promised(head) \/ Awaited)
  BY <1>2 DEF FollowInv
<1>5. Ordered' /\ (Awaited => Awaited' \/ Coming(e))
  BY <1>1, <1>2, <1>3, <1>4, HandledFollow
<1> QED
  BY <1>1, <1>3, <1>4, <1>5

\* A re-key that is put in the place of one of the same branches promises as much
LEMMA RekeyPromises ==
  ASSUME Known, NEW e, Rekey(e), UNCHANGED <<disk, rows, bulk>>, NEW b, Promised(b)
  PROVE  Promised(b)'
<1> DEFINE u    == [branch |-> e.branch, from |-> e.from, seen |-> Shared(e)]
           same == {s \in bulks : s.branch = e.branch /\ s.from = e.from}
<1>1. \A a : Holders(a)' = Holders(a)
  BY DEF Holders
<1>2. CASE disk \in Holders(b)
  BY <1>1, <1>2 DEF Promised
<1>3. CASE disk \notin Holders(b)
  <2>1. PICK v \in bulks : /\ v.branch = b /\ disk \in Holders(v.from)
                           /\ bulk # NoBulk => (bulk.key = v => disk \in bulk.found)
    BY <1>3 DEF Promised
  <2>2. CASE bulks' = bulks
    BY <1>1, <2>1, <2>2 DEF Promised
  <2>3. CASE bulks' = (bulks \ same) \cup {u} /\ ~ \E s \in same : bulk # NoBulk /\ bulk.key = s
    <3>1. CASE v \in same
      <4>1. u \in bulks' /\ u.branch = b /\ u.from = v.from
        BY <2>1, <2>3, <3>1
      <4>2. bulk # NoBulk => bulk.key # u
        <5>1. bulk # NoBulk => bulk.key \in bulks
          BY DEF Known, FabricationInv, Frame
        <5>2. u.branch = e.branch /\ u.from = e.from
          OBVIOUS
        <5> HIDE DEF u
        <5> QED
          BY <2>3, <5>1, <5>2
      <4> HIDE DEF u
      <4> QED
        BY <1>1, <2>1, <4>1, <4>2 DEF Promised
    <3>2. CASE v \notin same
      BY <1>1, <2>1, <2>3, <3>2 DEF Promised
    <3> QED
      BY <3>1, <3>2
  <2> QED
    BY <2>2, <2>3 DEF Rekey
<1> QED
  BY <1>2, <1>3

\* The checkout that leaves the file alone: what the branch that was left has is
\* re-keyed or ingested, unless something is amiss
LEMMA UnchangedFollow ==
  ASSUME Known, TypesInv, FollowInv, NEW e \in {gitq[n] : n \in 1 .. Len(gitq)},
         GitUnchanged(e)
  PROVE  FollowInv'
<1> USE DEF checkout
<1> SUFFICES ASSUME amiss' = {}
             PROVE  Ordered' /\ (disk' # Gone => Promised(head)' \/ Awaited')
  BY DEF FollowInv
<1> DEFINE Ingested == Enqueue("add", e.branch, Late(e))
           Others   == disk # Gone /\ Shared(e) \ {disk} # {}
           Same     == disk # Gone /\ disk \in Shared(e)
<1>1. HandleGit(e) /\ UNCHANGED <<head, disk, rows, bulk>>
  BY DEF GitUnchanged, HandleGit
<1>2. \/ (Others \/ Same) /\ Ingested
      \/ /\ ~Others /\ (Same => Rekey(e)) /\ UNCHANGED queue
         /\ amiss = {} /\ Late(e) = {} /\ Passed(e) = {} /\ Waiting(e) = {}
         /\ ~(bulk # NoBulk /\ bulk.key.branch = e.branch /\ bulk.key.from = e.from)
  BY DEF GitUnchanged, Amend, If
<1>3. amiss = {} /\ e.branch = head /\ \A o \in Ops : queue[o] # None => queue'[o] # None
  <2>1. CASE Ingested
    BY <2>1, EnqueueKeeps DEF Ops, Late, If
  <2>2. CASE ~Ingested
    BY <1>2, <2>2 DEF Late, If
  <2> QED
    BY <2>1, <2>2
<1>4. Ordered /\ (disk # Gone => Promised(head) \/ Awaited)
  BY <1>3 DEF FollowInv
<1>5. ASSUME NEW b, Promised(b) PROVE Promised(b)'
  <2>1. CASE UNCHANGED bulks
    BY <1>1, <1>5, <2>1 DEF Promised, Holders
  <2>2. CASE Rekey(e)
    BY <1>1, <1>5, <2>2, RekeyPromises
  <2> QED
    BY <2>1, <2>2 DEF GitUnchanged
<1>6. Ordered' /\ (Awaited => Awaited' \/ Coming(e))
  BY <1>1, <1>3, <1>4, <1>5, HandledFollow
<1>7. ASSUME disk # Gone, Coming(e) PROVE Promised(head)' \/ Awaited'
  <2>1. CASE Ingested
    <3>1. PICK op : op = "add" /\ op \in Ops
      BY DEF Ops
    <3>2. head # None => queue'[op] # None
      BY <1>3, <2>1, <3>1, EnqueueKeeps
    <3> QED
      BY <3>1, <3>2, BranchSwitchAssumption DEF Awaited, Known, Shape
  <2>2. CASE ~Ingested
    <3>1. disk \in Holders(e.from)
      BY <1>2, <1>7, <2>2 DEF Coming, Promised, Waiting, If
    <3>2. disk \in Holders(head) \/ Holders(head) = {}
      BY <1>2, <1>3, <1>7, <2>2 DEF Passed, If
    <3>3. CASE disk \in Holders(head)
      BY <1>1, <3>3 DEF Promised, Holders
    <3>4. CASE Holders(head) = {}
      <4> DEFINE u    == [branch |-> e.branch, from |-> e.from, seen |-> Shared(e)]
                 same == {s \in bulks : s.branch = e.branch /\ s.from = e.from}
      <4>1. disk \in Shared(e)
        BY <1>3, <3>1, <3>4 DEF Shared
      <4>2. Rekey(e) /\ ~ \E s \in same : bulk # NoBulk /\ bulk.key = s
        BY <1>2, <1>7, <2>2, <4>1
      <4>3. u \in bulks'
        BY <4>2 DEF Rekey
      <4>4. bulk # NoBulk => bulk.key # u
        BY <1>2, <2>2
      <4>5. u.branch = head /\ u.from = e.from
        BY <1>3
      <4> HIDE DEF u, same
      <4> QED
        BY <1>1, <3>1, <4>3, <4>4, <4>5 DEF Promised, Holders
    <3> QED
      BY <3>2, <3>3, <3>4
  <2> QED
    BY <1>2, <2>1, <2>2
<1> QED
  BY <1>1, <1>4, <1>5, <1>6, <1>7

\* A file that came back under a delete that had found none has its event, or an item
Back ==
  job # NoJob /\ job.op = "delete" /\ job.text = Gone /\ disk # Gone =>
    event \in {"create", "modify"} \/ queue["add"] # None \/ queue["update"] # None

BackInv == amiss = {} => Back

LEMMA StepBack == Known /\ TypesInv /\ BackInv /\ [Next]_vars => BackInv'
<1> SUFFICES ASSUME Known, TypesInv, BackInv, [Next]_vars, amiss' = {} PROVE Back'
  BY DEF BackInv
<1> USE DEF checkout, git, bulkwork, Back, BackInv
<1>0. ASSUME amiss = {}, \A op \in Ops : queue[op] # None => queue'[op] # None,
             UNCHANGED <<job, disk, event>>
      PROVE  Back'
  BY <1>0 DEF Ops
<1>a. ASSUME NEW c, Becomes(c), amiss \subseteq amiss', UNCHANGED <<queue, job>> PROVE Back'
  BY <1>a DEF Becomes
<1>1. ASSUME NEW c \in Texts, Edit(c) PROVE Back'
  BY <1>1, <1>a DEF Edit, Amend
<1>2. CASE Commit
  BY <1>2, <1>0 DEF Commit, Logged, Amend
<1>3. ASSUME NEW b \in Branches, Checkout(b) PROVE Back'
  BY <1>3, <1>a DEF Checkout, Logged, Amend
<1>4. ASSUME NEW n \in Commits, Reset(n) PROVE Back'
  BY <1>4, <1>a DEF Reset, Logged, Amend
<1>5. CASE Notice \/ AskScan
  BY <1>5, <1>0 DEF Notice, AskScan
<1>6. CASE HandleFs
  <2>1. ASSUME disk # Gone, event \in {"create", "modify"}
        PROVE  queue'["add"] # None \/ queue'["update"] # None
    <3>1. PICK op \in {"add", "update"} : Enqueue(op, head, {})
      BY <1>6, <2>1 DEF HandleFs
    <3> QED
      BY <3>1, EnqueueKeeps, BranchSwitchAssumption DEF Known, Shape, Ops
  <2>2. amiss = {} /\ \A op \in Ops : queue[op] # None => queue'[op] # None
    <3>1. UNCHANGED <<queue, amiss>> \/ \E op \in Ops : Enqueue(op, head, {})
      BY <1>6 DEF HandleFs, Ops
    <3> QED
      BY <3>1, EnqueueKeeps
  <2> QED
    BY <1>6, <2>1, <2>2 DEF HandleFs, Ops
<1>7. CASE RunScan \/ Sweep
  <2>1. UNCHANGED <<queue, amiss>> \/ \E op \in Ops : \E b : Enqueue(op, b, {})
    BY <1>7 DEF RunScan, Sweep, Ops
  <2>2. amiss = {} /\ \A op \in Ops : queue[op] # None => queue'[op] # None
    BY <2>1, EnqueueKeeps
  <2> QED
    BY <1>7, <2>2, <1>0 DEF RunScan, Sweep
<1>8. ASSUME NEW e, GitChanged(e) \/ GitUnchanged(e) \/ GitIgnored(e) \/ GitReset(e)
      PROVE  Back'
  <2>1. HandleGit(e) /\ UNCHANGED job
    BY <1>8 DEF GitChanged, GitUnchanged, GitIgnored, GitReset, HandleGit
  <2>2. (UNCHANGED queue /\ amiss \subseteq amiss')
        \/ \E op \in Ops : Enqueue(op, e.branch, Late(e))
    BY <1>8 DEF GitChanged, GitUnchanged, GitIgnored, GitReset, Amend, Ops
  <2>3. amiss = {} /\ \A op \in Ops : queue[op] # None => queue'[op] # None
    BY <2>2, EnqueueKeeps
  <2> QED
    BY <1>0, <2>1, <2>3 DEF HandleGit
<1>9. ASSUME NEW op \in Ops, Take(op) PROVE Back'
  BY <1>9 DEF Take
<1>10. CASE FinishDelete \/ FinishIngest
  BY <1>10 DEF FinishDelete, FinishIngest, Finished
<1>11. CASE FinishBulk
  BY <1>11, <1>0 DEF FinishBulk, Tag, Amend
<1>12. ASSUME NEW u, TakeBulk(u) PROVE Back'
  BY <1>12, <1>0 DEF TakeBulk
<1>13. CASE UNCHANGED vars
  BY <1>13, <1>0 DEF vars
<1>14. ASSUME NEW e, Mishap(e) PROVE FALSE
  BY <1>14, MishapFlagged
<1> QED
  BY <1>1, <1>2, <1>3, <1>4, <1>5, <1>6, <1>7, <1>8, <1>9, <1>10, <1>11, <1>12, <1>13,
     <1>14 DEF Next, Rest, Mishap

LEMMA StepFollow ==
  Known /\ TypesInv /\ BackInv /\ FollowInv /\ [Next]_vars => FollowInv'
<1> SUFFICES ASSUME Known, TypesInv, BackInv, FollowInv, [Next]_vars PROVE FollowInv'
  OBVIOUS
<1> USE DEF checkout, git, bulkwork
<1>0. ASSUME UNCHANGED <<text, head, disk, event, git, bulks, bulk, rows>>,
             amiss \subseteq amiss', \A op \in Ops : queue[op] # None => queue'[op] # None
      PROVE  FollowInv'
  <2>1. \A b : Promised(b)' <=> Promised(b)
    BY <1>0 DEF Promised, Holders
  <2> QED
    BY <1>0, <2>1, BesideFollow
<1>1. ASSUME NEW c \in Texts, Edit(c) PROVE FollowInv'
  BY <1>1, StayFollow DEF Edit, Amend
<1>2. CASE Commit
  <2>1. Becomes(disk)
    BY <1>2 DEF Commit, Becomes
  <2>2. \A n \in 1 .. Len(text) : text'[n] = text[n]
    BY <1>2 DEF Commit, Known, Shape
  <2>3. amiss \subseteq amiss' /\ (amiss' = {} => noticed /\ reflog'.kind # "switch")
    BY <1>2 DEF Commit, Logged, Amend, If, TypesInv, GitTypes
  <2>4. UNCHANGED <<head, sent, gitq, queue, bulks, bulk, rows>>
    BY <1>2 DEF Commit, Logged
  <2> QED
    BY <2>1, <2>2, <2>3, <2>4, StayFollow
<1>3. ASSUME NEW n \in Commits, Reset(n) PROVE FollowInv'
  <2>1. PICK c : Becomes(c)
    BY <1>3 DEF Reset
  <2>2. amiss \subseteq amiss' /\ (amiss' = {} => noticed /\ reflog'.kind # "switch")
    BY <1>3 DEF Reset, Logged, Amend, If, TypesInv, GitTypes
  <2>3. UNCHANGED <<head, text, sent, gitq, queue, bulks, bulk, rows>>
    BY <1>3 DEF Reset, Logged
  <2> QED
    BY <2>1, <2>2, <2>3, StayFollow
<1>4. CASE HandleFs
  <2>1. UNCHANGED <<text, head, disk, git, bulks, bulk, rows>> /\ event' = None
    BY <1>4 DEF HandleFs
  <2>2. amiss \subseteq amiss'
    BY <1>4 DEF HandleFs, Enqueue, Amend
  <2> SUFFICES ASSUME amiss' = {}
               PROVE  Ordered' /\ (disk' # Gone => Promised(head)' \/ Awaited')
    BY DEF FollowInv
  <2>3. Ordered
    BY <2>2 DEF FollowInv
  <2>4. Ordered'
    BY <2>1, <2>3 DEF Ordered, Leaving, None
  <2>5. ASSUME disk # Gone PROVE Awaited'
    <3>1. event \in {"create", "modify"}
      BY <1>4, <2>3, <2>5 DEF HandleFs, Ordered, TypesInv, EdgeTypes, Kinds
    <3>2. PICK op \in {"add", "update"} : Enqueue(op, head, {})
      BY <1>4, <2>5, <3>1 DEF HandleFs
    <3>3. queue'[op] # None
      BY <3>2, EnqueueKeeps, BranchSwitchAssumption DEF Known, Shape, Ops
    <3> QED
      BY <3>2, <3>3 DEF Awaited
  <2> QED
    BY <2>1, <2>4, <2>5
<1>5. CASE AskScan
  BY <1>0, <1>5 DEF AskScan
<1>6. CASE RunScan
  <2>1. UNCHANGED <<queue, amiss>> \/ \E op \in Ops : Enqueue(op, scan, {})
    BY <1>6 DEF RunScan, Ops
  <2>2. amiss \subseteq amiss' /\ \A op \in Ops : queue[op] # None => queue'[op] # None
    BY <2>1, EnqueueKeeps
  <2> QED
    BY <1>0, <1>6, <2>2 DEF RunScan
<1>7. CASE Sweep
  <2>1. \E op \in Ops : Enqueue(op, head, {})
    BY <1>7 DEF Sweep, Ops
  <2>2. amiss \subseteq amiss' /\ \A op \in Ops : queue[op] # None => queue'[op] # None
    BY <2>1, EnqueueKeeps
  <2> QED
    BY <1>0, <1>7, <2>2 DEF Sweep
<1>8. ASSUME NEW op \in Ops, Take(op) PROVE FollowInv'
  BY <1>0, <1>8 DEF Take
<1>9. CASE FinishDelete
  <2>1. UNCHANGED <<text, head, disk, event, git, amiss, bulks, bulk>>
    BY <1>9 DEF FinishDelete, Finished
  <2>2. queue'["add"] = queue["add"] /\ queue'["update"] = queue["update"]
    BY <1>9 DEF FinishDelete, Finished, TypesInv, WorkTypes, Ops
  <2>3. ASSUME disk # Gone, amiss = {}
        PROVE  (\A b : Promised(b) => Promised(b)') \/ Awaited'
    <3>1. CASE job.text = Gone
      BY <1>9, <2>1, <2>2, <2>3, <3>1 DEF FinishDelete, Finished, BackInv, Back, Awaited
    <3>2. CASE job.text # Gone
      BY <1>9, <2>1, <3>2 DEF FinishDelete, Promised, Holders
    <3> QED
      BY <3>1, <3>2
  <2>4. (\A b : Promised(b) => Promised(b)') => (Awaited => Awaited')
    <3> SUFFICES ASSUME \A b : Promised(b) => Promised(b)' PROVE Awaited => Awaited'
      OBVIOUS
    <3>1. \A e : Coming(e) => Coming(e)'
      BY <2>1 DEF Coming, Changed
    <3> QED
      BY <2>1, <2>2, <3>1 DEF Awaited
  <2>5. Ordered => Ordered'
    BY <2>1 DEF Ordered, Leaving
  <2> QED
    BY <2>1, <2>3, <2>4, <2>5 DEF FollowInv
<1>10. CASE UNCHANGED vars
  BY <1>0, <1>10 DEF vars
<1>11. ASSUME NEW e, Mishap(e) PROVE FollowInv'
  BY <1>11, MishapFlagged DEF FollowInv
<1> QED
  BY <1>1, <1>2, <1>3, <1>4, <1>5, <1>6, <1>7, <1>8, <1>9, <1>10, <1>11, CheckoutFollow,
     NoticeFollow, EventFollow, UnchangedFollow, IngestFollow, TakeBulkFollow, BulkFollow
     DEF Next, Rest, Mishap

\* When everything a checkout, a commit or an edit set off is done, the file is
\* indexed on the branch that is checked out with the content of the tree, and with
\* no other: each of the two watchers may come first, either may find that the other's
\* item, or a re-key, is there already, and a delete that had found no file may take
\* the tag off after the file is back.
THEOREM HeadFollowsThm == Spec => []HeadFollowsTree
<1>1. Known /\ TypesInv /\ FollowInv => HeadFollowsTree
  <2> SUFFICES ASSUME Known, TypesInv, FollowInv, Settled, amiss = {}, disk # Gone
               PROVE  Holders(head) = {disk}
    BY DEF HeadFollowsTree
  <2>1. disk \in Holders(head)
    BY DEF FollowInv, Awaited, Promised, Settled, Ops, None
  <2>2. head \in Branches /\ Truthful
    BY DEF Known, FabricationInv, Frame
  <2> QED
    BY <2>1, <2>2 DEF Truthful, Holders
<1>2. Init => BackInv
  BY DEF Init, BackInv, Back
<1> QED
  BY <1>1, <1>2, KnownHolds, InitTypes, StepTypes, StepBack, InitFollow, StepFollow, PTL
     DEF Spec
=============================================================================
