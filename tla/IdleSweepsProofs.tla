--------------------------- MODULE IdleSweepsProofs ---------------------------
(***************************************************************************)
(* TypeOK and MirrorHeals of IdleSweeps, for any number of rows, any page     *)
(* size and any bound on what goes wrong.                                    *)
(***************************************************************************)
EXTENDS IdleSweeps, FiniteSetTheorems, WellFoundedInduction, TLAPS

USE IdleSweepsAssumption DEF stores, tables, scheduler, sweeps, env, others

-----------------------------------------------------------------------------
(* Pages *)

\* Of the sets of elements below or above one, one is the smallest
LEMMA Extremes ==
  ASSUME NEW S \in SUBSET Nat, IsFiniteSet(S), S # {}
  PROVE  /\ \E x \in S : \A y \in S : x <= y
         /\ \E x \in S : \A y \in S : y <= x
<1> DEFINE Below(x) == {y \in S : y <= x}
           Above(x) == {y \in S : x <= y}
           below == {Below(x) : x \in S}
           above == {Above(x) : x \in S}
<1>0. \A x \in S : x \in Nat
  OBVIOUS
<1>1. IsWellFoundedOn(StrictSubsetOrdering(S), SUBSET S)
  BY FS_StrictSubsetOrderingWellFounded, FS_FiniteSubsetsOfFinite
<1>2. below \subseteq SUBSET S /\ below # {} /\ above \subseteq SUBSET S /\ above # {}
  BY Zenon
<1>3. \A T, U \in SUBSET S : U \subseteq T /\ U # T =>
                             <<U, T>> \in StrictSubsetOrdering(S)
  BY DEF StrictSubsetOrdering
<1>4. \E x \in S : \A y \in S : ~(<<Below(y), Below(x)>> \in StrictSubsetOrdering(S))
  <2>1. \E T \in below : \A U \in below : ~(<<U, T>> \in StrictSubsetOrdering(S))
    <3> HIDE DEF below
    <3> QED BY <1>1, <1>2, WFMin
  <2> HIDE DEF Below
  <2> QED BY <2>1
<1>5. \E x \in S : \A y \in S : ~(<<Above(y), Above(x)>> \in StrictSubsetOrdering(S))
  <2>1. \E T \in above : \A U \in above : ~(<<U, T>> \in StrictSubsetOrdering(S))
    <3> HIDE DEF above
    <3> QED BY <1>1, <1>2, WFMin
  <2> HIDE DEF Above
  <2> QED BY <2>1
<1>6. \E x \in S : \A y \in S : x <= y
  <2>1. PICK x \in S : \A y \in S : ~(<<Below(y), Below(x)>> \in StrictSubsetOrdering(S))
    BY <1>4
  <2>2. ASSUME NEW y \in S, y < x PROVE FALSE
    <3>0. x <= x /\ ~(x <= y) /\ \A z \in S : z <= y => z <= x
      BY <1>0, <2>2
    <3>1. Below(y) \subseteq Below(x) /\ x \in Below(x) /\ x \notin Below(y)
      BY <3>0
    <3>2. Below(y) \in SUBSET S /\ Below(x) \in SUBSET S
      OBVIOUS
    <3> HIDE DEF Below
    <3> QED BY <3>1, <3>2, <1>3, <2>1
  <2> QED BY <2>2
<1>7. \E x \in S : \A y \in S : y <= x
  <2>1. PICK x \in S : \A y \in S : ~(<<Above(y), Above(x)>> \in StrictSubsetOrdering(S))
    BY <1>5
  <2>2. ASSUME NEW y \in S, x < y PROVE FALSE
    <3>0. x <= x /\ ~(y <= x) /\ \A z \in S : y <= z => x <= z
      BY <1>0, <2>2
    <3>1. Above(y) \subseteq Above(x) /\ x \in Above(x) /\ x \notin Above(y)
      BY <3>0
    <3>2. Above(y) \in SUBSET S /\ Above(x) \in SUBSET S
      OBVIOUS
    <3> HIDE DEF Above
    <3> QED BY <3>1, <3>2, <1>3, <2>1
  <2> QED BY <2>2
<1> QED BY <1>6, <1>7

LEMMA FiniteIds == \A S \in SUBSET Ids : IsFiniteSet(S) /\ S \subseteq Nat
<1>1. IsFiniteSet(Ids) /\ Ids \subseteq Nat
  BY FS_Interval DEF Ids
<1>2. ASSUME NEW S \in SUBSET Ids PROVE IsFiniteSet(S) /\ S \subseteq Nat
  BY <1>1, FS_Subset
<1> QED BY <1>2

\* A keyset page begins right after the cursor and leaves nothing out up to its
\* last row; it is empty only when no row is left.
LEMMA PageLeavesNothingOut ==
  ASSUME NEW among \in SUBSET Ids, NEW from \in Nat
  PROVE  LET page == After(from, among) IN
         /\ page \subseteq among
         /\ page = {} => \A f \in among : f <= from
         /\ page # {} => /\ Last(page) \in page
                         /\ \A f \in among : from < f /\ f <= Last(page) => f \in page
<1> DEFINE rest == {f \in among : f > from}
           page == After(from, among)
<1>1. page = {f \in rest : Before(f, rest) < Page}
  BY DEF After
<1>2. /\ IsFiniteSet(rest) /\ IsFiniteSet(page)
      /\ rest \in SUBSET Nat /\ page \in SUBSET Nat /\ page \subseteq rest
  BY <1>1, FiniteIds
<1>3. page = {} => \A f \in among : f <= from
  <2> SUFFICES ASSUME page = {}, rest # {} PROVE FALSE
    BY FiniteIds
  <2>1. PICK x \in rest : \A y \in rest : x <= y
    BY <1>2, Extremes
  <2>2. {g \in rest : g < x} = {}
    BY <2>1, <1>2
  <2>3. Before(x, rest) = 0
    BY <2>2, FS_EmptySet DEF Before
  <2> QED BY <1>1, <2>3
<1>4. page # {} => Last(page) \in page /\ \A g \in page : g <= Last(page)
  BY <1>2, Extremes DEF Last
<1>5. ASSUME NEW f \in page, NEW g \in rest, g <= f PROVE g \in page
  <2>1. /\ {h \in rest : h < g} \subseteq {h \in rest : h < f}
        /\ IsFiniteSet({h \in rest : h < g}) /\ IsFiniteSet({h \in rest : h < f})
    BY <1>2, <1>5, FS_Subset
  <2>2. /\ Before(g, rest) <= Before(f, rest)
        /\ Before(g, rest) \in Nat /\ Before(f, rest) \in Nat
    BY <2>1, FS_Subset, FS_CardinalityType DEF Before
  <2>3. Before(f, rest) < Page
    BY <1>1
  <2> QED BY <1>1, <2>2, <2>3
<1>6. page # {} => \A f \in among : from < f /\ f <= Last(page) => f \in page
  BY <1>4, <1>5, FiniteIds
<1> QED BY <1>2, <1>3, <1>4, <1>6

-----------------------------------------------------------------------------
(* Types *)

LEMMA SchedulerType ==
  ASSUME TypeOK, NEW t \in Tasks, Picks(t), Continue(t) \/ Done(t)
  PROVE  /\ active' \in Tasks \cup {None} /\ started' \in [Tasks -> BOOLEAN]
         /\ cooling' \in [Tasks -> BOOLEAN]
         /\ \A u \in Tasks : started'[u] <=> active' = u
         /\ \A u \in Tasks \ {t} : ~started[u] /\ ~started'[u]
         /\ started'[t] <=> active' = t
<1> USE DEF TypeOK
<1>1. None \notin Tasks
  BY DEF None, Tasks
<1>2. active \in {None, t}
  BY DEF Picks
<1>3. CASE Continue(t)
  BY <1>1, <1>2, <1>3 DEF Continue
<1>4. CASE Done(t)
  BY <1>1, <1>2, <1>4 DEF Done
<1> QED BY <1>3, <1>4

LEMMA InitType == Init => TypeOK
<1> SUFFICES ASSUME Init PROVE TypeOK
  OBVIOUS
<1> USE DEF Init
<1>0. FirstRows \in Nat /\ MaxFile \in Nat /\ FirstRows <= MaxFile
  BY IdleSweepsAssumption
<1>1. \A f \in rows : f \in Ids /\ f < fresh
  BY <1>0 DEF Ids
<1>2. fresh \in Nat \ {0}
  BY <1>0
<1>3. active \notin Tasks /\ "orphans" \in Tasks
  BY DEF Tasks, None
<1>4. \A t \in Tasks : started[t] <=> active = t
  BY <1>3
<1>5. ~started["orphans"] => touched = {}
  OBVIOUS
<1>6. started \in [Tasks -> BOOLEAN] /\ cooling \in [Tasks -> BOOLEAN]
  OBVIOUS
<1>7. up \in BOOLEAN /\ pressed \in BOOLEAN
  OBVIOUS
<1>8. /\ deletes \subseteq Ids /\ elapsed \in 0 .. 2 /\ active \in Tasks \cup {None}
      /\ offset \in Nat /\ phase \in {"cleanup", "repair"} /\ cursor \in Ids \cup {0}
      /\ upsets \in Nat /\ touched \subseteq Ids
  OBVIOUS
<1>9. /\ rows \subseteq Ids /\ disk \subseteq Ids /\ points \subseteq Ids
      /\ mirror \subseteq rows
      /\ \A f \in rows \cup disk \cup points \cup deletes \cup touched : f < fresh
  BY <1>1
<1> QED BY <1>2, <1>4, <1>5, <1>6, <1>7, <1>8, <1>9 DEF TypeOK

LEMMA StepType == TypeOK /\ [Next]_vars => TypeOK'
<1> SUFFICES ASSUME TypeOK, [Next]_vars PROVE TypeOK'
  OBVIOUS
<1> USE DEF TypeOK
<1>0. "filesystem" \in Tasks /\ "orphans" \in Tasks /\ \A f \in Ids : f \in Nat \ {0}
  BY DEF Tasks, Ids
<1>1. CASE UNCHANGED vars
  BY <1>1 DEF vars
<1>2. ASSUME NEW f \in Ids, Ingest(f) PROVE TypeOK'
  <2>1. touched' \subseteq touched \cup {f} /\ (~started["orphans"] => touched' = {})
    BY <1>2 DEF Ingest, Touch
  <2>2. /\ \A g \in rows' \cup disk' \cup points' \cup touched' : g \in Ids /\ g < fresh'
        /\ \A g \in deletes' : g < fresh'
    BY <1>0, <1>2, <2>1 DEF Ingest
  <2>3. /\ mirror' \subseteq rows' /\ fresh' \in Nat \ {0} /\ elapsed' = 0
        /\ UNCHANGED <<deletes, env, scheduler, sweeps, upsets>>
    BY <1>2 DEF Ingest
  <2> QED BY <2>1, <2>2, <2>3
<1>3. ASSUME NEW f \in Ids, Drift(f) PROVE TypeOK'
  <2>1. touched' \subseteq touched \cup {f} /\ (~started["orphans"] => touched' = {})
    BY <1>3 DEF Drift, Touch
  <2>2. /\ f < fresh /\ disk' \subseteq disk /\ points' \subseteq points /\ mirror' \subseteq mirror
        /\ UNCHANGED <<rows, fresh, deletes, env, elapsed, scheduler, sweeps>>
    BY <1>3 DEF Drift
  <2>3. upsets' \in Nat
    BY <1>3 DEF Drift, Upset
  <2> QED BY <2>1, <2>2, <2>3
<1>4. ASSUME NEW f \in Ids, Delete(f) PROVE TypeOK'
  BY <1>0, <1>4 DEF Delete, Touch
<1>5. CASE QdrantFails \/ QdrantBack \/ Pressure \/ Relief
  <2>1. UNCHANGED others
    BY <1>5 DEF QdrantFails, QdrantBack, Pressure, Relief
  <2>2. up' \in BOOLEAN /\ pressed' \in BOOLEAN
    BY <1>5 DEF QdrantFails, QdrantBack, Pressure, Relief
  <2>3. upsets' \in Nat
    BY <1>5 DEF QdrantFails, QdrantBack, Pressure, Relief, Upset
  <2> QED BY <2>1, <2>2, <2>3
<1>6. CASE Wait
  BY <1>6 DEF Wait
<1>7. ASSUME NEW t \in Tasks, CooledDown(t) PROVE TypeOK'
  BY <1>7 DEF CooledDown
<1>8. ASSUME NEW t \in Tasks, Yield(t) PROVE TypeOK'
  <2>1. touched' = touched /\ (started'["orphans"] \/ ~started["orphans"])
    BY <1>0, <1>8, SchedulerType DEF Yield, Tick, Continue
  <2> QED BY <1>0, <1>8, <2>1, SchedulerType DEF Yield, Tick, Tasks
<1>9. CASE Filesystem
  <2>1. Picks("filesystem") /\ (Continue("filesystem") \/ Done("filesystem"))
    BY <1>9 DEF Filesystem, Tick
  <2>2. deletes' \subseteq deletes \cup rows /\ upsets' \in Nat
    BY <1>9 DEF Filesystem, Upset
  <2>3. offset' \in Nat
    BY <1>9 DEF Filesystem
  <2>4. UNCHANGED <<tables, env, elapsed, phase, cursor, touched>>
    BY <1>9 DEF Filesystem
  <2> HIDE DEF Picks
  <2> QED BY <1>0, <2>1, <2>2, <2>3, <2>4, SchedulerType DEF Tasks
<1>10. ASSUME NEW answered \in SUBSET Ids, Cleanup(answered) PROVE TypeOK'
  <2> DEFINE from == IF started["orphans"] THEN cursor ELSE 0
             page == After(from, mirror)
  <2>1. Picks("orphans") /\ Continue("orphans")
    BY <1>10 DEF Cleanup, Tick
  <2>2. page \subseteq mirror /\ (page # {} => Last(page) \in page)
    BY <1>0, PageLeavesNothingOut
  <2>3. started'["orphans"]
    BY <1>0, <2>1 DEF Continue
  <2>4. touched' \subseteq touched \cup page /\ mirror' \subseteq mirror
    BY <1>10, <2>2 DEF Cleanup
  <2>5. cursor' \in Ids \cup {0} /\ phase' \in {"cleanup", "repair"}
    BY <1>10, <2>2 DEF Cleanup
  <2>6. UNCHANGED <<rows, fresh, disk, points, deletes, env, elapsed, offset, upsets>>
    BY <1>10 DEF Cleanup
  <2> QED BY <1>0, <2>1, <2>2, <2>3, <2>4, <2>5, <2>6, SchedulerType
<1>11. ASSUME NEW answered \in SUBSET Ids, Repair(answered) PROVE TypeOK'
  <2> DEFINE page == After(cursor, rows \ mirror)
  <2>1. Picks("orphans") /\ (Continue("orphans") \/ Done("orphans"))
    BY <1>11 DEF Repair, Tick
  <2>2. page \subseteq rows /\ (page # {} => Last(page) \in page)
    BY <1>0, PageLeavesNothingOut
  <2>3. started'["orphans"] \/ touched' = {}
    BY <1>0, <1>11 DEF Repair, Continue
  <2>4. touched' \subseteq touched \cup page /\ mirror' \subseteq rows
    BY <1>11, <2>2 DEF Repair
  <2>5. cursor' \in Ids \cup {0}
    BY <1>11, <2>2 DEF Repair
  <2>6. UNCHANGED <<rows, fresh, disk, points, deletes, env, elapsed, offset, phase, upsets>>
    BY <1>11 DEF Repair
  <2> QED BY <1>0, <2>1, <2>2, <2>3, <2>4, <2>5, <2>6, SchedulerType
<1> QED
  BY <1>1, <1>2, <1>3, <1>4, <1>5, <1>6, <1>7, <1>8, <1>9, <1>10, <1>11 DEF Next, Batch

\* Of the values the sweeps go by none is ever outside its domain: a task is in
\* progress exactly if it is the active one, and no id is used twice.
THEOREM SweepTypes == Spec => []TypeOK
<1>1. Init => TypeOK
  BY InitType
<1>2. TypeOK /\ [Next]_vars => TypeOK'
  BY StepType
<1> QED BY <1>1, <1>2, PTL DEF Spec

-----------------------------------------------------------------------------
(* The mirror *)

\* What OrphanCleanup has gone over, of the rows nobody else changed: up to the
\* cursor no mirror without points, and in the second phase, where none is left
\* at all, up to the cursor no points without a mirror
SweptInv ==
  started["orphans"] => \A f \in rows \ touched :
    /\ phase = "cleanup" /\ f <= cursor => (f \in mirror => f \in points)
    /\ phase = "repair" => (f \in mirror => f \in points)
    /\ phase = "repair" /\ f <= cursor => (f \in points => f \in mirror)

LEMMA OthersKeepSwept ==
  ASSUME TypeOK, SweptInv, started'["orphans"] => started["orphans"],
         UNCHANGED <<phase, cursor>>, touched \subseteq touched',
         \A f \in Ids \ touched' : /\ f \in rows' => f \in rows
                                   /\ f \in mirror' <=> f \in mirror
                                   /\ f \in points' <=> f \in points,
         rows' \subseteq Ids
  PROVE  SweptInv'
<1> SUFFICES ASSUME started'["orphans"], NEW f \in rows' \ touched'
             PROVE  /\ phase' = "cleanup" /\ f <= cursor' => (f \in mirror' => f \in points')
                    /\ phase' = "repair" => (f \in mirror' => f \in points')
                    /\ phase' = "repair" /\ f <= cursor' => (f \in points' => f \in mirror')
  BY DEF SweptInv
<1>1. f \in rows \ touched /\ (f \in mirror' <=> f \in mirror) /\ (f \in points' <=> f \in points)
  OBVIOUS
<1>2. phase' = phase /\ cursor' = cursor /\ started["orphans"]
  OBVIOUS
<1> QED BY <1>1, <1>2 DEF SweptInv

LEMMA StepSwept == TypeOK /\ SweptInv /\ [Next]_vars => SweptInv'
<1> SUFFICES ASSUME TypeOK, SweptInv, [Next]_vars PROVE SweptInv'
  OBVIOUS
<1>0. /\ TypeOK' /\ "filesystem" \in Tasks /\ "orphans" \in Tasks
      /\ \A f \in Ids : f \in Nat /\ ~(f <= 0)
  BY StepType DEF Tasks, Ids
<1>1. CASE UNCHANGED vars
  BY <1>1 DEF vars, SweptInv
<1>2. ASSUME NEW f \in Ids, Ingest(f) \/ Drift(f) \/ Delete(f) PROVE SweptInv'
  <2>1. CASE ~started["orphans"]
    BY <1>2, <2>1 DEF Ingest, Drift, Delete, SweptInv
  <2>2. CASE started["orphans"]
    <3>1. touched' = touched \cup {f} /\ UNCHANGED <<started, phase, cursor>>
      BY <1>2, <2>2 DEF Ingest, Drift, Delete, Touch
    <3>2. \A g \in Ids \ {f} : /\ g \in rows' => g \in rows
                               /\ g \in mirror' <=> g \in mirror
                               /\ g \in points' <=> g \in points
      BY <1>2 DEF Ingest, Drift, Delete
    <3> QED BY <1>0, <3>1, <3>2, OthersKeepSwept DEF TypeOK
  <2> QED BY <2>1, <2>2
<1>3. ASSUME UNCHANGED <<rows, points, mirror, started, phase, cursor, touched>>
      PROVE  SweptInv'
  BY <1>3 DEF SweptInv
<1>4. CASE QdrantFails \/ QdrantBack \/ Pressure \/ Relief \/ Wait
  BY <1>3, <1>4 DEF QdrantFails, QdrantBack, Pressure, Relief, Wait
<1>5. ASSUME NEW t \in Tasks, CooledDown(t) PROVE SweptInv'
  BY <1>3, <1>5 DEF CooledDown
<1>6. ASSUME NEW t \in Tasks, Yield(t) PROVE SweptInv'
  <2>1. UNCHANGED <<rows, points, mirror, touched>>
    BY <1>6 DEF Yield
  <2>2. CASE t = "orphans" /\ ~started[t]
    <3>1. phase' = "cleanup" /\ cursor' = 0
      BY <1>6, <2>2 DEF Yield
    <3> QED BY <1>0, <3>1 DEF SweptInv, TypeOK
  <2>3. CASE t = "filesystem" \/ started[t]
    <3>1. UNCHANGED <<phase, cursor>>
      BY <1>6, <2>3 DEF Yield
    <3>2. started'["orphans"] => started["orphans"]
      BY <1>0, <1>6, <2>3 DEF Yield, Continue, TypeOK
    <3> QED BY <1>0, <2>1, <3>1, <3>2, OthersKeepSwept DEF TypeOK
  <2> QED BY <1>0, <2>2, <2>3 DEF Tasks
<1>7. CASE Filesystem
  <2>1. UNCHANGED <<rows, points, mirror, phase, cursor, touched>>
    BY <1>7 DEF Filesystem
  <2>2. started'["orphans"] => started["orphans"]
    BY <1>0, <1>7 DEF Filesystem, Continue, Done, TypeOK
  <2> QED BY <1>0, <2>1, <2>2, OthersKeepSwept DEF TypeOK
<1>8. ASSUME NEW answered \in SUBSET Ids, Cleanup(answered) PROVE SweptInv'
  <2> DEFINE from == IF started["orphans"] THEN cursor ELSE 0
             page == After(from, mirror)
  <2>1. UNCHANGED <<rows, points>> /\ touched' = touched \cup (page \ answered)
    BY <1>8 DEF Cleanup
  <2>2. \A f \in rows \ touched : f <= from /\ f \in mirror => f \in points
    <3>1. CASE started["orphans"]
      BY <1>8, <3>1 DEF Cleanup, SweptInv
    <3>2. CASE ~started["orphans"]
      BY <1>0, <3>2 DEF TypeOK
    <3> QED BY <3>1, <3>2
  <2>3. from \in Nat /\ mirror \in SUBSET Ids
    BY <1>0 DEF TypeOK
  <2>4. CASE page = {}
    <3>1. phase' = "repair" /\ cursor' = 0 /\ mirror' = mirror
      BY <1>8, <2>4 DEF Cleanup
    <3>2. \A f \in mirror : f <= from
      BY <2>3, <2>4, PageLeavesNothingOut
    <3> QED BY <1>0, <2>1, <2>2, <3>1, <3>2 DEF SweptInv, TypeOK
  <2>5. CASE page # {}
    <3>1. /\ phase' = "cleanup" /\ cursor' = Last(page)
          /\ mirror' = mirror \ (answered \ points)
      BY <1>8, <2>5 DEF Cleanup
    <3>2. \A f \in mirror : from < f /\ f <= Last(page) => f \in page
      BY <2>3, <2>5, PageLeavesNothingOut
    <3>3. ASSUME NEW f \in rows' \ touched', f <= cursor', f \in mirror'
          PROVE  f \in points'
      <4>1. f \in rows \ touched /\ f \in mirror /\ f \in Nat
        BY <1>0, <2>1, <3>1, <3>3 DEF TypeOK
      <4>2. CASE f <= from
        BY <2>1, <2>2, <4>1, <4>2
      <4>3. CASE from < f
        <5>1. f \in page
          BY <3>1, <3>2, <3>3, <4>1, <4>3
        <5> QED BY <2>1, <3>1, <3>3, <5>1
      <4> QED BY <2>3, <4>1, <4>2, <4>3
    <3> QED BY <3>1, <3>3 DEF SweptInv
  <2> QED BY <2>4, <2>5
<1>9. ASSUME NEW answered \in SUBSET Ids, Repair(answered) PROVE SweptInv'
  <2> DEFINE page == After(cursor, rows \ mirror)
  <2>1. UNCHANGED <<rows, points, phase>> /\ phase = "repair" /\ started["orphans"]
    BY <1>9 DEF Repair
  <2>2. cursor \in Nat /\ rows \ mirror \in SUBSET Ids
    BY <1>0 DEF TypeOK
  <2>3. CASE page = {}
    BY <1>0, <1>9, <2>3 DEF Repair, Done, SweptInv, TypeOK
  <2>4. CASE page # {}
    <3>1. /\ cursor' = Last(page) /\ mirror' = mirror \cup (answered \cap points)
          /\ touched' = touched \cup (page \ answered)
      BY <1>9, <2>4 DEF Repair
    <3>2. \A f \in rows \ mirror : cursor < f /\ f <= Last(page) => f \in page
      BY <2>2, <2>4, PageLeavesNothingOut
    <3>3. ASSUME NEW f \in rows' \ touched', f \in mirror' PROVE f \in points'
      BY <2>1, <3>1, <3>3 DEF SweptInv
    <3>4. ASSUME NEW f \in rows' \ touched', f <= cursor', f \in points'
          PROVE  f \in mirror'
      <4>1. f \in rows \ touched /\ f \in points /\ f \in Nat
        BY <1>0, <2>1, <3>1, <3>4 DEF TypeOK
      <4>2. CASE f \in mirror \/ f <= cursor
        BY <2>1, <3>1, <4>1, <4>2 DEF SweptInv
      <4>3. CASE f \notin mirror /\ cursor < f
        <5>1. f \in page
          BY <3>1, <3>2, <3>4, <4>1, <4>3
        <5> QED BY <3>1, <3>4, <4>1, <5>1
      <4> QED BY <2>2, <4>1, <4>2, <4>3
    <3> QED BY <2>1, <3>3, <3>4 DEF SweptInv
  <2> QED BY <2>3, <2>4
<1> QED
  BY <1>1, <1>2, <1>4, <1>5, <1>6, <1>7, <1>8, <1>9 DEF Next, Batch

\* A sweep of OrphanCleanup that comes to its end has made the mirror of every
\* row it had to itself agree with Qdrant: the keyset pages leave no row out,
\* whichever rows handlers delete and insert between them.
THEOREM MirrorHealsThm == Spec => MirrorHeals
<1>1. Init => SweptInv
  BY DEF Init, SweptInv, Tasks
<1>2. TypeOK /\ SweptInv /\ [Next]_vars => SweptInv'
  BY StepSwept
<1>3. TypeOK /\ SweptInv /\ [Next]_vars =>
        [started["orphans"] /\ ~started["orphans"]' =>
           \A f \in rows \ touched : f \in mirror' <=> f \in points']_vars
  <2> SUFFICES ASSUME TypeOK, SweptInv, Next, started["orphans"],
                      ~started["orphans"]', NEW f \in rows \ touched
               PROVE  f \in mirror' <=> f \in points'
    OBVIOUS
  <2>0. "filesystem" \in Tasks /\ "orphans" \in Tasks /\ "filesystem" # "orphans"
    BY DEF Tasks
  <2>1. PICK answered \in SUBSET Ids : Repair(answered)
    <3>1. CASE UNCHANGED started
      BY <3>1
    <3>2. ASSUME NEW t \in Tasks, Yield(t) PROVE FALSE
      BY <2>0, <3>2 DEF Yield, Continue, TypeOK
    <3>3. CASE Filesystem
      BY <2>0, <3>3 DEF Filesystem, Continue, Done, TypeOK
    <3>4. ASSUME NEW answered \in SUBSET Ids, Cleanup(answered) PROVE FALSE
      BY <2>0, <3>4 DEF Cleanup, Continue, TypeOK
    <3> QED
      BY <3>1, <3>2, <3>3, <3>4 DEF Next, Batch, Ingest, Drift, Delete, QdrantFails,
         QdrantBack, Pressure, Relief, Wait, CooledDown
  <2>2. After(cursor, rows \ mirror) = {}
    BY <2>0, <2>1 DEF Repair, Continue, TypeOK
  <2>3. UNCHANGED <<points, mirror>> /\ phase = "repair"
    BY <2>1, <2>2 DEF Repair
  <2>4. \A g \in rows \ mirror : g <= cursor
    <3>1. cursor \in Nat /\ rows \ mirror \in SUBSET Ids
      BY DEF TypeOK, Ids
    <3> QED BY <2>2, <3>1, PageLeavesNothingOut
  <2> QED BY <2>3, <2>4 DEF SweptInv
<1> QED BY <1>1, <1>2, <1>3, SweepTypes, PTL DEF Spec, MirrorHeals
=============================================================================
