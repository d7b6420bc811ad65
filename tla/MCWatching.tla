------------------------------ MODULE MCWatching ------------------------------
(* Small instances of Watching for TLC. *)
EXTENDS Watching, TLC

Symmetry == Permutations(Contents)

\* Files change once at most while a start is not over
StartFirst ==
  start # "judge" \/ todo \cup unmet # {} \/ watched # Paths => edits <= 1 + crashes

\* A cause on record excuses its path until the next crash
Undecided == crashes < MaxCrashes \/ \E p \in Paths : lost[p] \in {None, Restart}

\* A folder that stays watched
Watched  == Init /\ watched = Paths
LiveSpec == Watched /\ [][Next]_vars /\ Fairness
=============================================================================
