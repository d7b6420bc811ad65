----------------------------- MODULE MCBranchSwitch -----------------------------
(* Small instances of BranchSwitch for TLC. *)
EXTENDS BranchSwitch, TLC

Symmetry == Permutations(Branches) \cup Permutations(Contents)

\* What went wrong stays on record, and HeadFollowsTree, NoFabrication and AwayKept
\* are about histories in which nothing did: no other is followed further.
Unharmed == amiss = {}

\* RekeyIsCertified is about histories with no other mishap than a late re-key.
RekeyOnly == amiss \subseteq {"rekey"}
=============================================================================
