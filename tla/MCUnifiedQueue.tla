--------------------------- MODULE MCUnifiedQueue ---------------------------
(* Instances of UnifiedQueue for TLC. *)
EXTENDS UnifiedQueueRefinement, TLC

CONSTANTS f, p, b, w1, w2

SlotSymmetry == Permutations(Slots)
=============================================================================
