------------------------ MODULE MCFairnessScheduler -------------------------
(* Instances of FairnessScheduler for TLC. *)
EXTENDS FairnessScheduler

Of(active, weight) == [urgent |-> FALSE, registers |-> FALSE, active |-> active,
                       weight |-> weight]

Add(active)  == Of(active, 5)
Scan(active) == Of(active, 1)
Delete == [Of(FALSE, 10) EXCEPT !.urgent = TRUE]
Register == [Of(TRUE, 5) EXCEPT !.registers = TRUE]

AllKinds    == {Delete, Register, Add(TRUE), Scan(TRUE), Add(FALSE)}
TwoProjects == {Add(TRUE), Add(FALSE)}
=============================================================================
