----------------------- MODULE UnifiedQueueRefinement -----------------------
(* The unified queue keeps the promise of WorkPromise. *)
EXTENDS UnifiedQueue

PhaseOf(r) == CASE r.status = "absent" -> "out"
                [] r.status \in {"pending", "in_progress"} -> "open"
                [] r.status = "failed" -> "failed"
                [] r.status = "done" -> "closed"

Promise == INSTANCE WorkPromise WITH
  Requests    <- Keys,
  Parts       <- Sinks,
  phase       <- [k \in Keys |-> PhaseOf(rows[k])],
  debt        <- [k \in Keys |-> IF Present(k) THEN owed[k] ELSE {}],
  firm        <- [k \in Keys |-> rows[k].decided],
  gone        <- [k \in Keys |-> \E w \in Slots : At(w, "remove") /\ Holds(tasks[w], k)],
  completions <- effects

\* Requests are completed once, after all the work that was decided for them,
\* and are neither dropped nor repeated otherwise: the lifecycle of every row
\* is one the promise allows.
KeepsPromise == Promise!Spec
=============================================================================
