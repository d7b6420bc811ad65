----------------------------- MODULE WorkPromise -----------------------------
(***************************************************************************)
(* What the queue promises whoever enqueues work, whatever the tables,      *)
(* leases and background tasks behind it: each request is a machine of its  *)
(* own, and at any moment every machine stays or takes one of these steps.  *)
(***************************************************************************)
EXTENDS Naturals

CONSTANTS Requests, Parts   \* a request is served by doing all of its parts

VARIABLES
  phase,        \* out, open, failed or closed
  debt,         \* the parts still to be done
  firm,         \* what the request needs was analysed and written down
  gone,         \* its subject turned out not to exist
  completions   \* times somebody was told that it was completed

pvars == <<phase, debt, firm, gone, completions>>

Phases == {"out", "open", "failed", "closed"}

Init ==
  /\ phase = [r \in Requests |-> "out"]
  /\ debt = [r \in Requests |-> {}]
  /\ firm = [r \in Requests |-> FALSE]
  /\ gone = [r \in Requests |-> FALSE]
  /\ completions = [r \in Requests |-> 0]

Moves(r, from, to) == phase[r] = from /\ phase'[r] = to
SameWork(r) == debt'[r] = debt[r] /\ firm'[r] = firm[r]
Silent(r) == completions'[r] = completions[r]
Covered(r) == firm[r] => debt[r] = {}

Stay(r) == phase'[r] = phase[r] /\ SameWork(r) /\ Silent(r)

Ask(r) == /\ Moves(r, "out", "open")
          /\ debt'[r] = Parts /\ ~firm'[r] /\ completions'[r] = 0

Analyse(r) == /\ Moves(r, "open", "open")
              /\ debt'[r] = Parts /\ firm'[r] /\ Silent(r)

Do(r) == /\ phase[r] # "out" /\ phase'[r] = phase[r]
         /\ debt'[r] \subseteq debt[r] /\ firm'[r] = firm[r] /\ Silent(r)

\* A request is closed with all of its parts done, unless nothing was written
\* down of what it needs; a failure may turn out to have been spurious
Close(r) == /\ Moves(r, "open", "closed") \/ Moves(r, "failed", "closed")
            /\ Covered(r) /\ SameWork(r) /\ Silent(r)

Fail(r)  == Moves(r, "open", "failed") /\ SameWork(r) /\ Silent(r)
Again(r) == Moves(r, "failed", "open") /\ SameWork(r) /\ Silent(r)

\* A closed request is worked on again only if that repeats what was done
Repeat(r) == /\ Moves(r, "closed", "open") \/ Moves(r, "closed", "failed")
             /\ Covered(r) /\ SameWork(r) /\ Silent(r)

Forgotten(r) == phase'[r] = "out" /\ debt'[r] = {} /\ ~firm'[r]

\* Completion is reported once
Complete(r) == /\ phase[r] # "out" /\ Forgotten(r)
               /\ phase[r] = "closed" \/ Covered(r) \/ gone[r]
               /\ completions[r] = 0 /\ completions'[r] = 1

Withdraw(r) == phase[r] # "out" /\ Forgotten(r) /\ Silent(r)

Step(r) == \/ Stay(r) \/ Ask(r) \/ Analyse(r) \/ Do(r) \/ Close(r) \/ Fail(r)
           \/ Again(r) \/ Repeat(r) \/ Complete(r) \/ Withdraw(r)

Spec == Init /\ [][\A r \in Requests : Step(r)]_pvars
=============================================================================
