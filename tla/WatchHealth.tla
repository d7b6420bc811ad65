------------------------------ MODULE WatchHealth ------------------------------
(***************************************************************************)
(* The error state a file watcher keeps of its watch folder                 *)
(* (WatchErrorState): what an event that could not be enqueued, and one that *)
(* could, make of it.  The half-open state is left out: nothing outside the  *)
(* tests calls transition_to_half_open, reset_watch or manual_circuit_reset. *)
(***************************************************************************)
EXTENDS Naturals

CONSTANTS
  DegradedAt, BackoffAt, DisableAt,   \* errors since the last reset
  WindowAt,                           \* errors of the last hour
  ResetAfter                          \* successes in a row

ASSUME WatchHealthAssumption ==
  /\ DegradedAt \in Nat \ {0} /\ BackoffAt \in Nat /\ DisableAt \in Nat
  /\ WindowAt \in Nat /\ ResetAfter \in Nat \ {0}
  /\ DegradedAt <= BackoffAt /\ BackoffAt <= DisableAt /\ DisableAt <= WindowAt

Statuses == {"healthy", "degraded", "backoff", "disabled"}

Health == [status : Statuses,
           errors : Nat,          \* consecutive_errors
           successes : Nat,       \* consecutive_successes
           window : Nat,          \* the length of errors_in_window
           level : Nat,           \* backoff_level
           waiting : BOOLEAN]     \* backoff_until lies ahead

Healthy == [status |-> "healthy", errors |-> 0, successes |-> 0, window |-> 0,
            level |-> 0, waiting |-> FALSE]

CanProcess(h) == h.status # "disabled" /\ ~h.waiting

RecordError(h) ==
  LET n      == h.errors + 1
      status == IF n >= DisableAt \/ h.window + 1 >= WindowAt THEN "disabled"
                ELSE IF n >= BackoffAt THEN "backoff"
                ELSE IF n >= DegradedAt THEN "degraded" ELSE "healthy"
      delays == status \in {"backoff", "disabled"}
  IN  [status |-> status, errors |-> n, successes |-> 0, window |-> h.window + 1,
       level |-> IF delays THEN h.level + 1 ELSE h.level,
       waiting |-> delays \/ h.waiting]

\* One success takes a level off, ResetAfter of them reset everything.  An error
\* in between ends the run of successes, and the errors before it still count.
RecordSuccess(h) ==
  LET level == IF h.level = 0 THEN 0 ELSE h.level - 1 IN
  IF h.successes + 1 >= ResetAfter THEN Healthy
  ELSE [h EXCEPT !.successes = @ + 1, !.level = level,
                 !.waiting = level > 0 /\ @,
                 !.status = IF h.errors = 0 THEN @
                            ELSE IF level > 0 THEN "backoff"
                            ELSE IF h.errors >= DegradedAt THEN "degraded"
                            ELSE "healthy"]
=============================================================================
