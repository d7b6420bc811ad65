------------------------------ MODULE QueueRows ------------------------------
(***************************************************************************)
(* One row of the `unified_queue` table and every SQL statement that       *)
(* rewrites it.  The daemon's workers, its FTS5 batch writer, its reaper,   *)
(* its start-up code and its gRPC write actor share no lock on a row: each  *)
(* issues one of these statements, and SQLite orders them.                  *)
(*                                                                         *)
(* A NULL sink and a 'pending' sink are one value: every reader of the two  *)
(* columns treats them alike.  A lease is abstracted to its relation to     *)
(* "now", and an error message to the prefix the daemon dispatches on.      *)
(***************************************************************************)
EXTENDS Naturals

Status == {"absent", "pending", "in_progress", "done", "failed"}
Sink   == {"pending", "in_progress", "done", "failed"}
Lease  == {"none", "ahead", "past"}
Sinks  == {"qdrant", "search"}

\* "plain" is a message with none of the prefixes `[transient_`, `[permanent_`
Errors == {"none", "transient", "permanent", "exhausted", "plain"}

Row == [status  : Status,
        lease   : Lease,
        retry   : Nat,
        qdrant  : Sink,
        search  : Sink,
        decided : BOOLEAN,    \* decision_json IS NOT NULL
        err     : Errors,
        revived : Nat]        \* metadata.resurrection_count

NoRow ==
  [status |-> "absent", lease |-> "none", retry |-> 0, qdrant |-> "pending",
   search |-> "pending", decided |-> FALSE, err |-> "none", revived |-> 0]

\* INSERT OR IGNORE of a new item
NewRow == [NoRow EXCEPT !.status = "pending"]

Blank(r) == [r EXCEPT !.qdrant = "pending", !.search = "pending"]

-----------------------------------------------------------------------------
(* Leases *)

CanLease(r) == \/ r.status = "pending" /\ r.lease # "ahead"
               \/ r.status = "in_progress" /\ r.lease = "past"

\* The sinks keep what the previous attempt wrote
Leased(r) == [r EXCEPT !.status = "in_progress", !.lease = "ahead"]

\* re_lease_item: any status goes back to pending; the sinks stay
Parked(r) == [r EXCEPT !.status = "pending", !.lease = "ahead"]

Orphan(s) == IF s = "in_progress" THEN "pending" ELSE s

Unorphaned(r) == [r EXCEPT !.qdrant = Orphan(@), !.search = Orphan(@)]

Stale(r) == r.status = "in_progress" /\ r.lease = "past"

Recovered(r) == [Unorphaned(r) EXCEPT !.status = "pending", !.lease = "none"]

\* What the daemon's start makes of a row a dead process left behind
AtStartup(r) == IF r.status = "in_progress" THEN Recovered(r) ELSE Unorphaned(r)

-----------------------------------------------------------------------------
(* Per-destination state machine *)

WithSink(r, sink, s) == IF sink = "qdrant" THEN [r EXCEPT !.qdrant = s]
                                           ELSE [r EXCEPT !.search = s]

\* store_queue_decision
Decided(r) == [Blank(r) EXCEPT !.decided = TRUE]

\* Mutant: the decision is not looked at
ExplicitMutant(r, s) == IF s = "pending" THEN "done" ELSE s

\* Without a decision, a sink nobody wrote is taken as done
Explicit(r, s) == IF ~r.decided /\ s = "pending" THEN "done" ELSE s

ExplicitlyMarked(r) ==
  [r EXCEPT !.qdrant = Explicit(r, @), !.search = Explicit(r, @)]

Verdict(r) == IF r.qdrant = "done" /\ r.search = "done" THEN "done"
              ELSE IF "failed" \in {r.qdrant, r.search} THEN "failed"
              ELSE "in_progress"

\* check_and_finalize: an unresolved row keeps the status it has
Resolved(r) == IF Verdict(r) = "in_progress" THEN r
               ELSE [r EXCEPT !.status = Verdict(r)]

-----------------------------------------------------------------------------
(* Failure bookkeeping *)

\* Mutant: the retry is not backed off
EagerMutant(r, seen, err, max) ==
  LET tried == [Blank(r) EXCEPT !.retry = seen + 1, !.err = err, !.lease = "none"]
  IN  IF err # "permanent" /\ seen + 1 < max
      THEN [tried EXCEPT !.status = "pending"]
      ELSE [tried EXCEPT !.status = "failed"]

\* Mutant: the retries are not counted against their bound
EndlessMutant(r, seen, err, max) ==
  LET tried == [Blank(r) EXCEPT !.retry = seen + 1, !.err = err]
  IN  IF err # "permanent"
      THEN [tried EXCEPT !.status = "pending", !.lease = "ahead"]
      ELSE [tried EXCEPT !.status = "failed", !.lease = "none"]

\* mark_unified_failed, given the retry_count its SELECT saw
MarkedFailed(r, seen, err, max) ==
  LET retry == seen + 1
      tried == [Blank(r) EXCEPT !.retry = retry, !.err = err]
  IN  IF err # "permanent" /\ retry < max
      THEN [tried EXCEPT !.status = "pending", !.lease = "ahead"]
      ELSE [tried EXCEPT !.status = "failed", !.lease = "none"]

Resurrectable(r) == r.status = "failed" /\ r.err = "transient"

\* resurrect_failed_transient
Resurrected(r, max) ==
  IF r.revived >= max
  THEN [r EXCEPT !.err = "exhausted"]
  ELSE [Blank(r) EXCEPT !.status = "pending", !.retry = 0, !.lease = "ahead",
                        !.revived = r.revived + 1]

\* triage_failed_items leaves the permanent failures alone
Triageable(r) == r.status = "failed" /\ r.err \in {"transient", "plain"}

\* RetryItem / RetryAll from the write actor
UserRetried(r) ==
  [Blank(r) EXCEPT !.status = "pending", !.lease = "none", !.retry = 0,
                   !.err = "none"]
=============================================================================
