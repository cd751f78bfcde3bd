------------------------------ MODULE JobTable ------------------------------
(***************************************************************************)
(* One row of the PostgreSQL table durable_jobs, and what each statement of *)
(* SqlAlchemyDurableJobRepository does to it.  The operators are pure: the   *)
(* modules that keep job rows as state (DurableJobs and others) apply          *)
(* them.                                                                     *)
(*                                                                           *)
(* Time.  A lease is the number of clock ticks it still has to run           *)
(* (lease_until - now) and wait the ticks until available_at; both may go    *)
(* negative.  Every statement compares with the datetime.now(UTC) its caller *)
(* read BEFORE the statement ran, so it sees a clock that is d ticks old,    *)
(* 0 <= d <= Lag, and each operator that compares times takes that d.        *)
(***************************************************************************)
EXTENDS Integers

CONSTANTS
    Nobody,         \* claimed_by IS NULL
    MaxAttempts,    \* DurableJob.max_delivery_attempts (5 in the code)
    LeaseTicks,     \* length of the lease a claim or a renewal takes
    Lag             \* how old the clock reading of a statement may be

ASSUME JobTableAssumption ==
    /\ MaxAttempts \in Nat \ {0}
    /\ LeaseTicks \in Nat \ {0}
    /\ Lag \in Nat
    /\ Lag < LeaseTicks

JobStatus == {"ABSENT", "READY", "CLAIMED", "PAUSED",
              "COMPLETED", "FAILED", "CANCELLED"}

\* Statuses no statement of the repository ever leaves.
Closed == {"COMPLETED", "FAILED", "CANCELLED"}

\* The statuses DurableJob.settle accepts.
SettleStatus == {"PAUSED", "COMPLETED", "FAILED", "CANCELLED"}

\* A row; status ABSENT stands for a job that has not been inserted yet.
Row(Owners) ==
    [status: JobStatus, epoch: Nat, attempts: Nat,
     owner: Owners \cup {Nobody}, lease: Int, wait: Int, exhausted: BOOLEAN]

NoRow == [status |-> "ABSENT", epoch |-> 0, attempts |-> 0, owner |-> Nobody,
          lease |-> 0, wait |-> 0, exhausted |-> FALSE]

\* durable_jobs.add: a fresh READY job, available at once.
NewRow == [NoRow EXCEPT !.status = "READY"]

Claimable(row, d) == row.status = "READY" /\ row.wait + d <= 0

\* Faulty: the epoch is not advanced.
ClaimRowSameEpoch(row, owner, d) ==
    [row EXCEPT !.status = "CLAIMED", !.owner = owner, !.attempts = @ + 1,
                !.lease = LeaseTicks - d, !.wait = 0]

\* claim_ready: a new epoch, one more delivery, a full lease.
ClaimRow(row, owner, d) ==
    [row EXCEPT !.status = "CLAIMED", !.owner = owner,
                !.epoch = @ + 1, !.attempts = @ + 1,
                !.lease = LeaseTicks - d, !.wait = 0]

\* Every way of giving up a claim clears claimed_by and lease_until.
Unclaimed(row, status) ==
    [row EXCEPT !.status = status, !.owner = Nobody, !.lease = 0]

\* Faulty: the boundary of settle, lease_until = now, expires as well.
ExpiredEarly(row, d) == row.status = "CLAIMED" /\ row.lease + d <= 0

\* Faulty: nothing ever expires.
ExpiredNever(row, d) == FALSE

Expired(row, d) == row.status = "CLAIMED" /\ row.lease + d < 0

\* Faulty: a status the enumeration lacks.
RequeueRowUnknown(row, d) ==
    IF Expired(row, d) THEN [Unclaimed(row, "READY") EXCEPT !.status = "EXPIRED"] ELSE row

\* Faulty: off by one, the last delivery is not granted.
RequeueRowOneLess(row, d) ==
    IF ~Expired(row, d) THEN row
    ELSE IF row.attempts + 1 < MaxAttempts
         THEN [Unclaimed(row, "READY") EXCEPT !.wait = -d]
         ELSE [Unclaimed(row, "FAILED") EXCEPT !.exhausted = TRUE]

\* requeue_expired: back to READY while deliveries remain, else FAILED with
\* last_error_code RECOVERY_EXHAUSTED.
RequeueRow(row, d) ==
    IF ~Expired(row, d) THEN row
    ELSE IF row.attempts < MaxAttempts
         THEN [Unclaimed(row, "READY") EXCEPT !.wait = -d]
         ELSE [Unclaimed(row, "FAILED") EXCEPT !.exhausted = TRUE]

\* Faulty: no fence.
HoldsAny(row, owner, epoch) == row.status = "CLAIMED"

\* The fencing token of a claim is its owner with its epoch.
Holds(row, owner, epoch) ==
    row.status = "CLAIMED" /\ row.owner = owner /\ row.epoch = epoch

\* settle and release_for_retry want the token and an unexpired lease.
MaySettle(row, owner, epoch, d) ==
    Holds(row, owner, epoch) /\ row.lease + d >= 0

SettleRow(row, status) == Unclaimed(row, status)

ReleaseRow(row, delay, d) == [Unclaimed(row, "READY") EXCEPT !.wait = delay - d]

\* renew wants the token only: it extends a lease that has run out, too.
RenewRow(row, d) == [row EXCEPT !.lease = LeaseTicks - d]

\* Faulty: a failed job is taken up again.
MayResumeFailed(row) == row.status \in {"PAUSED", "READY", "FAILED"}

MayResume(row) == row.status \in {"PAUSED", "READY"}
ResumeRow(row, d) == [row EXCEPT !.status = "READY", !.wait = -d]

MayCancel(row) == row.status \in {"READY", "CLAIMED", "PAUSED"}
CancelRow(row) == Unclaimed(row, "CANCELLED")

\* One tick of the clock.  A lease is not counted below -(Lag + 1) nor a wait
\* below -Lag: no statement can tell lower values apart.
AgeRow(row) ==
    [row EXCEPT
        !.lease = IF row.status = "CLAIMED" /\ @ > -(Lag + 1) THEN @ - 1 ELSE @,
        !.wait  = IF row.status = "READY" /\ @ > -Lag THEN @ - 1 ELSE @]
=============================================================================
