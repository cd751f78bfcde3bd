------------------------------ MODULE RunTable ------------------------------
(***************************************************************************)
(* One row of the table agent_runs: the AgentRun entity and the three       *)
(* statements (claim, renew_lease, update) that write it.  The entity's      *)
(* methods work on a copy of the row that was read earlier in the            *)
(* transaction; update writes the whole copy back if version has not moved.  *)
(*                                                                           *)
(* A claim token is the number of the claim that drew it, 0 is NULL: the     *)
(* code draws a fresh UUID for each.  A lease counts the ticks it still runs. *)
(***************************************************************************)
EXTENDS Integers

CONSTANT RunLease       \* ticks of the lease a claim or a renewal takes

ASSUME RunTableAssumption == RunLease \in Nat \ {0}

RunStatus == {"ABSENT", "QUEUED", "RUNNING", "WAITING",
              "COMPLETED", "FAILED", "CANCELLED"}

Terminal == {"COMPLETED", "FAILED", "CANCELLED"}

RunRow ==
    [status: RunStatus,
     token: Nat,            \* claim_token
     claims: Nat,           \* attempt_count
     lease: Int,            \* lease_expires_at
     version: Nat,
     ask: Nat,              \* interrupt_id: number of the interaction waited for
     answer: Nat,           \* resume_payload: number of the interaction answered
     output: BOOLEAN]       \* terminal_output is set

NoRun == [status |-> "ABSENT", token |-> 0, claims |-> 0, lease |-> 0,
          version |-> 0, ask |-> 0, answer |-> 0, output |-> FALSE]

NewRun == [NoRun EXCEPT !.status = "QUEUED", !.version = 1]

\* Faulty: a waiting run is claimed before its user answers.
MayClaimWaiting(run) ==
    \/ run.status \in {"QUEUED", "WAITING"}
    \/ run.status = "RUNNING" /\ run.lease <= 0

\* claim: one UPDATE of a queued run, or of a running one whose lease is over
\* (lease_expires_at <= now: a lease of 0 ticks is over, unlike a job's).
MayClaim(run) ==
    \/ run.status = "QUEUED"
    \/ run.status = "RUNNING" /\ run.lease <= 0

Claimed(run) ==
    [run EXCEPT !.status = "RUNNING", !.token = run.claims + 1,
                !.claims = @ + 1, !.lease = RunLease, !.version = @ + 1]

\* Faulty: no fence.
HeldByAny(run, token) == run.status = "RUNNING"

\* The fence of every transition a worker makes.  A token is set exactly while
\* the run is RUNNING, so the entity's own test of the status adds nothing.
HeldBy(run, token) == run.token = token /\ run.status = "RUNNING"

\* renew_lease moves the lease and not the version.
Renewed(run) == [run EXCEPT !.lease = RunLease]

Released(run, status) ==
    [run EXCEPT !.status = status, !.token = 0, !.lease = 0, !.version = @ + 1]

Waiting(run, id) == [Released(run, "WAITING") EXCEPT !.ask = id]

Resumed(run) == [run EXCEPT !.status = "QUEUED", !.answer = run.ask, !.ask = 0,
                            !.version = @ + 1]

Accepted(run) == [run EXCEPT !.output = TRUE, !.version = @ + 1]

Ended(run, status) == Released(run, status)

Aged(run) ==
    [run EXCEPT !.lease = IF run.status = "RUNNING" /\ @ > 0 THEN @ - 1 ELSE @]
=============================================================================
