---------------------------- MODULE DurableJobs ----------------------------
(***************************************************************************)
(* The durable job queue and everything that works on it: producers insert  *)
(* rows, worker loops claim them with a lease and an epoch, renew, settle,   *)
(* release or lose them, users resume and cancel, processes crash.           *)
(*                                                                           *)
(* A worker is one worker loop of one process.  It keeps in memory the       *)
(* claims (job, epoch) of the batch its last claim transaction returned, and *)
(* works on one of them at a time.  Three roles exist in the code:           *)
(*   scanner        RunDispatchScanner: a batch, a heartbeat per claim being *)
(*                  executed, any outcome;                                   *)
(*   executor       memory formation, push delivery, automation occurrence:  *)
(*                  one claim, no heartbeat, settle or release for a retry;  *)
(*   transactional  file purge and account deletion: claim, effect and       *)
(*                  settlement in one transaction.                           *)
(***************************************************************************)
EXTENDS JobTable, FiniteSets

CONSTANTS
    Jobs, Workers, Kinds,
    KindOf,         \* kind of each job
    Serves,         \* kind each worker claims
    Role,           \* "scanner", "executor" or "transactional"
    BatchSize,      \* rows a scanner claims at once
    RetryDelay,     \* back-off of release_for_retry, in ticks
    MaxResumes      \* bound: times a job is resumed

ASSUME DurableJobsAssumption ==
    /\ KindOf \in [Jobs -> Kinds]
    /\ Serves \in [Workers -> Kinds]
    /\ Role \in [Workers -> {"scanner", "executor", "transactional"}]
    /\ BatchSize \in Nat \ {0}
    /\ RetryDelay \in Nat
    /\ MaxResumes \in Nat
    /\ Nobody \notin Workers

VARIABLES
    rows,       \* the table durable_jobs
    rest,       \* rest[w]: claims of the batch that w has not begun
    current,    \* current[w]: the claim w executes, or NoClaim
    beating,    \* beating[w]: the heartbeat task of current[w] runs
    resumes     \* resumes[j]: bound counter

vars == <<rows, rest, current, beating, resumes>>

Claim == [job: Jobs, epoch: Nat \ {0}]
NoClaim == [job |-> "none", epoch |-> 0]

\* What w has in memory.
InHand(w) == rest[w] \cup (IF current[w] = NoClaim THEN {} ELSE {current[w]})

TypeOK ==
    /\ rows \in [Jobs -> Row(Workers)]
    /\ rest \in [Workers -> SUBSET Claim]
    /\ current \in [Workers -> Claim \cup {NoClaim}]
    /\ beating \in [Workers -> BOOLEAN]
    /\ resumes \in [Jobs -> 0..MaxResumes]

Init ==
    /\ rows = [j \in Jobs |-> NoRow]
    /\ rest = [w \in Workers |-> {}]
    /\ current = [w \in Workers |-> NoClaim]
    /\ beating = [w \in Workers |-> FALSE]
    /\ resumes = [j \in Jobs |-> 0]

-----------------------------------------------------------------------------
(* Producers and users *)

\* durable_jobs.add: the unique key (user_id, dedupe_key) admits a job once.
Enqueue(j) ==
    /\ rows[j] = NoRow
    /\ rows' = [rows EXCEPT ![j] = NewRow]
    /\ UNCHANGED <<rest, current, beating, resumes>>

\* A user answers: PAUSED (or READY) becomes READY now.
Resume(j, d) ==
    /\ MayResume(rows[j])
    /\ resumes[j] < MaxResumes
    /\ rows' = [rows EXCEPT ![j] = ResumeRow(@, d)]
    /\ resumes' = [resumes EXCEPT ![j] = @ + 1]
    /\ UNCHANGED <<rest, current, beating>>

\* A user cancels, whether or not a worker holds the job.
Cancel(j) ==
    /\ MayCancel(rows[j])
    /\ rows' = [rows EXCEPT ![j] = CancelRow(@)]
    /\ UNCHANGED <<rest, current, beating, resumes>>

-----------------------------------------------------------------------------
(* Claiming *)

Idle(w) == current[w] = NoClaim /\ rest[w] = {}

Limit(w) == IF Role[w] = "scanner" THEN BatchSize ELSE 1

\* claim_ready_jobs first requeues the expired claims of EVERY kind.
Requeued(d) == [j \in Jobs |-> RequeueRow(rows[j], d)]

Available(w, d) ==
    {j \in Jobs : KindOf[j] = Serves[w] /\ Claimable(Requeued(d)[j], d)}

\* The claim transaction takes some available rows of its kind: FOR UPDATE SKIP
\* LOCKED passes over rows another transaction is working on, LIMIT bounds them.
ClaimJobs(w, S, d) ==
    /\ Role[w] # "transactional"
    /\ Idle(w)
    /\ S \subseteq Available(w, d)
    /\ Cardinality(S) <= Limit(w)
    /\ rows' = [j \in Jobs |-> IF j \in S
                               THEN ClaimRow(Requeued(d)[j], w, d)
                               ELSE Requeued(d)[j]]
    /\ rest' = [rest EXCEPT ![w] = {[job |-> j, epoch |-> rows'[j].epoch] : j \in S}]
    /\ UNCHANGED <<current, beating, resumes>>

\* A transactional worker requeues, claims one row and settles it, all in one
\* transaction, whose clock reading serves all three statements.
ClaimAndSettle(w, j, d) ==
    /\ Role[w] = "transactional"
    /\ j \in Available(w, d)
    /\ LET claimed == ClaimRow(Requeued(d)[j], w, d)
       IN  /\ MaySettle(claimed, w, claimed.epoch, d)
           /\ rows' = [Requeued(d) EXCEPT ![j] = SettleRow(claimed, "COMPLETED")]
    /\ UNCHANGED <<rest, current, beating, resumes>>

-----------------------------------------------------------------------------
(* Executing a claim *)

\* The next claim of the batch is taken up; a scanner starts its heartbeat.
Begin(w, c) ==
    /\ current[w] = NoClaim
    /\ c \in rest[w]
    /\ current' = [current EXCEPT ![w] = c]
    /\ rest' = [rest EXCEPT ![w] = @ \ {c}]
    /\ beating' = [beating EXCEPT ![w] = Role[w] = "scanner"]
    /\ UNCHANGED <<rows, resumes>>

\* The heartbeat renews on the token alone, and ends when that fails.
Heartbeat(w, d) ==
    /\ beating[w]
    /\ LET c == current[w]
           row == rows[c.job]
       IN  IF Holds(row, w, c.epoch)
           THEN rows' = [rows EXCEPT ![c.job] = RenewRow(@, d)] /\ UNCHANGED beating
           ELSE beating' = [beating EXCEPT ![w] = FALSE] /\ UNCHANGED rows
    /\ UNCHANGED <<rest, current, resumes>>

\* The claim in hand is done with and the loop goes on to the rest of the batch.
NextClaim(w) ==
    /\ current' = [current EXCEPT ![w] = NoClaim]
    /\ beating' = [beating EXCEPT ![w] = FALSE]
    /\ UNCHANGED <<rest, resumes>>

\* An exception leaves the loop over the batch: the rest of it is forgotten,
\* its rows stay CLAIMED until their leases run out.
DropBatch(w) ==
    /\ current' = [current EXCEPT ![w] = NoClaim]
    /\ rest' = [rest EXCEPT ![w] = {}]
    /\ beating' = [beating EXCEPT ![w] = FALSE]
    /\ UNCHANGED resumes

Settle(w, status, d) ==
    LET c == current[w] IN
    /\ c # NoClaim
    /\ Role[w] = "executor" => status \in {"COMPLETED", "FAILED"}
    /\ MaySettle(rows[c.job], w, c.epoch, d)
    /\ rows' = [rows EXCEPT ![c.job] = SettleRow(@, status)]
    /\ NextClaim(w)

\* No row matched: a scanner raises InvalidStateTransition, an executor rolls back.
SettleLost(w, d) ==
    LET c == current[w] IN
    /\ c # NoClaim
    /\ ~MaySettle(rows[c.job], w, c.epoch, d)
    /\ DropBatch(w)
    /\ UNCHANGED rows

\* record_failure of the occurrence worker, while deliveries remain.
Release(w, d) ==
    LET c == current[w] IN
    /\ c # NoClaim
    /\ Role[w] = "executor"
    /\ MaySettle(rows[c.job], w, c.epoch, d)
    /\ rows[c.job].attempts < MaxAttempts
    /\ rows' = [rows EXCEPT ![c.job] = ReleaseRow(@, RetryDelay, d)]
    /\ NextClaim(w)

\* An await raises before the settlement, the executor returns with its job
\* unsettled, or the process dies: what w held in memory is gone.
Abandon(w) ==
    /\ ~Idle(w)
    /\ DropBatch(w)
    /\ UNCHANGED rows

Tick ==
    /\ rows' = [j \in Jobs |-> AgeRow(rows[j])]
    /\ UNCHANGED <<rest, current, beating, resumes>>

-----------------------------------------------------------------------------
JobStep(j) == Enqueue(j) \/ Cancel(j) \/ \E d \in 0..Lag : Resume(j, d)

Claiming(w) ==
    \E d \in 0..Lag :
        \/ \E S \in SUBSET Jobs : ClaimJobs(w, S, d)
        \/ \E j \in Jobs : ClaimAndSettle(w, j, d)

Finishing(w) ==
    \/ \E d \in 0..Lag, status \in SettleStatus : Settle(w, status, d)
    \/ \E d \in 0..Lag : SettleLost(w, d) \/ Release(w, d)

WorkerStep(w) ==
    \/ Claiming(w)
    \/ \E c \in rest[w] : Begin(w, c)
    \/ \E d \in 0..Lag : Heartbeat(w, d)
    \/ Finishing(w)
    \/ Abandon(w)

Next ==
    \/ \E j \in Jobs : JobStep(j)
    \/ \E w \in Workers : WorkerStep(w)
    \/ Tick

Spec == Init /\ [][Next]_vars

-----------------------------------------------------------------------------
(* Fairness: time passes; a worker goes through its batch and every execution  *)
(* ends (each has a timeout); a loop goes on claiming; and a row that is        *)
(* available again and again is claimed in the end, because the claim order     *)
(* (available_at, created_at) is oldest first and row locks are short.          *)

ClaimOf(j) ==
    \E w \in Workers, d \in 0..Lag :
        \/ \E S \in SUBSET Jobs : j \in S /\ ClaimJobs(w, S, d)
        \/ ClaimAndSettle(w, j, d)

Fairness ==
    /\ WF_vars(Tick)
    /\ \A w \in Workers :
          /\ WF_vars(\E c \in rest[w] : Begin(w, c))
          /\ WF_vars(Finishing(w))
    /\ SF_vars(\E w \in Workers : Claiming(w))
    /\ \A j \in Jobs : SF_vars(ClaimOf(j))

FairSpec == Spec /\ Fairness

-----------------------------------------------------------------------------
(* Properties *)

\* Fencing (claim_epoch): no two workers ever hold the same token, no token is
\* newer than the row, and the token of a CLAIMED row is in the hand of the
\* worker the row names, or in nobody's.
TokenUnique ==
    \A w \in Workers : \A c \in InHand(w) :
        /\ c.epoch <= rows[c.job].epoch
        /\ \A v \in Workers : c \in InHand(v) => v = w
        /\ rows[c.job].status = "CLAIMED" /\ rows[c.job].epoch = c.epoch
              => rows[c.job].owner = w

\* A CLAIMED row whose lease has not run out is taken from its worker by nobody
\* but that worker or a cancelling user: the statements of settle (lease_until >=
\* now) and requeue_expired (lease_until < now) meet without overlap, whichever
\* clock reading each of them uses.
LeaseRespected ==
    [][\A j \in Jobs :
          /\ rows[j].status = "CLAIMED"
          /\ rows[j].lease >= 0
          /\ rows'[j].status # "CANCELLED"
          /\ rows'[j].status # "CLAIMED" \/ rows'[j].epoch # rows[j].epoch
          => \E w \in Workers : /\ current[w] = [job |-> j, epoch |-> rows[j].epoch]
                                /\ current'[w] = NoClaim]_vars

\* A late worker cannot settle: a row becomes PAUSED, COMPLETED or FAILED only
\* by the worker that holds its newest epoch, by a transactional claim, or by
\* exhausting its deliveries.
SettledByHolder ==
    [][\A j \in Jobs :
          /\ rows'[j].status # rows[j].status
          /\ rows'[j].status \in {"PAUSED", "COMPLETED", "FAILED"}
          => \/ rows'[j].exhausted
             \/ rows'[j].epoch > rows[j].epoch
             \/ \E w \in Workers :
                    /\ current[w] = [job |-> j, epoch |-> rows[j].epoch]
                    /\ current'[w] = NoClaim]_vars

\* Whatever late settlements, renewals, requeues, resumes and cancellations
\* still arrive, a closed row never changes again.
ClosedIsFinal ==
    [][\A j \in Jobs : rows[j].status \in Closed => rows'[j] = rows[j]]_vars

\* RECOVERY_EXHAUSTED is the verdict on a worker that held the row's last
\* permitted delivery and let the lease run out, never on a row at rest.
ExhaustedAfterDeliveries ==
    [][\A j \in Jobs :
          rows'[j].exhausted /\ ~rows[j].exhausted
          => /\ rows[j].status = "CLAIMED"
             /\ rows[j].lease < 0
             /\ rows[j].attempts >= MaxAttempts]_vars

\* No job is forgotten: one that is READY or CLAIMED is closed or paused in the
\* end, however its workers fail.
EveryJobSettles ==
    \A j \in Jobs :
        rows[j].status \in {"READY", "CLAIMED"}
        ~> rows[j].status \in Closed \cup {"PAUSED"}
=============================================================================
