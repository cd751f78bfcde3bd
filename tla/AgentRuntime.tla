---------------------------- MODULE AgentRuntime ----------------------------
(***************************************************************************)
(* How an agent run is executed: the run's row, its durable job, its         *)
(* interactions and its LangGraph checkpoint, written by the users' API      *)
(* calls and by worker processes that each consist of a RunDispatchScanner   *)
(* driving AgentRunWorker.run_once.  Processes crash, awaits raise, leases   *)
(* run out under a worker that does not notice.                              *)
(*                                                                           *)
(* A worker's transition is a transaction that reads the run, applies the    *)
(* entity's method to the copy and writes the copy back if version has not   *)
(* moved: two steps here.  Tool calls within the graph belong to ToolLedger, *)
(* clock readings that go stale to DurableJobs; statements read the current  *)
(* time here.                                                                *)
(***************************************************************************)
EXTENDS JobTable, RunTable, Sequences, FiniteSets

CONSTANTS
    Runs, Workers,
    BatchSize,      \* jobs a scanner claims at once
    MaxQuestions    \* bound: interrupts the graph raises in a run

ASSUME AgentRuntimeAssumption ==
    /\ BatchSize \in Nat \ {0}
    /\ MaxQuestions \in Nat
    /\ Nobody \notin Workers

VARIABLES
    run,            \* agent_runs
    job,            \* durable_jobs, keyed by the run (dedupe key agent-run:<id>)
    asked,          \* run_interactions of a run, in the order they were added
    replies,        \* assistant messages of a run
    ckpt,           \* newest LangGraph checkpoint of a run's graph thread
    at,             \* what each worker is doing
    rest            \* claims of the worker's batch that it has not begun

vars == <<run, job, asked, replies, ckpt, at, rest>>
users == <<at, rest, ckpt, replies>>

\* An interrupt the graph raises is a question with a number of its own.  An
\* interaction made from a checkpoint takes the interrupt's id as its key, one
\* made from the graph's output draws a fresh one.
Interaction == [question: 1..MaxQuestions, keyed: BOOLEAN,
                status: {"PENDING", "RESOLVED"}]

Checkpoint == [kind: {"none", "mid", "interrupt", "final"}, question: 0..MaxQuestions]

JobClaim == [run: Runs, epoch: Nat \ {0}]

\* Where run_once can be.  Inside its try block a worker beats for the run and
\* an exception leads to fail_run.
Guarded == {"graph", "wait", "accept", "complete", "memory"}
Unguarded == {"start", "inspect", "reask", "finalAccept", "finalComplete", "fail"}
Writing == {"wait", "accept", "complete", "reask", "finalAccept", "finalComplete", "fail"}
Stage == Guarded \cup Unguarded \cup {"idle", "report", "settle"}

NoClaim == [run |-> "none", epoch |-> 0]

Worker == [pc: Stage, claim: JobClaim \cup {NoClaim}, token: Nat, output: BOOLEAN,
           question: 0..MaxQuestions, copy: RunRow, lost: BOOLEAN]

AtRest == [pc |-> "idle", claim |-> NoClaim, token |-> 0, output |-> FALSE,
           question |-> 0, copy |-> NoRun, lost |-> FALSE]

TypeOK ==
    /\ run \in [Runs -> RunRow]
    /\ job \in [Runs -> Row(Workers)]
    /\ asked \in [Runs -> Seq(Interaction)]
    /\ replies \in [Runs -> Nat]
    /\ ckpt \in [Runs -> Checkpoint]
    /\ at \in [Workers -> Worker]
    /\ rest \in [Workers -> SUBSET JobClaim]

Init ==
    /\ run = [r \in Runs |-> NoRun]
    /\ job = [r \in Runs |-> NoRow]
    /\ asked = [r \in Runs |-> <<>>]
    /\ replies = [r \in Runs |-> 0]
    /\ ckpt = [r \in Runs |-> [kind |-> "none", question |-> 0]]
    /\ at = [w \in Workers |-> AtRest]
    /\ rest = [w \in Workers |-> {}]

-----------------------------------------------------------------------------
(* The API *)

\* create_user_run, create_automation_run: run and job in one transaction.
CreateRun(r) ==
    /\ run[r].status = "ABSENT"
    /\ run' = [run EXCEPT ![r] = NewRun]
    /\ job' = [job EXCEPT ![r] = NewRow]
    /\ UNCHANGED <<users, asked>>

\* Faulty: the result of durable_jobs.resume is ignored.
ResumeUnchecked(r) ==
    /\ run[r].status = "WAITING"
    /\ asked[r][run[r].ask].status = "PENDING"
    /\ asked' = [asked EXCEPT ![r][run[r].ask].status = "RESOLVED"]
    /\ run' = [run EXCEPT ![r] = Resumed(@)]
    /\ job' = [job EXCEPT ![r] = IF MayResume(@) THEN ResumeRow(@, 0) ELSE @]
    /\ UNCHANGED users

\* Faulty: the interaction is not marked.
ResumeUnmarked(r) ==
    /\ run[r].status = "WAITING"
    /\ MayResume(job[r])
    /\ run' = [run EXCEPT ![r] = Resumed(@)]
    /\ job' = [job EXCEPT ![r] = ResumeRow(@, 0)]
    /\ UNCHANGED <<users, asked>>

\* resume_run: the interaction the run waits for is resolved, the run queued
\* with the response, the job made ready; all of it or nothing.
Resume(r) ==
    /\ run[r].status = "WAITING"
    /\ asked[r][run[r].ask].status = "PENDING"
    /\ MayResume(job[r])
    /\ asked' = [asked EXCEPT ![r][run[r].ask].status = "RESOLVED"]
    /\ run' = [run EXCEPT ![r] = Resumed(@)]
    /\ job' = [job EXCEPT ![r] = ResumeRow(@, 0)]
    /\ UNCHANGED users

\* cancel_run: the run in any state, its job if it is still open.
Cancel(r) ==
    /\ run[r].status \notin Terminal \cup {"ABSENT"}
    /\ run' = [run EXCEPT ![r] = Ended(@, "CANCELLED")]
    /\ job' = [job EXCEPT ![r] = IF MayCancel(@) THEN CancelRow(@) ELSE @]
    /\ UNCHANGED <<users, asked>>

-----------------------------------------------------------------------------
(* The scanner loop *)

Target(w) == at[w].claim.run

Idle(w) == at[w].pc = "idle" /\ rest[w] = {}

Requeued == [r \in Runs |-> RequeueRow(job[r], 0)]

\* One transaction: requeue every expired job, claim some of the ready ones.
ClaimJobs(w, S) ==
    /\ Idle(w)
    /\ Cardinality(S) <= BatchSize
    /\ \A r \in S : Claimable(Requeued[r], 0)
    /\ job' = [r \in Runs |-> IF r \in S THEN ClaimRow(Requeued[r], w, 0) ELSE Requeued[r]]
    /\ rest' = [rest EXCEPT ![w] = {[run |-> r, epoch |-> job'[r].epoch] : r \in S}]
    /\ UNCHANGED <<run, asked, replies, ckpt, at>>

Begin(w, c) ==
    /\ at[w].pc = "idle"
    /\ c \in rest[w]
    /\ at' = [at EXCEPT ![w].pc = "start", ![w].claim = c]
    /\ rest' = [rest EXCEPT ![w] = @ \ {c}]
    /\ UNCHANGED <<run, job, asked, replies, ckpt>>

\* The scanner's heartbeat for the job it is executing.
JobBeat(w) ==
    /\ at[w].pc \in Guarded \cup Unguarded
    /\ Holds(job[Target(w)], w, at[w].claim.epoch)
    /\ job' = [job EXCEPT ![Target(w)] = RenewRow(@, 0)]
    /\ UNCHANGED <<run, asked, replies, ckpt, at, rest>>

\* The batch is lost: its jobs stay CLAIMED until their leases run out.
Forget(w) ==
    /\ at' = [at EXCEPT ![w] = AtRest]
    /\ rest' = [rest EXCEPT ![w] = {}]

\* settle_agent_run_job reads the run first.  A run that is still to be executed
\* makes it raise, out of the loop over the batch.
ReadOutcome(w) ==
    /\ at[w].pc = "report"
    /\ IF run[Target(w)].status \in {"QUEUED", "RUNNING"}
       THEN Forget(w)
       ELSE /\ at' = [at EXCEPT ![w].pc = "settle", ![w].copy = run[Target(w)]]
            /\ UNCHANGED rest
    /\ UNCHANGED <<run, job, asked, replies, ckpt>>

Verdict(status) ==
    IF status = "WAITING" THEN "PAUSED"
    ELSE IF status = "CANCELLED" THEN "CANCELLED"
    ELSE "COMPLETED"

SettleJob(w) ==
    /\ at[w].pc = "settle"
    /\ IF MaySettle(job[Target(w)], w, at[w].claim.epoch, 0)
       THEN /\ job' = [job EXCEPT ![Target(w)] = SettleRow(@, Verdict(at[w].copy.status))]
            /\ at' = [at EXCEPT ![w] = AtRest]
            /\ UNCHANGED rest
       ELSE Forget(w) /\ UNCHANGED job
    /\ UNCHANGED <<run, asked, replies, ckpt>>

\* The process dies, or a statement of the scanner itself raises.
Crash(w) ==
    /\ ~Idle(w)
    /\ Forget(w)
    /\ UNCHANGED <<run, job, asked, replies, ckpt>>

-----------------------------------------------------------------------------
(* run_once *)

Goto(w, pc) == at' = [at EXCEPT ![w].pc = pc, ![w].copy = NoRun]

\* An exception in run_once: fail_run if the try block is reached, and the
\* scanner goes on to settle.
Throws(w) == Goto(w, IF at[w].pc \in Guarded THEN "fail" ELSE "report")

\* Any await of run_once may raise: the database, the model, a tool.
Raise(w) ==
    /\ at[w].pc \in Guarded \cup Unguarded
    /\ Throws(w)
    /\ UNCHANGED <<run, job, asked, replies, ckpt, rest>>

\* claim_run; a run that may not be claimed is reported as it is.
ClaimRun(w) ==
    /\ at[w].pc = "start"
    /\ LET r == Target(w)
       IN  IF MayClaim(run[r])
           THEN /\ run' = [run EXCEPT ![r] = Claimed(@)]
                /\ at' = [at EXCEPT ![w].pc = "inspect", ![w].token = run'[r].token,
                                    ![w].output = run[r].output]
           ELSE Goto(w, "report") /\ UNCHANGED run
    /\ UNCHANGED <<job, asked, replies, ckpt, rest>>

\* Before the graph: a spent budget fails the run, an accepted output completes
\* it, and otherwise reconcile_checkpoint decides on the checkpoint.  Whatever is
\* left, a resumed run included, goes to the graph.
Inspect(w) ==
    /\ at[w].pc = "inspect"
    /\ LET c == ckpt[Target(w)]
       IN  \/ Goto(w, "fail")
           \/ at[w].output /\ Goto(w, "finalComplete")
           \/ ~at[w].output /\ c.kind = "final" /\ Goto(w, "finalAccept")
           \/ /\ ~at[w].output /\ c.kind = "interrupt"
              /\ at' = [at EXCEPT ![w].pc = "reask", ![w].question = c.question]
           \/ ~at[w].output /\ c.kind \in {"none", "mid"} /\ Goto(w, "graph")
    /\ UNCHANGED <<run, job, asked, replies, ckpt, rest>>

\* The run's heartbeat, within the try block.
RunBeat(w) ==
    /\ at[w].pc \in Guarded
    /\ ~at[w].lost
    /\ IF HeldBy(run[Target(w)], at[w].token)
       THEN run' = [run EXCEPT ![Target(w)] = Renewed(@)] /\ UNCHANGED at
       ELSE at' = [at EXCEPT ![w].lost = TRUE] /\ UNCHANGED run
    /\ UNCHANGED <<job, asked, replies, ckpt, rest>>

\* The graph writes a checkpoint per superstep (durability "sync").  Nothing in
\* those writes asks whether the worker still holds the run.
GraphStep(w) ==
    /\ at[w].pc = "graph"
    /\ ckpt' = [ckpt EXCEPT ![Target(w)].kind = "mid"]
    /\ UNCHANGED <<run, job, asked, replies, at, rest>>

GraphInterrupt(w) ==
    /\ at[w].pc = "graph"
    /\ LET c == ckpt[Target(w)]
       IN  /\ c.question < MaxQuestions
           /\ ckpt' = [ckpt EXCEPT ![Target(w)] =
                           [kind |-> "interrupt", question |-> c.question + 1]]
           /\ at' = [at EXCEPT ![w].pc = "wait", ![w].question = c.question + 1]
    /\ UNCHANGED <<run, job, asked, replies, rest>>

\* The lost lease is noticed here and nowhere earlier.
GraphFinish(w) ==
    /\ at[w].pc = "graph"
    /\ ckpt' = [ckpt EXCEPT ![Target(w)].kind = "final"]
    /\ Goto(w, IF at[w].lost THEN "fail" ELSE "accept")
    /\ UNCHANGED <<run, job, asked, replies, rest>>

-----------------------------------------------------------------------------
(* The worker's transitions *)

\* The transaction reads the run and checks the token.
ReadRun(w) ==
    /\ at[w].pc \in Writing
    /\ at[w].copy = NoRun
    /\ IF HeldBy(run[Target(w)], at[w].token)
       THEN at' = [at EXCEPT ![w].copy = run[Target(w)]]
       ELSE Throws(w)
    /\ UNCHANGED <<run, job, asked, replies, ckpt, rest>>

\* runs.update: the copy is written back if the row still has its version.
Write(w, new) ==
    /\ run[Target(w)].version = at[w].copy.version
    /\ run' = [run EXCEPT ![Target(w)] = new]

AtWrite(w, stages) == at[w].pc \in stages /\ at[w].copy # NoRun

\* A keyed interaction that exists already violates the primary key.
Duplicate(w) ==
    /\ at[w].pc = "reask"
    /\ \E i \in DOMAIN asked[Target(w)] :
          asked[Target(w)][i].keyed /\ asked[Target(w)][i].question = at[w].question

WriteWait(w) ==
    /\ AtWrite(w, {"wait", "reask"})
    /\ ~Duplicate(w)
    /\ Write(w, Waiting(at[w].copy, Len(asked[Target(w)]) + 1))
    /\ asked' = [asked EXCEPT ![Target(w)] =
                    Append(@, [question |-> at[w].question, keyed |-> at[w].pc = "reask",
                               status |-> "PENDING"])]
    /\ Goto(w, "report")
    /\ UNCHANGED <<job, replies, ckpt, rest>>

\* accept_terminal_output writes back the lease it read, too.
WriteOutput(w) ==
    /\ AtWrite(w, {"accept", "finalAccept"})
    /\ Write(w, Accepted(at[w].copy))
    /\ Goto(w, IF at[w].pc = "accept" THEN "complete" ELSE "finalComplete")
    /\ UNCHANGED <<job, asked, replies, ckpt, rest>>

WriteReply(w) ==
    /\ AtWrite(w, {"complete", "finalComplete"})
    /\ Write(w, Ended(at[w].copy, "COMPLETED"))
    /\ replies' = [replies EXCEPT ![Target(w)] = @ + 1]
    /\ Goto(w, IF at[w].pc = "complete" THEN "memory" ELSE "report")
    /\ UNCHANGED <<job, asked, ckpt, rest>>

WriteFailure(w) ==
    /\ AtWrite(w, {"fail"})
    /\ Write(w, Ended(at[w].copy, "FAILED"))
    /\ Goto(w, "report")
    /\ UNCHANGED <<job, asked, replies, ckpt, rest>>

\* VersionConflict, or the primary key of run_interactions: rolled back, raised.
WriteRefused(w) ==
    /\ AtWrite(w, Writing)
    /\ run[Target(w)].version # at[w].copy.version \/ Duplicate(w)
    /\ Throws(w)
    /\ UNCHANGED <<run, job, asked, replies, ckpt, rest>>

\* Memory formation after the reply is modelled elsewhere; it may raise here.
FormMemory(w) ==
    /\ at[w].pc = "memory"
    /\ Goto(w, "report")
    /\ UNCHANGED <<run, job, asked, replies, ckpt, rest>>

Tick ==
    /\ run' = [r \in Runs |-> Aged(run[r])]
    /\ job' = [r \in Runs |-> AgeRow(job[r])]
    /\ UNCHANGED <<users, asked>>

-----------------------------------------------------------------------------
Transition(w) == ReadRun(w) \/ WriteWait(w) \/ WriteOutput(w) \/ WriteReply(w)
                 \/ WriteFailure(w) \/ WriteRefused(w)

\* The steps that take run_once and its settlement to their end.
Onward(w) ==
    \/ \E c \in rest[w] : Begin(w, c)
    \/ ClaimRun(w) \/ Inspect(w) \/ GraphInterrupt(w) \/ GraphFinish(w)
    \/ Transition(w) \/ FormMemory(w) \/ ReadOutcome(w) \/ SettleJob(w)

WorkerStep(w) ==
    \/ \E S \in SUBSET Runs : ClaimJobs(w, S)
    \/ Onward(w) \/ GraphStep(w) \/ Raise(w) \/ Crash(w)
    \/ JobBeat(w) \/ RunBeat(w)

UserStep(r) == CreateRun(r) \/ Resume(r) \/ Cancel(r)

Next ==
    \/ \E r \in Runs : UserStep(r)
    \/ \E w \in Workers : WorkerStep(w)
    \/ Tick

Spec == Init /\ [][Next]_vars

\* Time passes, an execution ends (the graph has a wall-time budget and so has
\* every statement), scanners poll, and a job that is ready again and again is
\* claimed in the end.
Fairness ==
    /\ WF_vars(Tick)
    /\ \A w \in Workers : /\ WF_vars(Onward(w))
                           /\ SF_vars(\E S \in SUBSET Runs : ClaimJobs(w, S))
    /\ \A r \in Runs :
          SF_vars(\E w \in Workers, S \in SUBSET Runs : r \in S /\ ClaimJobs(w, S))

FairSpec == Spec /\ Fairness

-----------------------------------------------------------------------------
(* Properties *)

\* The run is the promise: its status, questions and reply follow the product
\* state machine of RunLifecycle, whatever the workers and their jobs go through.
Lifecycle ==
    INSTANCE RunLifecycle WITH
        phase <- [r \in Runs |-> run[r].status],
        questions <- [r \in Runs |-> Len(asked[r])],
        answers <- [r \in Runs |-> Cardinality({i \in DOMAIN asked[r] :
                                                  asked[r][i].status = "RESOLVED"})]

ImplementsLifecycle == Lifecycle!Spec

\* Fencing (claim_token): a RUNNING run is moved on by a user's cancellation, a
\* new claim, or the worker of its newest claim; a worker whose lease was taken
\* over changes nothing.
MovedByHolder ==
    [][\A r \in Runs :
          /\ run[r].status = "RUNNING"
          /\ run'[r].version # run[r].version
          /\ run'[r].status # "CANCELLED"
          /\ run'[r].claims = run[r].claims
          => \E w \in Workers : /\ Target(w) = r
                                /\ at[w].token = run[r].claims
                                /\ at'[w] # at[w]]_vars

\* A run that waits waits for its newest interaction, which is pending, and no
\* older one is.
WaitingIsAnswerable ==
    \A r \in Runs :
        /\ run[r].status = "WAITING" =>
              /\ run[r].ask = Len(asked[r]) /\ run[r].ask > 0
              /\ asked[r][run[r].ask].status = "PENDING"
        /\ \A i \in DOMAIN asked[r] : i < Len(asked[r]) => asked[r][i].status = "RESOLVED"

\* A settled job tells the truth about its run, although settle_agent_run_job
\* reads the run in one statement and settles in another.
JobFollowsRun ==
    \A r \in Runs :
        /\ job[r].status = "PAUSED" => run[r].status = "WAITING"
        /\ job[r].status = "COMPLETED" => run[r].status \in {"COMPLETED", "FAILED"}
        /\ job[r].status = "CANCELLED" => run[r].status = "CANCELLED"

\* A run that is not over has a job that will bring it on, unless that job has
\* used up its deliveries: READY, or CLAIMED under a lease that will run out, or,
\* for a run that waits, PAUSED until the answer.
NotStranded ==
    \A r \in Runs :
        \/ run[r].status \in Terminal \cup {"ABSENT"}
        \/ job[r].status \in {"READY", "CLAIMED"}
        \/ run[r].status = "WAITING" /\ job[r].status = "PAUSED"
        \/ job[r].exhausted

\* Every run that is queued or running ends, asks its user, or uses up the
\* deliveries of its job.
RunsGetAnywhere ==
    \A r \in Runs :
        run[r].status \in {"QUEUED", "RUNNING"}
        ~> run[r].status \in Terminal \cup {"WAITING"} \/ job[r].exhausted

-----------------------------------------------------------------------------
(* What the documents say and the code does not do *)

\* Runtime design, section 42: a job over its deliveries becomes FAILED and its
\* run FAILED with it.
ExhaustionFailsRun ==
    \A r \in Runs : job[r].exhausted => run[r].status \in Terminal

\* Section 6.1: a resume continues the run.  A question that has been answered
\* is not put again.
AnsweredOnce ==
    \A r \in Runs : \A i, k \in DOMAIN asked[r] :
        asked[r][i].question = asked[r][k].question => i = k
=============================================================================
