# A verification development for laoshiren

laoshiren is a personal agent: a FastAPI backend on PostgreSQL whose users talk
to an agent in threads. A message becomes an *agent run*; a run is executed by a
worker that drives a LangGraph graph, calls tools and may stop to ask its user;
everything that must survive a crash is a row in PostgreSQL. What is hard about
this program is the layer below the conversation: at-least-once job delivery by
leases, fencing tokens, optimistic locking, a tool ledger and checkpoints, which
together are to make a run look like a simple state machine to its user. That
layer is what these modules specify.

Paths below are relative to `backend/src/laoshiren/`.

## 1. The system

| Component | State it keeps | Operations | Who touches it |
|---|---|---|---|
| Durable job queue `infrastructure/persistence/repositories/runtime.py`, `application/runtime/durable_job_claim.py` | `durable_jobs`: status, owner, epoch, lease, deliveries, `available_at` | add, claim_ready, renew, settle, release_for_retry, requeue_expired, resume, cancel | every background loop, and users through resume and cancel |
| Run scanner `workers/runtime.py` | the batch of claims in memory, one heartbeat task | claim a batch, execute its claims in turn, settle each | one loop per process |
| Agent run and worker `application/runtime/service.py`, `workers/agent.py`, `domain/runtime/entities.py` | `agent_runs`, `run_interactions`, messages; the claim token and the heartbeat of the worker | create, claim, renew, wait, accept output, complete, fail; resume and cancel by users | scanner, API |
| Checkpoints `infrastructure/coordination/checkpoint_inspector.py`, LangGraph | newest checkpoint of the run's graph thread | written by the graph, inspected by the worker | worker |
| Tool ledger `application/runtime/service.py`, `agent/graph.py`, `agent/tools.py` | `tool_executions` by `action_id` | claim, take over, complete, mark unknown, reconcile | graph, operator |
| Executive graph `agent/graph.py`, `agent/policy.py`, `agent/parallel.py` | graph state (budgets, pending action) | decide, check policy, confirm, execute, respond | worker |
| Run events `service.py`, `infrastructure/coordination/redis_wakeup.py`, `presentation/api/routers/runtime.py` | `run_events`, Redis channels | append, list after a sequence, publish, subscribe | worker, API |
| Automations `application/automations/`, `workers/automation*.py`, `workers/push_delivery.py` | automations, occurrences, intents, deliveries, outbox | materialize, execute an occurrence, notify, deliver | scheduler loops |
| Sources and files `application/sources/`, `application/files/`, `workers/source.py`, `workers/file_purge.py` | sources, chunks, generations, stored objects | upload, process, delete, purge, orphan scan | API, loops |
| Memories `application/memories/`, `workers/memory.py` | memories, suppressions, operations | form, reconcile, remember, update, forget | tools, API, loop |
| Personal state `application/personal_state/`, `domain/personal_state/` | things, tasks, dates, blockers, mutations, timeline | versioned idempotent writes | API, tools |
| Identity `application/identity/`, `workers/account_deletion.py` | users, sessions, devices, push endpoints | sign in, refresh, log out, register, delete the account | API, loop |
| HarmonyOS client `apps/harmonyos/.../ChatViewModel.ets` | what the screen shows of a run | follow the events, ask for the outcome, refresh | user |
| Context, search, model gateways; the rest of the HTTP layer and of the client | none of their own | pure computation or I/O | - |

How they meet: the API inserts a run and its job in one transaction. A scanner
claims the job (lease, epoch), and calls `run_once`, which claims the *run* (a
second lease, a fresh token), looks at the checkpoint, and runs the graph. The
graph calls tools through the ledger (a third lease, a third token). The outcome
goes into the run by optimistic locking on `version`, and only then does the
scanner read the run again and settle the job accordingly. A user's answer
resolves the interaction, queues the run and makes the paused job ready, again
in one transaction.

Hard behaviours: three independent leases that run out at different times under
a worker that does not notice; read-then-write transactions; processes that die
between any two statements; exceptions that leave a batch half done; a user who
cancels or answers at any moment; clock readings taken before the statement that
uses them. `PROJECT.json` lists each hazard at its line.

What makes the components correct, briefly: *queue* - one holder per token, live
leases respected, closed jobs closed, no job forgotten; *run* - the product
state machine, final states final, one reply, one open question, a job that
agrees with the run and is there as long as the run is not over; *ledger* - an
effect at most once and a truthful receipt; *graph* - an action id is one call,
nothing sensitive without the user, budgets that survive a restart; *events* - no
gap, no repetition, no stream that hangs; *automations* - one intent per slot, no
occurrence lost; *files* - a READY file is readable, a stale worker publishes
nothing, no object without an owner for ever; *memories* - one memory per profile
key and per formed candidate, forgotten is forgotten; *personal state* - no lost
update, an audit without holes, a deadline that has its date; *identity* - a device
and its pushes have one owner, a deletion is carried out and never taken back.

## 2. Modules

| Module | Models | Built on |
|---|---|---|
| `JobTable` | a row of `durable_jobs` and what each statement does to it (pure operators) | - |
| `DurableJobs` | the queue with its producers, loops and users | `JobTable` |
| `DurableJobsProofs` | theorems about `DurableJobs` | `DurableJobs`, `TLAPS` |
| `RunTable` | a row of `agent_runs`: the entity's methods and the repository's statements | - |
| `RunLifecycle` | abstract: what a user is promised of a run | - |
| `AgentRuntime` | runs, jobs, interactions, checkpoints, scanners and workers; implements `RunLifecycle` | `JobTable`, `RunTable` |
| `AgentRuntimeProofs` | theorems about `AgentRuntime`, with the refinement | `AgentRuntime`, `TLAPS` |
| `ToolLedger` | the executions of one run's tools under takeovers and cancellation | `RunTable` |
| `ToolLedgerProofs` | theorems about `ToolLedger` and `ExecutiveGraph` | `ToolLedger`, `ExecutiveGraph`, `TLAPS` |
| `Automations` | automations, occurrences and their jobs, the scheduler, occurrence workers and users | `JobTable` |
| `AutomationsProofs` | theorems about `Automations` and `PushDelivery` | `Automations`, `PushDelivery`, `TLAPS` |
| `PushTable` | what is kept of pushes: endpoints, intents, deliveries, jobs, and two properties of it | `JobTable` |
| `PushDelivery` | the fan-out of a notification to push endpoints, its jobs and its workers | `PushTable` |
| `GraphState` | the state of one run's graph, the risk of a tool, and the properties of that state | - |
| `ExecutiveGraph` | the graph of one run: decisions, policy, confirmations, tool calls, budgets, checkpoints, restarts | `GraphState` |
| `RunEvents` | the events of one run, the stream that serves them and the phone that follows it | - |
| `RunEventsProofs` | theorems about `RunEvents` and `FileProcessing` | `RunEvents`, `FileProcessing`, `TLAPS` |
| `PersonalState` | things, tasks, dates, entries, blockers, relations and their mutation records | - |
| `PersonalStateProofs` | theorems about `PersonalState` | `PersonalState`, `TLAPS` |
| `FileTable` | what is kept of files: rows, objects, purge jobs, work in hand; how a file is read, and two properties of it | - |
| `FileProcessing` | uploads, source processing, deletion, purge and the orphan scan | `FileTable` |
| `Memories` | long-term memories, suppressions and the formation worker | - |
| `MemoriesProofs` | theorems about `Memories` | `Memories`, `TLAPS` |
| `Identity` | accounts, devices, sessions, push endpoints and the deletion of an account | - |
| `IdentityProofs` | theorems about `Identity` | `Identity`, `TLAPS` |
| `MC*` | the small instances TLC checks | |

`GraphState`, `PushTable` and `FileTable` hold the state of a component apart from its
steps, so that a module with theorems about two components can name the variables of the
second and instantiate its steps (`Graph`, `Push`, `File`) without a clash of names.

Definitions introduced by a comment "Faulty:" are plausible
bugs of the definition that follows them. No specification uses them; replacing
the definition by its faulty form shows that a property can fail.

### JobTable and DurableJobs

Time is relative: `lease` is `lease_until - now` in ticks and `wait` is
`available_at - now`; `Tick` lowers both. Every statement of the repository
compares with a `datetime.now(UTC)` that its caller read earlier, so operators
that compare take an age `d \in 0..Lag` of that reading and the actions choose
it freely. A renewal or a claim of an old reading sets a lease that is `d` ticks
shorter, as in the code. `Lag < LeaseTicks` is an assumption: a lease is a minute
or more and a statement does not take that long.

One action per operation: `Enqueue`, `Resume`, `Cancel`, `ClaimJobs` (requeue of
expired rows of *every* kind, then the claim of some rows of one kind - `SKIP
LOCKED` may pass over any of them, so any subset up to the limit), `Begin`,
`Heartbeat`, `Settle`, `SettleLost`, `Release`, `Abandon` (exception, unsettled
return or crash), and `ClaimAndSettle` for the two workers that claim, act and
settle in one transaction. The three roles of a worker - scanner, executor,
transactional - differ in exactly the ways the loops in `workers/` differ: batch
size, heartbeat, permitted outcomes.

### RunTable, AgentRuntime and RunLifecycle

`at[w]` is where `run_once` of process `w` is. A worker's transition
(`_worker_transition`, `accept_terminal_output`) is a transaction of two steps,
because the row is read without a lock: `ReadRun` checks the token and takes a
copy, then `WriteWait`, `WriteOutput`, `WriteReply` or `WriteFailure` writes the
copy back if `version` has not moved and `WriteRefused` raises otherwise. Users'
calls (`CreateRun`, `Resume`, `Cancel`) are one step: their first read is
checked by the same version test, and their other statements test what they
need in the database.

`Raise` lets every await of `run_once` fail. Inside the try block (`Guarded`)
that leads to `fail_run`; outside it leads straight to the scanner's settlement.
`ReadOutcome` and `SettleJob` are the two statements of `settle_agent_run_job`;
their failure drops the rest of the batch (`Forget`). `Inspect` is everything
`run_once` does between the claim and the graph, in the code's order. The graph
is left open: it may checkpoint, interrupt or finish at any time, and its writes
to the checkpoint are not fenced, as in the code. A claim token is the number of
the claim (the code draws a UUID).

Statements read the current time here; stale readings are the subject of
`DurableJobs`. An interaction made from a checkpoint is keyed by the interrupt's
id, one made from the graph's output has a fresh key: the difference decides
whether a second one can be inserted (`Duplicate`).

`RunLifecycle` is the promise: submit, start, ask, answer, reply, fail, cancel on
`phase`, `questions`, `answers`, `replies`. The refinement maps `phase` to
`agent_runs.status`, `questions` to the number of interactions and `answers` to
the number of resolved ones; taking over a running run, accepting an output and
everything that happens to jobs and checkpoints is a stutter.

### ToolLedger

Five kinds of action follow the replay policies and the handlers in `agent/tools.py`:

- *read*: READ_ONLY without an effect (`Look`);
- *noting*: READ_ONLY too, but `url_inspect` with `persist_observation` inserts and commits
  an observation each time it runs, without a key (`Note`);
- *atomic*: a mutation of the own database that commits with its receipt
  (`complete_mutation_tool`), hence in `Save`; `Look` is then its refusal;
- *keyed*: `thing_change_state` with COMPLETE, CANCEL or REACTIVATE, which commits in
  `update_thing` before its receipt is written. `LookUpKey` is the look at the mutation key,
  `Change` the conditional update that follows it: it commits whoever holds the run by then, and
  finds a stale version if another worker has made the change meanwhile;
- *external*: NON_REPLAYABLE (`Act`). The registry of this commit has no such tool; the
  ledger and the graph implement the policy all the same, and it is checked as they implement it.

`LookUpKey` and `Change` share `Applied`: the key in the audit trail and the version of the Thing
are there, or have moved, from the moment the change has committed (`PersonalState` has the
two tables themselves).
`claim_tool_execution`, the receipt and `cancel_run` each first read the run (or
the executions) and act afterwards: two steps each. `effects` counts what really
happened, which no row records. `Reconcile` stands for an operator who looks at
the provider; nothing in the repository calls it.

### Automations and PushDelivery

A slot `<<a, n>>` is the n-th trigger time of automation `a`. The code derives
the keys of the occurrence, its job, its agent run and its notification intent
from the trigger time, so the slot is the key of all four. When a trigger time
arrives is left open: any ACTIVE automation with a trigger time may be due.
`ProcessDue(S)` is one transaction of the scheduler over a batch of due rows,
which stay locked; users therefore come before or after it.

An occurrence worker goes through `Scan` (the claim transaction, which also
requeues or fails expired claims), `Reconcile` (`reconcile_exhausted`, outside
the try block), `Load`, `TriggerRun` (the agent run, in a transaction of its own)
and `React` (intent, occurrence, automation and job in one commit, which needs
the claim - `Owns` - and the version that was read - `Current`). `Skip`, `Raise`,
`RetryLater`, `GiveUp`, `LoseClaim` and `Abandon` are the other ways out. The
branches of `execute_claimed` for a missing or settled occurrence have no action:
`OccurrenceMatchesJob` shows that a claimed job's occurrence is always open.

A push worker claims, submits (`Submit`, an external provider that accepts,
refuses or raises, in the last case having accepted or not), records the answer
without a fence (`Record`) and settles (`Settle`), each in a transaction of its
own. `create_reminder_notification` is split: that the intent commits with the
occurrence is in `Automations`, what it creates for the endpoints in
`PushDelivery!Notify`.

### ExecutiveGraph

`g` is the newest checkpoint: the graph state the code keeps (decision, pending
calls, number of results, counters) and the node that comes next. `mem[w]` is the
invocation of worker `w`: whether it lives, its own copy of the graph state, whether that
is still the newest checkpoint, the answer it was given, how far its calls are. `runRow` is
the run: its status, who holds it, the question it waits with and the last answer. One action
per node of `build_executive_graph` - `Decide`, `Respond`, `Interrupt`/`AskUser`, `Policy`,
`Confirmation`, `ParallelPolicy`, and `BeginClaim`, `Start`, `Cached`, `BeginFinish`, `Finish`,
`Throw`, `Collect` for a single or a parallel execution - and `Invoke`, `Continue`,
`Inspect`, `UserAnswers`, `Crash` around it.

A run whose lease has run out is taken (`Takes`) whether its worker died or is only late with
its heartbeats. In the second case (`overlaps` counts them) two invocations go on side by
side: each on its own copy, each writing checkpoints that nothing fences (`Writes`: the last to
write has the newest), while claims and receipts of tools (`Checks`) and the end of the run
(`IfHolder`) are refused to the one that no longer holds it. A transaction checks the holder
when it begins, so a claim or receipt that has begun still goes through.
LangGraph is external: it writes a checkpoint after each node and none within one,
so a crash loses the results of a half-executed batch while their rows in the
ledger stay. `Restarted` is the input `run_once` builds for a run that has a
checkpoint and no answer: the results are dropped, the counters are kept. What
the model proposes is any call of `Calls` and any batch of `Batches`; a call is a
tool and the arguments the policy looks at. `Unique`, the calls of a batch without the
repetitions, is defined by the first occurrence of each call; that it is what the code's
loop collects is an `ASSUME` of `MCExecutiveGraph` (`UniqueIsTheLoop`), which TLC evaluates
for every list of up to five calls out of three. The ledger is that of `ToolLedger`
reduced to what the graph sees of it: an action id, the call, whose claim it is, whether it is done;
that the lease of an execution has run out is left open.

### RunEvents

`Commit` is `append_event` inside the transaction of a transition; since it draws
the sequence from a counter in the run's row it holds that row's lock until the
commit, and the log has no holes. `PublishWakeup` and `LoseWakeup` come after the
commit. The generator of `GET /runs/{id}/events` is `Subscribe`, `Read`, `Send`,
`CheckRun` and `WakeUp`/`Timeout`, one action per await between which others run.
The phone (`Connect`, `Receive`, `StreamEnds`, `GetRun`, `RefreshMessages`,
`Break`, `Retry`) reads the stream to its end, then asks for the run and, if
completed, for the messages.

### PersonalState

Each of the fifteen writes of `PersonalStateApplicationService` and `write_ops` is a pair of
actions: `Ask` (look up the key, load and validate) and `Apply...` (write, record
the mutation, commit). Other transactions commit in between; `Rollback` is a
version conflict, a broken unique index, an exception or a death. `AskAgain` is
the same request sent twice. `audit` holds one record per mutation with the
versions it created, which is what ties a row to its history. Cascades are in the
action whose code makes them: a deletion detaches tasks and removes dates, entries
and blockers, a merge rebinds them, a primary date un-primaries its rivals without
a new version. `ThingOperations`, `TaskOperations`, `DateAndBlockerOperations` and
`ContextOperations` group the pairs as the service does.

### FileProcessing

`source` and `file` are the legacy row and its mirror, which share an identifier.
`StoreObject` and `CommitUpload` are the two halves of `upload`; the object store
has no transactions. A source worker claims (`ClaimProcessing`), may renew
(`Heartbeat`), extracts, and completes or fails; its lease may run out at any
moment (`ExpireLease`). `LoadForDelete` and `DeleteFile` are the two halves of
`apply_delete_file`. `Purge` is one transaction, `DeleteObject` what follows it,
`DeleteObjectFails` what may follow instead. `Claimed`, `Completed`, `WithNewGeneration` and
`MarkedDeleted` are what the statements do to a row. `BeginScan` and `EndScan` are
`scan_orphan_storage`. `CompleteProcessing` stores chunks and segments with their embeddings, or
without when the provider fails (`Segments`). `ContextChunks` is what a reader gets who asks for
everything, by text or by the embedding of the text: a text that no segment contains finds all
of them (`list_inspect_segments` asks again without it), but an embedding finds no segment that
has none itself, and then `get_context_chunks` reads the legacy chunks.

### Memories

A write is `OpenCreate`/`CommitCreate` or `OpenUpdate`/`CommitUpdate`. A creation
holds advisory locks (`Locks`) from open to commit; everything else relies on the
version of the row. `ClaimJob`, `Extract`, `FormCreate`, `FormUpdate`,
`FormSuccessor`, `Settle` and `Crash` are the formation worker; an exception in a
candidate is logged and ends the pass (`pc = "failed"`), as in the code. The job's
claim is reduced to owner and epoch; its lease may run out at any time.

### Identity

Every request is `Begin...` (its reads) and `Finish...` (its writes and commit),
since no row is locked in between. `DeleteAccount` is the worker's single
transaction. A user is known by the external subject; a session is live, expired
or revoked; an endpoint is a row per account and device.

## 3. Runs

| Run | Question | Bounds | States |
|---|---|---|---|
| `durable_jobs_mixed` | do a scanner with batches, an executor and a transactional loop ever share, lose or forget a job? | 2 jobs, 3 workers, batch 2, 2 deliveries, lease 1, retry delay 1, 1 resume | 59,268 |
| `runtime_takeover` | does a run keep its promise while processes take it over and its user answers and cancels, and does it get somewhere? | 1 run, 2 processes, 2 deliveries, run lease 2, job lease 1, 2 questions | 324,776 |
| `tools_takeover` | is an effect ever repeated, or a receipt false? | one action of four kinds each (a noting read stands for the plain one), any two of them in a behaviour, 2 workers, 2 claims, leases 1 | 709,701 |
| `graph_restart` | do ids, confirmations and budgets survive restarts and takeovers? | 2 workers, 5 tools, batches of 2, 2 decisions, 2 tool calls, 2 searches, 2 crashes, 1 takeover of a live worker; after it 3 invocations (or 2 and a crash), 2 handlers, 3 calls | 564,411 |
| `run_events_follow` | does the phone get every event once, and an end? | 5 events, pages of 2, 1 broken connection | 155,000 |
| `automations_reminders` | do automation, occurrence, job, run and intent stay consistent, and does every reminder end? | 1 automation of any type with a task, 2 workers, 2 deliveries, lease 2, lag 1, 3 changes by users | 130,568 |
| `push_fanout` | is a push forgotten, recorded falsely or sent without bound? | 1 intent, 2 endpoints, 2 workers, 2 deliveries, 2 switches of endpoints | 187,139 |
| `personal_state_races` | is an update ever lost, unrecorded or half applied? | 2 things and one that may be created, 1 task, 2 dates, 1 entry, 1 blocker, 2 clients, 3 requests | 680,000 |
| `files_race` | can what is READY be read, do sources and objects come to an end? | 2 files under one key, 2 workers, 2 deletions, 2 attempts, 2 crashes, 1 failed object deletion | 180,078 |
| `memories_formation` | do formation and the user agree on what is remembered? | 3 memories, 2 contents, 1 profile key, 2 workers, 2 deliveries, 2 requests | 402,000 |
| `identity_deletion` | do overlapping requests mix up accounts or undo a deletion? | 2 accounts, 1 device, 2 requests at once, 2 sessions | 404,000 |
| `runtime_answered_once` | see section 6 | 1 run, 2 processes, 2 deliveries | - |

Why the bounds are enough to be interesting. Two workers suffice for a takeover
with a zombie, and a claim token names one worker, so a third brings no new
relation between two tokens. Two deliveries let a job be lost, tried again and
exhausted. Run lease and job lease differ so that each can run out first. Two
questions let an answered question be followed by another and by a second version
of itself. Statements with an old clock are in `automations_reminders` (a lag of 1
with a lease of 2 makes a reading stale by half a lease); for the queue itself,
where every lag is covered by the theorem `LiveLeasesRespected`, the run uses
current clocks and spends its states on the mix of loops. Batches of two claims
are in `durable_jobs_mixed`; what an agent run sees of a lost batch is a claim
that is not settled, which `AgentRuntime!Forget` and a crash produce with one run
as well. Leases of one tick in `tools_takeover` let every pair of expiries happen
in either order. Three changes let a user pause, resume and cancel around the
execution of one reminder; two overlapping slots of one automation share only its
row, whose version the user's changes move as well. Two crashes in `graph_restart`
let a restarted graph be restarted again with the budget nearly used. The takeover of a live
worker multiplies the states, so `FewAtOnce` follows it with fewer calls (a read and two
sensitive ones that differ in their arguments) as far as the late worker's checkpoint
meets a third invocation. Actions of `tools_takeover` meet only in the
run and in the workers that take them up, so two kinds in one behaviour are enough
(`TwoActionsUsed`). Pages of two
with five events make a page that is full, one that is not and one in between
which events are committed. Three requests to the personal state put two
transactions on the same row after a third has prepared it. One device and two
accounts are the smallest instance in which a device changes hands.

`CHECK_DEADLOCK` is off where the system may really stop because its requests are
bounded: `personal_state_races`, `memories_formation`, `graph_restart`,
`run_events_follow` and `identity_deletion`. Elsewhere something is always
possible (`Tick`, a poll, a scan) and it is on.

Liveness and its fairness. The fairness of `DurableJobs`, `AgentRuntime`,
`Automations` and `PushDelivery` assumes that time passes; that a worker's
execution ends (the graph runs under `asyncio.timeout`, the other handlers do one
bounded piece of work); that the loops poll again and again (`while True` with a
sleep, exceptions suppressed) - strong fairness, because a loop is between batches
only now and then - where for the queue it is enough that *some* worker claims;
and that a job that is available again and again is claimed in the end, which the
order of `claim_ready` (priority, then oldest `available_at`) and short row locks
give for equal priorities (the code sets no other). `Automations` also assumes that
the scheduler looks at every due automation in the end (a batch is ordered by
trigger time) and that reconciling, which may raise, does not raise for ever.
`FileProcessing` assumes that the schedulers of source processing, purge and scan
poll, that a lease nobody renews runs out, and that a request that has begun ends.
`RunEvents` assumes that the API's event loop goes on with a request it serves,
which includes the half-second timeout of a wait, and that the phone handles what
it receives. `Identity` assumes that the account deletion scheduler polls. Nothing
is assumed of users, of heartbeats, of wake-ups, of object deletions, or of
crashes ceasing: what bounds crashes is the limit on deliveries or a named bound.

## 4. Properties

Queue: `TokenUnique`, `LeaseRespected`, `SettledByHolder`, `ClosedIsFinal`,
`ExhaustedAfterDeliveries`, and `EveryJobSettles`. The delicate one is
`LeaseRespected`: `settle` wants `lease_until >= now` and `requeue_expired` wants
`lease_until < now`; since a reading is never in the future, a row whose lease
has not run out cannot be requeued, however old the reading, while a stale
reading may let a worker settle a little late, which the epoch makes harmless.

Runtime: `ImplementsLifecycle` (refinement: it also says that a final state is
final and that there is one reply), `MovedByHolder` (fencing),
`WaitingIsAnswerable`, `JobFollowsRun` (the verdict settled on a job is still true
of its run), `NotStranded` (a run that is not over has a job that will bring it on,
or the job is exhausted) and `RunsGetAnywhere`.

Ledger: `AtMostOnce` (for a change that commits before its receipt, too; only the observations
of a noting read repeat) and `ReceiptIsTrue` (SUCCEEDED means that it has happened; the converse
for the mutations that commit with their receipt, the only ones that keep it).

Graph: `OneCallPerAction` (ids are numbered from 0 again after a restart, while another worker
may still be at the first attempt, and the ledger's fingerprint is what keeps two calls apart),
`SensitiveIsConfirmed` and `BudgetsKept`. The last two have a part that always holds - every
sensitive call was confirmed under its id, an invocation takes its answer once, and each
invocation keeps the budget - and a part for the whole run that holds as long as no live worker
has been taken over: answers that reach another question are no more than crashes, and handlers
exceed the budget only by those whose checkpoint a crash has lost.

Events: `NoGapNoRepeat`, `EndedMeansShown`, `EventsArrive`.

Automations: `OccurrenceMatchesJob` (occurrence and job tell the same story at
every commit), `SucceededIsDurable` (an occurrence succeeded exactly when its
notification is durable, and its run exists), `EndedStaysEnded` (a stale copy
never revives a cancelled automation), `EveryReminderEnds`.

Push: `AcceptedIsTrue` (although answers are recorded without a fence),
`SubmissionsBounded` (one submission per claim), `EveryPushEnds`.

Personal state: `EveryVersionAudited` (every version of every row is in exactly one
mutation record: no lost update, no write past the audit, no replay applied twice)
and `DeadlineHasDate`.

Files: `ReadyIsReadable` (however the reader asks; a query by embedding falls back on the legacy
chunks exactly when the embeddings failed), `PublishedByClaimant` (the worker whose step publishes
made the last claim, although completion checks the owner's name and not the lease: the claim of a
second worker changes the name, and the same worker does not claim what it works on), `EverySourceSettles` and
`ObjectsGo`, both with the exception that section 6 names.

Memories: `OneActiveProfile` (by the advisory locks, without the unique index),
`FormedOnce`, `ForgottenIsFinal`.

Identity: `EndpointFollowsOwner`, `DeletionIsFinal`, `EveryDeletionRuns`.

## 5. Proofs

Every component's module has theorems that hold for every value of the constants
that meets the assumptions: any number of workers, rows, users and requests, any leases and
any bounds. Every invariant and every action property that a run checks is stated by a
theorem; the runs remain the evidence for liveness, and they are what shows that the
states the theorems speak of are reached. A bound that caps a run (`MaxClaims`, `MaxRequests`, `MaxCandidates`,
`MaxQuestions`, `MaxEvents`...) is an arbitrary number here, so it restricts nothing.

| Module | Theorem | Property | Kind |
|---|---|---|---|
| `DurableJobsProofs` | `TypeCorrect` | `TypeOK` | invariant |
| | `TokensAreUnique` | `TokenUnique` | invariant |
| | `ClosedStaysClosed` | `ClosedIsFinal` | every step |
| | `LiveLeasesRespected` | `LeaseRespected` | every step |
| | `OnlyHoldersSettle` | `SettledByHolder` | every step |
| | `ExhaustionAfterDeliveries` | `ExhaustedAfterDeliveries` | every step |
| `AgentRuntimeProofs` | `RuntimeTypeCorrect` | `TypeOK` | invariant |
| | `WaitingRunsAreAnswerable` | `WaitingIsAnswerable` | invariant |
| | `JobsFollowRuns` | `JobFollowsRun` | invariant |
| | `NoRunIsStranded` | `NotStranded` | invariant |
| | `RunsMovedByHolder` | `MovedByHolder` | every step |
| | `RuntimeImplementsLifecycle` | `ImplementsLifecycle` | refinement |
| `ToolLedgerProofs` | `ToolLedgerTypeCorrect` | `TypeOK` | invariant |
| | `EffectsAtMostOnce` | `AtMostOnce` | invariant |
| | `ReceiptsAreTrue` | `ReceiptIsTrue` | invariant |
| | `GraphTypeCorrect` | `Graph!TypeOK` | invariant |
| | `ActionsAreSingleCalls` | `OneCallPerAction` | invariant |
| | `SensitiveCallsConfirmed` | `SensitiveIsConfirmed` | invariant |
| | `BudgetsAreKept` | `BudgetsKept` | invariant |
| `RunEventsProofs` | `RunEventsTypeCorrect` | `TypeOK` | invariant |
| | `ConnectionsBringAll` | `NoGapNoRepeat` | invariant |
| | `EndsAreShown` | `EndedMeansShown` | invariant |
| | `FileTypeCorrect` | `File!TypeOK` | invariant |
| | `ProcessedFilesAreReadable` | `ReadyIsReadable` | invariant |
| | `ResultsByClaimant` | `PublishedByClaimant` | every step |
| `AutomationsProofs` | `AutomationsTypeCorrect` | `TypeOK` | invariant |
| | `OccurrencesMatchJobs` | `OccurrenceMatchesJob` | invariant |
| | `SuccessIsDurable` | `SucceededIsDurable` | invariant |
| | `EndedAutomationsStay` | `EndedStaysEnded` | every step |
| | `PushTypeCorrect` | `Push!TypeOK` | invariant |
| | `AcceptancesAreTrue` | `AcceptedIsTrue` | invariant |
| | `SubmissionsWithinAttempts` | `SubmissionsBounded` | invariant |
| `MemoriesProofs` | `MemoriesTypeCorrect` | `TypeOK` | invariant |
| | `ProfilesAreSingle` | `OneActiveProfile` | invariant |
| | `RunsFormOnce` | `FormedOnce` | invariant |
| | `ForgettingIsFinal` | `ForgottenIsFinal` | every step |
| `PersonalStateProofs` | `PersonalTypeCorrect` | `TypeOK` | invariant |
| | `VersionsAreAudited` | `EveryVersionAudited` | invariant |
| | `DeadlinesHaveDates` | `DeadlineHasDate` | invariant |
| `IdentityProofs` | `IdentityTypeCorrect` | `TypeOK` | invariant |
| | `EndpointsFollowOwners` | `EndpointFollowsOwner` | invariant |
| | `DeletionsAreFinal` | `DeletionIsFinal` | every step |

The assumptions are the named `ASSUME`s of the modules, which TLC evaluates in every run:
at least one delivery, positive leases, `0 <= Lag < LeaseTicks`, a batch and a page of at
least one, a natural number of switches of push endpoints, a first event (`run.queued` comes with the
run), every action of the ledger has one of the five kinds; the types of the parameters
(the batches of the graph are sequences of its calls); that the mark for "nobody" or "none" is
no identifier; that the workers that form memories are not the clients that edit them; and
that identifiers of different tables differ (they are UUIDs).

The proofs have one plan. An inductive invariant strengthens the properties, and was
checked by TLC on the instance of the run before it was proved. Each operator on a row has a
lemma (`...Facts`) that says what it returns and keeps; frame lemmas (`...Step`, `...Kept`)
say what a step that writes only some of the variables leaves true; then each action has a
lemma or a step of its own, and PTL combines them. Action properties are consequences of the
invariant and one step.

*Queue.* `TypeOK` is inductive on its own, `TokenUnique` relative to it: a claim is added
only with an epoch that is one more than the row's, hence newer than every epoch in any
hand, and the row then names the claimer; every other action keeps or drops claims and keeps
or raises epochs. Since `InHand` is not a function, the proof works with what each action
does to the set of claims held by each worker. The four action properties follow action by
action from the row lemmas: `lease + d < 0` and `d >= 0` exclude `lease >= 0`, so no reading
of the clock lets a live lease be requeued (`LiveLeasesRespected`); a row leaves CLAIMED for a
settled status by its holder's `settle` or by the verdict of `requeue_expired`
(`OnlyHoldersSettle`), and that verdict falls only on a claimed row whose lease ran out on
its last delivery (`ExhaustionAfterDeliveries`, lemma `RequeueVerdict`).

*Runtime.* `RuntimeInv` adds to the types, for each worker, where its copy of a run may come
from and that it is still the row, up to the lease, while the version is the same (`Fresh`);
that a worker about to settle the job it still holds has read the status the run still has
(`ReadsHold`: whatever moves a run in between takes the job's epoch or closes the job); for each
run, which statuses of run and job go together (`RowsOK`); and that only the newest
interaction can be pending (`QuestionsOK`). For the refinement every action is shown to make
one of the moves of `LifecycleMove`, or none that a user sees (`Still`), and `MoveMaps` takes a
move to the action of `RunLifecycle`; `StepSeen` collects the actions (what a user sees, `Seen`,
and that a move of a running run is by its holder, `Fenced`). The count of
answered interactions is a cardinality, so an answer needs a lemma of its own: one index
moves from pending to resolved.

*Ledger.* `LedgerInv` says for each kind of action where an effect comes from. An external
action (`ExternalOnce`) is acquired at most once, because only an ABSENT execution of it is:
at most one worker is busy with it, and the effect has happened exactly if that worker has
acted with success. An atomic mutation (`AtomicOnce`) has happened exactly if the execution is
SUCCEEDED, since `Save` writes both and the fence admits only IN_PROGRESS; that a takeover
leaves two workers with the same action does no harm. What commits by itself (`EffectFirst`, keyed
changes and observations) has happened before any worker carries a success for it, so the receipt is
true whoever's it is; a keyed change happens once because `Change` succeeds only when none has
happened (`Applied`), however many workers are between `LookUpKey` and `Change`. A read has no effect.

*Graph.* `GraphInv` speaks of the newest checkpoint, of every invocation, and of the run as long as
no live worker was taken over. The node of a checkpoint says what the rest of
it may hold: how many calls are pending, that the calls of a node that executes are cleared
(not sensitive, or confirmed, or a confirmed deadline with a source or a URL a search returned),
that the counters are within the budgets (`CheckpointOK`); since all of this only grows truer with
the histories, it holds of the newest checkpoint and of every late copy alike. Every started call
is in the ledger under its own arguments, so an action id that comes back after a restart meets its
row and a call with other arguments is refused (`LedgerOK`). The handlers of an invocation are at
most those its own copy counts plus those of its present node (`HandlersOK`), and an invocation
that still has its answer has confirmed nothing (`ConfirmsOK`). `AloneOK` is the part for the whole run,
under `overlaps = 0`: who is alive holds the run alone and works on the newest checkpoint
(`HolderOK`); the handlers that ran are those the checkpoint counts, those of the node under way, and
those a crash has lost; and the answer at hand is the one to the pending question unless a crash
has left it over, at most once for each crash. `BudgetsKept` does not depend on what
`Unique` computes, only on its being a sequence of calls of the batch (`UniqueFacts`).

*Events.* What the phone has, what is on the wire and what the generator is about to send are
consecutive pieces of the log, and the cursor lies between the last two (`InTransit`); a
generator that ended, and a phone that asks for the outcome, come after the end of the run
(`SeenTheEnd`).

*Files.* `FileInv` says that a source, its mirror, its upload and its purge job tell one story
(`StoryOK`: no row before the upload ends, no chunk before READY, with READY the text, one set of
chunks and an active generation whose segments have embeddings exactly if the chunks do, no purge without a deletion), that a worker that still owns the
PENDING source it works on made its last attempt (`ClaimOK`), and that what a deletion has loaded
exists (`LoadedOK`). `ClaimOK` is why comparing the owner's name is enough: a claim by another worker
changes the owner, the same worker claims only when it is idle, and a worker that died loses the name.
A deletion writes by the key alone, yet it can only take a source out of PENDING or leave its
status, so no result comes back by it. Each action is shown to move one source, its mirror, the workers and
the rest within bounds (`SourceMoves`, `MirrorsMove`, `WorkersMove`, `RestMoves`), and `FileStep`
concludes for all. `ResultsByClaimant` needs in addition that only `CompleteProcessing` makes a
source READY, and that its worker is idle after it (`PublishedStep`): with `ClaimOK` the worker whose step
publishes has parsed the latest attempt.

*Automations.* `AutomationsInv` says that an open occurrence has an open or an exhausted job
and the other way round (`SlotOK`), and that a worker past the creation of the agent run has
one and has read an automation that is still the row unless its version moved (`WorkerOK`).

*Pushes.* `AutomationsProofs` instantiates `PushDelivery` as `Push`, for any intents. `PushInv` counts, for each delivery, the submissions made plus the workers that
have claimed it and not submitted it yet (`Unsubmitted`), a finite set: a claim adds one worker
and one attempt, a submission moves one from the set to the count, and a worker that dies only
leaves the set, so the sum never exceeds the attempts. A READY job has an attempt left
(`PushRowOK`). A worker that carries an acceptance got it from the provider (`PusherOK`), so
what it stores without a fence, however late, is true.

*Memories.* The advisory locks of creations all share one, so at most one creation is open,
and what it has found out - the key is new, every active memory of the profile is among those it
supersedes - stays so until it commits, since nobody else adds a memory or makes one active
(`CreationsInv`). Everything else relies on the version.

*Personal state.* Two arguments. For the audit (`AuditInv`): a write of an existing row goes
through only at the version that was read, and the log has no version beyond the current
one, so the next is new; a new row has an identifier that only transactions of one
idempotency key know, and of those only one commits (`CreationInv`). For the deadlines
(`DatesInv`): whatever moves a date to another thing writes the thing it leaves, and whatever
takes the primary mark of a date either writes its thing or had read a date that was not
primary; so what an open `update_date` has read (`DateRead`) is still true where it matters when
the versions it compares are the same. The proof would fail if `update_date` did not fence the
thing exactly when the deadline depends on the change.

*Identity.* `OwnerInv`: a device with an owner keeps it (`OwnerStays`), so what a request for a
push token has read of the owner is still true when it writes (`PushOwned`), and only the owner
ever gets an endpoint. `DeletionsAreFinal` follows action by action from `TypeOK`: the only
write that makes an account ACTIVE is the insert of a first login, which the unique index
refuses once there is a row; a late duplicate of the deletion may write DELETING over
DELETED, which makes nothing usable.

What stays with TLC:

- liveness under fairness, and `ENABLED`: out of the prover's reach (`EveryJobSettles`,
  `RunsGetAnywhere`, `EveryReminderEnds`, `EveryPushEnds`, `EverySourceSettles`, `ObjectsGo`,
  `EventsArrive`, `EveryDeletionRuns`);
- that `Unique` is what the loop of `validate_parallel_batch` collects: an induction over the
  batch, which the provers cannot do (`UniqueIsTheLoop`, evaluated for short lists).

## 6. Where the code departs from its documents

One departure is a run that TLC refutes, because it decides whether a feature
works at all:

- `runtime_answered_once` (`AgentRuntime!AnsweredOnce`): `run_once` looks at the
  checkpoint before the resume payload. A resumed run therefore finds the interrupt
  it was resumed from, and waits again for the same question; after that answer the
  keyed interaction exists already, the insert fails, and the run is left to its
  deliveries. Tests use a stub inspector that never reports an interrupt for a
  resumed run. `ExecutiveGraph!Continue` therefore goes on with an answer as a worker
  without a checkpoint inspector does.

The formulas below are kept in the modules with a configuration of their own; TLC
refutes each (`tlc -config <cfg> MC<module>`).

| Formula | Configuration | What the documents say | What the code does |
|---|---|---|---|
| `AgentRuntime!ExhaustionFailsRun` | `MCAgentRuntime_ExhaustionFailsRun.cfg` | runtime design v2.2, 1610-1615: over its deliveries "Job → FAILED / Run → FAILED" | `requeue_expired` fails the row and nobody tells the run, which stays RUNNING or QUEUED with no job |
| `ToolLedger!CancelWaitsForTools` | `MCToolLedger_CancelWaitsForTools.cfg` | the error message at `application/runtime/service.py:864`; runtime design, 1220 | `cancel_run` looks for tools in flight and cancels in two transactions |
| `ExecutiveGraph!AcceptedStepContinues` | `MCExecutiveGraph_AcceptedStep.cfg` | runtime design, 685-686; `application/runtime/dto.py:152-154` | `workers/agent.py:337-355` starts the graph again from its input: the model decides anew |
| `FileProcessing!TombstoneKeepsNothing` | `MCFileProcessing_Tombstone.cfg` | file design, about 1205 | the object is deleted after the commit of the purge and never tried again; a deletion that loaded the source before its processing completed leaves the text |
| `Memories!FormationRespectsForget` | `MCMemories_Forget.cfg` | personal state and memory design, 1930 | UPDATE and MERGE candidates are written without a look at the suppressions; forgetting takes no lock |
| `PersonalState!RedirectsResolve` | `MCPersonalState_Redirects.cfg` | comment in `repositories/personal_state.py`, about 283 | A may be merged into B and then B into A |
| `RunEvents!WaitingIsShown` | `MCRunEvents_Waiting.cfg` | HarmonyOS client design, about 816 | the client waits for `interrupt.required` and `WAITING_USER`; the backend says `hitl.requested` and `WAITING_FOR_USER` |

Others follow from the modules as they stand and have no formula.

*Runs and tools.* Checkpoints are written without a fence, so a worker that has
lost its lease can overwrite the interrupt its successor waits on (`GraphStep` needs
no claim). An exception after `accept_terminal_output` fails a run that has its
durable output; the wall-time budget, tested first, does so too. A resumed run is
set QUEUED, not kept WAITING (section 26.2 of the runtime design); nothing limits a
thread to one active run (section 6.2); an execution left IN_PROGRESS by a crash
blocks cancelling its run for good; an interaction stays PENDING when its run is
cancelled. A change of `thing_change_state` (COMPLETE, CANCEL, REACTIVATE) commits before its
receipt: after a crash or a lost lease the effect may have no receipt at all, and when two workers
are between the look at the key and the change, the one that comes second reports a conflict, so the
execution can end as FAILED although the change was made. `url_inspect` with `persist_observation`
records its observation once for every time it is executed; a read is replayed at will and the row
has no key.

*Graph.* After a crash the user's last answer goes with the next invocation, and a
confirmation that has not been put yet takes it for its own: at most one per crash
(`SensitiveIsConfirmed`). A worker whose lease ran out while it lives is taken over, looks at the lost
lease only after the graph (`workers/agent.py:377`), and until then writes its checkpoints without a
fence: they become the newest, its older counters with them, so the next invocation has budget again
that the run has spent, and its question may replace the one the user is asked about. No crash is
needed for either; what remains after such a takeover is that each invocation keeps the budget and
takes its answer once, and that no sensitive call runs unconfirmed under its own id. A batch counts its searches
twice, and searches that the policy denies are counted.

*Events.* Events committed between the stream's last page and its look at the run
are not sent when the run has ended; the phone gets the outcome by its own request.
Cancel and resume publish no wake-up. `emit_ephemeral_frame` has no caller.

*Automations and pushes.* `complete_one_shot` completes an ACTIVE automation only:
a one-shot that is paused while its reminder fires is ACTIVE after a resume,
without a trigger time and with nothing that will complete it. The task of an
automation is looked at when the occurrence is materialized and not again when it
is executed. The push worker looks neither at the endpoint's eligibility nor at the
delivery's status before it submits: a device that has logged out may get the push,
and a delivery recorded as ACCEPTED is submitted again when its worker dies before
settling. An exception of the provider's port is recorded as FAILED although the
provider may have accepted; nothing writes UNKNOWN_OUTCOME. A push job over its
deliveries leaves its delivery READY; nothing reconciles it.

*Personal state.* A task, blocker or entry whose creation overlaps the deletion or
merge of its thing stays on a thing that cannot be opened. A merge of two things
with a primary date of one kind fails on the unique index. Making a date of one
kind secondary clears the deadline that a primary date of another kind has set.

*Files.* A failure of the embedding provider during processing is not recorded and not retried:
the file is READY, and a query by embedding reads the legacy chunks instead of its segments.
The orphan scan deletes the object of an upload that has stored it and not
committed its rows, if the scan has loaded the rows before. A worker that dies on the last attempt leaves
its source PENDING; no one may claim it and nothing fails it (`Abandoned`).

*Memories.* SUPERSEDE retires the old memory and creates its successor in two
transactions; a crash in between loses both until the redelivery, and an exception
of the second is logged and the job completed.

*Identity.* A late duplicate of `DELETE /me` writes DELETING over DELETED, and the
account stays so, since its job is done. A login, refresh or push token whose
transaction overlaps the deletion leaves a live session or endpoint of a deleted
account. Overlapping refreshes of one token give two sessions; a refresh does not
look at the expiry. A session may refer to a device of another account. A deletion
ignores a version conflict when it cancels automations and leaves PAUSED ones.

## 7. Not modelled

- Context assembly, search and model gateways: prompts, ranking, calls to
  providers; no state of their own.
- The HTTP layer except the event stream, and the client except the follow of a
  run: validation, serialisation, user interface.
- `start_run`, `recover_pending_runs` and `InProcessRunDispatcher`, which tests
  alone call; threads, and messages other than the reply.
- The legacy notification outbox (`dispatch_pending`), attention candidates, the
  misfire policy SKIP and `bump_definition_revision` (nothing uses the last two).
- `link_to_thing`, attachments, evidence and observations of files: inserts on
  which nothing else depends; what a parser extracts.
- The automations that an account's deletion cancels: to the occurrence workers it is
  the `Cancel` of `Automations`. It takes the first 500, only the ACTIVE ones, and
  ignores an update that a version conflict refuses, so a change that commits during
  the deletion can leave one of them ACTIVE; no run states that.
- Columns of a device that are written and never read; the timeline, written with
  each mutation.
- The budget of non-replayable external calls in the graph: no registered tool is
  one (the ledger's treatment of them is in `ToolLedger`).
- A commit whose acknowledgement is lost appears as the commit followed by an
  exception.

## 8. Plan

Each invariant and action property of the runs has its theorem. What could come next:

1. The automations that an account's deletion cancels, composed of `Identity` and
   `Automations`, with the property that a deleted account has no active automation - which
   the code does not keep (section 7).
2. Several occurrences of one automation at once in `automations_reminders`; the invariants
   hold for any number (section 5), the liveness was checked for one.
3. The legacy outbox, should it be used again.
