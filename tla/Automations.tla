---------------------------- MODULE Automations ----------------------------
(***************************************************************************)
(* Reminders and recurring automations: the scheduler turns a due trigger   *)
(* into an occurrence and a durable job, occurrence workers execute the job  *)
(* (an agent run, then the notification, the occurrence, the automation and  *)
(* the job in one transaction), and users pause, resume and cancel meanwhile. *)
(*                                                                           *)
(* A slot <<a, n>> is the n-th trigger time of automation a; the key of an   *)
(* occurrence, its job, its notification intent and its agent run all derive  *)
(* from it (definition_revision is 1 throughout: no code calls               *)
(* bump_definition_revision).  When a trigger time arrives is left open: any  *)
(* ACTIVE automation that has one may be due.  misfire_policy is FIRE_ONCE:    *)
(* no code writes another.  What happens to an intent is in PushDelivery.      *)
(***************************************************************************)
EXTENDS JobTable, FiniteSets

CONSTANTS
    Autos, Workers,
    Tasked,         \* automations that belong to a task
    MaxSlots,       \* bound: trigger times of a recurring automation
    MaxChanges,     \* bound: status changes by users
    RetryDelay      \* back-off of record_failure, in ticks

ASSUME AutomationsAssumption ==
    /\ Tasked \subseteq Autos
    /\ MaxSlots \in Nat \ {0}
    /\ MaxChanges \in Nat
    /\ RetryDelay \in Nat
    /\ Nobody \notin Workers

Slots == Autos \X (1..MaxSlots)
Automation(s) == s[1]

VARIABLES
    auto,       \* the table automations
    taskOpen,   \* whether the automation's task is neither DONE nor CANCELLED
    occ,        \* automation_occurrences: status by slot
    jobs,       \* durable_jobs of kind AUTOMATION_OCCURRENCE, by slot
    intents,    \* slots that have a notification intent
    runs,       \* slots that have an agent run
    at,         \* what each occurrence worker is doing
    changes     \* bound counter

vars == <<auto, taskOpen, occ, jobs, intents, runs, at, changes>>

AutoStatus == {"ABSENT", "ACTIVE", "PAUSED", "COMPLETED", "CANCELLED"}
Ended == {"COMPLETED", "CANCELLED"}
Settled == {"SUCCEEDED", "FAILED", "SKIPPED"}

\* next is the number of the next trigger time; 0 stands for NULL.
Types == {"once", "recurring", "condition"}
AutoRow == [type: Types \cup {"none"}, status: AutoStatus, next: 0..(MaxSlots + 1), version: Nat]
NoAuto == [type |-> "none", status |-> "ABSENT", next |-> 0, version |-> 0]

NoSlot == <<>>

\* slot and epoch are the claim, seen the automation row the execution has read.
Worker == [pc: {"idle", "reconciling", "claimed", "loaded", "triggered", "failing"},
           slot: Slots \cup {NoSlot}, epoch: Nat, seen: AutoRow]
Idle == [pc |-> "idle", slot |-> NoSlot, epoch |-> 0, seen |-> NoAuto]

TypeOK ==
    /\ auto \in [Autos -> AutoRow]
    /\ taskOpen \in [Autos -> BOOLEAN]
    /\ occ \in [Slots -> Settled \cup {"NONE", "MATERIALIZED"}]
    /\ jobs \in [Slots -> Row(Workers)]
    /\ intents \subseteq Slots
    /\ runs \subseteq Slots
    /\ at \in [Workers -> Worker]
    /\ changes \in 0..MaxChanges

Init ==
    /\ auto = [a \in Autos |-> NoAuto]
    /\ taskOpen = [a \in Autos |-> TRUE]
    /\ occ = [s \in Slots |-> "NONE"]
    /\ jobs = [s \in Slots |-> NoRow]
    /\ intents = {}
    /\ runs = {}
    /\ at = [w \in Workers |-> Idle]
    /\ changes = 0

-----------------------------------------------------------------------------
(* The automation row *)

\* complete_one_shot; a paused automation stays paused.
Completed(row) ==
    IF row.type = "once" /\ row.status = "ACTIVE"
    THEN [row EXCEPT !.status = "COMPLETED", !.version = @ + 1] ELSE row

\* mark_triggered: a one-shot has no further trigger time.
Triggered(row) ==
    [row EXCEPT !.next = IF row.type = "once" THEN 0 ELSE @ + 1, !.version = @ + 1]

\* cancel leaves an ended automation alone.
CancelledAuto(row) ==
    IF row.status \in Ended THEN row
    ELSE [row EXCEPT !.status = "CANCELLED", !.version = @ + 1]

-----------------------------------------------------------------------------
(* Users *)

\* apply_create_automation: a condition watch starts paused.
Create(a, type) ==
    /\ auto[a] = NoAuto
    /\ auto' = [auto EXCEPT ![a] =
          [type |-> type, status |-> IF type = "condition" THEN "PAUSED" ELSE "ACTIVE",
           next |-> 1, version |-> 1]]
    /\ UNCHANGED <<taskOpen, occ, jobs, intents, runs, at, changes>>

\* apply_change_automation_status.  A request that repeats an idempotency key or
\* carries a stale expected_version changes nothing and does not appear here.
ChangeTo(a, row) ==
    /\ changes < MaxChanges
    /\ changes' = changes + 1
    /\ auto' = [auto EXCEPT ![a] = row]
    /\ UNCHANGED <<taskOpen, occ, jobs, intents, runs, at>>

Pause(a) ==
    /\ auto[a].status = "ACTIVE"
    /\ ChangeTo(a, [auto[a] EXCEPT !.status = "PAUSED", !.version = @ + 1])

Resume(a) ==
    /\ auto[a].status = "PAUSED"
    /\ auto[a].type # "condition"
    /\ ChangeTo(a, [auto[a] EXCEPT !.status = "ACTIVE", !.version = @ + 1])

Cancel(a) ==
    /\ auto[a] # NoAuto
    /\ ChangeTo(a, CancelledAuto(auto[a]))

\* The task of an automation is completed, cancelled or reopened; the task writes
\* of personal state do not touch automations.
SwitchTask(a) ==
    /\ a \in Tasked
    /\ taskOpen' = [taskOpen EXCEPT ![a] = ~@]
    /\ UNCHANGED <<auto, occ, jobs, intents, runs, at, changes>>

-----------------------------------------------------------------------------
(* The scheduler *)

\* list_due: the rows are locked FOR UPDATE to the end of the transaction.
Due(a) == auto[a].status = "ACTIVE" /\ auto[a].next \in 1..MaxSlots

DueSlot(a) == <<a, auto[a].next>>

\* The unique key on the slot admits an occurrence once.
Materializes(a) == Due(a) /\ taskOpen[a] /\ occ[DueSlot(a)] = "NONE"

\* process_due: one transaction for a batch of due automations.  The automation of
\* a closed task is cancelled instead; skipped rows wait for a later pass.
ProcessDue(S) ==
    /\ S # {}
    /\ \A a \in S : Due(a)
    /\ LET fired == {DueSlot(a) : a \in {b \in S : Materializes(b)}}
       IN  /\ occ' = [s \in Slots |-> IF s \in fired THEN "MATERIALIZED" ELSE occ[s]]
           /\ jobs' = [s \in Slots |-> IF s \in fired THEN NewRow ELSE jobs[s]]
    /\ auto' = [a \in Autos |->
          CASE a \notin S -> auto[a]
            [] a \in S /\ ~taskOpen[a] -> CancelledAuto(auto[a])
            [] a \in S /\ Materializes(a) -> Triggered(auto[a])
            [] OTHER -> auto[a]]
    /\ UNCHANGED <<taskOpen, intents, runs, at, changes>>

-----------------------------------------------------------------------------
(* Occurrence workers *)

Requeued(d) == [s \in Slots |-> RequeueRow(jobs[s], d)]

\* The claim transaction of run_once: expired claims are requeued or failed, then
\* at most one job is claimed; s = NoSlot when none is.
Scan(w, s, d) ==
    /\ at[w].pc = "idle"
    /\ s # NoSlot => Claimable(Requeued(d)[s], d)
    /\ jobs' = [t \in Slots |-> IF t = s THEN ClaimRow(Requeued(d)[t], w, d)
                                ELSE Requeued(d)[t]]
    /\ at' = [at EXCEPT ![w] =
          [Idle EXCEPT !.pc = "reconciling", !.slot = s,
                       !.epoch = IF s = NoSlot THEN 0 ELSE jobs'[s].epoch]]
    /\ UNCHANGED <<auto, taskOpen, occ, intents, runs, changes>>

\* A worker of any other job kind requeues expired claims of this kind as well.
RequeueByOthers(d) ==
    /\ jobs' = Requeued(d)
    /\ jobs' # jobs
    /\ UNCHANGED <<auto, taskOpen, occ, intents, runs, at, changes>>

\* Faulty: nothing is reconciled.
ExhaustedNone == {}

\* fail_exhausted: open occurrences whose job has failed.
Exhausted == {s \in Slots : occ[s] = "MATERIALIZED" /\ jobs[s].status = "FAILED"}

\* reconcile_exhausted, in a transaction of its own, before the claim is executed.
Reconcile(w) ==
    /\ at[w].pc = "reconciling"
    /\ occ' = [s \in Slots |-> IF s \in Exhausted THEN "FAILED" ELSE occ[s]]
    /\ auto' = [a \in Autos |-> IF \E s \in Exhausted : Automation(s) = a
                                THEN Completed(auto[a]) ELSE auto[a]]
    /\ at' = [at EXCEPT ![w] = IF @.slot = NoSlot THEN Idle ELSE [@ EXCEPT !.pc = "claimed"]]
    /\ UNCHANGED <<taskOpen, jobs, intents, runs, changes>>

\* _owns_claim on entry, and the WHERE of settle and release_for_retry at the end.
Owns(w, d) == MaySettle(jobs[at[w].slot], w, at[w].epoch, d)

Return(w) == at' = [at EXCEPT ![w] = Idle]

\* execute_claimed opens its transaction and reads the automation.  An owned claim
\* has an open occurrence (OccurrenceMatchesJob), so the branches for settled ones
\* are not taken.
Load(w, d) ==
    /\ at[w].pc = "claimed"
    /\ Owns(w, d)
    /\ at' = [at EXCEPT ![w].pc = "loaded", ![w].seen = auto[Automation(at[w].slot)]]
    /\ UNCHANGED <<auto, taskOpen, occ, jobs, intents, runs, changes>>

\* The automation was cancelled when it was read.
Skip(w, d) ==
    LET s == at[w].slot IN
    /\ at[w].pc = "loaded"
    /\ at[w].seen.status = "CANCELLED"
    /\ Owns(w, d)
    /\ occ' = [occ EXCEPT ![s] = "SKIPPED"]
    /\ jobs' = [jobs EXCEPT ![s] = SettleRow(@, "COMPLETED")]
    /\ Return(w)
    /\ UNCHANGED <<auto, taskOpen, intents, runs, changes>>

\* trigger_from_occurrence: a transaction of its own, idempotent by the slot key.
TriggerRun(w) ==
    /\ at[w].pc = "loaded"
    /\ at[w].seen.status # "CANCELLED"
    /\ runs' = runs \cup {at[w].slot}
    /\ at' = [at EXCEPT ![w].pc = "triggered"]
    /\ UNCHANGED <<auto, taskOpen, occ, jobs, intents, changes>>

\* Faulty: the row is written whatever its version.
CurrentAny(a, seen) == TRUE

\* automations.update with expected_version; it is not sent when nothing changed.
Current(a, seen) == Completed(seen) = seen \/ auto[a].version = seen.version

\* The reaction: intent, occurrence, automation and job in one commit.
React(w, d) ==
    LET s == at[w].slot
        a == Automation(s)
        seen == at[w].seen
    IN
    /\ at[w].pc = "triggered"
    /\ Current(a, seen)
    /\ Owns(w, d)
    /\ intents' = intents \cup {s}
    /\ occ' = [occ EXCEPT ![s] = "SUCCEEDED"]
    /\ auto' = [auto EXCEPT ![a] = IF Completed(seen) = seen THEN @ ELSE Completed(seen)]
    /\ jobs' = [jobs EXCEPT ![s] = SettleRow(@, "COMPLETED")]
    /\ Return(w)
    /\ UNCHANGED <<taskOpen, runs, changes>>

\* VersionConflict, or any other exception of execute_claimed: rolled back.
Raise(w) ==
    /\ at[w].pc \in {"claimed", "loaded", "triggered"}
    /\ at' = [at EXCEPT ![w].pc = "failing"]
    /\ UNCHANGED <<auto, taskOpen, occ, jobs, intents, runs, changes>>

\* record_failure while deliveries remain.
RetryLater(w, d) ==
    LET s == at[w].slot IN
    /\ at[w].pc = "failing"
    /\ Owns(w, d)
    /\ jobs[s].attempts < MaxAttempts
    /\ jobs' = [jobs EXCEPT ![s] = ReleaseRow(@, RetryDelay, d)]
    /\ Return(w)
    /\ UNCHANGED <<auto, taskOpen, occ, intents, runs, changes>>

\* Faulty: the occurrence is left open.
GiveUpJobOnly(w, d) ==
    LET s == at[w].slot IN
    /\ at[w].pc = "failing"
    /\ Owns(w, d)
    /\ jobs[s].attempts >= MaxAttempts
    /\ jobs' = [jobs EXCEPT ![s] = SettleRow(@, "FAILED")]
    /\ Return(w)
    /\ UNCHANGED <<auto, taskOpen, occ, intents, runs, changes>>

\* record_failure on the last delivery: occurrence, automation and job end together.
GiveUp(w, d) ==
    LET s == at[w].slot
        a == Automation(s)
    IN
    /\ at[w].pc = "failing"
    /\ Owns(w, d)
    /\ jobs[s].attempts >= MaxAttempts
    /\ IF occ[s] = "MATERIALIZED"
       THEN /\ occ' = [occ EXCEPT ![s] = "FAILED"]
            /\ auto' = [auto EXCEPT ![a] = Completed(@)]
       ELSE UNCHANGED <<occ, auto>>
    /\ jobs' = [jobs EXCEPT ![s] = SettleRow(@, "FAILED")]
    /\ Return(w)
    /\ UNCHANGED <<taskOpen, intents, runs, changes>>

\* Faulty: the notification has been committed on its own, like the run.
LoseClaimKeepIntent(w, d) ==
    /\ at[w].pc \in {"claimed", "loaded", "triggered", "failing"}
    /\ ~Owns(w, d)
    /\ intents' = IF at[w].pc = "triggered" THEN intents \cup {at[w].slot} ELSE intents
    /\ Return(w)
    /\ UNCHANGED <<auto, taskOpen, occ, jobs, runs, changes>>

\* LOST_CLAIM: the transaction is rolled back.
LoseClaim(w, d) ==
    /\ at[w].pc \in {"claimed", "loaded", "triggered", "failing"}
    /\ ~Owns(w, d)
    /\ Return(w)
    /\ UNCHANGED <<auto, taskOpen, occ, jobs, intents, runs, changes>>

\* The process dies, record_failure raises, or reconcile_exhausted does (run_once
\* does not catch that): the claim stays until its lease runs out.
Abandon(w) ==
    /\ at[w].pc # "idle"
    /\ Return(w)
    /\ UNCHANGED <<auto, taskOpen, occ, jobs, intents, runs, changes>>

Tick ==
    /\ jobs' = [s \in Slots |-> AgeRow(jobs[s])]
    /\ UNCHANGED <<auto, taskOpen, occ, intents, runs, at, changes>>

-----------------------------------------------------------------------------
UserStep(a) ==
    \/ \E type \in Types : Create(a, type)
    \/ Pause(a) \/ Resume(a) \/ Cancel(a) \/ SwitchTask(a)

Executing(w) ==
    \/ TriggerRun(w)
    \/ Raise(w)
    \/ \E d \in 0..Lag : \/ Load(w, d) \/ Skip(w, d) \/ React(w, d)
                         \/ RetryLater(w, d) \/ GiveUp(w, d) \/ LoseClaim(w, d)

WorkerStep(w) ==
    \/ \E d \in 0..Lag, s \in Slots \cup {NoSlot} : Scan(w, s, d)
    \/ Reconcile(w)
    \/ Executing(w)
    \/ Abandon(w)

Next ==
    \/ \E a \in Autos : UserStep(a)
    \/ \E S \in SUBSET Autos : ProcessDue(S)
    \/ \E w \in Workers : WorkerStep(w)
    \/ \E d \in 0..Lag : RequeueByOthers(d)
    \/ Tick

Spec == Init /\ [][Next]_vars

\* The scheduler loop runs for ever: it looks for due automations, claims what is
\* claimable and reconciles; every execution ends; time passes.  Reconciling may
\* raise now and then but not for ever.
Fairness ==
    /\ WF_vars(Tick)
    /\ \A a \in Autos : WF_vars(\E S \in SUBSET Autos : a \in S /\ ProcessDue(S))
    /\ \A w \in Workers : WF_vars(Executing(w)) /\ SF_vars(Reconcile(w))
    /\ \A w \in Workers :
          WF_vars(\E d \in 0..Lag, s \in Slots \cup {NoSlot} : Scan(w, s, d))
    /\ \A s \in Slots : SF_vars(\E w \in Workers, d \in 0..Lag : Scan(w, s, d))

FairSpec == Spec /\ Fairness

-----------------------------------------------------------------------------
(* Properties *)

\* Occurrence and job tell the same story at every commit: an occurrence is open
\* exactly while its job is open, or failed by lease recovery and not reconciled
\* yet.  Hence no worker ever executes a settled occurrence.
OccurrenceMatchesJob ==
    \A s \in Slots :
        /\ jobs[s].status \in {"READY", "CLAIMED"} => occ[s] = "MATERIALIZED"
        /\ occ[s] = "MATERIALIZED"
           => jobs[s].status \in {"READY", "CLAIMED"} \/ jobs[s].exhausted

\* An occurrence succeeded if and only if its notification intent is durable, and
\* then its agent run was created too, whatever workers lost their claims or died.
SucceededIsDurable ==
    /\ \A s \in Slots : occ[s] = "SUCCEEDED" <=> s \in intents
    /\ intents \subseteq runs

\* Neither the scheduler nor a worker that read the row earlier brings a cancelled
\* or completed automation back, or turns one into the other.
EndedStaysEnded ==
    [][\A a \in Autos : auto[a].status \in Ended => auto'[a] = auto[a]]_vars

\* A due reminder is not lost: a one-shot that stays ACTIVE is materialized, and
\* every open occurrence ends, however its workers fail.
EveryReminderEnds ==
    /\ \A a \in Autos : auto[a].status = "ACTIVE" /\ auto[a].next = 1
                        ~> auto[a].status # "ACTIVE" \/ auto[a].next # 1
    /\ \A s \in Slots : occ[s] = "MATERIALIZED" ~> occ[s] \in Settled
=============================================================================
