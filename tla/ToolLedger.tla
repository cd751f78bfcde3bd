----------------------------- MODULE ToolLedger -----------------------------
(***************************************************************************)
(* The ledger of tool executions of one run: claims, receipts, takeovers and *)
(* unknown outcomes, while workers take the run over from one another and    *)
(* its user cancels.                                                         *)
(*                                                                           *)
(* An action is a tool call with its stable action_id.  Five kinds exist:    *)
(*   read      no effect, executed again at will (READ_ONLY);                *)
(*   noting    READ_ONLY too, but it commits a row of its own each time it   *)
(*             runs (url_inspect with persist_observation);                  *)
(*   atomic    a mutation of the own database, committed in one transaction  *)
(*             with its receipt (IDEMPOTENT, complete_mutation_tool);        *)
(*   keyed     a mutation that commits by itself, under a mutation key, before *)
(*             its receipt is written (IDEMPOTENT, thing_change_state with   *)
(*             COMPLETE, CANCEL or REACTIVATE: update_thing);                *)
(*   external  an effect outside the database (NON_REPLAYABLE).              *)
(* How the graph chooses actions is left open: any action, any number of     *)
(* times.  The durable job that brings a worker to the run is in             *)
(* AgentRuntime; here a worker may take the run whenever claim admits it.    *)
(***************************************************************************)
EXTENDS RunTable

CONSTANTS
    Workers, Actions,
    Kind,           \* of each action, see above
    ToolLease,      \* ticks of the lease on an execution; nothing renews it
    MaxClaims       \* bound: claims of the run

Kinds == {"read", "noting", "atomic", "keyed", "external"}

ASSUME ToolLedgerAssumption ==
    /\ Kind \in [Actions -> Kinds]
    /\ ToolLease \in Nat \ {0}
    /\ MaxClaims \in Nat

VARIABLES
    run,            \* the row of agent_runs
    exec,           \* tool_executions, by action_id
    tickets,        \* tool claim tokens drawn so far
    effects,        \* how often the effect of an action has happened
    at,             \* what each worker is doing
    cancelling      \* version a cancellation in progress expects, or 0

vars == <<run, exec, tickets, effects, at, cancelling>>

ExecStatus == {"ABSENT", "IN_PROGRESS", "SUCCEEDED", "FAILED", "UNKNOWN_OUTCOME"}

Execution == [status: ExecStatus, ticket: Nat, lease: Int]

NoAction == "none"

Worker == [pc: {"out", "graph", "claiming", "working", "changing", "done", "saving", "failing"},
           token: Nat, action: Actions \cup {NoAction}, ticket: Nat, ok: BOOLEAN]

Out == [pc |-> "out", token |-> 0, action |-> NoAction, ticket |-> 0, ok |-> FALSE]

\* The ledger holds the result of the call.
HasResult(e) == e.status \in {"SUCCEEDED", "FAILED"}

\* Faulty: every tool is replayed.
ReplaySafeAll(a) == TRUE

\* replay_safe, drawn from the tool's replay policy.
ReplaySafe(a) == Kind[a] # "external"

\* Faulty: neither the mutation key nor the version is looked at.
AppliedNot(n) == FALSE

\* A keyed change has been made, n times by now: update_thing finds its key in the
\* audit trail, and the version of the Thing is no longer the expected one.
Applied(n) == n > 0

\* Faulty: no fence.
FencedNot(e, ticket) == TRUE

\* The fence of a receipt.
Fenced(e, ticket) == e.status = "IN_PROGRESS" /\ e.ticket = ticket

\* mark_unknown_if_expired.
MarkedUnknown(e) == [e EXCEPT !.status = "UNKNOWN_OUTCOME"]

InFlight == {a \in Actions : exec[a].status = "IN_PROGRESS"}

TypeOK ==
    /\ run \in RunRow
    /\ exec \in [Actions -> Execution]
    /\ tickets \in Nat
    /\ effects \in [Actions -> Nat]
    /\ at \in [Workers -> Worker]
    /\ cancelling \in Nat

Init ==
    /\ run = NewRun
    /\ exec = [a \in Actions |-> [status |-> "ABSENT", ticket |-> 0, lease |-> 0]]
    /\ tickets = 0
    /\ effects = [a \in Actions |-> 0]
    /\ at = [w \in Workers |-> Out]
    /\ cancelling = 0

-----------------------------------------------------------------------------
(* The run around the tools *)

TakeRun(w) ==
    /\ at[w].pc = "out"
    /\ MayClaim(run) /\ run.claims < MaxClaims
    /\ run' = Claimed(run)
    /\ at' = [at EXCEPT ![w] = [Out EXCEPT !.pc = "graph", !.token = run'.token]]
    /\ UNCHANGED <<exec, tickets, effects, cancelling>>

RunBeat(w) ==
    /\ at[w].pc # "out"
    /\ HeldBy(run, at[w].token)
    /\ run' = Renewed(run)
    /\ UNCHANGED <<exec, tickets, effects, at, cancelling>>

\* The graph ends and the run is COMPLETED, or run_once fails it; by a worker
\* that has lost the run neither has an effect.
EndRun(w, status) ==
    /\ at[w].pc = IF status = "COMPLETED" THEN "graph" ELSE "failing"
    /\ run' = IF HeldBy(run, at[w].token) THEN Ended(run, status) ELSE run
    /\ at' = [at EXCEPT ![w] = Out]
    /\ UNCHANGED <<exec, tickets, effects, cancelling>>

\* The tool call is over: the graph goes on, or an exception leaves it and
\* run_once turns to fail_run.
Leaves(w, pc) == at' = [at EXCEPT ![w] = [Out EXCEPT !.pc = pc, !.token = at[w].token]]
Returns(w) == Leaves(w, "graph")
Raises(w) == Leaves(w, "failing")

\* Any other exception in the graph.
GraphRaises(w) ==
    /\ at[w].pc = "graph"
    /\ Raises(w)
    /\ UNCHANGED <<run, exec, tickets, effects, cancelling>>

Crash(w) ==
    /\ at[w].pc # "out"
    /\ at' = [at EXCEPT ![w] = Out]
    /\ UNCHANGED <<run, exec, tickets, effects, cancelling>>

-----------------------------------------------------------------------------
(* claim_tool_execution *)

\* The transaction begins by reading the run and checking its token.
BeginClaim(w, a) ==
    /\ at[w].pc = "graph"
    /\ IF HeldBy(run, at[w].token)
       THEN at' = [at EXCEPT ![w].pc = "claiming", ![w].action = a]
       ELSE Raises(w)
    /\ UNCHANGED <<run, exec, tickets, effects, cancelling>>

\* takeover_if_expired gives an expired execution to a new claim.
TakenOver(e, ticket) == [e EXCEPT !.ticket = ticket, !.lease = ToolLease]

Acquire(w) ==
    LET a == at[w].action IN
    /\ tickets' = tickets + 1
    /\ exec' = [exec EXCEPT ![a] =
                   IF @.status = "ABSENT"
                   THEN [status |-> "IN_PROGRESS", ticket |-> tickets', lease |-> ToolLease]
                   ELSE TakenOver(@, tickets')]
    /\ at' = [at EXCEPT ![w].pc = "working", ![w].ticket = tickets']

ClaimTool(w) ==
    LET a == at[w].action
        e == exec[a]
    IN  /\ at[w].pc = "claiming"
        /\ \* add_if_absent: the unique key (run_id, action_id) admits one.
           \/ e.status = "ABSENT" /\ Acquire(w)
           \* A result is returned from the ledger, the tool is not called again.
           \/ /\ HasResult(e)
              /\ Returns(w)
              /\ UNCHANGED <<exec, tickets>>
           \* Expired and not replayable: unknown, for good.
           \/ /\ e.status # "ABSENT" /\ ~HasResult(e)
              /\ e.lease <= 0 /\ ~ReplaySafe(a)
              /\ exec' = [exec EXCEPT ![a] = MarkedUnknown(@)]
              /\ Raises(w)
              /\ UNCHANGED tickets
           \* takeover_if_expired.
           \/ /\ e.status = "IN_PROGRESS"
              /\ e.lease <= 0 /\ ReplaySafe(a)
              /\ Acquire(w)
           \* Someone else's: ToolExecutionBusy.
           \/ /\ e.status # "ABSENT" /\ ~HasResult(e)
              /\ e.lease > 0
              /\ Raises(w)
              /\ UNCHANGED <<exec, tickets>>
        /\ UNCHANGED <<run, effects, cancelling>>

-----------------------------------------------------------------------------
(* The tool *)

\* The handler of an external tool acts, or fails before it could.
Act(w) ==
    /\ at[w].pc = "working"
    /\ Kind[at[w].action] = "external"
    /\ \E ok \in BOOLEAN :
          /\ at' = [at EXCEPT ![w].pc = "done", ![w].ok = ok]
          /\ effects' = [effects EXCEPT ![at[w].action] = IF ok THEN @ + 1 ELSE @]
    /\ UNCHANGED <<run, exec, tickets, cancelling>>

\* A read has no effect, nor has an atomic mutation that its own checks refuse.
Look(w) ==
    /\ at[w].pc = "working"
    /\ Kind[at[w].action] \in {"read", "atomic"}
    /\ \E ok \in BOOLEAN :
          /\ Kind[at[w].action] = "atomic" => ~ok
          /\ at' = [at EXCEPT ![w].pc = "done", ![w].ok = ok]
    /\ UNCHANGED <<run, exec, tickets, effects, cancelling>>

\* A noting read inserts its observation and commits it, every time it runs.
Note(w) ==
    /\ at[w].pc = "working"
    /\ Kind[at[w].action] = "noting"
    /\ \E ok \in BOOLEAN :
          /\ at' = [at EXCEPT ![w].pc = "done", ![w].ok = ok]
          /\ effects' = [effects EXCEPT ![at[w].action] = IF ok THEN @ + 1 ELSE @]
    /\ UNCHANGED <<run, exec, tickets, cancelling>>

\* update_thing looks its key up: a mutation found is reported again as it was ...
LookUpKey(w) ==
    /\ at[w].pc = "working"
    /\ Kind[at[w].action] = "keyed"
    /\ at' = IF Applied(effects[at[w].action])
             THEN [at EXCEPT ![w].pc = "done", ![w].ok = TRUE]
             ELSE [at EXCEPT ![w].pc = "changing"]
    /\ UNCHANGED <<run, exec, tickets, effects, cancelling>>

\* ... otherwise the change commits, whoever holds the run by now; it is refused if
\* the Thing has changed in the meantime (by another worker of the same action,
\* too), is gone, or does not admit the transition.
Change(w) ==
    /\ at[w].pc = "changing"
    /\ \E ok \in BOOLEAN :
          /\ ok => ~Applied(effects[at[w].action])
          /\ at' = [at EXCEPT ![w].pc = "done", ![w].ok = ok]
          /\ effects' = [effects EXCEPT ![at[w].action] = IF ok THEN @ + 1 ELSE @]
    /\ UNCHANGED <<run, exec, tickets, cancelling>>

\* complete_tool_execution and complete_mutation_tool read the run first: owned by
\* this worker and RUNNING.  (The owner is the worker of the newest claim, so
\* that is to hold its token.)
BeginSave(w) ==
    /\ \/ at[w].pc = "done"
       \/ at[w].pc = "working" /\ Kind[at[w].action] = "atomic"
    /\ IF HeldBy(run, at[w].token)
       THEN at' = [at EXCEPT ![w].pc = "saving", ![w].ok = at[w].ok \/ at[w].pc = "working"]
       ELSE Raises(w)
    /\ UNCHANGED <<run, exec, tickets, effects, cancelling>>

\* complete: the receipt and with it the status.
WithReceipt(e, ok) == [e EXCEPT !.status = IF ok THEN "SUCCEEDED" ELSE "FAILED"]

\* The receipt is fenced by the ticket; an atomic mutation commits with it or not at
\* all, the effects of the others have happened before.  (The registry turns the
\* refusal of an atomic mutation into a CONFLICT result, whose own receipt the same
\* fence refuses: the exception leaves the graph all the same.)
Save(w) ==
    LET a == at[w].action IN
    /\ at[w].pc = "saving"
    /\ IF Fenced(exec[a], at[w].ticket)
       THEN /\ exec' = [exec EXCEPT ![a] = WithReceipt(@, at[w].ok)]
            /\ effects' = [effects EXCEPT ![a] =
                              IF Kind[a] = "atomic" /\ at[w].ok THEN @ + 1 ELSE @]
            /\ Returns(w)
       ELSE Raises(w) /\ UNCHANGED <<exec, effects>>
    /\ UNCHANGED <<run, tickets, cancelling>>

\* A tool call that times out or breaks: whether it acted is not known.
BreakOff(w) ==
    /\ at[w].pc \in {"working", "changing", "done", "saving"}
    /\ Raises(w)
    /\ UNCHANGED <<run, exec, tickets, effects, cancelling>>

-----------------------------------------------------------------------------
(* The user and the operator *)

\* cancel_run: a first transaction looks for executions in flight ...
BeginCancel ==
    /\ cancelling = 0
    /\ run.status \notin Terminal
    /\ InFlight = {}
    /\ cancelling' = run.version
    /\ UNCHANGED <<run, exec, tickets, effects, at>>

\* ... and a second one cancels, if the run's version is still the expected one.
EndCancel ==
    /\ cancelling # 0
    /\ run' = IF run.version = cancelling THEN Ended(run, "CANCELLED") ELSE run
    /\ cancelling' = 0
    /\ UNCHANGED <<exec, tickets, effects, at>>

\* reconcile_unknown writes a receipt over an unknown outcome, and over nothing else.
Unresolved(e) == e.status = "UNKNOWN_OUTCOME"

\* reconcile_unknown_tool_execution: an observation of what the provider did.
Reconcile(a) ==
    /\ Unresolved(exec[a])
    /\ exec' = [exec EXCEPT ![a] = WithReceipt(@, effects[a] > 0)]
    /\ UNCHANGED <<run, tickets, effects, at, cancelling>>

Tick ==
    /\ run' = Aged(run)
    /\ exec' = [a \in Actions |->
                   [exec[a] EXCEPT !.lease = IF exec[a].status = "IN_PROGRESS" /\ @ > 0
                                             THEN @ - 1 ELSE @]]
    /\ UNCHANGED <<tickets, effects, at, cancelling>>

-----------------------------------------------------------------------------
ToolStep(w) ==
    \/ \E a \in Actions : BeginClaim(w, a)
    \/ ClaimTool(w) \/ BeginSave(w) \/ Save(w) \/ BreakOff(w)
    \/ Act(w) \/ Look(w) \/ Note(w) \/ LookUpKey(w) \/ Change(w)

RunStep(w) ==
    \/ TakeRun(w) \/ RunBeat(w) \/ GraphRaises(w) \/ Crash(w)
    \/ \E status \in {"COMPLETED", "FAILED"} : EndRun(w, status)

Next ==
    \/ \E w \in Workers : ToolStep(w) \/ RunStep(w)
    \/ BeginCancel \/ EndCancel
    \/ \E a \in Actions : Reconcile(a)
    \/ Tick

Spec == Init /\ [][Next]_vars

-----------------------------------------------------------------------------
(* Properties *)

\* However often workers crash, time out and take over, the effect of a mutation
\* or of an external call happens at most once (design sections 38 and 39: no blind
\* retry), also when it commits by itself and its receipt is lost.  Only the
\* observations of a noting read are recorded once for every time it runs.
AtMostOnce == \A a \in Actions : Kind[a] # "noting" => effects[a] <= 1

\* The ledger does not lie about what happened: SUCCEEDED means the effect has
\* happened, and nothing happens before the action is claimed.  The other way, only
\* for a mutation that commits with its receipt does the effect mean SUCCEEDED: a
\* keyed one may end as FAILED although it was applied (see Change).
ReceiptIsTrue ==
    \A a \in Actions :
        /\ Kind[a] # "read" /\ exec[a].status = "SUCCEEDED" => effects[a] > 0
        /\ Kind[a] = "atomic" /\ effects[a] > 0 => exec[a].status = "SUCCEEDED"
        /\ exec[a].status = "ABSENT" => effects[a] = 0

\* cancel_run's own message: "Cannot cancel while a Tool execution is in flight;
\* wait for its outcome to be persisted first."
CancelWaitsForTools ==
    [][run'.status = "CANCELLED" /\ run.status # "CANCELLED" => InFlight = {}]_vars
=============================================================================
