-------------------------- MODULE ToolLedgerProofs --------------------------
(***************************************************************************)
(* The tool ledger proved correct for any workers, any actions of any kinds  *)
(* and any leases: an effect happens at most once, and a receipt is true.    *)
(* Then the Executive Graph, which takes its calls through a ledger: its      *)
(* confirmations, action ids and budgets, for any calls, batches, workers,    *)
(* takeovers and crashes.                                                    *)
(***************************************************************************)
EXTENDS ToolLedger, GraphState, FiniteSetTheorems, SequenceTheorems, TLAPS

Graph == INSTANCE ExecutiveGraph

-----------------------------------------------------------------------------
(* The inductive invariant *)

\* Where a worker has claimed an action, or is about to; and where it has acquired it.
Acquired == {"working", "changing", "done", "saving"}
InCall == Acquired \cup {"claiming"}

\* The types, and a worker in a tool call has its action.
LedgerType ==
    /\ TypeOK
    /\ \A w \in Workers :
         /\ at[w].pc \in InCall => at[w].action \in Actions
         /\ at[w].pc = "changing" => Kind[at[w].action] = "keyed"

\* Worker w has acquired action a and has not let go of it.
Busy(w, a) == at[w].pc \in Acquired /\ at[w].action = a

\* An external action is acquired once, by one worker; its effect is that worker's.
ExternalOnce(a) ==
    /\ exec[a].status = "ABSENT" => effects[a] = 0 /\ \A w \in Workers : ~Busy(w, a)
    /\ \A v, w \in Workers : Busy(v, a) /\ Busy(w, a) => v = w
    /\ \A w \in Workers : Busy(w, a) =>
          effects[a] = IF at[w].pc # "working" /\ at[w].ok THEN 1 ELSE 0
    /\ effects[a] <= 1
    /\ exec[a].status = "SUCCEEDED" => effects[a] = 1

\* A mutation of the own database has happened exactly when its receipt says so.
AtomicOnce(a) == effects[a] = IF exec[a].status = "SUCCEEDED" THEN 1 ELSE 0

\* An effect that commits by itself has happened before a result or a receipt tells
\* of it; one under a mutation key happens once.
EffectFirst(a) ==
    /\ exec[a].status = "ABSENT" => effects[a] = 0 /\ \A w \in Workers : ~Busy(w, a)
    /\ \A w \in Workers :
          Busy(w, a) /\ at[w].pc \in {"done", "saving"} /\ at[w].ok => effects[a] > 0
    /\ exec[a].status = "SUCCEEDED" => effects[a] > 0
    /\ Kind[a] = "keyed" => effects[a] <= 1

EffectsInv ==
    \A a \in Actions :
        /\ Kind[a] = "external" => ExternalOnce(a)
        /\ Kind[a] = "atomic" => AtomicOnce(a)
        /\ Kind[a] = "read" => effects[a] = 0
        /\ Kind[a] \in {"noting", "keyed"} => EffectFirst(a)

LedgerInv == LedgerType /\ EffectsInv

-----------------------------------------------------------------------------
(* What a step does to the worker that takes it *)

LEMMA OutFacts == Out \in Worker /\ Out.pc = "out" /\ Out.action = NoAction
  BY DEF Out, Worker

\* A tool call that is over leaves its worker without an action.
LEMMA LeavesFacts ==
    ASSUME LedgerType, NEW w \in Workers, NEW pc \in {"graph", "failing"}, Leaves(w, pc)
    PROVE  /\ at' \in [Workers -> Worker]
           /\ at'[w].pc = pc
           /\ \A v \in Workers : v # w => at'[v] = at[v]
<1> DEFINE o == [Out EXCEPT !.pc = pc, !.token = at[w].token]
<1>1. at[w].token \in Nat
  BY DEF LedgerType, TypeOK, Worker
<1>2. o \in Worker
  BY <1>1, OutFacts DEF Worker
<1>3. o.pc = pc
  BY DEF Out
<1>4. at' = [at EXCEPT ![w] = o]
  BY DEF Leaves
<1> HIDE DEF o
<1>5. QED
  BY <1>2, <1>3, <1>4 DEF LedgerType, TypeOK

\* An action is acquired by a worker that was not busy.
LEMMA AcquireFacts ==
    ASSUME LedgerType, NEW w \in Workers, at[w].pc = "claiming", Acquire(w)
    PROVE  /\ at' \in [Workers -> Worker]
           /\ at'[w].pc = "working" /\ at'[w].action = at[w].action
           /\ \A v \in Workers : v # w => at'[v] = at[v]
           /\ exec' \in [Actions -> Execution] /\ tickets' \in Nat
           /\ exec[at[w].action].status \in {"ABSENT", "IN_PROGRESS"}
                => exec'[at[w].action].status = "IN_PROGRESS"
           /\ \A a \in Actions : a # at[w].action => exec'[a] = exec[a]
<1> DEFINE a == at[w].action
           e == IF exec[a].status = "ABSENT"
                THEN [status |-> "IN_PROGRESS", ticket |-> tickets', lease |-> ToolLease]
                ELSE TakenOver(exec[a], tickets')
<1>1. a \in Actions /\ at[w] \in Worker /\ exec[a] \in Execution
  BY DEF LedgerType, TypeOK, InCall
<1>2. tickets' \in Nat
  BY DEF Acquire, LedgerType, TypeOK
<1>3. exec' = [exec EXCEPT ![a] = e]
  BY <1>1 DEF Acquire, LedgerType, TypeOK
<1>4. /\ at' \in [Workers -> Worker]
      /\ at'[w].pc = "working" /\ at'[w].action = a
      /\ \A v \in Workers : v # w => at'[v] = at[v]
  BY <1>1, <1>2 DEF Acquire, LedgerType, TypeOK, Worker
<1>5. e \in Execution
  <2>1. ToolLease \in Int
    BY ToolLedgerAssumption
  <2>2. [status |-> "IN_PROGRESS", ticket |-> tickets', lease |-> ToolLease] \in Execution
    BY <1>2, <2>1 DEF Execution, ExecStatus
  <2>3. TakenOver(exec[a], tickets') \in Execution
    BY <1>1, <1>2, <2>1 DEF Execution, TakenOver
  <2>4. QED
    BY <2>2, <2>3
<1>6. exec[a].status \in {"ABSENT", "IN_PROGRESS"} => e.status = "IN_PROGRESS"
  BY <1>1 DEF TakenOver, Execution
<1> HIDE DEF e
<1>7. QED
  BY <1>1, <1>2, <1>3, <1>4, <1>5, <1>6 DEF LedgerType, TypeOK

-----------------------------------------------------------------------------
(* Steps that touch neither the ledger nor the effects *)

\* A worker that is not busy with an action it was not busy with before, and whose
\* result is what it was, disturbs nothing.
LEMMA QuietStep ==
    ASSUME LedgerInv, UNCHANGED <<exec, tickets, effects>>,
           run' \in RunRow, cancelling' \in Nat,
           at' \in [Workers -> Worker],
           \A w \in Workers :
               /\ at'[w].pc \in InCall => at'[w].action \in Actions
               /\ at'[w].pc \in Acquired =>
                     /\ Busy(w, at'[w].action)
                     /\ at'[w].pc = "changing" <=> at[w].pc = "changing"
                     /\ Kind[at'[w].action] \in {"external", "noting", "keyed"} =>
                           /\ at'[w].pc = "working" <=> at[w].pc = "working"
                           /\ at'[w].ok = at[w].ok
    PROVE  LedgerInv'
<1>1. LedgerType'
  <2>1. TypeOK'
    BY DEF LedgerInv, LedgerType, TypeOK
  <2>2. ASSUME NEW w \in Workers, at'[w].pc = "changing" PROVE Kind[at'[w].action] = "keyed"
    <3>1. Busy(w, at'[w].action) /\ at[w].pc = "changing"
      BY <2>2 DEF Acquired
    <3>2. QED
      BY <3>1 DEF LedgerInv, LedgerType, Busy
  <2>3. QED
    BY <2>1, <2>2 DEF LedgerType
<1>2. \A w \in Workers, a \in Actions : Busy(w, a)' => Busy(w, a)
  BY DEF Busy
<1>3. ASSUME NEW a \in Actions, Kind[a] = "external"
      PROVE  ExternalOnce(a)'
  <2>1. ExternalOnce(a)
    BY <1>3 DEF LedgerInv, EffectsInv
  <2>2. \A w \in Workers : Busy(w, a)' =>
           (at'[w].pc = "working" <=> at[w].pc = "working") /\ at'[w].ok = at[w].ok
    BY <1>3 DEF Busy
  <2>3. QED
    BY <1>2, <2>1, <2>2 DEF ExternalOnce
<1>4. ASSUME NEW a \in Actions, Kind[a] \in {"noting", "keyed"}
      PROVE  EffectFirst(a)'
  <2>1. EffectFirst(a)
    BY <1>4 DEF LedgerInv, EffectsInv
  <2>2. \A w \in Workers : Busy(w, a)' /\ at'[w].pc \in {"done", "saving"} /\ at'[w].ok =>
           Busy(w, a) /\ at[w].pc \in {"done", "saving"} /\ at[w].ok
    BY <1>4 DEF Busy, Acquired
  <2>3. QED
    BY <1>2, <2>1, <2>2 DEF EffectFirst
<1>5. QED
  BY <1>1, <1>3, <1>4 DEF LedgerInv, EffectsInv, AtomicOnce

\* A tool call that ends without a receipt disturbs nothing.
LEMMA QuietLeaving ==
    ASSUME LedgerInv, UNCHANGED <<exec, tickets, effects>>, UNCHANGED <<run, cancelling>>,
           NEW w \in Workers, NEW pc \in {"graph", "failing"}, Leaves(w, pc)
    PROVE  LedgerInv'
<1>1. /\ at' \in [Workers -> Worker]
      /\ at'[w].pc = pc
      /\ \A v \in Workers : v # w => at'[v] = at[v]
  BY LeavesFacts DEF LedgerInv
<1>2. \A v \in Workers :
         at[v].pc \in InCall => at[v].action \in Actions
  BY DEF LedgerInv, LedgerType
<1>3. run' \in RunRow /\ cancelling' \in Nat
  BY DEF LedgerInv, LedgerType, TypeOK
<1>4. QED
  BY <1>1, <1>2, <1>3, QuietStep DEF Busy, InCall, Acquired

\* A worker that is not in a tool call any more disturbs nothing.
LEMMA QuietSwitch ==
    ASSUME LedgerInv, UNCHANGED <<exec, tickets, effects>>,
           run' \in RunRow, cancelling' \in Nat,
           NEW w \in Workers, NEW o \in Worker, o.pc \in {"out", "graph"},
           at' = [at EXCEPT ![w] = o]
    PROVE  LedgerInv'
<1>1. at' \in [Workers -> Worker] /\ at'[w] = o /\ \A v \in Workers : v # w => at'[v] = at[v]
  BY DEF LedgerInv, LedgerType, TypeOK
<1>2. \A v \in Workers :
         at[v].pc \in InCall => at[v].action \in Actions
  BY DEF LedgerInv, LedgerType
<1>3. QED
  BY <1>1, <1>2, QuietStep DEF Busy, InCall, Acquired

\* When no worker moves, and neither ledger nor effects do, nothing is disturbed.
LEMMA QuietRun ==
    ASSUME LedgerInv, UNCHANGED <<exec, tickets, effects, at>>, run' \in RunRow, cancelling' \in Nat
    PROVE  LedgerInv'
<1>1. at' \in [Workers -> Worker]
  BY DEF LedgerInv, LedgerType, TypeOK
<1>2. \A v \in Workers :
         at[v].pc \in InCall => at[v].action \in Actions
  BY DEF LedgerInv, LedgerType
<1>3. QED
  BY <1>1, <1>2, QuietStep DEF Busy, InCall, Acquired

-----------------------------------------------------------------------------
(* The row of the run *)

LEMMA RunFacts ==
    ASSUME NEW r \in RunRow
    PROVE  /\ Claimed(r) \in RunRow /\ Renewed(r) \in RunRow /\ Aged(r) \in RunRow
           /\ \A status \in Terminal : Ended(r, status) \in RunRow
<1>1. RunLease \in Int
  BY RunTableAssumption
<1>2. Renewed(r) \in RunRow /\ Aged(r) \in RunRow
  BY <1>1 DEF RunRow, Renewed, Aged
<1>3. Claimed(r) \in RunRow
  <2>1. r.claims + 1 \in Nat /\ r.version + 1 \in Nat
    BY DEF RunRow
  <2> DEFINE r1 == [r EXCEPT !.status = "RUNNING", !.token = r.claims + 1]
  <2>2. r1 \in RunRow /\ r1.claims = r.claims /\ r1.version = r.version
    BY <2>1 DEF RunRow, RunStatus
  <2>3. Claimed(r) = [r1 EXCEPT !.claims = r.claims + 1, !.lease = RunLease,
                                !.version = r.version + 1]
    BY DEF Claimed
  <2> HIDE DEF r1
  <2>4. QED
    BY <1>1, <2>1, <2>2, <2>3 DEF RunRow
<1>4. ASSUME NEW status \in Terminal PROVE Ended(r, status) \in RunRow
  <2>1. r.version + 1 \in Nat
    BY DEF RunRow
  <2> DEFINE r1 == [r EXCEPT !.status = status, !.token = 0]
  <2>2. r1 \in RunRow /\ r1.version = r.version
    BY DEF RunRow, RunStatus, Terminal
  <2> DEFINE r2 == [r1 EXCEPT !.lease = 0]
  <2>3. Ended(r, status) = [r2 EXCEPT !.version = r.version + 1]
    BY DEF Ended, Released
  <2> HIDE DEF r1
  <2>4. r2 \in RunRow
    BY <2>2 DEF RunRow
  <2> HIDE DEF r2
  <2>5. QED
    BY <2>1, <2>3, <2>4 DEF RunRow
<1>5. QED
  BY <1>2, <1>3, <1>4

\* What happens around the tools.
LEMMA RunStepInv ==
    ASSUME LedgerInv, NEW w \in Workers, RunStep(w)
    PROVE  LedgerInv'
<1>1. run \in RunRow /\ cancelling \in Nat
  BY DEF LedgerInv, LedgerType, TypeOK
<1>2. CASE TakeRun(w)
  <2> DEFINE o == [Out EXCEPT !.pc = "graph", !.token = run'.token]
  <2>1. /\ at' = [at EXCEPT ![w] = o] /\ UNCHANGED <<exec, tickets, effects, cancelling>>
        /\ run' = Claimed(run)
    BY <1>2 DEF TakeRun
  <2>2. run' \in RunRow /\ run'.token \in Nat
    BY <1>1, <2>1, RunFacts DEF RunRow
  <2>3. o \in Worker
    BY <2>2, OutFacts DEF Worker
  <2>4. o.pc = "graph"
    BY DEF Out
  <2> HIDE DEF o
  <2>5. QED
    BY <1>1, <2>1, <2>2, <2>3, <2>4, QuietSwitch
<1>3. CASE RunBeat(w)
  BY <1>1, <1>3, RunFacts, QuietRun DEF RunBeat
<1>4. CASE GraphRaises(w)
  BY <1>4, QuietLeaving DEF GraphRaises, Raises
<1>5. CASE Crash(w)
  BY <1>1, <1>5, OutFacts, QuietSwitch DEF Crash
<1>6. CASE \E status \in {"COMPLETED", "FAILED"} : EndRun(w, status)
  <2>1. PICK status \in {"COMPLETED", "FAILED"} : EndRun(w, status)
    BY <1>6
  <2>2. run' \in RunRow
    BY <1>1, <2>1, RunFacts DEF EndRun, Terminal
  <2>3. QED
    BY <1>1, <2>1, <2>2, OutFacts, QuietSwitch DEF EndRun
<1>7. QED
  BY <1>2, <1>3, <1>4, <1>5, <1>6 DEF RunStep

-----------------------------------------------------------------------------
(* The steps of a tool call *)

\* A worker goes from one place to another in the same tool call.
LEMMA MoveFacts ==
    ASSUME LedgerType, NEW w \in Workers,
           NEW pc \in {"claiming", "changing", "done", "saving"}, NEW ok \in BOOLEAN,
           at' = [at EXCEPT ![w].pc = pc, ![w].ok = ok]
    PROVE  /\ at' \in [Workers -> Worker]
           /\ at'[w].pc = pc /\ at'[w].ok = ok /\ at'[w].action = at[w].action
           /\ \A v \in Workers : v # w => at'[v] = at[v]
  BY DEF LedgerType, TypeOK, Worker

\* Only a worker that was outside every tool call begins one.
LEMMA BeginClaimInv ==
    ASSUME LedgerInv, NEW w \in Workers, NEW a \in Actions, BeginClaim(w, a)
    PROVE  LedgerInv'
<1>1. run' \in RunRow /\ cancelling' \in Nat
  BY DEF LedgerInv, LedgerType, TypeOK, BeginClaim
<1>2. CASE HeldBy(run, at[w].token)
  <2>1. at' = [at EXCEPT ![w].pc = "claiming", ![w].action = a]
    BY <1>2 DEF BeginClaim
  <2>2. /\ at' \in [Workers -> Worker]
        /\ at'[w].pc = "claiming" /\ at'[w].action = a
        /\ \A v \in Workers : v # w => at'[v] = at[v]
    BY <2>1 DEF LedgerInv, LedgerType, TypeOK, Worker
  <2>3. \A v \in Workers :
           at[v].pc \in InCall => at[v].action \in Actions
    BY DEF LedgerInv, LedgerType
  <2>4. UNCHANGED <<exec, tickets, effects>>
    BY DEF BeginClaim
  <2>5. QED
    BY <1>1, <2>2, <2>3, <2>4, QuietStep DEF Busy, InCall, Acquired
<1>3. CASE ~HeldBy(run, at[w].token)
  BY <1>3, QuietLeaving DEF BeginClaim, Raises
<1>4. QED
  BY <1>2, <1>3

\* An action is acquired when it is new or, if it may be repeated, expired.
LEMMA ClaimToolInv ==
    ASSUME LedgerInv, NEW w \in Workers, ClaimTool(w)
    PROVE  LedgerInv'
<1> DEFINE a == at[w].action
<1>1. LedgerType /\ EffectsInv /\ at[w].pc = "claiming" /\ a \in Actions /\ exec[a] \in Execution
  BY DEF LedgerInv, LedgerType, TypeOK, ClaimTool, InCall
<1>2. UNCHANGED <<run, effects, cancelling>>
  BY DEF ClaimTool
<1>3. CASE /\ Acquire(w)
           /\ \/ exec[a].status = "ABSENT"
              \/ exec[a].status = "IN_PROGRESS" /\ Kind[a] # "external"
  <2>1. /\ at' \in [Workers -> Worker]
        /\ at'[w].pc = "working" /\ at'[w].action = a
        /\ \A v \in Workers : v # w => at'[v] = at[v]
        /\ exec' \in [Actions -> Execution] /\ tickets' \in Nat
        /\ exec'[a].status = "IN_PROGRESS"
        /\ \A b \in Actions : b # a => exec'[b] = exec[b]
    BY <1>1, <1>3, AcquireFacts
  <2>2. LedgerType'
    BY <1>1, <1>2, <2>1 DEF LedgerType, TypeOK
  <2>3. ASSUME NEW b \in Actions, Kind[b] = "external" PROVE ExternalOnce(b)'
    <3>1. ExternalOnce(b)
      BY <1>1, <2>3 DEF EffectsInv
    <3>2. CASE b # a
      BY <1>1, <1>2, <2>1, <3>1, <3>2 DEF ExternalOnce, Busy
    <3>3. CASE b = a
      <4>1. effects[b] = 0 /\ \A v \in Workers : ~Busy(v, b)
        BY <1>3, <2>3, <3>1, <3>3 DEF ExternalOnce
      <4>2. \A v \in Workers : Busy(v, b)' => v = w
        BY <2>1, <4>1 DEF Busy
      <4>3. QED
        BY <1>2, <2>1, <3>3, <4>1, <4>2 DEF ExternalOnce
    <3>4. QED
      BY <3>2, <3>3
  <2>4. ASSUME NEW b \in Actions, Kind[b] = "atomic" PROVE AtomicOnce(b)'
    BY <1>1, <1>2, <1>3, <2>1, <2>4 DEF EffectsInv, AtomicOnce
  <2>5. ASSUME NEW b \in Actions, Kind[b] \in {"noting", "keyed"} PROVE EffectFirst(b)'
    <3>1. EffectFirst(b)
      BY <1>1, <2>5 DEF EffectsInv
    <3>2. \A v \in Workers : Busy(v, b)' /\ at'[v].pc \in {"done", "saving"} =>
             Busy(v, b) /\ at'[v] = at[v]
      BY <2>1 DEF Busy
    <3>3. exec'[b].status = "ABSENT" => exec[b].status = "ABSENT" /\ \A v \in Workers : ~Busy(v, b)'
      BY <2>1, <3>1 DEF EffectFirst, Busy
    <3>4. exec'[b].status = "SUCCEEDED" => exec[b].status = "SUCCEEDED"
      BY <2>1
    <3>5. QED
      BY <1>2, <3>1, <3>2, <3>3, <3>4 DEF EffectFirst
  <2>6. QED
    BY <1>1, <1>2, <2>2, <2>3, <2>4, <2>5 DEF LedgerInv, EffectsInv
<1>4. CASE \E pc \in {"graph", "failing"} : Leaves(w, pc) /\ UNCHANGED <<exec, tickets>>
  BY <1>2, <1>4, QuietLeaving
<1>5. CASE /\ exec[a].status # "ABSENT" /\ ~HasResult(exec[a]) /\ ~ReplaySafe(a)
           /\ exec' = [exec EXCEPT ![a] = MarkedUnknown(@)]
           /\ Leaves(w, "failing") /\ UNCHANGED tickets
  <2>1. /\ at' \in [Workers -> Worker]
        /\ at'[w].pc = "failing"
        /\ \A v \in Workers : v # w => at'[v] = at[v]
    BY <1>1, <1>5, LeavesFacts
  <2>2. MarkedUnknown(exec[a]) \in Execution /\ MarkedUnknown(exec[a]).status = "UNKNOWN_OUTCOME"
    BY <1>1 DEF MarkedUnknown, Execution, ExecStatus
  <2>3. /\ exec' \in [Actions -> Execution]
        /\ exec'[a].status = "UNKNOWN_OUTCOME"
        /\ \A b \in Actions : b # a => exec'[b] = exec[b]
    BY <1>1, <1>5, <2>2 DEF LedgerType, TypeOK
  <2>4. LedgerType'
    BY <1>1, <1>2, <1>5, <2>1, <2>3 DEF LedgerType, TypeOK, InCall, Acquired
  <2>5. \A v \in Workers, b \in Actions : Busy(v, b)' => Busy(v, b) /\ at'[v] = at[v]
    BY <2>1 DEF Busy, Acquired
  <2>6. ASSUME NEW b \in Actions, Kind[b] = "external" PROVE ExternalOnce(b)'
    <3>1. ExternalOnce(b)
      BY <1>1, <2>6 DEF EffectsInv
    <3>2. QED
      BY <1>2, <1>5, <2>3, <2>5, <3>1 DEF ExternalOnce
  <2>7. Kind[a] = "external"
    BY <1>5 DEF ReplaySafe
  <2>8. ASSUME NEW b \in Actions, Kind[b] \in {"noting", "keyed"} PROVE EffectFirst(b)'
    <3>1. EffectFirst(b) /\ b # a
      BY <1>1, <2>7, <2>8 DEF EffectsInv
    <3>2. QED
      BY <1>2, <2>3, <2>5, <3>1 DEF EffectFirst
  <2>9. QED
    BY <1>1, <1>2, <2>3, <2>4, <2>6, <2>7, <2>8 DEF LedgerInv, EffectsInv, AtomicOnce
<1> DEFINE Mark == /\ exec[a].status # "ABSENT" /\ ~HasResult(exec[a]) /\ ~ReplaySafe(a)
                   /\ exec' = [exec EXCEPT ![a] = MarkedUnknown(@)]
                   /\ Raises(w) /\ UNCHANGED tickets
           Return == Returns(w) /\ UNCHANGED <<exec, tickets>>
           Raise == Raises(w) /\ UNCHANGED <<exec, tickets>>
           TakeNew == exec[a].status = "ABSENT" /\ Acquire(w)
           TakeOver == exec[a].status = "IN_PROGRESS" /\ ReplaySafe(a) /\ Acquire(w)
<1>6. TakeNew \/ Return \/ Mark \/ TakeOver \/ Raise
  BY DEF ClaimTool
<1>7. CASE Return
  BY <1>4, <1>7 DEF Returns
<1>8. CASE Raise
  BY <1>4, <1>8 DEF Raises
<1>9. CASE TakeNew
  BY <1>3, <1>9
<1>10. CASE TakeOver
  BY <1>3, <1>10 DEF ReplaySafe
<1>11. CASE Mark
  BY <1>5, <1>11 DEF Raises
<1> HIDE DEF Mark, Return, Raise, TakeNew, TakeOver
<1>12. QED
  BY <1>6, <1>7, <1>8, <1>9, <1>10, <1>11

\* The worker that has acquired an external action acts once.
LEMMA ActInv ==
    ASSUME LedgerInv, NEW w \in Workers, Act(w)
    PROVE  LedgerInv'
<1> DEFINE a == at[w].action
<1>1. /\ LedgerType /\ EffectsInv /\ a \in Actions /\ Kind[a] = "external" /\ Busy(w, a)
      /\ at[w].pc = "working" /\ effects[a] \in Nat
  BY DEF LedgerInv, LedgerType, TypeOK, Act, Busy, InCall, Acquired
<1>2. PICK ok \in BOOLEAN :
          /\ at' = [at EXCEPT ![w].pc = "done", ![w].ok = ok]
          /\ effects' = [effects EXCEPT ![a] = IF ok THEN @ + 1 ELSE @]
  BY DEF Act
<1>3. /\ at' \in [Workers -> Worker]
      /\ at'[w].pc = "done" /\ at'[w].ok = ok /\ at'[w].action = a
      /\ \A v \in Workers : v # w => at'[v] = at[v]
  BY <1>1, <1>2, MoveFacts
<1>4. UNCHANGED <<run, exec, tickets, cancelling>>
  BY DEF Act
<1>5. ExternalOnce(a)
  BY <1>1 DEF EffectsInv
<1>6. effects[a] = 0 /\ exec[a].status \notin {"ABSENT", "SUCCEEDED"}
  BY <1>1, <1>5 DEF ExternalOnce
<1>7. /\ effects' \in [Actions -> Nat]
      /\ effects'[a] = IF ok THEN 1 ELSE 0
      /\ \A b \in Actions : b # a => effects'[b] = effects[b]
  BY <1>1, <1>2, <1>6 DEF LedgerType, TypeOK
<1>8. LedgerType'
  BY <1>1, <1>3, <1>4, <1>7 DEF LedgerType, TypeOK
<1>9. \A v \in Workers, b \in Actions : Busy(v, b)' <=> Busy(v, b)
  BY <1>1, <1>3 DEF Busy, Acquired
<1>10. ASSUME NEW b \in Actions, b = a PROVE ExternalOnce(b)'
  BY <1>1, <1>3, <1>4, <1>5, <1>6, <1>7, <1>9, <1>10 DEF ExternalOnce
<1>11. ASSUME NEW b \in Actions, b # a, ExternalOnce(b) PROVE ExternalOnce(b)'
  <2>1. \A v \in Workers : Busy(v, b)' => at'[v] = at[v]
    BY <1>3, <1>11 DEF Busy
  <2>2. QED
    BY <1>4, <1>7, <1>9, <1>11, <2>1 DEF ExternalOnce
<1>12. ASSUME NEW b \in Actions, Kind[b] = "external" PROVE ExternalOnce(b)'
  BY <1>1, <1>10, <1>11, <1>12 DEF EffectsInv
<1>13. ASSUME NEW b \in Actions, Kind[b] # "external" PROVE exec'[b] = exec[b] /\ effects'[b] = effects[b]
  BY <1>1, <1>4, <1>7, <1>13
<1>14. ASSUME NEW b \in Actions, Kind[b] = "atomic" PROVE AtomicOnce(b)'
  BY <1>1, <1>13, <1>14 DEF EffectsInv, AtomicOnce
<1>15. ASSUME NEW b \in Actions, Kind[b] = "read" PROVE effects'[b] = 0
  BY <1>1, <1>13, <1>15 DEF EffectsInv
<1>16. ASSUME NEW b \in Actions, Kind[b] \in {"noting", "keyed"} PROVE EffectFirst(b)'
  <2>1. EffectFirst(b) /\ b # a
    BY <1>1, <1>16 DEF EffectsInv
  <2>2. \A v \in Workers : Busy(v, b)' => at'[v] = at[v]
    BY <1>3, <2>1 DEF Busy
  <2>3. QED
    BY <1>4, <1>7, <1>9, <2>1, <2>2 DEF EffectFirst
<1>17. QED
  BY <1>8, <1>12, <1>14, <1>15, <1>16 DEF LedgerInv, EffectsInv

\* An effect that commits by itself, n times by now, and the result that tells of it.
LEMMA TellingInv ==
    ASSUME LedgerInv, NEW w \in Workers, NEW ok \in BOOLEAN, NEW n \in Nat,
           NEW a \in Actions, at[w].action = a,
           at[w].pc \in {"working", "changing"},
           Kind[a] \in {"noting", "keyed"},
           at' = [at EXCEPT ![w].pc = "done", ![w].ok = ok],
           effects' = [effects EXCEPT ![a] = n],
           n >= effects[a], ok => n > 0,
           Kind[a] = "keyed" => n <= 1,
           UNCHANGED <<run, exec, tickets, cancelling>>
    PROVE  LedgerInv'
<1>1. /\ LedgerType /\ EffectsInv /\ a \in Actions /\ Busy(w, a)
      /\ effects[a] \in Nat
  BY DEF LedgerInv, LedgerType, TypeOK, Busy, InCall, Acquired
<1>2. /\ at' \in [Workers -> Worker]
      /\ at'[w].pc = "done" /\ at'[w].ok = ok /\ at'[w].action = a
      /\ \A v \in Workers : v # w => at'[v] = at[v]
  BY <1>1, MoveFacts
<1>3. /\ effects' \in [Actions -> Nat]
      /\ effects'[a] = n
      /\ \A b \in Actions : b # a => effects'[b] = effects[b]
  BY <1>1 DEF LedgerType, TypeOK
<1>4. LedgerType'
  BY <1>1, <1>2, <1>3 DEF LedgerType, TypeOK
<1>5. \A v \in Workers, b \in Actions : Busy(v, b)' <=> Busy(v, b)
  BY <1>1, <1>2 DEF Busy, Acquired
<1>6. \A v \in Workers, b \in Actions : b # a /\ Busy(v, b)' => at'[v] = at[v]
  BY <1>2 DEF Busy
<1>7. ASSUME NEW b \in Actions, b # a, EffectFirst(b) PROVE EffectFirst(b)'
  BY <1>3, <1>5, <1>6, <1>7 DEF EffectFirst
<1>8. EffectFirst(a)
  BY <1>1 DEF EffectsInv
<1>9. exec[a].status # "ABSENT"
  BY <1>1, <1>8 DEF EffectFirst
<1>10. effects[a] > 0 => n > 0
  BY <1>1
<1>11. \A v \in Workers : Busy(v, a)' /\ at'[v].pc \in {"done", "saving"} /\ at'[v].ok => n > 0
  <2>1. ok => n > 0
    OBVIOUS
  <2>2. ASSUME NEW v \in Workers, v # w, Busy(v, a)', at'[v].pc \in {"done", "saving"}, at'[v].ok
        PROVE  n > 0
    <3>1. Busy(v, a) /\ at'[v] = at[v]
      BY <1>2, <1>5, <2>2
    <3>2. effects[a] > 0
      BY <1>8, <2>2, <3>1 DEF EffectFirst
    <3>3. QED
      BY <1>10, <3>2
  <2>3. QED
    BY <1>2, <2>1, <2>2
<1>12. ASSUME NEW b \in Actions, b = a PROVE EffectFirst(b)'
  <2>1. exec'[a].status = "SUCCEEDED" => n > 0
    BY <1>8, <1>10 DEF EffectFirst
  <2>2. exec'[a].status # "ABSENT"
    BY <1>9
  <2>3. QED
    BY <1>3, <1>11, <1>12, <2>1, <2>2 DEF EffectFirst
<1>13. ASSUME NEW b \in Actions, Kind[b] = "external" PROVE ExternalOnce(b)'
  <2>1. ExternalOnce(b) /\ b # a
    BY <1>1, <1>13 DEF EffectsInv
  <2>2. effects'[b] = effects[b] /\ exec'[b] = exec[b]
    BY <1>3, <2>1
  <2>3. \A v \in Workers : (Busy(v, b)' <=> Busy(v, b)) /\ (Busy(v, b)' => at'[v] = at[v])
    BY <1>5, <1>6, <2>1
  <2>4. \A v \in Workers : Busy(v, b)' =>
            effects'[b] = IF at'[v].pc # "working" /\ at'[v].ok THEN 1 ELSE 0
    <3>1. \A v \in Workers : Busy(v, b) =>
             effects[b] = IF at[v].pc # "working" /\ at[v].ok THEN 1 ELSE 0
      BY <2>1 DEF ExternalOnce
    <3>2. SUFFICES ASSUME NEW v \in Workers, Busy(v, b)'
                   PROVE  effects'[b] = IF at'[v].pc # "working" /\ at'[v].ok THEN 1 ELSE 0
      OBVIOUS
    <3>3. Busy(v, b) /\ at'[v] = at[v]
      BY <2>3, <3>2
    <3>4. QED
      BY <2>2, <3>1, <3>3
  <2>5. \A u, v \in Workers : Busy(u, b)' /\ Busy(v, b)' => u = v
    BY <2>1, <2>3 DEF ExternalOnce
  <2>6. exec'[b].status = "ABSENT" => effects'[b] = 0 /\ \A v \in Workers : ~Busy(v, b)'
    BY <2>1, <2>2, <2>3 DEF ExternalOnce
  <2>7. effects'[b] <= 1 /\ (exec'[b].status = "SUCCEEDED" => effects'[b] = 1)
    BY <2>1, <2>2 DEF ExternalOnce
  <2>8. QED
    BY <2>4, <2>5, <2>6, <2>7 DEF ExternalOnce
<1>14. ASSUME NEW b \in Actions, Kind[b] \in {"noting", "keyed"} PROVE EffectFirst(b)'
  BY <1>1, <1>7, <1>12, <1>14 DEF EffectsInv
<1>15. ASSUME NEW b \in Actions, Kind[b] \in {"atomic", "read"} PROVE effects'[b] = effects[b]
  BY <1>3, <1>15
<1>16. QED
  BY <1>1, <1>4, <1>13, <1>14, <1>15 DEF LedgerInv, EffectsInv, AtomicOnce

\* A noting read records its observation once more.
LEMMA NoteInv ==
    ASSUME LedgerInv, NEW w \in Workers, Note(w)
    PROVE  LedgerInv'
<1> DEFINE a == at[w].action
<1>1. /\ at[w].pc = "working" /\ Kind[a] = "noting" /\ a \in Actions /\ effects[a] \in Nat
      /\ UNCHANGED <<run, exec, tickets, cancelling>>
  BY DEF Note, LedgerInv, LedgerType, TypeOK, InCall, Acquired
<1>2. PICK ok \in BOOLEAN :
          /\ at' = [at EXCEPT ![w].pc = "done", ![w].ok = ok]
          /\ effects' = [effects EXCEPT ![a] = IF ok THEN effects[a] + 1 ELSE effects[a]]
  BY DEF Note
<1> DEFINE n == IF ok THEN effects[a] + 1 ELSE effects[a]
<1>3. n \in Nat /\ n >= effects[a] /\ (ok => n > 0)
  BY <1>1
<1>4. effects' = [effects EXCEPT ![a] = n]
  BY <1>2
<1> HIDE DEF n
<1>5. QED
  BY <1>1, <1>2, <1>3, <1>4, TellingInv

\* A keyed mutation that finds its key has happened; otherwise nothing happens yet.
LEMMA LookUpKeyInv ==
    ASSUME LedgerInv, NEW w \in Workers, LookUpKey(w)
    PROVE  LedgerInv'
<1> DEFINE a == at[w].action
<1>1. /\ at[w].pc = "working" /\ Kind[a] = "keyed" /\ a \in Actions /\ effects[a] \in Nat
      /\ UNCHANGED <<run, exec, tickets, effects, cancelling>>
      /\ LedgerType /\ EffectsInv /\ at[w].ok \in BOOLEAN
  BY DEF LookUpKey, LedgerInv, LedgerType, TypeOK, InCall, Acquired, Worker
<1>2. CASE Applied(effects[a])
  <2>1. at' = [at EXCEPT ![w].pc = "done", ![w].ok = TRUE]
    BY <1>2 DEF LookUpKey
  <2>2. effects' = [effects EXCEPT ![a] = effects[a]]
    BY <1>1 DEF LedgerType, TypeOK
  <2>3. effects[a] > 0
    BY <1>2 DEF Applied
  <2>4. effects[a] <= 1
    BY <1>1 DEF EffectsInv, EffectFirst
  <2>5. effects[a] >= effects[a]
    BY <1>1
  <2>6. QED
    BY <1>1, <2>1, <2>2, <2>3, <2>4, <2>5, TellingInv
<1>3. CASE ~Applied(effects[a])
  <2>1. at' = [at EXCEPT ![w].pc = "changing"]
    BY <1>3 DEF LookUpKey
  <2>2. /\ at' \in [Workers -> Worker]
        /\ at'[w].pc = "changing" /\ at'[w].action = a
        /\ \A v \in Workers : v # w => at'[v] = at[v]
    BY <1>1, <2>1 DEF LedgerType, TypeOK, Worker
  <2>3. LedgerType'
    BY <1>1, <2>2 DEF LedgerType, TypeOK
  <2>4. \A v \in Workers, b \in Actions : Busy(v, b)' <=> Busy(v, b)
    BY <1>1, <2>2 DEF Busy, Acquired
  <2>5. \A v \in Workers, b \in Actions : b # a /\ Busy(v, b)' => at'[v] = at[v]
    BY <2>2 DEF Busy
  <2>6. \A v \in Workers : at'[v].pc \in {"done", "saving"} => at'[v] = at[v]
    BY <2>2
  <2>7. ASSUME NEW b \in Actions, Kind[b] = "external" PROVE ExternalOnce(b)'
    <3>1. ExternalOnce(b) /\ b # a
      BY <1>1, <2>7 DEF EffectsInv
    <3>2. QED
      BY <1>1, <2>4, <2>5, <3>1 DEF ExternalOnce
  <2>8. ASSUME NEW b \in Actions, Kind[b] \in {"noting", "keyed"} PROVE EffectFirst(b)'
    <3>1. EffectFirst(b)
      BY <1>1, <2>8 DEF EffectsInv
    <3>2. QED
      BY <1>1, <2>4, <2>6, <3>1 DEF EffectFirst
  <2>9. QED
    BY <1>1, <2>3, <2>7, <2>8 DEF LedgerInv, EffectsInv, AtomicOnce
<1>4. QED
  BY <1>2, <1>3

\* A keyed mutation commits when it has not been applied, and not again.
LEMMA ChangeInv ==
    ASSUME LedgerInv, NEW w \in Workers, Change(w)
    PROVE  LedgerInv'
<1> DEFINE a == at[w].action
<1>1. /\ at[w].pc = "changing" /\ Kind[a] = "keyed" /\ a \in Actions /\ effects[a] \in Nat
      /\ UNCHANGED <<run, exec, tickets, cancelling>> /\ effects[a] <= 1
  BY DEF Change, LedgerInv, LedgerType, TypeOK, EffectsInv, EffectFirst, InCall, Acquired
<1>2. PICK ok \in BOOLEAN :
          /\ ok => ~Applied(effects[a])
          /\ at' = [at EXCEPT ![w].pc = "done", ![w].ok = ok]
          /\ effects' = [effects EXCEPT ![a] = IF ok THEN effects[a] + 1 ELSE effects[a]]
  BY DEF Change
<1> DEFINE n == IF ok THEN effects[a] + 1 ELSE effects[a]
<1>3. ok => effects[a] = 0
  BY <1>1, <1>2 DEF Applied
<1>4. n \in Nat /\ n >= effects[a] /\ (ok => n > 0) /\ n <= 1
  BY <1>1, <1>3
<1>5. effects' = [effects EXCEPT ![a] = n]
  BY <1>2
<1> HIDE DEF n
<1>6. QED
  BY <1>1, <1>2, <1>4, <1>5, TellingInv

\* A read, a refused mutation and the beginning of a receipt change the worker only.
LEMMA LookInv ==
    ASSUME LedgerInv, NEW w \in Workers, Look(w)
    PROVE  LedgerInv'
<1>1. PICK ok \in BOOLEAN : at' = [at EXCEPT ![w].pc = "done", ![w].ok = ok]
  BY DEF Look
<1>2. /\ at' \in [Workers -> Worker]
      /\ at'[w].pc = "done" /\ at'[w].action = at[w].action
      /\ \A v \in Workers : v # w => at'[v] = at[v]
  BY <1>1, MoveFacts DEF LedgerInv
<1>3. \A v \in Workers :
         at[v].pc \in InCall => at[v].action \in Actions
  BY DEF LedgerInv, LedgerType
<1>4. /\ at[w].pc = "working" /\ Kind[at[w].action] \in {"read", "atomic"}
      /\ UNCHANGED <<exec, tickets, effects>>
      /\ run' \in RunRow /\ cancelling' \in Nat
  BY DEF Look, LedgerInv, LedgerType, TypeOK
<1>5. QED
  BY <1>2, <1>3, <1>4, QuietStep DEF Busy, InCall, Acquired

LEMMA BeginSaveInv ==
    ASSUME LedgerInv, NEW w \in Workers, BeginSave(w)
    PROVE  LedgerInv'
<1>1. UNCHANGED <<run, exec, tickets, effects, cancelling>>
  BY DEF BeginSave
<1>2. CASE ~HeldBy(run, at[w].token)
  BY <1>1, <1>2, QuietLeaving DEF BeginSave, Raises
<1>3. CASE HeldBy(run, at[w].token)
  <2> DEFINE ok == at[w].ok \/ at[w].pc = "working"
  <2>1. at' = [at EXCEPT ![w].pc = "saving", ![w].ok = ok]
    BY <1>3 DEF BeginSave
  <2>2. ok \in BOOLEAN
    OBVIOUS
  <2>3. \/ at[w].pc = "done"
        \/ at[w].pc = "working" /\ Kind[at[w].action] = "atomic"
    BY DEF BeginSave
  <2>4. at[w].ok \in BOOLEAN
    BY DEF LedgerInv, LedgerType, TypeOK, Worker
  <2>5. at[w].pc = "done" => ok = at[w].ok
    BY <2>4
  <2> HIDE DEF ok
  <2>6. /\ at' \in [Workers -> Worker]
        /\ at'[w].pc = "saving" /\ at'[w].ok = ok /\ at'[w].action = at[w].action
        /\ \A v \in Workers : v # w => at'[v] = at[v]
    BY <2>1, <2>2, MoveFacts DEF LedgerInv
  <2>7. \A v \in Workers :
           at[v].pc \in InCall => at[v].action \in Actions
    BY DEF LedgerInv, LedgerType
  <2>8. run' \in RunRow /\ cancelling' \in Nat
    BY <1>1 DEF LedgerInv, LedgerType, TypeOK
  <2>9. QED
    BY <1>1, <2>3, <2>5, <2>6, <2>7, <2>8, QuietStep DEF Busy, InCall, Acquired
<1>4. QED
  BY <1>2, <1>3

\* A receipt is written once: a mutation happens with it, an external effect before it.
LEMMA SaveInv ==
    ASSUME LedgerInv, NEW w \in Workers, Save(w)
    PROVE  LedgerInv'
<1> DEFINE a == at[w].action
<1>1. /\ LedgerType /\ EffectsInv /\ a \in Actions /\ at[w].pc = "saving"
      /\ exec[a] \in Execution /\ effects[a] \in Nat /\ at[w].ok \in BOOLEAN /\ Busy(w, a)
  BY DEF LedgerInv, LedgerType, TypeOK, Save, Busy, Worker, InCall, Acquired
<1>2. UNCHANGED <<run, tickets, cancelling>>
  BY DEF Save
<1>3. CASE ~Fenced(exec[a], at[w].ticket)
  BY <1>2, <1>3, QuietLeaving DEF Save, Raises
<1>4. CASE Fenced(exec[a], at[w].ticket)
  <2>1. /\ exec' = [exec EXCEPT ![a] = WithReceipt(exec[a], at[w].ok)]
        /\ effects' = [effects EXCEPT ![a] =
                          IF Kind[a] = "atomic" /\ at[w].ok THEN effects[a] + 1 ELSE effects[a]]
        /\ Leaves(w, "graph")
    BY <1>4 DEF Save, Returns
  <2>2. /\ at' \in [Workers -> Worker]
        /\ at'[w].pc = "graph"
        /\ \A v \in Workers : v # w => at'[v] = at[v]
    BY <1>1, <2>1, LeavesFacts
  <2>3. exec[a].status = "IN_PROGRESS"
    BY <1>4 DEF Fenced
  <2>4. /\ WithReceipt(exec[a], at[w].ok) \in Execution
        /\ WithReceipt(exec[a], at[w].ok).status = IF at[w].ok THEN "SUCCEEDED" ELSE "FAILED"
    BY <1>1 DEF WithReceipt, Execution, ExecStatus
  <2>5. /\ exec' \in [Actions -> Execution]
        /\ exec'[a].status = IF at[w].ok THEN "SUCCEEDED" ELSE "FAILED"
        /\ \A b \in Actions : b # a => exec'[b] = exec[b]
    BY <1>1, <2>1, <2>4 DEF LedgerType, TypeOK
  <2>6. /\ effects' \in [Actions -> Nat]
        /\ effects'[a] = IF Kind[a] = "atomic" /\ at[w].ok THEN effects[a] + 1 ELSE effects[a]
        /\ \A b \in Actions : b # a => effects'[b] = effects[b]
    BY <1>1, <2>1 DEF LedgerType, TypeOK
  <2>7. LedgerType'
    BY <1>1, <1>2, <2>2, <2>5, <2>6 DEF LedgerType, TypeOK, InCall, Acquired
  <2>8. \A v \in Workers, b \in Actions : Busy(v, b)' => Busy(v, b) /\ at'[v] = at[v]
    BY <2>2 DEF Busy, Acquired
  <2>9. ASSUME NEW b \in Actions, Kind[b] = "external" PROVE ExternalOnce(b)'
    <3>1. ExternalOnce(b)
      BY <1>1, <2>9 DEF EffectsInv
    <3>2. CASE b # a
      BY <2>5, <2>6, <2>8, <3>1, <3>2 DEF ExternalOnce
    <3>3. CASE b = a
      <4>1. effects'[b] = effects[b]
        BY <2>6, <2>9, <3>3
      <4>2. effects[b] = IF at[w].ok THEN 1 ELSE 0
        BY <1>1, <3>1, <3>3 DEF ExternalOnce
      <4>3. QED
        BY <2>5, <2>8, <3>1, <3>3, <4>1, <4>2 DEF ExternalOnce
    <3>4. QED
      BY <3>2, <3>3
  <2>10. ASSUME NEW b \in Actions, Kind[b] = "atomic" PROVE AtomicOnce(b)'
    <3>1. AtomicOnce(b)
      BY <1>1, <2>10 DEF EffectsInv
    <3>2. QED
      BY <1>1, <2>3, <2>5, <2>6, <2>10, <3>1 DEF AtomicOnce
  <2>11. ASSUME NEW b \in Actions, Kind[b] = "read" PROVE effects'[b] = 0
    BY <1>1, <2>6, <2>11 DEF EffectsInv
  <2>12. ASSUME NEW b \in Actions, Kind[b] \in {"noting", "keyed"} PROVE EffectFirst(b)'
    <3>1. EffectFirst(b) /\ effects'[b] = effects[b]
      BY <1>1, <2>6, <2>12 DEF EffectsInv
    <3>2. exec'[b].status = "ABSENT" => exec[b].status = "ABSENT"
      BY <2>5
    <3>3. exec'[b].status = "SUCCEEDED" => effects[b] > 0
      BY <1>1, <2>5, <3>1 DEF EffectFirst
    <3>4. QED
      BY <2>8, <3>1, <3>2, <3>3 DEF EffectFirst
  <2>13. QED
    BY <2>7, <2>9, <2>10, <2>11, <2>12 DEF LedgerInv, EffectsInv
<1>5. QED
  BY <1>3, <1>4

-----------------------------------------------------------------------------
(* The user, the operator and the clock *)

LEMMA CancelInv ==
    ASSUME LedgerInv, BeginCancel \/ EndCancel
    PROVE  LedgerInv'
<1>1. run \in RunRow /\ cancelling \in Nat /\ run.version \in Nat
  BY DEF LedgerInv, LedgerType, TypeOK, RunRow
<1>2. CASE BeginCancel
  BY <1>1, <1>2, QuietRun DEF BeginCancel
<1>3. CASE EndCancel
  <2>1. Ended(run, "CANCELLED") \in RunRow
    BY <1>1, RunFacts DEF Terminal
  <2>2. QED
    BY <1>1, <1>3, <2>1, QuietRun DEF EndCancel
<1>4. QED
  BY <1>2, <1>3

\* The operator's receipt says what happened; a mutation is never UNKNOWN_OUTCOME with
\* its effect done.
LEMMA ReconcileInv ==
    ASSUME LedgerInv, NEW a \in Actions, Reconcile(a)
    PROVE  LedgerInv'
<1> DEFINE ok == effects[a] > 0
<1>1. /\ LedgerType /\ EffectsInv /\ exec[a] \in Execution /\ effects[a] \in Nat
      /\ exec[a].status = "UNKNOWN_OUTCOME"
  BY DEF LedgerInv, LedgerType, TypeOK, Reconcile, Unresolved
<1>2. exec' = [exec EXCEPT ![a] = WithReceipt(exec[a], ok)]
  BY DEF Reconcile
<1>3. UNCHANGED <<run, tickets, effects, at, cancelling>>
  BY DEF Reconcile
<1>4. /\ WithReceipt(exec[a], ok) \in Execution
      /\ WithReceipt(exec[a], ok).status = IF ok THEN "SUCCEEDED" ELSE "FAILED"
  BY <1>1 DEF WithReceipt, Execution, ExecStatus
<1>5. /\ exec' \in [Actions -> Execution]
      /\ exec'[a].status = IF ok THEN "SUCCEEDED" ELSE "FAILED"
      /\ \A b \in Actions : b # a => exec'[b] = exec[b]
  BY <1>1, <1>2, <1>4 DEF LedgerType, TypeOK
<1>6. LedgerType'
  BY <1>1, <1>3, <1>5 DEF LedgerType, TypeOK
<1>7. \A v \in Workers, b \in Actions : Busy(v, b)' <=> Busy(v, b)
  BY <1>3 DEF Busy
<1>8. ASSUME NEW b \in Actions, Kind[b] = "external" PROVE ExternalOnce(b)'
  <2>1. ExternalOnce(b)
    BY <1>1, <1>8 DEF EffectsInv
  <2>2. exec'[b].status = "ABSENT" => exec[b].status = "ABSENT"
    BY <1>5
  <2>3. exec'[b].status = "SUCCEEDED" => effects[b] = 1
    BY <1>1, <1>5, <2>1 DEF ExternalOnce
  <2>4. QED
    BY <1>3, <1>7, <2>1, <2>2, <2>3 DEF ExternalOnce
<1>9. ASSUME NEW b \in Actions, Kind[b] = "atomic" PROVE AtomicOnce(b)'
  <2>1. AtomicOnce(b)
    BY <1>1, <1>9 DEF EffectsInv
  <2>2. QED
    BY <1>1, <1>3, <1>5, <2>1 DEF AtomicOnce
<1>10. ASSUME NEW b \in Actions, Kind[b] \in {"noting", "keyed"} PROVE EffectFirst(b)'
  <2>1. EffectFirst(b)
    BY <1>1, <1>10 DEF EffectsInv
  <2>2. exec'[b].status = "ABSENT" => exec[b].status = "ABSENT"
    BY <1>5
  <2>3. exec'[b].status = "SUCCEEDED" => effects[b] > 0
    BY <1>5, <2>1 DEF EffectFirst
  <2>4. QED
    BY <1>3, <1>7, <2>1, <2>2, <2>3 DEF EffectFirst
<1>11. QED
  BY <1>1, <1>3, <1>6, <1>8, <1>9, <1>10 DEF LedgerInv, EffectsInv

\* Time shortens leases and changes no status.
LEMMA TickInv ==
    ASSUME LedgerInv, Tick
    PROVE  LedgerInv'
<1>1. LedgerType /\ EffectsInv /\ run \in RunRow /\ exec \in [Actions -> Execution]
  BY DEF LedgerInv, LedgerType, TypeOK
<1>2. UNCHANGED <<tickets, effects, at, cancelling>>
  BY DEF Tick
<1>3. run' \in RunRow
  BY <1>1, RunFacts DEF Tick
<1> DEFINE older(a) == [exec[a] EXCEPT !.lease = IF exec[a].status = "IN_PROGRESS" /\ @ > 0
                                                 THEN @ - 1 ELSE @]
<1>4. exec' = [a \in Actions |-> older(a)]
  BY DEF Tick
<1>5. \A a \in Actions : older(a) \in Execution /\ older(a).status = exec[a].status
  BY <1>1 DEF Execution
<1> HIDE DEF older
<1>6. exec' \in [Actions -> Execution] /\ \A a \in Actions : exec'[a].status = exec[a].status
  BY <1>4, <1>5
<1>7. LedgerType'
  BY <1>1, <1>2, <1>3, <1>6 DEF LedgerType, TypeOK
<1>8. \A v \in Workers, b \in Actions : Busy(v, b)' <=> Busy(v, b)
  BY <1>2 DEF Busy
<1>9. ASSUME NEW b \in Actions, Kind[b] = "external" PROVE ExternalOnce(b)'
  BY <1>1, <1>2, <1>6, <1>8, <1>9 DEF EffectsInv, ExternalOnce
<1>10. ASSUME NEW b \in Actions, Kind[b] \in {"noting", "keyed"} PROVE EffectFirst(b)'
  BY <1>1, <1>2, <1>6, <1>8, <1>10 DEF EffectsInv, EffectFirst
<1>11. QED
  BY <1>1, <1>2, <1>6, <1>7, <1>9, <1>10 DEF LedgerInv, EffectsInv, AtomicOnce

-----------------------------------------------------------------------------
(* The theorems *)

LEMMA LedgerInit == Init => LedgerInv
<1> SUFFICES ASSUME Init PROVE LedgerInv
  OBVIOUS
<1>1. NewRun \in RunRow
  <2>1. NoRun \in RunRow
    BY DEF NoRun, RunRow, RunStatus
  <2>2. QED
    BY <2>1 DEF NewRun, RunRow, RunStatus
<1>2. [status |-> "ABSENT", ticket |-> 0, lease |-> 0] \in Execution
  BY DEF Execution, ExecStatus
<1>3. TypeOK
  BY <1>1, <1>2, OutFacts DEF Init, TypeOK
<1>4. /\ \A w \in Workers : at[w].pc = "out"
      /\ \A a \in Actions : exec[a].status = "ABSENT" /\ effects[a] = 0
  BY OutFacts DEF Init
<1>5. LedgerType
  BY <1>3, <1>4 DEF LedgerType, InCall, Acquired
<1>6. EffectsInv
  BY <1>4 DEF EffectsInv, ExternalOnce, AtomicOnce, EffectFirst, Busy, Acquired
<1>7. QED
  BY <1>5, <1>6 DEF LedgerInv

LEMMA LedgerNext == LedgerInv /\ [Next]_vars => LedgerInv'
<1> SUFFICES ASSUME LedgerInv, [Next]_vars PROVE LedgerInv'
  OBVIOUS
<1>1. CASE \E w \in Workers : ToolStep(w)
  <2>1. PICK w \in Workers : ToolStep(w)
    BY <1>1
  <2>2. CASE BreakOff(w)
    BY <2>2, QuietLeaving DEF BreakOff, Raises
  <2>3. QED
    BY <2>1, <2>2, BeginClaimInv, ClaimToolInv, ActInv, LookInv, NoteInv,
       LookUpKeyInv, ChangeInv, BeginSaveInv, SaveInv
       DEF ToolStep
<1>2. CASE \E w \in Workers : RunStep(w)
  BY <1>2, RunStepInv
<1>3. CASE BeginCancel \/ EndCancel
  BY <1>3, CancelInv
<1>4. CASE \E a \in Actions : Reconcile(a)
  BY <1>4, ReconcileInv
<1>5. CASE Tick
  BY <1>5, TickInv
<1>6. CASE UNCHANGED vars
  BY <1>6, QuietRun DEF vars, LedgerInv, LedgerType, TypeOK
<1>7. QED
  BY <1>1, <1>2, <1>3, <1>4, <1>5, <1>6 DEF Next

LEMMA LedgerAlways == Spec => []LedgerInv
  BY LedgerInit, LedgerNext, PTL DEF Spec

\* The rows that claim_tool_execution, complete, reconcile_unknown and the run's own
\* statements write are rows of their tables, whatever the order.
THEOREM ToolLedgerTypeCorrect == Spec => []TypeOK
<1>1. LedgerInv => TypeOK
  BY DEF LedgerInv, LedgerType
<1>2. QED
  BY <1>1, LedgerAlways, PTL

\* However many workers claim, crash, time out and take over, the effect of a mutation
\* (complete_mutation_tool, update_thing) or of an external call happens at most once.
THEOREM EffectsAtMostOnce == Spec => []AtMostOnce
<1>1. LedgerInv => AtMostOnce
  <2> SUFFICES ASSUME LedgerInv, NEW a \in Actions, Kind[a] # "noting" PROVE effects[a] <= 1
    BY DEF AtMostOnce
  <2>1. Kind[a] \in {"read", "atomic", "keyed", "external"}
    BY ToolLedgerAssumption DEF Kinds
  <2>2. QED
    BY <2>1 DEF LedgerInv, EffectsInv, ExternalOnce, AtomicOnce, EffectFirst
<1>2. QED
  BY <1>1, LedgerAlways, PTL

\* A SUCCEEDED receipt, from complete, from complete_mutation_tool or from the
\* operator's reconcile_unknown, stands for an effect that has happened, and a mutation
\* that commits with its receipt has not happened without it.
THEOREM ReceiptsAreTrue == Spec => []ReceiptIsTrue
<1>1. LedgerInv => ReceiptIsTrue
  <2> SUFFICES ASSUME LedgerInv, NEW a \in Actions
               PROVE  /\ Kind[a] # "read" /\ exec[a].status = "SUCCEEDED" => effects[a] > 0
                      /\ Kind[a] = "atomic" /\ effects[a] > 0 => exec[a].status = "SUCCEEDED"
                      /\ exec[a].status = "ABSENT" => effects[a] = 0
    BY DEF ReceiptIsTrue
  <2>1. Kind[a] \in {"read", "noting", "atomic", "keyed", "external"}
    BY ToolLedgerAssumption DEF Kinds
  <2>2. QED
    BY <2>1 DEF LedgerInv, EffectsInv, ExternalOnce, AtomicOnce, EffectFirst
<1>2. QED
  BY <1>1, LedgerAlways, PTL

-----------------------------------------------------------------------------
(* The Executive Graph: an action id stands for one call, a sensitive call   *)
(* was confirmed, and the budgets bound every invocation and, as long as no   *)
(* live worker is taken over, the run.                                        *)

\* The parts of the invariant that speak of a copy of the state are operators of what
\* they speak of: s a checkpoint, m an invocation, M all of them, C the confirmations,
\* f whether a search returned the URL, D the ids in the ledger, k the invocations so far.

\* A call that may run: it is harmless, or confirmed, or has its evidence.
Cleared(a, C, f) ==
    \/ Risk(a.call.tool) \in {"READ", "REVERSIBLE_WRITE"}
    \/ \E c \in C : c.id = a.id /\ c.call = a.call
    \/ a.call.confirmed /\ (a.call.source \/ (a.call.cites /\ f))

Executes(s) == s.node \in {"execute", "parallel_execute"}

\* What the node of a checkpoint says of the rest of it.
CheckpointOK(s, C, f) ==
    /\ s \in Graph!Checkpoint
    /\ s.node = "policy" => Len(s.decision) = 1
    /\ s.node \in {"confirmation", "execute"} => Len(s.pending) = 1
    /\ Executes(s) => \A i \in DOMAIN s.pending : Cleared(s.pending[i], C, f)
    /\ s.urls => f
    /\ s.decisions <= MaxDecisions /\ s.calls <= MaxToolCalls

\* Calls are under way at an executing node within its budget only, and those that have
\* started are in the ledger.
InvocationOK(m, C, f, D, k) ==
    /\ m \in Graph!Invocation /\ DOMAIN m.got = DOMAIN m.st.pending
    /\ CheckpointOK(m.st, C, f)
    /\ \A i \in DOMAIN m.got : m.got[i] # "untried" =>
          Executes(m.st) /\ m.st.calls + Len(m.st.pending) <= MaxToolCalls
    /\ \A i \in DOMAIN m.got : m.got[i] \in {"running", "saving", "result"} =>
          m.st.pending[i].id \in D
    /\ m.alive => m.n \in 1..k
    /\ ~m.alive => m = Graph!Idle

Invocations(M, C, f, D, k) ==
    /\ M \in [AgentWorkers -> Graph!Invocation]
    /\ \A w \in AgentWorkers : InvocationOK(M[w], C, f, D, k)
    /\ \A v, w \in AgentWorkers : M[v].alive /\ M[w].alive /\ v # w => M[v].n # M[w].n

\* The rest of the state has its types, and the histories stay finite.
HistoryOK ==
    /\ asking \in BOOLEAN /\ runRow \in Graph!Run /\ found \in BOOLEAN
    /\ lost \in Nat /\ invocations \in Nat /\ crashes \in Nat /\ overlaps \in Nat
    /\ DOMAIN ledger \subseteq Graph!ActionIds
    /\ \A id \in DOMAIN ledger : ledger[id] \in Graph!Execution
    /\ executed \subseteq [id: Graph!ActionIds, call: Calls, by: Nat]
    /\ confirmed \subseteq [id: Graph!ActionIds, call: Calls, by: Nat, asked: BOOLEAN]
    /\ IsFiniteSet(executed) /\ IsFiniteSet(confirmed)
    /\ \A e \in executed : e.by \in 1..invocations
    /\ \A c \in confirmed : c.by \in 1..invocations

\* Every call that was started is in the ledger, under its own arguments.
LedgerOK ==
    /\ \A e \in executed : /\ e.id \in DOMAIN ledger /\ ledger[e.id].call = e.call
                           /\ Cleared(e, confirmed, found)
    /\ \A id \in DOMAIN ledger : ledger[id].url => found

\* The calls of an invocation's node that have come to their handler, and the handlers
\* that ran for invocation n: its checkpoint counts them, or will when the node ends.
Tried(m) == {i \in DOMAIN m.got : m.got[i] \notin {"untried", "claiming"}}
By(E, n) == {e \in E : e.by = n}

HandlersOK(M, E) ==
    /\ \A n \in Nat : Cardinality(By(E, n)) <= MaxToolCalls
    /\ \A w \in AgentWorkers : M[w].alive =>
          Cardinality(By(E, M[w].n)) <= M[w].st.calls + Cardinality(Tried(M[w]))

\* An invocation confirms once, with the answer it was given.
ConfirmsOK(M, C) ==
    /\ \A c, d \in C : c.by = d.by => c = d
    /\ \A w \in AgentWorkers : M[w].alive /\ M[w].given # Graph!NoAnswer =>
          \A c \in C : c.by # M[w].n

Strays == {c \in confirmed : ~c.asked}

\* An invocation m that holds the run alone has the newest checkpoint; its answer is
\* the one to the pending question or, once for each crash, a stray.
HolderOK(m) ==
    /\ m.newest /\ m.st = g
    /\ Cardinality(executed) <= g.calls + Cardinality(Tried(m)) + lost
    /\ asking => m.given # Graph!NoAnswer /\ m.given.to = Graph!Question(g)
    /\ ~asking /\ m.given # Graph!NoAnswer => Cardinality(Strays) < crashes

\* As long as no live worker was taken over: who is alive holds the run, and whoever
\* comes next finds every handler counted, the question of the pending interrupt, and
\* no answer left over but after a crash.
AloneOK ==
    /\ \A w \in AgentWorkers : mem[w].alive =>
          runRow.holder = {w} /\ runRow.status = "open" /\ HolderOK(mem[w])
    /\ (\A w \in AgentWorkers : ~mem[w].alive) =>
          /\ runRow.status # "over" => Cardinality(executed) <= g.calls + lost
          /\ runRow.status = "open" /\ ~asking /\ runRow.payload # Graph!NoAnswer =>
                Cardinality(Strays) < crashes
    /\ runRow.status = "waiting" => asking /\ runRow.question = Graph!Question(g)
    /\ runRow.status = "answered" =>
          asking /\ runRow.payload # Graph!NoAnswer /\ runRow.payload.to = Graph!Question(g)
    /\ Cardinality(executed) <= MaxToolCalls + lost
    /\ Cardinality(Strays) <= crashes

GraphInv ==
    /\ HistoryOK
    /\ CheckpointOK(g, confirmed, found)
    /\ Invocations(mem, confirmed, found, DOMAIN ledger, invocations)
    /\ LedgerOK
    /\ HandlersOK(mem, executed)
    /\ ConfirmsOK(mem, confirmed)
    /\ overlaps = 0 => AloneOK

\* The graph's module sees the same operators as this one.
LEMMA SameOperators ==
    /\ \A tool : Graph!Risk(tool) = Risk(tool)
    /\ \A S : Graph!Cardinality(S) = Cardinality(S)
<1>1. \A tool : Graph!Risk(tool) = Risk(tool)
  BY DEF Graph!Risk, Risk
<1>2. \A S : Graph!Cardinality(S) = Cardinality(S)
  BY DEF Graph!Cardinality, Cardinality
<1> QED BY <1>1, <1>2

\* What the types say of a checkpoint.
LEMMA CheckpointFacts ==
    ASSUME NEW s \in Graph!Checkpoint
    PROVE  /\ DOMAIN s.pending = 1..Len(s.pending) /\ Len(s.pending) \in Nat
           /\ \A i \in DOMAIN s.pending : s.pending[i] \in Graph!Step
           /\ s.decision \in Seq(Calls)
           /\ s.results \in Nat /\ s.searches \in Nat /\ s.calls \in Nat /\ s.decisions \in Nat
           /\ s.urls \in BOOLEAN /\ s.prefetched \in BOOLEAN /\ s.node \in Graph!Nodes
           /\ s.pending \in Seq(Graph!Step)
<1>1. /\ s.pending \in Seq(Graph!Step) /\ s.decision \in Seq(Calls)
      /\ s.results \in Nat /\ s.searches \in Nat /\ s.calls \in Nat /\ s.decisions \in Nat
      /\ s.urls \in BOOLEAN /\ s.prefetched \in BOOLEAN /\ s.node \in Graph!Nodes
  BY DEF Graph!Checkpoint
<1> QED BY <1>1

\* The calls under way are no more than the node's.
LEMMA TriedFacts ==
    ASSUME NEW m \in Graph!Invocation, DOMAIN m.got = DOMAIN m.st.pending
    PROVE  /\ IsFiniteSet(Tried(m)) /\ Cardinality(Tried(m)) \in Nat
           /\ Cardinality(Tried(m)) <= Len(m.st.pending)
           /\ Tried(m) = {} => Cardinality(Tried(m)) = 0
<1>1. m.st \in Graph!Checkpoint
  BY DEF Graph!Invocation
<1>2. DOMAIN m.st.pending = 1..Len(m.st.pending) /\ Len(m.st.pending) \in Nat
  BY <1>1, CheckpointFacts
<1>3. IsFiniteSet(1..Len(m.st.pending)) /\ Cardinality(1..Len(m.st.pending)) = Len(m.st.pending)
  BY <1>2, FS_Interval
<1>4. Tried(m) \in SUBSET (1..Len(m.st.pending))
  BY <1>2 DEF Tried
<1> QED BY <1>3, <1>4, FS_Subset, FS_CardinalityType, FS_EmptySet

\* An invocation that begins, or goes on with its next node, has started no call.
Fresh(m, n, s, given) ==
    /\ m \in Graph!Invocation
    /\ m.alive = TRUE /\ m.n = n /\ m.st = s /\ m.newest = TRUE /\ m.given = given
    /\ DOMAIN m.got = DOMAIN s.pending
    /\ \A i \in DOMAIN m.got : m.got[i] = "untried"
    /\ Tried(m) = {} /\ Cardinality(Tried(m)) = 0

LEMMA RunningFacts ==
    ASSUME NEW n \in Nat, NEW s \in Graph!Checkpoint, NEW given \in Graph!Answer
    PROVE  Fresh(Graph!Running(n, s, given), n, s, given)
<1> DEFINE got == [i \in DOMAIN s.pending |-> "untried"]
           m == Graph!Running(n, s, given)
<1>1. got \in Seq(Graph!Progress)
  <2>1. DOMAIN s.pending = 1..Len(s.pending) /\ Len(s.pending) \in Nat
    BY CheckpointFacts
  <2>2. [i \in 1..Len(s.pending) |-> "untried"] \in Seq(Graph!Progress)
    BY <2>1 DEF Graph!Progress
  <2> QED BY <2>1, <2>2
<1>2. m = [alive |-> TRUE, n |-> n, st |-> s, newest |-> TRUE, given |-> given, got |-> got]
  BY DEF Graph!Running
<1>3. DOMAIN got = DOMAIN s.pending /\ \A i \in DOMAIN got : got[i] = "untried"
  OBVIOUS
<1> HIDE DEF got, m
<1>4. m \in Graph!Invocation
  BY <1>1, <1>2 DEF Graph!Invocation
<1>5. Tried(m) = {}
  BY <1>2, <1>3 DEF Tried
<1>6. /\ m.alive = TRUE /\ m.n = n /\ m.st = s /\ m.newest = TRUE /\ m.given = given
      /\ m.got = got
  BY <1>2
<1>7. DOMAIN m.got = DOMAIN s.pending /\ \A i \in DOMAIN m.got : m.got[i] = "untried"
  BY <1>3, <1>6
<1>8. Cardinality(Tried(m)) = 0
  BY <1>5, FS_EmptySet
<1>9. Fresh(m, n, s, given)
  BY <1>4, <1>5, <1>6, <1>7, <1>8 DEF Fresh
<1> QED BY <1>9 DEF m

LEMMA IdleFacts ==
    /\ Graph!Idle \in Graph!Invocation /\ ~Graph!Idle.alive /\ ~Graph!Idle.newest
    /\ Graph!Idle.st = Graph!Blank /\ Graph!Idle.got = <<>> /\ DOMAIN Graph!Idle.got = {}
    /\ [Graph!Idle EXCEPT !.newest = FALSE] = Graph!Idle
    /\ Graph!Blank \in Graph!Checkpoint /\ DOMAIN Graph!Blank.pending = {}
    /\ Graph!NoAnswer \in Graph!Answer
    /\ \A C : \A f \in BOOLEAN : CheckpointOK(Graph!Blank, C, f)
    /\ \A C, D, k : \A f \in BOOLEAN : InvocationOK(Graph!Idle, C, f, D, k)
<1>1. /\ Graph!Blank \in Graph!Checkpoint /\ DOMAIN Graph!Blank.pending = {}
      /\ Graph!Blank.node = "start" /\ ~Graph!Blank.urls
      /\ Graph!Blank.decisions = 0 /\ Graph!Blank.calls = 0
  BY DEF Graph!Blank, Graph!Checkpoint, Graph!Nodes
<1>2. Graph!NoAnswer \in Graph!Answer
  BY DEF Graph!NoAnswer, Graph!Answer
<1>3. /\ ~Graph!Idle.alive /\ ~Graph!Idle.newest
      /\ Graph!Idle.st = Graph!Blank /\ Graph!Idle.got = <<>> /\ DOMAIN Graph!Idle.got = {}
      /\ [Graph!Idle EXCEPT !.newest = FALSE] = Graph!Idle
  <2>1. Graph!Idle = [alive |-> FALSE, n |-> 0, st |-> Graph!Blank, newest |-> FALSE,
                      given |-> Graph!NoAnswer, got |-> <<>>]
    BY DEF Graph!Idle
  <2>2. DOMAIN <<>> = {}
    OBVIOUS
  <2>3. [Graph!Idle EXCEPT !.newest = FALSE] = Graph!Idle
    <3> DEFINE idle == Graph!Idle
    <3>1. DOMAIN idle = {"alive", "n", "st", "newest", "given", "got"}
      BY <2>1
    <3>2. idle = [x \in DOMAIN idle |-> idle[x]] /\ idle["newest"] = FALSE
      BY <2>1
    <3> HIDE DEF idle
    <3>3. [idle EXCEPT !.newest = FALSE] = [x \in DOMAIN idle |-> idle[x]]
      BY <3>1, <3>2
    <3> QED BY <3>2, <3>3 DEF idle
  <2>4. /\ Graph!Idle.alive = FALSE /\ Graph!Idle.newest = FALSE
        /\ Graph!Idle.st = Graph!Blank /\ Graph!Idle.got = <<>>
    BY <2>1
  <2> QED BY <2>2, <2>3, <2>4
<1>4. Graph!Idle \in Graph!Invocation
  <2>1. <<>> \in Seq(Graph!Progress)
    OBVIOUS
  <2> QED BY <1>1, <1>2, <2>1 DEF Graph!Idle, Graph!Invocation
<1>5. ASSUME NEW C, NEW f \in BOOLEAN PROVE CheckpointOK(Graph!Blank, C, f)
  <2>1. MaxDecisions \in Nat /\ MaxToolCalls \in Nat
    BY CallsAssumption
  <2> QED BY <1>1, <2>1 DEF CheckpointOK, Executes
<1>6. ASSUME NEW C, NEW D, NEW k, NEW f \in BOOLEAN PROVE InvocationOK(Graph!Idle, C, f, D, k)
  BY <1>1, <1>3, <1>4, <1>5 DEF InvocationOK
<1> QED BY <1>1, <1>2, <1>3, <1>4, <1>5, <1>6

\* What holds of an invocation keeps holding as the histories grow, and when it is not
\* the newest any more.
LEMMA InvocationGrows ==
    ASSUME NEW C, NEW C2, C \subseteq C2, NEW f \in BOOLEAN, NEW f2 \in BOOLEAN, f => f2,
           NEW D, NEW D2, D \subseteq D2, NEW k \in Nat, NEW k2 \in Nat, k <= k2,
           NEW m, InvocationOK(m, C, f, D, k)
    PROVE  /\ CheckpointOK(m.st, C2, f2)
           /\ InvocationOK(m, C2, f2, D2, k2)
           /\ InvocationOK([m EXCEPT !.newest = FALSE], C2, f2, D2, k2)
<1>1. CheckpointOK(m.st, C2, f2)
  BY DEF InvocationOK, CheckpointOK, Cleared
<1>2. InvocationOK(m, C2, f2, D2, k2)
  <2>1. m.alive => m.n \in 1..k2
    BY DEF InvocationOK
  <2> QED BY <1>1, <2>1 DEF InvocationOK
<1>3. InvocationOK([m EXCEPT !.newest = FALSE], C2, f2, D2, k2)
  <2> DEFINE late == [m EXCEPT !.newest = FALSE]
  <2>1. /\ late \in Graph!Invocation /\ late.got = m.got /\ late.st = m.st /\ late.alive = m.alive
        /\ late.n = m.n
    BY DEF InvocationOK, Graph!Invocation
  <2>2. ~m.alive => late = Graph!Idle
    BY IdleFacts DEF InvocationOK
  <2> HIDE DEF late
  <2>3. InvocationOK(late, C2, f2, D2, k2)
    BY <1>2, <2>1, <2>2 DEF InvocationOK
  <2> QED BY <2>3 DEF late
<1> QED BY <1>1, <1>2, <1>3

LEMMA CheckpointGrows ==
    ASSUME NEW C, NEW C2, C \subseteq C2, NEW f \in BOOLEAN, NEW f2 \in BOOLEAN, f => f2,
           NEW s, CheckpointOK(s, C, f)
    PROVE  CheckpointOK(s, C2, f2)
BY DEF CheckpointOK, Cleared

\* Only worker w's invocation changes; the others' checkpoints may stop to be the newest.
Moves(w) ==
    /\ mem' = [v \in AgentWorkers |-> mem'[v]]
    /\ \A v \in AgentWorkers \ {w} :
          mem'[v] = mem[v] \/ mem'[v] = [mem[v] EXCEPT !.newest = FALSE]

\* Its invocation goes on, or is a new one, or has ended.
Goes(w) == mem'[w].alive => \/ mem[w].alive /\ mem'[w].n = mem[w].n
                            \/ mem'[w].n = invocations + 1

\* The histories may only grow.
Grows ==
    /\ confirmed \subseteq confirmed' /\ (found => found')
    /\ DOMAIN ledger \subseteq DOMAIN ledger' /\ invocations <= invocations'

LEMMA MemFacts ==
    ASSUME GraphInv, NEW w \in AgentWorkers
    PROVE  /\ mem[w] \in Graph!Invocation /\ mem[w].st \in Graph!Checkpoint
           /\ DOMAIN mem[w].got = DOMAIN mem[w].st.pending
           /\ CheckpointOK(mem[w].st, confirmed, found)
           /\ InvocationOK(mem[w], confirmed, found, DOMAIN ledger, invocations)
           /\ mem[w].alive \in BOOLEAN /\ mem[w].given \in Graph!Answer /\ mem[w].n \in Nat
           /\ mem[w].newest \in BOOLEAN
           /\ mem[w].alive => mem[w].n \in 1..invocations
           /\ ~mem[w].alive => mem[w] = Graph!Idle
           /\ mem[w].got \in Seq(Graph!Progress)
           /\ mem = [v \in AgentWorkers |-> mem[v]]
           /\ IsFiniteSet(Tried(mem[w])) /\ Cardinality(Tried(mem[w])) \in Nat
           /\ Cardinality(Tried(mem[w])) <= Len(mem[w].st.pending)
           /\ Tried(mem[w]) = {} => Cardinality(Tried(mem[w])) = 0
           /\ mem[w].st.calls \in Nat
<1>1. /\ InvocationOK(mem[w], confirmed, found, DOMAIN ledger, invocations)
      /\ mem = [v \in AgentWorkers |-> mem[v]]
  BY DEF GraphInv, Invocations
<1>2. /\ mem[w] \in Graph!Invocation /\ DOMAIN mem[w].got = DOMAIN mem[w].st.pending
      /\ CheckpointOK(mem[w].st, confirmed, found)
      /\ mem[w].alive => mem[w].n \in 1..invocations
      /\ ~mem[w].alive => mem[w] = Graph!Idle
  BY <1>1 DEF InvocationOK
<1>3. /\ mem[w].st \in Graph!Checkpoint /\ mem[w].alive \in BOOLEAN
      /\ mem[w].given \in Graph!Answer /\ mem[w].n \in Nat /\ mem[w].newest \in BOOLEAN
      /\ mem[w].got \in Seq(Graph!Progress)
  BY <1>2 DEF Graph!Invocation
<1>4. mem[w].st.calls \in Nat
  BY <1>3, CheckpointFacts
<1> QED BY <1>1, <1>2, <1>3, <1>4, TriedFacts

\* Another worker's invocation stays what it is.
LEMMA OthersStay ==
    ASSUME GraphInv, NEW w \in AgentWorkers, Moves(w), NEW v \in AgentWorkers, v # w
    PROVE  /\ mem'[v].alive = mem[v].alive /\ mem'[v].n = mem[v].n /\ mem'[v].st = mem[v].st
           /\ mem'[v].given = mem[v].given /\ mem'[v].got = mem[v].got
           /\ Tried(mem'[v]) = Tried(mem[v])
<1>1. mem'[v] = mem[v] \/ mem'[v] = [mem[v] EXCEPT !.newest = FALSE]
  BY DEF Moves
<1>2. mem[v] \in Graph!Invocation
  BY MemFacts
<1>3. /\ mem'[v].alive = mem[v].alive /\ mem'[v].n = mem[v].n /\ mem'[v].st = mem[v].st
      /\ mem'[v].given = mem[v].given /\ mem'[v].got = mem[v].got
  BY <1>1, <1>2 DEF Graph!Invocation
<1> QED BY <1>3 DEF Tried

LEMMA InvocationsStep ==
    ASSUME GraphInv, NEW w \in AgentWorkers, Moves(w), Goes(w), Grows,
           found' \in BOOLEAN, invocations' \in Nat,
           InvocationOK(mem'[w], confirmed', found', DOMAIN ledger', invocations')
    PROVE  Invocations(mem', confirmed', found', DOMAIN ledger', invocations')
<1>1. found \in BOOLEAN /\ invocations \in Nat
  BY DEF GraphInv, HistoryOK
<1>2. ASSUME NEW v \in AgentWorkers, v # w
      PROVE  InvocationOK(mem'[v], confirmed', found', DOMAIN ledger', invocations')
  <2>1. mem'[v] = mem[v] \/ mem'[v] = [mem[v] EXCEPT !.newest = FALSE]
    BY <1>2 DEF Moves
  <2>2. InvocationOK(mem[v], confirmed, found, DOMAIN ledger, invocations)
    BY MemFacts
  <2>3. /\ InvocationOK(mem[v], confirmed', found', DOMAIN ledger', invocations')
        /\ InvocationOK([mem[v] EXCEPT !.newest = FALSE], confirmed', found', DOMAIN ledger',
                        invocations')
    BY <1>1, <2>2, InvocationGrows DEF Grows
  <2> QED BY <2>1, <2>3
<1>3. \A v \in AgentWorkers :
         InvocationOK(mem'[v], confirmed', found', DOMAIN ledger', invocations')
  BY <1>2
<1>4. mem' \in [AgentWorkers -> Graph!Invocation]
  <2>1. \A v \in AgentWorkers : mem'[v] \in Graph!Invocation
    BY <1>3 DEF InvocationOK
  <2> QED BY <2>1 DEF Moves
<1>5. ASSUME NEW u \in AgentWorkers, NEW v \in AgentWorkers, mem'[u].alive, mem'[v].alive, u # v
      PROVE  mem'[u].n # mem'[v].n
  <2>1. CASE u # w /\ v # w
    BY <1>5, <2>1, OthersStay DEF GraphInv, Invocations
  <2>2. ASSUME NEW x \in AgentWorkers, x # w, mem'[x].alive, mem'[w].alive
        PROVE  mem'[x].n # mem'[w].n
    <3>1. mem'[x].n = mem[x].n /\ mem[x].alive
      BY <2>2, OthersStay
    <3>2. mem[x].n \in 1..invocations
      BY <3>1, MemFacts
    <3>3. CASE mem[w].alive /\ mem'[w].n = mem[w].n
      BY <2>2, <3>1, <3>3 DEF GraphInv, Invocations
    <3>4. CASE mem'[w].n = invocations + 1
      BY <1>1, <3>1, <3>2, <3>4
    <3> QED BY <2>2, <3>3, <3>4 DEF Goes
  <2> QED BY <1>5, <2>1, <2>2
<1> QED BY <1>3, <1>4, <1>5 DEF Invocations

\* No handler runs; those of an invocation stay counted.
LEMMA HandlersStep ==
    ASSUME GraphInv, NEW w \in AgentWorkers, Moves(w), executed' = executed,
           mem'[w] \in Graph!Invocation, DOMAIN mem'[w].got = DOMAIN mem'[w].st.pending,
           mem'[w].alive =>
              \/ /\ mem[w].alive /\ mem'[w].n = mem[w].n
                 /\ mem[w].st.calls + Cardinality(Tried(mem[w])) <=
                       mem'[w].st.calls + Cardinality(Tried(mem'[w]))
              \/ mem'[w].n = invocations + 1
    PROVE  HandlersOK(mem', executed')
<1>1. \A n \in Nat : Cardinality(By(executed', n)) <= MaxToolCalls
  BY DEF GraphInv, HandlersOK
<1>2. ASSUME NEW v \in AgentWorkers, mem'[v].alive
      PROVE  Cardinality(By(executed', mem'[v].n)) <=
                mem'[v].st.calls + Cardinality(Tried(mem'[v]))
  <2>1. CASE v # w
    BY <1>2, <2>1, OthersStay DEF GraphInv, HandlersOK
  <2>2. CASE v = w
    <3> DEFINE before == mem[w].st.calls + Cardinality(Tried(mem[w]))
               after == mem'[w].st.calls + Cardinality(Tried(mem'[w]))
               ran == Cardinality(By(executed, mem'[w].n))
    <3>1. after \in Nat
      <4>1. mem'[w].st \in Graph!Checkpoint
        BY DEF Graph!Invocation
      <4>2. mem'[w].st.calls \in Nat
        BY <4>1, CheckpointFacts
      <4>3. Cardinality(Tried(mem'[w])) \in Nat
        BY TriedFacts
      <4> QED BY <4>2, <4>3
    <3>2. CASE mem[w].alive /\ mem'[w].n = mem[w].n /\ before <= after
      <4>1. before \in Nat
        BY MemFacts
      <4>2. ran <= before
        BY <3>2 DEF GraphInv, HandlersOK
      <4>3. IsFiniteSet(By(executed, mem'[w].n))
        BY FS_Subset DEF GraphInv, HistoryOK, By
      <4>4. ran \in Nat
        BY <4>3, FS_CardinalityType
      <4> HIDE DEF before, after, ran
      <4>5. ran <= after
        BY <3>1, <3>2, <4>1, <4>2, <4>4
      <4> QED BY <2>2, <4>5 DEF ran, after
    <3>3. CASE mem'[w].n = invocations + 1
      <4>1. \A e \in executed : e.by \in 1..invocations /\ invocations \in Nat
        BY DEF GraphInv, HistoryOK
      <4>2. \A e \in executed : e.by # invocations + 1
        BY <4>1
      <4>3. By(executed, invocations + 1) = {}
        BY <4>2 DEF By
      <4>4. ran = 0
        BY <3>3, <4>3, FS_EmptySet
      <4> QED BY <2>2, <3>1, <4>4
    <3> QED BY <1>2, <2>2, <3>2, <3>3
  <2> QED BY <2>1, <2>2
<1> QED BY <1>1, <1>2 DEF HandlersOK

\* Nothing is confirmed; a resume value is that of the same invocation or of a new one.
LEMMA ConfirmsStep ==
    ASSUME GraphInv, NEW w \in AgentWorkers, Moves(w), confirmed' = confirmed,
           mem'[w].alive /\ mem'[w].given # Graph!NoAnswer =>
              \/ mem[w].alive /\ mem'[w].n = mem[w].n /\ mem[w].given # Graph!NoAnswer
              \/ mem'[w].n = invocations + 1
    PROVE  ConfirmsOK(mem', confirmed')
<1>1. ASSUME NEW v \in AgentWorkers, mem'[v].alive, mem'[v].given # Graph!NoAnswer
      PROVE  \A c \in confirmed' : c.by # mem'[v].n
  <2>1. CASE v # w
    BY <1>1, <2>1, OthersStay DEF GraphInv, ConfirmsOK
  <2>2. CASE v = w /\ mem'[w].n = invocations + 1
    <3>1. \A c \in confirmed : c.by \in 1..invocations /\ invocations \in Nat
      BY DEF GraphInv, HistoryOK
    <3> QED BY <2>2, <3>1
  <2>3. CASE v = w /\ mem'[w].n # invocations + 1
    BY <1>1, <2>3 DEF GraphInv, ConfirmsOK
  <2> QED BY <2>1, <2>2, <2>3
<1> QED BY <1>1 DEF ConfirmsOK, GraphInv

\* One worker moves on, with nothing confirmed and no handler started.
LEMMA WorkerStep ==
    ASSUME GraphInv, NEW w \in AgentWorkers, Moves(w), Grows,
           UNCHANGED <<executed, confirmed>>,
           HistoryOK', LedgerOK', CheckpointOK(g', confirmed', found'),
           InvocationOK(mem'[w], confirmed', found', DOMAIN ledger', invocations'),
           mem'[w].alive =>
              \/ /\ mem[w].alive /\ mem'[w].n = mem[w].n
                 /\ mem[w].st.calls + Cardinality(Tried(mem[w])) <=
                       mem'[w].st.calls + Cardinality(Tried(mem'[w]))
                 /\ mem'[w].given # Graph!NoAnswer => mem[w].given # Graph!NoAnswer
              \/ mem'[w].n = invocations + 1,
           overlaps' = 0 => AloneOK'
    PROVE  GraphInv'
<1>1. found' \in BOOLEAN /\ invocations' \in Nat
  BY DEF HistoryOK
<1>2. Goes(w)
  BY DEF Goes
<1>3. Invocations(mem', confirmed', found', DOMAIN ledger', invocations')
  BY <1>1, <1>2, InvocationsStep
<1>4. mem'[w] \in Graph!Invocation /\ DOMAIN mem'[w].got = DOMAIN mem'[w].st.pending
  BY DEF InvocationOK
<1>5. HandlersOK(mem', executed')
  BY <1>4, HandlersStep
<1>6. ConfirmsOK(mem', confirmed')
  BY ConfirmsStep
<1> QED BY <1>3, <1>5, <1>6 DEF GraphInv

LEMMA GraphInit == Graph!Init => GraphInv
<1> SUFFICES ASSUME Graph!Init PROVE GraphInv
  OBVIOUS
<1>1. /\ g = Graph!Blank /\ asking = FALSE /\ mem = [w \in AgentWorkers |-> Graph!Idle]
      /\ runRow = [status |-> "open", holder |-> {}, question |-> {}, payload |-> Graph!NoAnswer]
      /\ ledger = [id \in {} |-> <<>>] /\ executed = {} /\ confirmed = {} /\ found = FALSE
      /\ lost = 0 /\ invocations = 0 /\ crashes = 0 /\ overlaps = 0
  BY DEF Graph!Init
<1>2. DOMAIN ledger = {} /\ Cardinality({}) = 0 /\ IsFiniteSet({}) /\ MaxToolCalls \in Nat
  BY <1>1, FS_EmptySet, CallsAssumption
<1>3. HistoryOK
  BY <1>1, <1>2, IdleFacts DEF HistoryOK, Graph!Run
<1>4. CheckpointOK(g, confirmed, found)
  BY <1>1, IdleFacts
<1>5. Invocations(mem, confirmed, found, DOMAIN ledger, invocations)
  BY <1>1, IdleFacts DEF Invocations
<1>6. LedgerOK
  BY <1>1, <1>2 DEF LedgerOK
<1>7. HandlersOK(mem, executed) /\ ConfirmsOK(mem, confirmed)
  <2>1. \A n : By({}, n) = {}
    BY DEF By
  <2>2. \A w \in AgentWorkers : ~mem[w].alive
    BY <1>1, IdleFacts
  <2>3. \A n : Cardinality(By(executed, n)) = 0
    BY <1>1, <1>2, <2>1
  <2>4. HandlersOK(mem, executed)
    BY <1>2, <2>2, <2>3 DEF HandlersOK
  <2> QED BY <1>1, <2>2, <2>4 DEF ConfirmsOK
<1>8. AloneOK
  <2>1. Strays = {}
    BY <1>1 DEF Strays
  <2>2. g.calls = 0
    BY <1>1 DEF Graph!Blank
  <2>3. \A w \in AgentWorkers : ~mem[w].alive
    BY <1>1, IdleFacts
  <2> QED BY <1>1, <1>2, <2>1, <2>2, <2>3 DEF AloneOK
<1> QED BY <1>3, <1>4, <1>5, <1>6, <1>7, <1>8 DEF GraphInv

\* Who is alive before any takeover of a live worker is alone, and holds the run.
LEMMA AloneFacts ==
    ASSUME GraphInv, overlaps = 0, NEW w \in AgentWorkers, mem[w].alive
    PROVE  /\ AloneOK /\ HolderOK(mem[w]) /\ mem[w].st = g /\ mem[w].newest
           /\ runRow.holder = {w} /\ runRow.status = "open"
           /\ \A v \in AgentWorkers : v # w => ~mem[v].alive
<1>1. AloneOK
  BY DEF GraphInv
<1>2. \A v \in AgentWorkers : mem[v].alive => runRow.holder = {v}
  BY <1>1 DEF AloneOK
<1>3. \A v \in AgentWorkers : v # w => ~mem[v].alive
  BY <1>2
<1>4. HolderOK(mem[w]) /\ runRow.holder = {w} /\ runRow.status = "open"
  BY <1>1 DEF AloneOK
<1> QED BY <1>1, <1>3, <1>4 DEF HolderOK

LEMMA NumberFacts ==
    ASSUME GraphInv
    PROVE  /\ Cardinality(executed) \in Nat /\ IsFiniteSet(Strays) /\ Cardinality(Strays) \in Nat
           /\ lost \in Nat /\ crashes \in Nat /\ overlaps \in Nat /\ invocations \in Nat
           /\ MaxToolCalls \in Nat /\ MaxDecisions \in Nat
           /\ g \in Graph!Checkpoint /\ g.calls \in Nat /\ g.calls <= MaxToolCalls
           /\ runRow \in Graph!Run /\ found \in BOOLEAN /\ asking \in BOOLEAN
<1>1. /\ IsFiniteSet(executed) /\ IsFiniteSet(confirmed)
      /\ lost \in Nat /\ crashes \in Nat /\ overlaps \in Nat /\ invocations \in Nat
      /\ runRow \in Graph!Run /\ found \in BOOLEAN /\ asking \in BOOLEAN
  BY DEF GraphInv, HistoryOK
<1>2. IsFiniteSet(Strays)
  BY <1>1, FS_Subset DEF Strays
<1>3. g \in Graph!Checkpoint /\ g.calls <= MaxToolCalls
  BY DEF GraphInv, CheckpointOK
<1>4. g.calls \in Nat
  BY <1>3, CheckpointFacts
<1> QED BY <1>1, <1>2, <1>3, <1>4, FS_CardinalityType, CallsAssumption

\* The question of an interrupt is a step.
LEMMA QuestionFacts ==
    ASSUME NEW s, NEW C, NEW f, CheckpointOK(s, C, f)
    PROVE  Graph!Question(s) \in SUBSET Graph!Step
<1>1. s \in Graph!Checkpoint /\ (s.node = "confirmation" => Len(s.pending) = 1)
  BY DEF CheckpointOK
<1>2. s.node = "confirmation" => s.pending[1] \in Graph!Step
  BY <1>1, CheckpointFacts
<1> QED BY <1>2 DEF Graph!Question

\* Worker w writes checkpoint s, or leaves the graph without one.
LEMMA WritesMoves ==
    ASSUME NEW w \in AgentWorkers, NEW s, NEW m, Graph!Writes(w, s, m)
    PROVE  /\ Moves(w) /\ mem'[w] = m /\ g' = s /\ asking' = FALSE
           /\ \A v \in AgentWorkers : v # w => mem'[v] = [mem[v] EXCEPT !.newest = FALSE]
<1>1. mem' = [v \in AgentWorkers |-> IF v = w THEN m ELSE [mem[v] EXCEPT !.newest = FALSE]]
  BY DEF Graph!Writes
<1>2. mem' = [v \in AgentWorkers |-> mem'[v]]
  BY <1>1
<1>3. /\ mem'[w] = m
      /\ \A v \in AgentWorkers : v # w => mem'[v] = [mem[v] EXCEPT !.newest = FALSE]
  BY <1>1
<1> QED BY <1>2, <1>3 DEF Moves, Graph!Writes

LEMMA ExceptMoves ==
    ASSUME GraphInv, NEW w \in AgentWorkers, NEW m, mem' = [mem EXCEPT ![w] = m]
    PROVE  /\ Moves(w) /\ mem'[w] = m
           /\ \A v \in AgentWorkers : v # w => mem'[v] = mem[v]
<1>1. mem = [v \in AgentWorkers |-> mem[v]]
  BY MemFacts
<1>2. mem' = [v \in AgentWorkers |-> mem'[v]] /\ DOMAIN mem' = AgentWorkers
  BY <1>1
<1> QED BY <1>1, <1>2 DEF Moves

\* Only the row of the run changes, or nothing.
LEMMA RowStep ==
    ASSUME GraphInv, UNCHANGED <<g, asking, mem, ledger, executed, confirmed, found,
                                 lost, invocations, crashes>>,
           runRow' \in Graph!Run, overlaps' \in Nat, overlaps' = 0 => AloneOK'
    PROVE  GraphInv'
<1>1. HistoryOK'
  BY DEF GraphInv, HistoryOK
<1>2. LedgerOK'
  BY DEF GraphInv, LedgerOK
<1> QED BY <1>1, <1>2 DEF GraphInv

\* The history of a step that leaves the calls alone.
LEMMA HistorySame ==
    ASSUME GraphInv, UNCHANGED <<ledger, executed, confirmed, found>>,
           runRow' \in Graph!Run, asking' \in BOOLEAN,
           lost' \in Nat, crashes' \in Nat, overlaps' \in Nat, invocations' \in Nat,
           invocations <= invocations'
    PROVE  HistoryOK' /\ LedgerOK' /\ Grows /\ Strays' = Strays
<1>1. \A n \in 1..invocations : n \in 1..invocations'
  BY NumberFacts
<1>2. HistoryOK'
  BY <1>1 DEF GraphInv, HistoryOK
<1> QED BY <1>2 DEF GraphInv, LedgerOK, Grows, Strays

\* A node ends with checkpoint next: what it has run is counted there.
LEMMA QuietAdvance ==
    ASSUME GraphInv, NEW w \in AgentWorkers, mem[w].alive, NEW next,
           Graph!Advance(w, next), UNCHANGED <<runRow, Graph!History, Graph!counters>>,
           CheckpointOK(next, confirmed, found),
           mem[w].st.calls + Cardinality(Tried(mem[w])) <= next.calls
    PROVE  GraphInv'
<1> DEFINE m == Graph!Running(mem[w].n, next, Graph!NoAnswer)
<1>1. Graph!Writes(w, next, m)
  BY DEF Graph!Advance
<1>2. next \in Graph!Checkpoint
  BY DEF CheckpointOK
<1>3. Fresh(m, mem[w].n, next, Graph!NoAnswer)
  BY <1>2, MemFacts, IdleFacts, RunningFacts
<1> HIDE DEF m
<1>4. /\ Moves(w) /\ mem'[w] = m /\ g' = next /\ asking' = FALSE
      /\ \A v \in AgentWorkers : v # w => mem'[v] = [mem[v] EXCEPT !.newest = FALSE]
  BY <1>1, WritesMoves
<1>5. UNCHANGED <<runRow, ledger, executed, confirmed, found, lost, invocations, crashes, overlaps>>
  BY DEF Graph!History, Graph!counters
<1>6. HistoryOK' /\ LedgerOK' /\ Grows /\ Strays' = Strays
  <2>1. /\ runRow' \in Graph!Run
        /\ lost' \in Nat /\ crashes' \in Nat /\ overlaps' \in Nat /\ invocations' \in Nat
        /\ invocations <= invocations'
    BY <1>5, NumberFacts
  <2>2. asking' \in BOOLEAN
    BY <1>4
  <2> QED BY <1>5, <2>1, <2>2, HistorySame
<1>7. CheckpointOK(g', confirmed', found')
  BY <1>4, <1>5
<1>8. InvocationOK(m, confirmed', found', DOMAIN ledger', invocations')
  BY <1>3, <1>5, MemFacts DEF InvocationOK, Fresh
<1>9. mem[w].st.calls + Cardinality(Tried(mem[w])) <= m.st.calls + Cardinality(Tried(m))
  BY <1>2, <1>3, CheckpointFacts DEF Fresh
<1>10. ASSUME overlaps' = 0 PROVE AloneOK'
  <2>1. /\ AloneOK /\ HolderOK(mem[w]) /\ mem[w].st = g
        /\ runRow.holder = {w} /\ runRow.status = "open"
        /\ \A v \in AgentWorkers : v # w => ~mem[v].alive
    BY <1>5, <1>10, AloneFacts
  <2>2. \A v \in AgentWorkers : mem'[v].alive => v = w
    BY <1>4, <2>1, OthersStay
  <2>3. Cardinality(executed) <= next.calls + 0 + lost
    <3>1. Cardinality(executed) <= g.calls + Cardinality(Tried(mem[w])) + lost
      BY <2>1 DEF HolderOK
    <3>2. next.calls \in Nat /\ Cardinality(Tried(mem[w])) \in Nat
      BY <1>2, CheckpointFacts, MemFacts
    <3> QED BY <2>1, <3>1, <3>2, NumberFacts
  <2>4. HolderOK(mem[w])'
    BY <1>3, <1>4, <1>5, <2>3 DEF HolderOK, Fresh
  <2>5. \A v \in AgentWorkers : mem'[v].alive =>
            runRow'.holder = {v} /\ runRow'.status = "open" /\ HolderOK(mem[v])'
    BY <1>5, <2>1, <2>2, <2>4
  <2>6. mem'[w].alive /\ Cardinality(Strays) <= crashes
        /\ Cardinality(executed) <= MaxToolCalls + lost
    BY <1>3, <1>4, <2>1 DEF AloneOK, Fresh
  <2> QED BY <1>5, <1>6, <2>1, <2>5, <2>6 DEF AloneOK
<1> QED BY <1>3, <1>4, <1>5, <1>6, <1>7, <1>8, <1>9, <1>10, WorkerStep DEF Fresh

\* Back to the model, the counters stay.
LEMMA ToModelFacts ==
    ASSUME NEW s \in Graph!Checkpoint
    PROVE  /\ Graph!ToModel(s) \in Graph!Checkpoint /\ Graph!ToModel(s).node = "executive"
           /\ Graph!ToModel(s).urls = s.urls /\ Graph!ToModel(s).results = s.results
           /\ Graph!ToModel(s).searches = s.searches
           /\ Graph!ToModel(s).decisions = s.decisions /\ Graph!ToModel(s).calls = s.calls
<1>1. <<>> \in Seq(Calls) /\ <<>> \in Seq(Graph!Step)
  OBVIOUS
<1> QED BY <1>1 DEF Graph!ToModel, Graph!Checkpoint, Graph!Nodes

\* The rows a worker writes.
LEMMA RowFacts ==
    ASSUME NEW w \in AgentWorkers, runRow \in Graph!Run, NEW q \in SUBSET Graph!Step
    PROVE  /\ Graph!Closed \in Graph!Run /\ Graph!Closed.status = "over"
           /\ Graph!Waiting(q) \in Graph!Run /\ Graph!Waiting(q).status = "waiting"
           /\ Graph!Waiting(q).question = q
           /\ Graph!HeldBy(w) \in Graph!Run /\ Graph!HeldBy(w).status = "open"
           /\ Graph!HeldBy(w).holder = {w} /\ Graph!HeldBy(w).payload = runRow.payload
BY DEF Graph!Closed, Graph!Waiting, Graph!HeldBy, Graph!Run

\* Taking the run from nobody alive: nobody is.
LEMMA TakesFacts ==
    ASSUME GraphInv, NEW w \in AgentWorkers, Graph!Takes(w)
    PROVE  /\ overlaps' \in Nat /\ runRow.status \in {"open", "answered"} /\ ~mem[w].alive
           /\ overlaps' = 0 =>
                overlaps = 0 /\ AloneOK /\ \A v \in AgentWorkers : ~mem[v].alive
<1>1. /\ runRow.status \in {"open", "answered"} /\ ~mem[w].alive
      /\ overlaps' = overlaps + (IF \E v \in runRow.holder : mem[v].alive THEN 1 ELSE 0)
  BY DEF Graph!Takes
<1>2. overlaps' \in Nat /\ (overlaps' = 0 => overlaps = 0 /\ ~\E v \in runRow.holder : mem[v].alive)
  BY <1>1, NumberFacts
<1>3. ASSUME overlaps = 0, NEW v \in AgentWorkers, mem[v].alive
      PROVE  \E x \in runRow.holder : mem[x].alive
  BY <1>3, AloneFacts
<1> QED BY <1>1, <1>2, <1>3 DEF GraphInv

LEMMA InvokeInv ==
    ASSUME GraphInv, NEW w \in AgentWorkers, Graph!Invoke(w)
    PROVE  GraphInv'
<1> DEFINE next == Graph!Restarted(g)
           m == Graph!Running(invocations + 1, next, Graph!NoAnswer)
<1>1. /\ Graph!Takes(w) /\ ~asking /\ runRow.payload = Graph!NoAnswer
      /\ Graph!Writes(w, next, m) /\ runRow' = Graph!HeldBy(w) /\ invocations' = invocations + 1
      /\ UNCHANGED <<ledger, executed, confirmed, found, lost, crashes>>
  BY DEF Graph!Invoke, Graph!History
<1>2. CheckpointOK(g, confirmed, found)
  BY DEF GraphInv
<1>3. /\ next \in Graph!Checkpoint /\ next.node = "executive" /\ next.urls = FALSE
      /\ next.decisions = g.decisions /\ next.calls = g.calls
  <2> DEFINE t == Graph!ToModel(g)
  <2>1. next = [t EXCEPT !.results = 0, !.searches = 0, !.urls = FALSE]
    BY DEF Graph!Restarted
  <2>2. /\ t \in Graph!Checkpoint /\ t.node = "executive"
        /\ t.decisions = g.decisions /\ t.calls = g.calls
    BY NumberFacts, ToModelFacts
  <2> HIDE DEF t, next
  <2> QED BY <2>1, <2>2 DEF Graph!Checkpoint
<1> HIDE DEF next
<1>4. CheckpointOK(next, confirmed, found)
  BY <1>2, <1>3 DEF CheckpointOK, Executes
<1>5. invocations \in Nat /\ invocations + 1 \in Nat /\ invocations <= invocations + 1
      /\ invocations + 1 \in 1..(invocations + 1)
  BY NumberFacts
<1>6. Fresh(m, invocations + 1, next, Graph!NoAnswer)
  BY <1>3, <1>5, IdleFacts, RunningFacts
<1> HIDE DEF m
<1>7. /\ Moves(w) /\ mem'[w] = m /\ g' = next /\ asking' = FALSE
      /\ \A v \in AgentWorkers : v # w => mem'[v] = [mem[v] EXCEPT !.newest = FALSE]
  BY <1>1, WritesMoves
<1>8. /\ runRow' \in Graph!Run /\ runRow'.status = "open" /\ runRow'.holder = {w}
  BY <1>1, NumberFacts, RowFacts
<1>9. overlaps' \in Nat /\ asking' \in BOOLEAN
  BY <1>1, <1>7, TakesFacts
<1>10. HistoryOK' /\ LedgerOK' /\ Grows /\ Strays' = Strays
  <2>1. /\ lost' \in Nat /\ crashes' \in Nat /\ invocations' \in Nat /\ invocations <= invocations'
    BY <1>1, <1>5, NumberFacts
  <2> QED BY <1>1, <1>8, <1>9, <2>1, HistorySame
<1>11. InvocationOK(m, confirmed', found', DOMAIN ledger', invocations')
  BY <1>1, <1>4, <1>5, <1>6 DEF InvocationOK, Fresh
<1>12. ASSUME overlaps' = 0 PROVE AloneOK'
  <2>1. AloneOK /\ \A v \in AgentWorkers : ~mem[v].alive
    BY <1>1, <1>12, TakesFacts
  <2>2. \A v \in AgentWorkers : mem'[v].alive => v = w
    BY <1>7, <2>1, OthersStay
  <2>3. Cardinality(executed) <= g.calls + 0 + lost
    <3>1. Cardinality(executed) <= g.calls + lost
      BY <1>1, <2>1, TakesFacts DEF AloneOK
    <3> QED BY <3>1, NumberFacts
  <2>4. HolderOK(mem[w])'
    BY <1>1, <1>3, <1>6, <1>7, <2>3 DEF HolderOK, Fresh
  <2>5. \A v \in AgentWorkers : mem'[v].alive =>
            runRow'.holder = {v} /\ runRow'.status = "open" /\ HolderOK(mem[v])'
    BY <1>8, <2>2, <2>4
  <2>6. /\ mem'[w].alive /\ Cardinality(Strays) <= crashes
        /\ Cardinality(executed) <= MaxToolCalls + lost
    BY <1>6, <1>7, <2>1 DEF AloneOK, Fresh
  <2> QED BY <1>1, <1>8, <1>10, <2>5, <2>6 DEF AloneOK
<1> QED BY <1>1, <1>4, <1>6, <1>7, <1>10, <1>11, <1>12, WorkerStep DEF Fresh

\* The next worker is given the user's last answer: it is the one to the interrupt that
\* is pending or, when none is, one that a crash has left over.
LEMMA ContinueInv ==
    ASSUME GraphInv, NEW w \in AgentWorkers, Graph!Continue(w)
    PROVE  GraphInv'
<1> DEFINE m == Graph!Running(invocations + 1, g, runRow.payload)
<1>1. /\ Graph!Takes(w) /\ (asking => runRow.status = "answered")
      /\ runRow.payload # Graph!NoAnswer
      /\ mem' = [mem EXCEPT ![w] = m] /\ runRow' = Graph!HeldBy(w)
      /\ invocations' = invocations + 1
      /\ UNCHANGED <<g, asking, ledger, executed, confirmed, found, lost, crashes>>
  BY DEF Graph!Continue, Graph!History
<1>2. CheckpointOK(g, confirmed, found) /\ g \in Graph!Checkpoint
  BY NumberFacts DEF GraphInv
<1>3. invocations \in Nat /\ invocations + 1 \in Nat /\ invocations <= invocations + 1
      /\ invocations + 1 \in 1..(invocations + 1)
  BY NumberFacts
<1>4. runRow.payload \in Graph!Answer
  BY NumberFacts DEF Graph!Run
<1>5. Fresh(m, invocations + 1, g, runRow.payload)
  BY <1>2, <1>3, <1>4, RunningFacts
<1> HIDE DEF m
<1>6. /\ Moves(w) /\ mem'[w] = m /\ \A v \in AgentWorkers : v # w => mem'[v] = mem[v]
  BY <1>1, ExceptMoves
<1>7. /\ runRow' \in Graph!Run /\ runRow'.status = "open" /\ runRow'.holder = {w}
  BY <1>1, NumberFacts, RowFacts
<1>8. HistoryOK' /\ LedgerOK' /\ Grows /\ Strays' = Strays
  <2>1. /\ lost' \in Nat /\ crashes' \in Nat /\ invocations' \in Nat /\ invocations <= invocations'
        /\ overlaps' \in Nat /\ asking' \in BOOLEAN
    BY <1>1, <1>3, NumberFacts, TakesFacts
  <2> QED BY <1>1, <1>7, <2>1, HistorySame
<1>9. InvocationOK(m, confirmed', found', DOMAIN ledger', invocations')
  BY <1>1, <1>2, <1>3, <1>5 DEF InvocationOK, Fresh
<1>10. ASSUME overlaps' = 0 PROVE AloneOK'
  <2>1. AloneOK /\ \A v \in AgentWorkers : ~mem[v].alive
    BY <1>1, <1>10, TakesFacts
  <2>2. \A v \in AgentWorkers : mem'[v].alive => v = w
    BY <1>6, <2>1
  <2>3. runRow.status \in {"open", "answered"}
    BY <1>1, TakesFacts
  <2>4. Cardinality(executed) <= g.calls + 0 + lost
    <3>1. Cardinality(executed) <= g.calls + lost
      BY <2>1, <2>3 DEF AloneOK
    <3> QED BY <3>1, NumberFacts
  <2>5. asking => runRow.payload.to = Graph!Question(g)
    BY <1>1, <2>1 DEF AloneOK
  <2>6. ~asking => Cardinality(Strays) < crashes
    BY <1>1, <2>1, <2>3 DEF AloneOK
  <2>7. HolderOK(mem[w])'
    BY <1>1, <1>5, <1>6, <1>8, <2>4, <2>5, <2>6 DEF HolderOK, Fresh
  <2>8. \A v \in AgentWorkers : mem'[v].alive =>
            runRow'.holder = {v} /\ runRow'.status = "open" /\ HolderOK(mem[v])'
    BY <1>7, <2>2, <2>7
  <2>9. /\ mem'[w].alive /\ Cardinality(Strays) <= crashes
        /\ Cardinality(executed) <= MaxToolCalls + lost
    BY <1>5, <1>6, <2>1 DEF AloneOK, Fresh
  <2> QED BY <1>1, <1>7, <1>8, <2>8, <2>9 DEF AloneOK
<1>11. CheckpointOK(g', confirmed', found')
  BY <1>1, <1>2
<1> QED BY <1>1, <1>5, <1>6, <1>8, <1>9, <1>10, <1>11, WorkerStep DEF Fresh

LEMMA InspectInv ==
    ASSUME GraphInv, NEW w \in AgentWorkers, Graph!Inspect(w)
    PROVE  GraphInv'
<1>1. /\ Graph!Takes(w)
      /\ \/ runRow.status = "open" /\ asking /\ runRow' = Graph!Waiting(Graph!Question(g))
         \/ g.node = "done" /\ runRow' = Graph!Closed
      /\ UNCHANGED <<g, asking, mem, ledger, executed, confirmed, found, lost, invocations,
                     crashes>>
  BY DEF Graph!Inspect, Graph!History
<1>2. Graph!Question(g) \in SUBSET Graph!Step
  BY QuestionFacts DEF GraphInv
<1>3. /\ runRow' \in Graph!Run
      /\ \/ runRow'.status = "waiting" /\ runRow'.question = Graph!Question(g) /\ asking
         \/ runRow'.status = "over"
  BY <1>1, <1>2, NumberFacts, RowFacts
<1>4. ASSUME overlaps' = 0 PROVE AloneOK'
  <2>1. AloneOK /\ (\A v \in AgentWorkers : ~mem[v].alive)
        /\ runRow.status \in {"open", "answered"}
    BY <1>1, <1>4, TakesFacts
  <2>2. Cardinality(executed) <= g.calls + lost
    BY <2>1 DEF AloneOK
  <2> QED BY <1>1, <1>3, <2>1, <2>2 DEF AloneOK, Strays
<1> QED BY <1>1, <1>3, <1>4, TakesFacts, RowStep

LEMMA UserAnswersInv ==
    ASSUME GraphInv, NEW response \in {"confirm", "other"}, Graph!UserAnswers(response)
    PROVE  GraphInv'
<1> DEFINE payload == [answer |-> response, to |-> runRow.question]
<1>1. /\ runRow.status = "waiting"
      /\ runRow' = [runRow EXCEPT !.status = "answered", !.question = {}, !.payload = payload]
      /\ UNCHANGED <<g, asking, mem, ledger, executed, confirmed, found, lost, invocations,
                     crashes, overlaps>>
  BY DEF Graph!UserAnswers, Graph!History, Graph!counters
<1>2. runRow \in Graph!Run
  BY NumberFacts
<1>3. payload \in Graph!Answer /\ payload # Graph!NoAnswer /\ payload.to = runRow.question
  <2>1. runRow.question \in SUBSET Graph!Step
    BY <1>2 DEF Graph!Run
  <2>2. payload.answer # Graph!NoAnswer.answer
    BY DEF Graph!NoAnswer
  <2> QED BY <2>1, <2>2 DEF Graph!Answer
<1> HIDE DEF payload
<1>4. runRow' \in Graph!Run /\ runRow'.status = "answered" /\ runRow'.payload = payload
  BY <1>1, <1>2, <1>3 DEF Graph!Run
<1>5. ASSUME overlaps' = 0 PROVE AloneOK'
  <2>1. AloneOK
    BY <1>1, <1>5 DEF GraphInv
  <2>2. \A v \in AgentWorkers : ~mem[v].alive
    BY <1>1, <2>1 DEF AloneOK
  <2>3. asking /\ runRow.question = Graph!Question(g) /\ Cardinality(executed) <= g.calls + lost
    BY <1>1, <2>1, <2>2 DEF AloneOK
  <2> QED BY <1>1, <1>3, <1>4, <2>1, <2>2, <2>3 DEF AloneOK, Strays
<1> QED BY <1>1, <1>4, <1>5, NumberFacts, RowStep

\* An invocation ends without a checkpoint.
LEMMA EndInv ==
    ASSUME GraphInv, NEW w \in AgentWorkers, Graph!EndsInvocation(w),
           UNCHANGED <<g, ledger, executed, confirmed, found, invocations>>,
           runRow' \in Graph!Run, asking' \in BOOLEAN,
           lost' \in Nat, crashes' \in Nat, overlaps' \in Nat,
           overlaps' = 0 => AloneOK'
    PROVE  GraphInv'
<1>1. Moves(w) /\ mem'[w] = Graph!Idle
  BY ExceptMoves DEF Graph!EndsInvocation
<1>2. HistoryOK' /\ LedgerOK' /\ Grows /\ Strays' = Strays
  <2>1. invocations' \in Nat /\ invocations <= invocations'
    BY NumberFacts
  <2> QED BY <2>1, HistorySame
<1>3. CheckpointOK(g', confirmed', found')
  BY DEF GraphInv
<1>4. InvocationOK(mem'[w], confirmed', found', DOMAIN ledger', invocations')
  BY <1>1, <1>2, IdleFacts DEF HistoryOK
<1> QED BY <1>1, <1>2, <1>3, <1>4, IdleFacts, WorkerStep

\* Nobody is alive after that, as long as no live worker was taken over.
LEMMA EndAlone ==
    ASSUME GraphInv, overlaps = 0, NEW w \in AgentWorkers, mem[w].alive,
           Graph!EndsInvocation(w)
    PROVE  /\ \A v \in AgentWorkers : ~mem'[v].alive
           /\ AloneOK /\ HolderOK(mem[w]) /\ mem[w].st = g /\ mem[w].newest
           /\ runRow.holder = {w} /\ runRow.status = "open"
<1>1. mem'[w] = Graph!Idle /\ \A v \in AgentWorkers : v # w => mem'[v] = mem[v]
  BY ExceptMoves DEF Graph!EndsInvocation
<1> QED BY <1>1, AloneFacts, IdleFacts

LEMMA RaiseInv ==
    ASSUME GraphInv, NEW w \in AgentWorkers, mem[w].alive, Graph!Raise(w),
           UNCHANGED <<Graph!History, Graph!counters>>
    PROVE  GraphInv'
<1>1. /\ Graph!EndsInvocation(w) /\ Graph!IfHolder(w, Graph!Closed)
      /\ UNCHANGED <<g, asking, ledger, executed, confirmed, found, lost, invocations, crashes,
                     overlaps>>
  BY DEF Graph!Raise, Graph!History, Graph!counters
<1>2. runRow' \in Graph!Run /\ (w \in runRow.holder => runRow'.status = "over")
  BY <1>1, NumberFacts, RowFacts DEF Graph!IfHolder
<1>3. ASSUME overlaps' = 0 PROVE AloneOK'
  <2>1. /\ \A v \in AgentWorkers : ~mem'[v].alive
        /\ AloneOK /\ runRow.holder = {w}
    BY <1>1, <1>3, EndAlone
  <2> QED BY <1>1, <1>2, <2>1 DEF AloneOK, Strays
<1> QED BY <1>1, <1>2, <1>3, NumberFacts, EndInv

\* The handlers of the node are lost with the invocation, and its answer is left over.
LEMMA GraphCrashInv ==
    ASSUME GraphInv, NEW w \in AgentWorkers, Graph!Crash(w)
    PROVE  GraphInv'
<1> DEFINE ran == Cardinality(Tried(mem[w]))
<1>1. /\ mem[w].alive /\ Graph!EndsInvocation(w) /\ crashes' = crashes + 1
      /\ lost' = lost + ran
      /\ UNCHANGED <<g, asking, runRow, ledger, executed, confirmed, found, invocations,
                     overlaps>>
  BY SameOperators DEF Graph!Crash, Graph!History, Graph!Ran, Tried
<1>2. ran \in Nat /\ lost \in Nat /\ crashes \in Nat /\ lost' \in Nat /\ crashes' \in Nat
      /\ lost <= lost' /\ crashes < crashes'
  BY <1>1, MemFacts, NumberFacts
<1>3. ASSUME overlaps' = 0 PROVE AloneOK'
  <2>1. /\ \A v \in AgentWorkers : ~mem'[v].alive
        /\ AloneOK /\ HolderOK(mem[w]) /\ runRow.status = "open"
    BY <1>1, <1>3, EndAlone
  <2>2. /\ Cardinality(executed) <= g.calls + ran + lost
        /\ Cardinality(executed) <= MaxToolCalls + lost /\ Cardinality(Strays) <= crashes
    BY <2>1 DEF HolderOK, AloneOK
  <2> HIDE DEF ran
  <2>3. /\ Cardinality(executed) <= g.calls + lost' /\ Cardinality(executed) <= MaxToolCalls + lost'
        /\ Cardinality(Strays) < crashes' /\ Cardinality(Strays) <= crashes'
    BY <1>1, <1>2, <2>2, NumberFacts
  <2> QED BY <1>1, <2>1, <2>3 DEF AloneOK, Strays
<1> QED BY <1>1, <1>2, <1>3, NumberFacts, EndInv

\* At a node that runs no tool no call is under way.
LEMMA NoneTried ==
    ASSUME GraphInv, NEW w \in AgentWorkers,
           ~Executes(mem[w].st) \/ ~(mem[w].st.calls + Len(mem[w].st.pending) <= MaxToolCalls)
    PROVE  Tried(mem[w]) = {} /\ Cardinality(Tried(mem[w])) = 0
<1>1. \A i \in DOMAIN mem[w].got : mem[w].got[i] = "untried"
  BY MemFacts DEF InvocationOK
<1> QED BY <1>1, FS_EmptySet DEF Tried

\* The run waits for the answer to the question of its newest checkpoint.
LEMMA InterruptInv ==
    ASSUME GraphInv, NEW w \in AgentWorkers, Graph!Interrupt(w)
    PROVE  GraphInv'
<1> DEFINE q == Graph!Question(mem[w].st)
<1>1. /\ mem[w].alive /\ mem[w].st.node \in {"ask_user", "confirmation"}
      /\ asking' = (asking \/ mem[w].newest) /\ Graph!EndsInvocation(w)
      /\ Graph!IfHolder(w, Graph!Waiting(q))
      /\ UNCHANGED <<g, ledger, executed, confirmed, found, lost, invocations, crashes, overlaps>>
  BY DEF Graph!Interrupt, Graph!At, Graph!History, Graph!counters
<1>2. q \in SUBSET Graph!Step
  BY MemFacts, QuestionFacts
<1> HIDE DEF q
<1>3. /\ runRow' \in Graph!Run /\ asking' \in BOOLEAN
      /\ w \in runRow.holder => runRow'.status = "waiting" /\ runRow'.question = q
  BY <1>1, <1>2, NumberFacts, RowFacts, MemFacts DEF Graph!IfHolder
<1>4. ASSUME overlaps' = 0 PROVE AloneOK'
  <2>1. /\ \A v \in AgentWorkers : ~mem'[v].alive
        /\ AloneOK /\ HolderOK(mem[w]) /\ runRow.holder = {w} /\ mem[w].st = g /\ mem[w].newest
    BY <1>1, <1>4, EndAlone
  <2>2. Cardinality(Tried(mem[w])) = 0
    BY <1>1, NoneTried DEF Executes
  <2>3. Cardinality(executed) <= g.calls + lost
    <3>1. Cardinality(executed) <= g.calls + 0 + lost
      BY <2>1, <2>2 DEF HolderOK
    <3> QED BY <3>1, NumberFacts
  <2>4. asking' = TRUE /\ runRow'.status = "waiting" /\ runRow'.question = Graph!Question(g)
    BY <1>1, <1>3, <2>1 DEF q
  <2> QED BY <1>1, <2>1, <2>3, <2>4 DEF AloneOK, Strays
<1> QED BY <1>1, <1>3, <1>4, NumberFacts, EndInv

LEMMA RespondInv ==
    ASSUME GraphInv, NEW w \in AgentWorkers, Graph!Respond(w)
    PROVE  GraphInv'
<1> DEFINE next == [mem[w].st EXCEPT !.node = "done"]
<1>1. /\ mem[w].alive /\ mem[w].st.node = "respond"
      /\ Graph!Writes(w, next, Graph!Idle) /\ Graph!IfHolder(w, Graph!Closed)
      /\ UNCHANGED <<ledger, executed, confirmed, found, lost, invocations, crashes, overlaps>>
  BY DEF Graph!Respond, Graph!At, Graph!History, Graph!counters
<1>2. /\ next \in Graph!Checkpoint /\ next.node = "done" /\ next.urls = mem[w].st.urls
      /\ next.decisions = mem[w].st.decisions /\ next.calls = mem[w].st.calls
  BY MemFacts DEF Graph!Checkpoint, Graph!Nodes
<1>3. CheckpointOK(mem[w].st, confirmed, found)
  BY MemFacts
<1> HIDE DEF next
<1>4. CheckpointOK(next, confirmed, found)
  BY <1>2, <1>3 DEF CheckpointOK, Executes
<1>5. /\ Moves(w) /\ mem'[w] = Graph!Idle /\ g' = next /\ asking' = FALSE
      /\ \A v \in AgentWorkers : v # w => mem'[v] = [mem[v] EXCEPT !.newest = FALSE]
  BY <1>1, WritesMoves
<1>6. runRow' \in Graph!Run /\ (w \in runRow.holder => runRow'.status = "over")
  BY <1>1, NumberFacts, RowFacts DEF Graph!IfHolder
<1>7. HistoryOK' /\ LedgerOK' /\ Grows /\ Strays' = Strays
  <2>1. /\ lost' \in Nat /\ crashes' \in Nat /\ invocations' \in Nat /\ invocations <= invocations'
        /\ overlaps' \in Nat
    BY <1>1, NumberFacts
  <2>2. asking' \in BOOLEAN
    BY <1>5
  <2> QED BY <1>1, <1>6, <2>1, <2>2, HistorySame
<1>8. ASSUME overlaps' = 0 PROVE AloneOK'
  <2>1. /\ AloneOK /\ runRow.holder = {w} /\ \A v \in AgentWorkers : v # w => ~mem[v].alive
    BY <1>1, <1>8, AloneFacts
  <2>2. \A v \in AgentWorkers : ~mem'[v].alive
    BY <1>5, <2>1, OthersStay, IdleFacts
  <2> QED BY <1>1, <1>6, <1>7, <2>1, <2>2 DEF AloneOK
<1>9. InvocationOK(mem'[w], confirmed', found', DOMAIN ledger', invocations')
  BY <1>5, <1>7, IdleFacts DEF HistoryOK
<1>10. CheckpointOK(g', confirmed', found')
  BY <1>1, <1>4, <1>5
<1> QED BY <1>1, <1>5, <1>7, <1>8, <1>9, <1>10, IdleFacts, WorkerStep

-----------------------------------------------------------------------------
(* The nodes *)

LEMMA AskUserInv ==
    ASSUME GraphInv, NEW w \in AgentWorkers, Graph!AskUser(w)
    PROVE  GraphInv'
<1> DEFINE next == Graph!ToModel(mem[w].st)
<1>1. /\ mem[w].alive /\ mem[w].st.node = "ask_user" /\ Graph!Advance(w, next)
      /\ UNCHANGED <<runRow, Graph!History, Graph!counters>>
  BY DEF Graph!AskUser, Graph!At
<1>2. CheckpointOK(next, confirmed, found) /\ next.calls = mem[w].st.calls
  BY MemFacts, ToModelFacts DEF CheckpointOK, Executes
<1>3. Cardinality(Tried(mem[w])) = 0
  BY <1>1, NoneTried DEF Executes
<1> HIDE DEF next
<1>4. mem[w].st.calls + Cardinality(Tried(mem[w])) <= next.calls
  BY <1>2, <1>3, MemFacts
<1> QED BY <1>1, <1>2, <1>4, QuietAdvance

LEMMA DecideInv ==
    ASSUME GraphInv, NEW w \in AgentWorkers,
           NEW route \in {"respond", "ask_user", "policy", "parallel_policy"},
           NEW calls \in Seq(Calls), route = "policy" => Len(calls) = 1,
           Graph!Decide(w, route, calls)
    PROVE  GraphInv'
<1>1. PICK deadline \in BOOLEAN :
         Graph!Advance(w, [mem[w].st EXCEPT !.node = route, !.decision = calls,
                                            !.decisions = @ + 1, !.prefetched = deadline])
  BY DEF Graph!Decide
<1> DEFINE s == mem[w].st
           count == s.decisions + 1
           next == [s EXCEPT !.node = route, !.decision = calls, !.decisions = count,
                             !.prefetched = deadline]
<1>2. /\ mem[w].alive /\ s.node = "executive" /\ s.decisions < MaxDecisions
      /\ UNCHANGED <<runRow, Graph!History, Graph!counters>> /\ Graph!Advance(w, next)
  BY <1>1 DEF Graph!Decide, Graph!At
<1>3. s \in Graph!Checkpoint /\ CheckpointOK(s, confirmed, found)
  BY MemFacts
<1> HIDE DEF s
<1>4. count \in Nat /\ count <= MaxDecisions
  BY <1>2, <1>3, NumberFacts, CheckpointFacts
<1> HIDE DEF count
<1>5. /\ next \in Graph!Checkpoint /\ next.node = route /\ next.decision = calls
      /\ next.decisions = count /\ next.urls = s.urls /\ next.calls = s.calls
  BY <1>3, <1>4 DEF Graph!Checkpoint, Graph!Nodes
<1> HIDE DEF next
<1>6. CheckpointOK(next, confirmed, found)
  BY <1>3, <1>4, <1>5 DEF CheckpointOK, Executes
<1>7. Cardinality(Tried(mem[w])) = 0
  BY <1>2, NoneTried DEF Executes, s
<1>8. mem[w].st.calls + Cardinality(Tried(mem[w])) <= next.calls
  BY <1>5, <1>7, MemFacts DEF s
<1> QED BY <1>2, <1>6, <1>8, QuietAdvance

LEMMA DecideFailsInv ==
    ASSUME GraphInv, NEW w \in AgentWorkers, Graph!DecideFails(w) \/ Graph!OverToolBudget(w)
    PROVE  GraphInv'
<1>1. mem[w].alive /\ Graph!Raise(w) /\ UNCHANGED <<Graph!History, Graph!counters>>
  BY DEF Graph!DecideFails, Graph!OverToolBudget, Graph!Executing, Graph!At
<1> QED BY <1>1, RaiseInv

\* The policy lets a call through only when it may run.
LEMMA EvaluateFacts ==
    ASSUME NEW call \in Calls, NEW s, NEW f \in BOOLEAN, s.urls => f
    PROVE  /\ Graph!Evaluate(s, call) = "ALLOW" =>
                 \/ Risk(call.tool) \in {"READ", "REVERSIBLE_WRITE"}
                 \/ call.confirmed /\ (call.source \/ (call.cites /\ f))
           /\ Graph!Evaluate(s, call) \in
                 {"DENY", "REQUIRE_MORE_CONTEXT", "REQUIRE_CONFIRMATION", "ALLOW"}
<1>1. call.tool \in Tools
  BY CallsAssumption DEF CallType
<1>2. Graph!HasEvidence(s, call) => call.source \/ (call.cites /\ f)
  BY DEF Graph!HasEvidence
<1>3. Risk(call.tool) \in {"READ", "REVERSIBLE_WRITE"} \/ Graph!NeedsConfirmation(call.tool)
  BY <1>1, SameOperators DEF Graph!NeedsConfirmation, Risk, Tools
<1>4. Graph!IsSearch(call) => Risk(call.tool) = "READ"
  BY DEF Graph!IsSearch, Risk
<1> QED BY <1>2, <1>3, <1>4 DEF Graph!Evaluate

LEMMA RefusedFacts ==
    ASSUME NEW s, NEW call, NEW C, NEW f, CheckpointOK(s, C, f)
    PROVE  CheckpointOK(Graph!Refused(s, call), C, f) /\ Graph!Refused(s, call).calls = s.calls
<1> DEFINE t == Graph!ToModel(s)
           more == IF Graph!IsSearch(call) THEN 1 ELSE 0
           next == [t EXCEPT !.results = @ + 1, !.searches = @ + more]
<1>1. Graph!Refused(s, call) = next
  BY DEF Graph!Refused
<1>2. /\ t \in Graph!Checkpoint /\ t.node = "executive" /\ t.urls = s.urls
      /\ t.decisions = s.decisions /\ t.calls = s.calls
      /\ t.results + 1 \in Nat /\ t.searches + more \in Nat
  <2>1. s \in Graph!Checkpoint
    BY DEF CheckpointOK
  <2>2. t \in Graph!Checkpoint /\ t.node = "executive" /\ t.urls = s.urls
        /\ t.decisions = s.decisions /\ t.calls = s.calls
    BY <2>1, ToModelFacts
  <2> HIDE DEF t
  <2>3. t.results \in Nat /\ t.searches \in Nat
    BY <2>2, CheckpointFacts
  <2> QED BY <2>2, <2>3
<1> HIDE DEF t, more
<1>3. /\ next \in Graph!Checkpoint /\ next.node = "executive" /\ next.urls = s.urls
      /\ next.decisions = s.decisions /\ next.calls = s.calls
  BY <1>2 DEF Graph!Checkpoint
<1> HIDE DEF next
<1>4. CheckpointOK(next, C, f)
  BY <1>3 DEF CheckpointOK, Executes
<1> QED BY <1>1, <1>3, <1>4

\* A step that the policy makes of a call.
LEMMA StepFacts ==
    ASSUME NEW call \in Calls, NEW n \in Nat, NEW i \in Nat
    PROVE  [id |-> Graph!ActionId(n, i, call), call |-> call] \in Graph!Step
<1>1. call.tool \in Tools
  BY CallsAssumption DEF CallType
<1> QED BY <1>1 DEF Graph!ActionId, Graph!ActionIds, Graph!Tools, Tools, Graph!Step

LEMMA PolicyInv ==
    ASSUME GraphInv, NEW w \in AgentWorkers, Graph!Policy(w)
    PROVE  GraphInv'
<1> DEFINE s == mem[w].st
           next == Graph!Judged(s)
           call == s.decision[1]
           verdict == Graph!Evaluate(s, call)
           pending == <<[id |-> Graph!ActionId(s.results, 0, call), call |-> call]>>
           ahead == [s EXCEPT !.pending = pending,
                              !.node = IF verdict = "ALLOW" THEN "execute" ELSE "confirmation"]
<1>1. /\ mem[w].alive /\ s.node = "policy" /\ Graph!Advance(w, next)
      /\ UNCHANGED <<runRow, Graph!History, Graph!counters>>
  BY DEF Graph!Policy, Graph!At
<1>2. CheckpointOK(s, confirmed, found) /\ s \in Graph!Checkpoint
  BY MemFacts
<1>3. CheckpointOK(next, confirmed, found) /\ next.calls = s.calls
  <2>1. next = IF verdict \in {"DENY", "REQUIRE_MORE_CONTEXT"} THEN Graph!Refused(s, call)
               ELSE ahead
    BY DEF Graph!Judged
  <2> HIDE DEF s, next
  <2>2. CASE verdict \in {"DENY", "REQUIRE_MORE_CONTEXT"}
    BY <1>2, <2>1, <2>2, RefusedFacts
  <2>3. CASE verdict \notin {"DENY", "REQUIRE_MORE_CONTEXT"}
    <3>1. call \in Calls
      <4>1. s.decision \in Seq(Calls) /\ Len(s.decision) = 1
        BY <1>1, <1>2, CheckpointFacts DEF CheckpointOK
      <4> QED BY <4>1
    <3>2. pending \in Seq(Graph!Step) /\ Len(pending) = 1 /\ pending[1].call = call
          /\ DOMAIN pending = {1}
      <4>1. s.results \in Nat /\ 0 \in Nat
        BY <1>2, CheckpointFacts
      <4>2. [id |-> Graph!ActionId(s.results, 0, call), call |-> call] \in Graph!Step
        BY <3>1, <4>1, StepFacts
      <4> QED BY <4>2
    <3>3. verdict = "ALLOW" => Cleared(pending[1], confirmed, found)
      <4>1. s.urls => found
        BY <1>2 DEF CheckpointOK
      <4> QED BY <3>1, <3>2, <4>1, EvaluateFacts, NumberFacts DEF Cleared
    <3> HIDE DEF call, verdict, pending
    <3>4. /\ ahead \in Graph!Checkpoint /\ ahead.pending = pending
          /\ ahead.node = IF verdict = "ALLOW" THEN "execute" ELSE "confirmation"
          /\ ahead.urls = s.urls /\ ahead.calls = s.calls /\ ahead.decisions = s.decisions
      BY <1>2, <3>2 DEF Graph!Checkpoint, Graph!Nodes
    <3> HIDE DEF ahead
    <3>5. CheckpointOK(ahead, confirmed, found)
      BY <1>2, <3>2, <3>3, <3>4 DEF CheckpointOK, Executes
    <3> QED BY <2>1, <2>3, <3>4, <3>5 DEF ahead
  <2> QED BY <2>2, <2>3
<1>4. Cardinality(Tried(mem[w])) = 0
  BY <1>1, NoneTried DEF Executes
<1> HIDE DEF next
<1>5. mem[w].st.calls + Cardinality(Tried(mem[w])) <= next.calls
  BY <1>3, <1>4, MemFacts
<1> QED BY <1>1, <1>3, <1>5, QuietAdvance

\* The calls of a batch, each once: n is the rank of exactly one first occurrence, so
\* that what Unique returns are calls of the batch.
LEMMA UniqueFacts ==
    ASSUME NEW S, NEW calls \in Seq(S)
    PROVE  /\ Graph!Unique(calls) \in Seq(S)
           /\ \A n \in DOMAIN Graph!Unique(calls) :
                 \E i \in DOMAIN calls : Graph!Unique(calls)[n] = calls[i]
<1> DEFINE first == Graph!FirstAt(calls)
           upTo(i) == {j \in first : j <= i}
           rank == [i \in first |-> Cardinality(upTo(i))]
           ranks == {rank[i] : i \in first}
           all == 1..Cardinality(first)
<1>1. DOMAIN calls = 1..Len(calls) /\ Len(calls) \in Nat /\ first \subseteq 1..Len(calls)
  BY DEF Graph!FirstAt
<1>2. IsFiniteSet(first) /\ Cardinality(first) \in Nat
  <2> HIDE DEF first
  <2>1. IsFiniteSet(1..Len(calls)) /\ first \in SUBSET (1..Len(calls))
    BY <1>1, FS_Interval
  <2>2. IsFiniteSet(first)
    BY <2>1, FS_Subset
  <2> QED BY <2>2, FS_CardinalityType
<1> HIDE DEF first
<1>3. \A i \in first : i \in Int
  BY <1>1
<1>4. \A i \in first : /\ IsFiniteSet(upTo(i)) /\ upTo(i) \subseteq first /\ i \in upTo(i)
                       /\ Cardinality(upTo(i)) \in Nat
                       /\ Cardinality(upTo(i)) <= Cardinality(first)
  <2>1. ASSUME NEW i \in first PROVE upTo(i) \in SUBSET first /\ i \in upTo(i)
    BY <1>3
  <2> QED BY <1>2, <2>1, FS_Subset, FS_CardinalityType
<1>5. ASSUME NEW i \in first PROVE rank[i] \in all
  <2>1. Cardinality(upTo(i)) # 0
    BY <1>4, FS_EmptySet
  <2>2. rank[i] = Cardinality(upTo(i))
    OBVIOUS
  <2> HIDE DEF upTo, rank
  <2> QED BY <1>2, <1>4, <2>1, <2>2
<1>6. ASSUME NEW i \in first, NEW k \in first, i < k PROVE rank[i] # rank[k]
  <2>1. upTo(i) \in SUBSET upTo(k) /\ k \notin upTo(i) /\ k \in upTo(k)
    BY <1>3, <1>6
  <2>2. Cardinality(upTo(i)) # Cardinality(upTo(k))
    BY <1>4, <2>1, FS_Subset
  <2>3. rank[i] = Cardinality(upTo(i)) /\ rank[k] = Cardinality(upTo(k))
    OBVIOUS
  <2> QED BY <2>2, <2>3
<1>7. rank \in Injection(first, ranks)
  <2>1. rank \in [first -> ranks]
    BY DEF ranks
  <2> HIDE DEF rank, ranks
  <2>2. \A i, k \in first : rank[i] = rank[k] => i = k
    BY <1>3, <1>6
  <2> QED BY <2>1, <2>2 DEF Injection, IsInjective
<1>8. ranks \in SUBSET all /\ IsFiniteSet(all) /\ Cardinality(all) = Cardinality(first)
  <2>1. ranks \in SUBSET all
    BY <1>5
  <2> DEFINE m == Cardinality(first)
  <2>2. m \in Nat
    BY <1>2
  <2> HIDE DEF m
  <2>3. IsFiniteSet(1..m) /\ Cardinality(1..m) = IF 1 > m THEN 0 ELSE m - 1 + 1
    BY <2>2, FS_Interval
  <2>4. Cardinality(1..m) = m
    BY <2>2, <2>3
  <2> QED BY <2>1, <2>3, <2>4 DEF m
<1>9. IsFiniteSet(ranks) /\ Cardinality(first) <= Cardinality(ranks)
  <2> HIDE DEF rank, ranks, all
  <2> QED BY <1>7, <1>8, FS_Injection, FS_Subset
<1>10. ranks = all
  <2>1. Cardinality(ranks) <= Cardinality(all) /\ Cardinality(ranks) \in Nat
    BY <1>8, <1>9, FS_Subset, FS_CardinalityType
  <2>2. Cardinality(all) = Cardinality(ranks)
    BY <1>2, <1>8, <1>9, <2>1
  <2> HIDE DEF all, ranks
  <2> QED BY <1>8, <2>2, FS_Subset
<1>11. ASSUME NEW n \in all PROVE Graph!Position(first, n) \in first
  <2>1. PICK i \in first : n = rank[i]
    BY <1>10
  <2>2. Cardinality({j \in first : j <= i}) = n
    BY <2>1
  <2> QED BY <2>2, SameOperators DEF Graph!Position
<1>12. /\ Graph!Unique(calls) = [n \in all |-> calls[Graph!Position(first, n)]]
       /\ DOMAIN Graph!Unique(calls) = all
  BY SameOperators DEF Graph!Unique, first
<1>13. ASSUME NEW n \in all
       PROVE  Graph!Position(first, n) \in DOMAIN calls /\ calls[Graph!Position(first, n)] \in S
  <2>1. Graph!Position(first, n) \in DOMAIN calls
    BY <1>1, <1>11
  <2> QED BY <2>1
<1>14. [n \in all |-> calls[Graph!Position(first, n)]] \in Seq(S)
  BY <1>2, <1>13
<1> QED BY <1>12, <1>13, <1>14

LEMMA ParallelPolicyInv ==
    ASSUME GraphInv, NEW w \in AgentWorkers, Graph!ParallelPolicy(w)
    PROVE  GraphInv'
<1> DEFINE s == mem[w].st
           next == Graph!JudgedBatch(s)
           unique == Graph!Unique(s.decision)
           pending == [i \in DOMAIN unique |->
                         [id |-> Graph!ActionId(s.results, i, unique[i]), call |-> unique[i]]]
           ahead == [s EXCEPT !.node = "parallel_execute", !.pending = pending]
           back == [Graph!ToModel(s) EXCEPT !.results = @ + 1]
<1>1. /\ mem[w].alive /\ s.node = "parallel_policy" /\ Graph!Advance(w, next)
      /\ UNCHANGED <<runRow, Graph!History, Graph!counters>>
  BY DEF Graph!ParallelPolicy, Graph!At
<1>2. CheckpointOK(s, confirmed, found) /\ s \in Graph!Checkpoint
  BY MemFacts
<1>3. CheckpointOK(next, confirmed, found) /\ next.calls = s.calls
  <2>1. next = IF Graph!ValidBatch(s, s.decision) THEN ahead ELSE back
    BY DEF Graph!JudgedBatch
  <2> HIDE DEF s, next
  <2>2. CASE ~Graph!ValidBatch(s, s.decision)
    <3> DEFINE t == Graph!ToModel(s)
    <3>1. /\ t \in Graph!Checkpoint /\ t.node = "executive" /\ t.urls = s.urls
          /\ t.decisions = s.decisions /\ t.calls = s.calls
      BY <1>2, ToModelFacts
    <3> HIDE DEF t
    <3>2. t.results + 1 \in Nat
      BY <3>1, CheckpointFacts
    <3>3. back = [t EXCEPT !.results = @ + 1]
      BY DEF t
    <3> HIDE DEF back
    <3>4. /\ back \in Graph!Checkpoint /\ back.node = "executive" /\ back.urls = s.urls
          /\ back.decisions = s.decisions /\ back.calls = s.calls
      BY <3>1, <3>2, <3>3 DEF Graph!Checkpoint
    <3> QED BY <1>2, <2>1, <2>2, <3>4 DEF CheckpointOK, Executes
  <2>3. CASE Graph!ValidBatch(s, s.decision)
    <3>1. s.decision \in Seq(Calls) /\ s.results \in Nat
      BY <1>2, CheckpointFacts
    <3>2. /\ unique \in Seq(Calls)
          /\ \A n \in DOMAIN unique : \E i \in DOMAIN s.decision : unique[n] = s.decision[i]
      BY <3>1, UniqueFacts
    <3> HIDE DEF unique
    <3>3. \A i \in DOMAIN s.decision : Risk(s.decision[i].tool) = "READ"
      BY <2>3, SameOperators DEF Graph!ValidBatch
    <3>4. DOMAIN unique = 1..Len(unique) /\ Len(unique) \in Nat
          /\ \A i \in DOMAIN unique : unique[i] \in Calls /\ i \in Nat
      BY <3>2
    <3>5. \A i \in DOMAIN unique : pending[i] \in Graph!Step /\ pending[i].call = unique[i]
      BY <3>1, <3>4, StepFacts
    <3>6. pending \in Seq(Graph!Step) /\ DOMAIN pending = DOMAIN unique
      <4>1. DOMAIN pending = DOMAIN unique
        OBVIOUS
      <4>2. pending = [i \in 1..Len(unique) |-> pending[i]]
        BY <3>4
      <4> HIDE DEF pending
      <4>3. [i \in 1..Len(unique) |-> pending[i]] \in Seq(Graph!Step)
        BY <3>4, <3>5
      <4> QED BY <4>1, <4>2, <4>3
    <3>7. \A i \in DOMAIN pending : Cleared(pending[i], confirmed, found)
      BY <3>2, <3>3, <3>5, <3>6 DEF Cleared
    <3> HIDE DEF pending
    <3>8. /\ ahead \in Graph!Checkpoint /\ ahead.pending = pending
          /\ ahead.node = "parallel_execute" /\ ahead.urls = s.urls
          /\ ahead.calls = s.calls /\ ahead.decisions = s.decisions
      BY <1>2, <3>6 DEF Graph!Checkpoint, Graph!Nodes
    <3> HIDE DEF ahead
    <3>9. CheckpointOK(ahead, confirmed, found)
      BY <1>2, <3>7, <3>8 DEF CheckpointOK, Executes
    <3> QED BY <2>1, <2>3, <3>8, <3>9
  <2> QED BY <2>2, <2>3
<1>4. Cardinality(Tried(mem[w])) = 0
  BY <1>1, NoneTried DEF Executes
<1> HIDE DEF next
<1>5. mem[w].st.calls + Cardinality(Tried(mem[w])) <= next.calls
  BY <1>3, <1>4, MemFacts
<1> QED BY <1>1, <1>3, <1>5, QuietAdvance


\* The user's confirmation is one more, the only one of this invocation; it is a stray
\* only when no interrupt was pending.
LEMMA ConfirmationInv ==
    ASSUME GraphInv, NEW w \in AgentWorkers, Graph!Confirmation(w)
    PROVE  GraphInv'
<1> DEFINE s == mem[w].st
           a == s.pending[1]
           yes == mem[w].given.answer = "confirm"
           c == [id |-> a.id, call |-> a.call, by |-> mem[w].n, asked |-> mem[w].given.to = {a}]
<1>1. /\ mem[w].alive /\ s.node = "confirmation" /\ mem[w].given # Graph!NoAnswer
      /\ Graph!Advance(w, IF yes THEN [s EXCEPT !.node = "execute"] ELSE Graph!Refused(s, a.call))
      /\ confirmed' = confirmed \cup (IF yes THEN {c} ELSE {})
      /\ UNCHANGED <<runRow, ledger, executed, found, lost, invocations, crashes, overlaps>>
  BY DEF Graph!Confirmation, Graph!At, Graph!counters
<1>2. CheckpointOK(s, confirmed, found) /\ s \in Graph!Checkpoint
  BY MemFacts
<1>3. Cardinality(Tried(mem[w])) = 0
  BY <1>1, NoneTried DEF Executes
<1>4. mem[w].st.calls + Cardinality(Tried(mem[w])) <= s.calls
  BY <1>3, MemFacts
<1>5. CASE ~yes
  <2> DEFINE next == Graph!Refused(s, a.call)
  <2>1. CheckpointOK(next, confirmed, found) /\ next.calls = s.calls
    BY <1>2, RefusedFacts
  <2>2. Graph!Advance(w, next) /\ UNCHANGED <<runRow, Graph!History, Graph!counters>>
    BY <1>1, <1>5 DEF Graph!History, Graph!counters
  <2> HIDE DEF next
  <2> QED BY <1>1, <1>4, <2>1, <2>2, QuietAdvance DEF s
<1>6. CASE yes
  <2> DEFINE next == [s EXCEPT !.node = "execute"]
             m == Graph!Running(mem[w].n, next, Graph!NoAnswer)
  <2>1. Graph!Writes(w, next, m) /\ confirmed' = confirmed \cup {c}
    BY <1>1, <1>6 DEF Graph!Advance
  <2>2. a \in Graph!Step /\ Len(s.pending) = 1 /\ DOMAIN s.pending = {1}
    <3>1. Len(s.pending) = 1
      BY <1>1, <1>2 DEF CheckpointOK
    <3>2. DOMAIN s.pending = {1}
      BY <1>2, <3>1, CheckpointFacts
    <3> QED BY <1>2, <3>1, <3>2, CheckpointFacts
  <2>3. mem[w].n \in Nat /\ mem[w].n \in 1..invocations
    BY <1>1, MemFacts
  <2>4. /\ c \in [id: Graph!ActionIds, call: Calls, by: Nat, asked: BOOLEAN]
        /\ c.id = a.id /\ c.call = a.call /\ c.by = mem[w].n
        /\ c.asked <=> mem[w].given.to = {a}
    <3> DEFINE asked == mem[w].given.to = {a}
    <3>1. asked \in BOOLEAN /\ a.id \in Graph!ActionIds /\ a.call \in Calls
      BY <2>2 DEF Graph!Step
    <3> HIDE DEF a, asked
    <3>2. /\ c \in [id: Graph!ActionIds, call: Calls, by: Nat, asked: BOOLEAN]
          /\ c.id = a.id /\ c.call = a.call /\ c.by = mem[w].n /\ c.asked = asked
      BY <2>3, <3>1 DEF asked
    <3> QED BY <3>2 DEF asked
  <2> HIDE DEF c
  <2>5. c \notin confirmed /\ \A d \in confirmed : d.by # c.by
    BY <1>1, <2>4 DEF GraphInv, ConfirmsOK
  <2>6. /\ next \in Graph!Checkpoint /\ next.node = "execute" /\ next.pending = s.pending
        /\ next.urls = s.urls /\ next.decisions = s.decisions /\ next.calls = s.calls
    BY <1>2 DEF Graph!Checkpoint, Graph!Nodes
  <2>7. Fresh(m, mem[w].n, next, Graph!NoAnswer)
    BY <2>3, <2>6, IdleFacts, RunningFacts
  <2> HIDE DEF m, next
  <2>8. /\ Moves(w) /\ mem'[w] = m /\ g' = next /\ asking' = FALSE
        /\ \A v \in AgentWorkers : v # w => mem'[v] = [mem[v] EXCEPT !.newest = FALSE]
    BY <2>1, WritesMoves
  <2>9. Grows
    BY <1>1, <2>1, NumberFacts DEF Grows
  <2>10. HistoryOK'
    <3>1. /\ IsFiniteSet(confirmed')
          /\ confirmed' \subseteq [id: Graph!ActionIds, call: Calls, by: Nat, asked: BOOLEAN]
          /\ \A d \in confirmed' : d.by \in 1..invocations
      <4>1. IsFiniteSet(confirmed')
        BY <2>1, FS_AddElement DEF GraphInv, HistoryOK
      <4> QED BY <2>1, <2>3, <2>4, <4>1 DEF GraphInv, HistoryOK
    <3>2. asking' \in BOOLEAN
      BY <2>8
    <3> QED BY <1>1, <3>1, <3>2 DEF GraphInv, HistoryOK
  <2>11. LedgerOK'
    BY <1>1, <2>1 DEF GraphInv, LedgerOK, Cleared
  <2>12. CheckpointOK(next, confirmed', found')
    <3>1. CheckpointOK(s, confirmed', found')
      BY <1>1, <1>2, <2>1, NumberFacts, CheckpointGrows
    <3>2. Cleared(s.pending[1], confirmed', found')
      BY <2>1, <2>4 DEF Cleared
    <3> HIDE DEF s, a
    <3> QED BY <2>2, <2>6, <3>1, <3>2 DEF CheckpointOK, Executes
  <2>13. InvocationOK(m, confirmed', found', DOMAIN ledger', invocations')
    BY <1>1, <2>3, <2>7, <2>12 DEF InvocationOK, Fresh
  <2>14. Invocations(mem', confirmed', found', DOMAIN ledger', invocations')
    <3>1. Goes(w)
      BY <1>1, <2>7, <2>8 DEF Goes, Fresh
    <3>2. found' \in BOOLEAN /\ invocations' \in Nat
      BY <1>1, NumberFacts
    <3> QED BY <2>8, <2>9, <2>13, <3>1, <3>2, InvocationsStep
  <2>15. HandlersOK(mem', executed')
    <3>1. m.st.calls + Cardinality(Tried(m)) = s.calls
      BY <2>6, <2>7, MemFacts DEF Fresh
    <3>2. mem'[w] \in Graph!Invocation /\ DOMAIN mem'[w].got = DOMAIN mem'[w].st.pending
      BY <2>7, <2>8 DEF Fresh
    <3> QED BY <1>1, <1>4, <2>7, <2>8, <3>1, <3>2, HandlersStep DEF Fresh
  <2>16. ConfirmsOK(mem', confirmed')
    <3>1. \A d, e \in confirmed' : d.by = e.by => d = e
      BY <2>1, <2>5 DEF GraphInv, ConfirmsOK
    <3>2. ASSUME NEW v \in AgentWorkers, mem'[v].alive, mem'[v].given # Graph!NoAnswer
          PROVE  \A d \in confirmed' : d.by # mem'[v].n
      <4>1. v # w
        BY <2>7, <2>8, <3>2 DEF Fresh
      <4>2. mem[v].alive /\ mem[v].given # Graph!NoAnswer /\ mem'[v].n = mem[v].n
        BY <2>8, <3>2, <4>1, OthersStay
      <4>3. mem[v].n # mem[w].n
        BY <1>1, <4>1, <4>2 DEF GraphInv, Invocations
      <4>4. \A d \in confirmed : d.by # mem[v].n
        BY <4>2 DEF GraphInv, ConfirmsOK
      <4> QED BY <2>1, <2>4, <4>2, <4>3, <4>4
    <3> QED BY <3>1, <3>2 DEF ConfirmsOK
  <2>17. ASSUME overlaps' = 0 PROVE AloneOK'
    <3>1. /\ AloneOK /\ HolderOK(mem[w]) /\ mem[w].st = g
          /\ runRow.holder = {w} /\ runRow.status = "open"
          /\ \A v \in AgentWorkers : v # w => ~mem[v].alive
      BY <1>1, <2>17, AloneFacts
    <3>2. \A v \in AgentWorkers : mem'[v].alive => v = w
      BY <2>8, <3>1, OthersStay
    <3>3. Cardinality(executed) <= g'.calls + 0 + lost
      BY <1>3, <2>6, <2>8, <3>1 DEF HolderOK
    <3>4. HolderOK(mem[w])'
      BY <1>1, <2>7, <2>8, <3>3 DEF HolderOK, Fresh
    <3>5. Cardinality(Strays') <= crashes
      <4>1. CASE asking
        <5>1. mem[w].given.to = {a}
          BY <1>1, <3>1, <4>1 DEF HolderOK, Graph!Question
        <5>2. c.asked
          BY <2>4, <5>1
        <5>3. Strays' = Strays
          BY <2>1, <5>2 DEF Strays
        <5> QED BY <3>1, <5>3 DEF AloneOK
      <4>2. CASE ~asking
        <5>1. Cardinality(Strays) < crashes
          BY <1>1, <3>1, <4>2 DEF HolderOK
        <5>2. Strays' = Strays \/ Strays' = Strays \cup {c}
          BY <2>1 DEF Strays
        <5>3. Cardinality(Strays \cup {c}) <= Cardinality(Strays) + 1
              /\ Cardinality(Strays \cup {c}) \in Nat
          <6>1. IsFiniteSet(Strays) /\ Cardinality(Strays) \in Nat
            BY NumberFacts
          <6> HIDE DEF c
          <6> DEFINE n == Cardinality(Strays)
          <6>2. Cardinality(Strays \cup {c}) = IF c \in Strays THEN n ELSE n + 1
            BY <6>1, FS_AddElement
          <6>3. n \in Nat
            BY <6>1
          <6> HIDE DEF n
          <6>4. Cardinality(Strays \cup {c}) <= n + 1 /\ Cardinality(Strays \cup {c}) \in Nat
            BY <6>2, <6>3
          <6> QED BY <6>4 DEF n
        <5> QED BY <5>1, <5>2, <5>3, NumberFacts
      <4> QED BY <4>1, <4>2
    <3>6. \A v \in AgentWorkers : mem'[v].alive =>
              runRow'.holder = {v} /\ runRow'.status = "open" /\ HolderOK(mem[v])'
      BY <1>1, <3>1, <3>2, <3>4
    <3>7. mem'[w].alive /\ Cardinality(executed) <= MaxToolCalls + lost
      BY <2>7, <2>8, <3>1 DEF AloneOK, Fresh
    <3> QED BY <1>1, <3>1, <3>5, <3>6, <3>7 DEF AloneOK
  <2>18. CheckpointOK(g', confirmed', found')
    BY <2>8, <2>12
  <2> QED BY <2>10, <2>11, <2>14, <2>15, <2>16, <2>17, <2>18 DEF GraphInv
<1> QED BY <1>5, <1>6

-----------------------------------------------------------------------------
(* Calls *)

\* Call i of worker w's node has got to a place: it is under way within the budget.
Got(w, i, place) ==
    /\ mem[w].alive /\ Executes(mem[w].st)
    /\ mem[w].st.calls + Len(mem[w].st.pending) <= MaxToolCalls
    /\ place \in Graph!Progress \ {"untried"}
    /\ i \in DOMAIN mem[w].st.pending
    /\ place = "claiming" => mem[w].got[i] = "untried"
    /\ mem' = [mem EXCEPT ![w].got[i] = place]

LEMMA GotFacts ==
    ASSUME GraphInv, NEW w \in AgentWorkers, NEW i, NEW place, Got(w, i, place)
    PROVE  /\ Moves(w) /\ mem'[w] \in Graph!Invocation
           /\ \A v \in AgentWorkers : v # w => mem'[v] = mem[v]
           /\ mem'[w].alive = mem[w].alive /\ mem'[w].n = mem[w].n /\ mem'[w].st = mem[w].st
           /\ mem'[w].newest = mem[w].newest /\ mem'[w].given = mem[w].given
           /\ DOMAIN mem'[w].got = DOMAIN mem[w].got
           /\ \A j \in DOMAIN mem[w].got :
                 mem'[w].got[j] = IF j = i THEN place ELSE mem[w].got[j]
           /\ DOMAIN mem'[w].got = DOMAIN mem'[w].st.pending
           /\ Tried(mem[w]) \subseteq Tried(mem'[w])
           /\ IsFiniteSet(Tried(mem'[w])) /\ Cardinality(Tried(mem'[w])) \in Nat
           /\ Cardinality(Tried(mem'[w])) <= Len(mem[w].st.pending)
           /\ Cardinality(Tried(mem[w])) <= Cardinality(Tried(mem'[w]))
<1> DEFINE got == [mem[w].got EXCEPT ![i] = place]
           m == [mem[w] EXCEPT !.got = got]
<1>1. /\ mem[w] \in Graph!Invocation /\ mem[w].got \in Seq(Graph!Progress)
      /\ DOMAIN mem[w].got = DOMAIN mem[w].st.pending
  BY MemFacts
<1>2. mem' = [mem EXCEPT ![w] = m]
  BY DEF Got
<1>3. /\ got \in Seq(Graph!Progress) /\ DOMAIN got = DOMAIN mem[w].got
      /\ \A j \in DOMAIN mem[w].got : got[j] = IF j = i THEN place ELSE mem[w].got[j]
  BY <1>1 DEF Got
<1>4. Tried(mem[w]) = {j \in DOMAIN got : mem[w].got[j] \notin {"untried", "claiming"}}
  BY <1>3 DEF Tried
<1>5. \A j \in DOMAIN got : mem[w].got[j] \notin {"untried", "claiming"}
         => got[j] \notin {"untried", "claiming"}
  BY <1>1, <1>3 DEF Got
<1> HIDE DEF got
<1>6. /\ m \in Graph!Invocation /\ m.got = got /\ m.alive = mem[w].alive /\ m.n = mem[w].n
      /\ m.st = mem[w].st /\ m.newest = mem[w].newest /\ m.given = mem[w].given
  BY <1>1, <1>3 DEF Graph!Invocation
<1> HIDE DEF m
<1>7. Moves(w) /\ mem'[w] = m /\ \A v \in AgentWorkers : v # w => mem'[v] = mem[v]
  BY <1>2, ExceptMoves
<1>8. Tried(mem[w]) \subseteq Tried(m)
  BY <1>4, <1>5, <1>6 DEF Tried
<1>9. DOMAIN m.got = DOMAIN m.st.pending
  BY <1>1, <1>3, <1>6
<1>10. /\ IsFiniteSet(Tried(m)) /\ Cardinality(Tried(m)) \in Nat
       /\ Cardinality(Tried(m)) <= Len(m.st.pending)
  BY <1>6, <1>9, TriedFacts
<1>11. Cardinality(Tried(mem[w])) <= Cardinality(Tried(m))
  BY <1>8, <1>10, FS_Subset
<1> QED BY <1>3, <1>6, <1>7, <1>8, <1>9, <1>10, <1>11

LEMMA GotInvocation ==
    ASSUME GraphInv, NEW w \in AgentWorkers, NEW i, NEW place, Got(w, i, place),
           NEW D, DOMAIN ledger \subseteq D, NEW f \in BOOLEAN, found => f,
           place \in {"running", "saving", "result"} => mem[w].st.pending[i].id \in D
    PROVE  InvocationOK(mem'[w], confirmed, f, D, invocations)
<1>1. /\ InvocationOK(mem[w], confirmed, found, DOMAIN ledger, invocations)
      /\ CheckpointOK(mem[w].st, confirmed, f)
  BY MemFacts, NumberFacts, CheckpointGrows
<1>2. /\ mem'[w] \in Graph!Invocation /\ mem'[w].alive = mem[w].alive /\ mem'[w].n = mem[w].n
      /\ mem'[w].st = mem[w].st /\ DOMAIN mem'[w].got = DOMAIN mem[w].got
      /\ \A j \in DOMAIN mem[w].got :
            mem'[w].got[j] = IF j = i THEN place ELSE mem[w].got[j]
      /\ DOMAIN mem'[w].got = DOMAIN mem'[w].st.pending
  BY GotFacts, MemFacts
<1>3. \A j \in DOMAIN mem'[w].got : mem'[w].got[j] # "untried" =>
          Executes(mem'[w].st) /\ mem'[w].st.calls + Len(mem'[w].st.pending) <= MaxToolCalls
  BY <1>2 DEF Got
<1>4. ASSUME NEW j \in DOMAIN mem'[w].got, mem'[w].got[j] \in {"running", "saving", "result"}
      PROVE  mem'[w].st.pending[j].id \in D
  <2>1. CASE j = i
    <3>1. place \in {"running", "saving", "result"}
      BY <1>2, <1>4, <2>1
    <3> QED BY <1>2, <2>1, <3>1
  <2>2. CASE j # i
    <3>1. j \in DOMAIN mem[w].got /\ mem[w].got[j] \in {"running", "saving", "result"}
      BY <1>2, <1>4, <2>2
    <3> QED BY <1>1, <1>2, <3>1 DEF InvocationOK
  <2> QED BY <2>1, <2>2
<1>5. mem'[w].alive /\ mem'[w].n \in 1..invocations
  BY <1>1, <1>2 DEF InvocationOK, Got
<1> QED BY <1>1, <1>2, <1>3, <1>4, <1>5 DEF InvocationOK

\* Whoever holds the run alone counts the handlers it starts.
LEMMA GotAlone ==
    ASSUME GraphInv, overlaps = 0, NEW w \in AgentWorkers, NEW i, NEW place, Got(w, i, place),
           UNCHANGED <<g, asking, runRow, confirmed, lost, crashes, overlaps>>,
           Cardinality(executed') \in Nat,
           Cardinality(executed') + Cardinality(Tried(mem[w])) <=
              Cardinality(executed) + Cardinality(Tried(mem'[w]))
    PROVE  AloneOK'
<1>1. /\ AloneOK /\ HolderOK(mem[w]) /\ mem[w].st = g /\ mem[w].newest
      /\ runRow.holder = {w} /\ runRow.status = "open"
      /\ \A v \in AgentWorkers : v # w => ~mem[v].alive
  BY AloneFacts DEF Got
<1>2. /\ mem'[w].alive /\ mem'[w].st = mem[w].st /\ mem'[w].newest = mem[w].newest
      /\ mem'[w].given = mem[w].given /\ \A v \in AgentWorkers : v # w => mem'[v] = mem[v]
      /\ Cardinality(Tried(mem'[w])) \in Nat
      /\ Cardinality(Tried(mem'[w])) <= Len(mem[w].st.pending)
  BY GotFacts DEF Got
<1> DEFINE ran == Cardinality(executed)
           ran2 == Cardinality(executed')
           tried == Cardinality(Tried(mem[w]))
           tried2 == Cardinality(Tried(mem'[w]))
           calls == g.calls
           len == Len(mem[w].st.pending)
<1>3. /\ ran \in Nat /\ ran2 \in Nat /\ tried \in Nat /\ tried2 \in Nat /\ calls \in Nat
      /\ lost \in Nat /\ len \in Nat /\ MaxToolCalls \in Nat
  BY <1>2, NumberFacts, MemFacts, CheckpointFacts
<1>4. ran <= calls + tried + lost /\ ran2 + tried <= ran + tried2 /\ tried2 <= len
      /\ calls + len <= MaxToolCalls
  BY <1>1, <1>2 DEF HolderOK, Got
<1> HIDE DEF ran, ran2, tried, tried2, calls, len
<1>5. ran2 <= calls + tried2 + lost /\ ran2 <= MaxToolCalls + lost
  BY <1>3, <1>4
<1>6. Strays' = Strays
  BY DEF Strays
<1>7. HolderOK(mem[w])'
  BY <1>1, <1>2, <1>5, <1>6 DEF HolderOK, ran2, tried2, calls
<1>8. \A v \in AgentWorkers : mem'[v].alive =>
          runRow'.holder = {v} /\ runRow'.status = "open" /\ HolderOK(mem[v])'
  BY <1>1, <1>2, <1>7
<1> QED BY <1>1, <1>2, <1>5, <1>6, <1>8 DEF AloneOK, ran2

\* A call gets on without its handler being started.
LEMMA GotInv ==
    ASSUME GraphInv, NEW w \in AgentWorkers, NEW i, NEW place, Got(w, i, place),
           UNCHANGED <<g, asking, runRow, executed, confirmed, Graph!counters>>,
           place \in {"running", "saving", "result"} =>
              mem[w].st.pending[i].id \in DOMAIN ledger',
           DOMAIN ledger \subseteq DOMAIN ledger', found => found', HistoryOK', LedgerOK'
    PROVE  GraphInv'
<1>1. UNCHANGED <<lost, invocations, crashes, overlaps>> /\ found' \in BOOLEAN
  BY DEF Graph!counters, HistoryOK
<1>2. InvocationOK(mem'[w], confirmed', found', DOMAIN ledger', invocations')
  BY <1>1, GotInvocation
<1>3. /\ Moves(w) /\ mem'[w].alive = mem[w].alive /\ mem'[w].n = mem[w].n
      /\ mem'[w].st = mem[w].st /\ mem'[w].given = mem[w].given
      /\ Cardinality(Tried(mem[w])) <= Cardinality(Tried(mem'[w]))
      /\ Cardinality(Tried(mem'[w])) \in Nat
  BY GotFacts
<1>4. mem[w].st.calls + Cardinality(Tried(mem[w])) <=
         mem'[w].st.calls + Cardinality(Tried(mem'[w]))
  BY <1>3, MemFacts
<1>5. Grows
  BY <1>1, NumberFacts DEF Grows
<1>6. CheckpointOK(g', confirmed', found')
  BY <1>1, CheckpointGrows, NumberFacts DEF GraphInv
<1>7. ASSUME overlaps' = 0 PROVE AloneOK'
  <2>1. Cardinality(executed') \in Nat
        /\ Cardinality(executed') + Cardinality(Tried(mem[w])) <=
              Cardinality(executed) + Cardinality(Tried(mem'[w]))
    BY <1>3, NumberFacts, MemFacts
  <2> QED BY <1>1, <1>7, <2>1, GotAlone
<1> QED BY <1>2, <1>3, <1>4, <1>5, <1>6, <1>7, WorkerStep DEF Got

LEMMA CallFacts ==
    ASSUME GraphInv, NEW w \in AgentWorkers, NEW i \in DOMAIN mem[w].st.pending,
           NEW place, Graph!AtCall(w, i, place)
    PROVE  /\ mem[w].alive /\ Executes(mem[w].st) /\ mem[w].got[i] = place
           /\ mem[w].st.pending[i] \in Graph!Step
           /\ Cleared(mem[w].st.pending[i], confirmed, found)
           /\ place # "untried" => mem[w].st.calls + Len(mem[w].st.pending) <= MaxToolCalls
           /\ place \in {"running", "saving", "result"} =>
                 mem[w].st.pending[i].id \in DOMAIN ledger
<1>1. mem[w].alive /\ Executes(mem[w].st) /\ mem[w].got[i] = place
  BY DEF Graph!AtCall, Graph!Executing, Graph!At, Executes
<1>2. mem[w].st.pending[i] \in Graph!Step
  BY MemFacts, CheckpointFacts
<1>3. Cleared(mem[w].st.pending[i], confirmed, found)
  BY <1>1, MemFacts DEF CheckpointOK
<1>4. InvocationOK(mem[w], confirmed, found, DOMAIN ledger, invocations)
      /\ i \in DOMAIN mem[w].got
  BY MemFacts
<1> QED BY <1>1, <1>2, <1>3, <1>4 DEF InvocationOK

\* A call gets on, and nothing else changes.
LEMMA QuietGot ==
    ASSUME GraphInv, NEW w \in AgentWorkers, NEW i, NEW place, Got(w, i, place),
           UNCHANGED <<g, asking, runRow, Graph!History, Graph!counters>>,
           place \in {"running", "saving", "result"} =>
              mem[w].st.pending[i].id \in DOMAIN ledger
    PROVE  GraphInv'
<1>1. UNCHANGED <<g, asking, runRow, ledger, executed, confirmed, found, lost, invocations,
                  crashes, overlaps>>
  BY DEF Graph!History, Graph!counters
<1>2. HistoryOK' /\ LedgerOK'
  <2>1. asking' \in BOOLEAN
    BY <1>1, NumberFacts
  <2> QED BY <1>1, <2>1, NumberFacts, HistorySame
<1>3. UNCHANGED <<g, asking, runRow, executed, confirmed, Graph!counters>>
  BY <1>1 DEF Graph!counters
<1> QED BY <1>1, <1>2, <1>3, GotInv

LEMMA ChecksInv ==
    ASSUME GraphInv, NEW w \in AgentWorkers, NEW i \in DOMAIN mem[w].st.pending,
           Graph!BeginClaim(w, i) \/ Graph!BeginFinish(w, i)
    PROVE  GraphInv'
<1>1. CASE Graph!BeginClaim(w, i)
  <2> DEFINE place == IF w \in runRow.holder THEN "claiming" ELSE "raised"
  <2>1. /\ Graph!AtCall(w, i, "untried") /\ mem' = [mem EXCEPT ![w].got[i] = place]
        /\ mem[w].st.calls + Len(mem[w].st.pending) <= MaxToolCalls
        /\ UNCHANGED <<g, asking, runRow, Graph!History, Graph!counters>>
    BY <1>1 DEF Graph!BeginClaim, Graph!Checks, Graph!Got, Graph!WithinToolBudget
  <2>2. place \in {"claiming", "raised"}
    OBVIOUS
  <2>3. place \in Graph!Progress \ {"untried"}
    BY <2>2 DEF Graph!Progress
  <2> HIDE DEF place
  <2>4. Got(w, i, place)
    BY <2>1, <2>3, CallFacts DEF Got
  <2> QED BY <2>1, <2>2, <2>4, QuietGot
<1>2. CASE Graph!BeginFinish(w, i)
  <2> DEFINE place == IF w \in runRow.holder THEN "saving" ELSE "raised"
  <2>1. /\ Graph!AtCall(w, i, "running") /\ mem' = [mem EXCEPT ![w].got[i] = place]
        /\ UNCHANGED <<g, asking, runRow, Graph!History, Graph!counters>>
    BY <1>2 DEF Graph!BeginFinish, Graph!Checks, Graph!Got
  <2>2. place \in {"saving", "raised"}
    OBVIOUS
  <2>3. place \in Graph!Progress \ {"untried"}
    BY <2>2 DEF Graph!Progress
  <2> HIDE DEF place
  <2>4. Got(w, i, place)
    BY <2>1, <2>2, <2>3, CallFacts DEF Got
  <2>5. mem[w].st.pending[i].id \in DOMAIN ledger
    BY <2>1, CallFacts
  <2> QED BY <2>1, <2>4, <2>5, QuietGot
<1> QED BY <1>1, <1>2

LEMMA CachedInv ==
    ASSUME GraphInv, NEW w \in AgentWorkers, NEW i \in DOMAIN mem[w].st.pending,
           Graph!Cached(w, i)
    PROVE  GraphInv'
<1>1. /\ Graph!AtCall(w, i, "claiming") /\ mem[w].st.pending[i].id \in DOMAIN ledger
      /\ mem' = [mem EXCEPT ![w].got[i] = "result"]
      /\ UNCHANGED <<g, asking, runRow, Graph!History, Graph!counters>>
  BY DEF Graph!Cached, Graph!Got
<1>2. Got(w, i, "result")
  BY <1>1, CallFacts DEF Got, Graph!Progress
<1> QED BY <1>1, <1>2, QuietGot

LEMMA ThrowInv ==
    ASSUME GraphInv, NEW w \in AgentWorkers, NEW i \in DOMAIN mem[w].st.pending,
           Graph!Throw(w, i)
    PROVE  GraphInv'
<1>1. PICK place \in {"claiming", "running", "saving"} : Graph!AtCall(w, i, place)
  BY DEF Graph!Throw
<1>2. /\ mem' = [mem EXCEPT ![w].got[i] = "raised"]
      /\ UNCHANGED <<g, asking, runRow, Graph!History, Graph!counters>>
  BY DEF Graph!Throw, Graph!Got
<1>3. Got(w, i, "raised")
  BY <1>1, <1>2, CallFacts DEF Got, Graph!Progress
<1> QED BY <1>2, <1>3, QuietGot

LEMMA FinishInv ==
    ASSUME GraphInv, NEW w \in AgentWorkers, NEW i \in DOMAIN mem[w].st.pending,
           NEW url \in BOOLEAN, Graph!Finish(w, i, url)
    PROVE  GraphInv'
<1> DEFINE a == mem[w].st.pending[i]
           row == [ledger[a.id] EXCEPT !.state = "DONE", !.url = url]
<1>1. /\ Graph!AtCall(w, i, "saving") /\ ledger' = [ledger EXCEPT ![a.id] = row]
      /\ found' = (found \/ url) /\ mem' = [mem EXCEPT ![w].got[i] = "result"]
      /\ UNCHANGED <<g, asking, runRow, executed, confirmed, Graph!counters>>
  BY DEF Graph!Finish, Graph!Got
<1>2. a.id \in DOMAIN ledger
  BY <1>1, CallFacts
<1>3. Got(w, i, "result")
  BY <1>1, CallFacts DEF Got, Graph!Progress
<1>4. ledger[a.id] \in Graph!Execution
  BY <1>2 DEF GraphInv, HistoryOK
<1>5. row \in Graph!Execution /\ row.call = ledger[a.id].call /\ row.url = url
  BY <1>4 DEF Graph!Execution
<1> HIDE DEF a, row
<1>6. DOMAIN ledger' = DOMAIN ledger
  BY <1>1
<1>7. \A id \in DOMAIN ledger : ledger'[id] = IF id = a.id THEN row ELSE ledger[id]
  BY <1>1
<1>8. UNCHANGED <<lost, invocations, crashes, overlaps>> /\ found' \in BOOLEAN
      /\ (found => found')
  BY <1>1, NumberFacts DEF Graph!counters
<1>9. HistoryOK'
  <2>1. \A id \in DOMAIN ledger' : ledger'[id] \in Graph!Execution
    BY <1>5, <1>6, <1>7 DEF GraphInv, HistoryOK
  <2> QED BY <1>1, <1>6, <1>8, <2>1 DEF GraphInv, HistoryOK
<1>10. LedgerOK'
  <2>1. \A e \in executed : e.id \in DOMAIN ledger' /\ ledger'[e.id].call = e.call
    BY <1>5, <1>6, <1>7 DEF GraphInv, LedgerOK
  <2>2. \A e \in executed : Cleared(e, confirmed', found')
    BY <1>1, <1>8 DEF GraphInv, LedgerOK, Cleared
  <2>3. \A id \in DOMAIN ledger' : ledger'[id].url => found'
    BY <1>1, <1>5, <1>6, <1>7, <1>8 DEF GraphInv, LedgerOK
  <2> QED BY <1>1, <2>1, <2>2, <2>3 DEF LedgerOK
<1> QED BY <1>1, <1>2, <1>3, <1>6, <1>8, <1>9, <1>10, GotInv DEF a

\* The handler runs under an id that is new or stands for this very call; the node
\* has one call more under way.
LEMMA StartInv ==
    ASSUME GraphInv, NEW w \in AgentWorkers, NEW i \in DOMAIN mem[w].st.pending,
           Graph!Start(w, i)
    PROVE  GraphInv'
<1> DEFINE a == mem[w].st.pending[i]
           n == mem[w].n
           row == Graph!Row(w, a)
           e == [id |-> a.id, call |-> a.call, by |-> n]
<1>1. /\ Graph!AtCall(w, i, "claiming") /\ mem' = [mem EXCEPT ![w].got[i] = "running"]
      /\ a.id \in DOMAIN ledger => ledger[a.id].call = a.call
      /\ ledger' = [id \in DOMAIN ledger \cup {a.id} |->
                      IF id = a.id THEN row ELSE ledger[id]]
      /\ executed' = executed \cup {e}
      /\ UNCHANGED <<g, asking, runRow, confirmed, found, lost, invocations, crashes, overlaps>>
  BY DEF Graph!Start, Graph!Got, Graph!SameAction, Graph!counters
<1>2. /\ mem[w].alive /\ mem[w].got[i] = "claiming" /\ a \in Graph!Step
      /\ Cleared(a, confirmed, found) /\ Got(w, i, "running")
  <2>1. /\ mem[w].alive /\ mem[w].got[i] = "claiming" /\ a \in Graph!Step
        /\ Cleared(a, confirmed, found)
        /\ Executes(mem[w].st) /\ mem[w].st.calls + Len(mem[w].st.pending) <= MaxToolCalls
    BY <1>1, CallFacts
  <2>2. Got(w, i, "running")
    BY <1>1, <2>1 DEF Got, Graph!Progress
  <2>3. QED
    BY <2>1, <2>2
<1>3. n \in Nat /\ n \in 1..invocations
  BY <1>2, MemFacts
<1>4. a.id \in Graph!ActionIds /\ a.call \in Calls
  BY <1>2 DEF Graph!Step
<1>5. row \in Graph!Execution /\ row.call = a.call /\ ~row.url
  BY <1>3, <1>4 DEF Graph!Row, Graph!Execution
<1>6. /\ e \in [id: Graph!ActionIds, call: Calls, by: Nat]
      /\ e.id = a.id /\ e.call = a.call /\ e.by = n
  BY <1>3, <1>4
<1>7. Cleared(e, confirmed, found)
  BY <1>2, <1>6 DEF Cleared
<1>8. /\ DOMAIN ledger' = DOMAIN ledger \cup {a.id} /\ ledger'[a.id] = row
      /\ \A id \in DOMAIN ledger : id # a.id => ledger'[id] = ledger[id]
  BY <1>1
<1> HIDE DEF a, row, e, n
<1>9. HistoryOK'
  <2>1. /\ DOMAIN ledger' \subseteq Graph!ActionIds
        /\ \A id \in DOMAIN ledger' : ledger'[id] \in Graph!Execution
    BY <1>4, <1>5, <1>8 DEF GraphInv, HistoryOK
  <2>2. /\ executed' \subseteq [id: Graph!ActionIds, call: Calls, by: Nat]
        /\ \A f \in executed' : f.by \in 1..invocations
    BY <1>1, <1>3, <1>6 DEF GraphInv, HistoryOK
  <2>3. IsFiniteSet(executed')
    BY <1>1, FS_AddElement DEF GraphInv, HistoryOK
  <2>4. asking' \in BOOLEAN
    BY <1>1, NumberFacts
  <2> QED BY <1>1, <2>1, <2>2, <2>3, <2>4 DEF GraphInv, HistoryOK
<1>10. LedgerOK'
  <2>1. ASSUME NEW f \in executed'
        PROVE  /\ f.id \in DOMAIN ledger' /\ ledger'[f.id].call = f.call
               /\ Cleared(f, confirmed', found')
    <3>1. CASE f = e
      BY <1>1, <1>5, <1>6, <1>7, <1>8, <3>1
    <3>2. CASE f \in executed
      <4>1. f.id \in DOMAIN ledger /\ ledger[f.id].call = f.call /\ Cleared(f, confirmed, found)
        BY <3>2 DEF GraphInv, LedgerOK
      <4> QED BY <1>1, <1>5, <1>8, <4>1
    <3> QED BY <1>1, <2>1, <3>1, <3>2
  <2>2. \A id \in DOMAIN ledger' : ledger'[id].url => found'
    BY <1>1, <1>5, <1>8 DEF GraphInv, LedgerOK
  <2> QED BY <2>1, <2>2 DEF LedgerOK
<1>11. /\ Moves(w) /\ mem'[w] \in Graph!Invocation
       /\ \A v \in AgentWorkers : v # w => mem'[v] = mem[v]
       /\ mem'[w].alive /\ mem'[w].n = n /\ mem'[w].st = mem[w].st
       /\ mem'[w].given = mem[w].given
       /\ Cardinality(Tried(mem'[w])) \in Nat
       /\ Cardinality(Tried(mem'[w])) <= Len(mem[w].st.pending)
       /\ mem[w].st.calls + Len(mem[w].st.pending) <= MaxToolCalls
  BY <1>2, GotFacts DEF Got, n
<1>12. Cardinality(Tried(mem'[w])) = Cardinality(Tried(mem[w])) + 1
  <2>1. /\ DOMAIN mem'[w].got = DOMAIN mem[w].got /\ i \in DOMAIN mem[w].got
        /\ \A j \in DOMAIN mem[w].got :
              mem'[w].got[j] = IF j = i THEN "running" ELSE mem[w].got[j]
    BY <1>2, GotFacts, MemFacts
  <2>2. Tried(mem'[w]) = Tried(mem[w]) \cup {i} /\ i \notin Tried(mem[w])
    BY <1>2, <2>1 DEF Tried
  <2> QED BY <2>2, MemFacts, FS_AddElement
<1>13. /\ Cardinality(executed') \in Nat
       /\ Cardinality(executed') <= Cardinality(executed) + 1
  <2>1. IsFiniteSet(executed)
    BY DEF GraphInv, HistoryOK
  <2>2. Cardinality(executed') = Cardinality(executed)
        \/ Cardinality(executed') = Cardinality(executed) + 1
    BY <1>1, <2>1, FS_AddElement
  <2> QED BY <2>2, NumberFacts
<1>14. HandlersOK(mem', executed')
  <2>1. \A k : k # n => By(executed', k) = By(executed, k)
    BY <1>1, <1>6 DEF By
  <2>2. By(executed', n) = By(executed, n) \cup {e}
    BY <1>1, <1>6 DEF By
  <2>3. IsFiniteSet(By(executed, n))
    BY FS_Subset DEF GraphInv, HistoryOK, By
  <2> DEFINE before == Cardinality(By(executed, n))
             after == Cardinality(By(executed', n))
             calls == mem[w].st.calls
             tried == Cardinality(Tried(mem[w]))
             tried2 == Cardinality(Tried(mem'[w]))
             len == Len(mem[w].st.pending)
  <2>4. before \in Nat /\ (after = before \/ after = before + 1)
    BY <2>2, <2>3, FS_AddElement, FS_CardinalityType
  <2>5. before <= calls + tried
    BY <1>2 DEF GraphInv, HandlersOK, n
  <2>6. tried2 = tried + 1 /\ calls + len <= MaxToolCalls /\ tried2 <= len
    BY <1>11, <1>12
  <2>7. calls \in Nat /\ tried \in Nat /\ len \in Nat /\ MaxToolCalls \in Nat
    BY MemFacts, NumberFacts, CheckpointFacts
  <2> HIDE DEF before, after, calls, tried, tried2, len
  <2>8. after <= calls + tried2 /\ after <= MaxToolCalls
    BY <2>4, <2>5, <2>6, <2>7
  <2>9. \A k \in Nat : Cardinality(By(executed', k)) <= MaxToolCalls
    BY <2>1, <2>8 DEF after, GraphInv, HandlersOK
  <2>10. ASSUME NEW v \in AgentWorkers, mem'[v].alive
         PROVE  Cardinality(By(executed', mem'[v].n)) <=
                   mem'[v].st.calls + Cardinality(Tried(mem'[v]))
    <3>1. CASE v = w
      BY <1>11, <2>8, <3>1 DEF after, calls, tried2
    <3>2. CASE v # w
      <4>1. mem'[v] = mem[v] /\ mem[v].n # n
        BY <1>2, <1>11, <2>10, <3>2 DEF n, GraphInv, Invocations
      <4>2. Cardinality(By(executed, mem[v].n)) <= mem[v].st.calls + Cardinality(Tried(mem[v]))
        BY <2>10, <4>1 DEF GraphInv, HandlersOK
      <4> QED BY <2>1, <4>1, <4>2
    <3> QED BY <3>1, <3>2
  <2> QED BY <2>9, <2>10 DEF HandlersOK
<1>15. /\ DOMAIN ledger \subseteq DOMAIN ledger' /\ mem[w].st.pending[i].id \in DOMAIN ledger'
       /\ found' \in BOOLEAN /\ (found => found')
  BY <1>1, <1>8, NumberFacts DEF a
<1>16. InvocationOK(mem'[w], confirmed', found', DOMAIN ledger', invocations')
  BY <1>1, <1>2, <1>15, GotInvocation
<1>17. Invocations(mem', confirmed', found', DOMAIN ledger', invocations')
  <2>1. Goes(w)
    BY <1>2, <1>11 DEF Goes, n
  <2>2. Grows /\ invocations' \in Nat
    BY <1>1, <1>15, NumberFacts DEF Grows
  <2> QED BY <1>11, <1>15, <1>16, <2>1, <2>2, InvocationsStep
<1>18. ConfirmsOK(mem', confirmed')
  BY <1>1, <1>2, <1>11, ConfirmsStep DEF n
<1>19. CheckpointOK(g', confirmed', found')
  BY <1>1 DEF GraphInv
<1>20. ASSUME overlaps' = 0 PROVE AloneOK'
  <2>1. Cardinality(executed') + Cardinality(Tried(mem[w])) <=
           Cardinality(executed) + Cardinality(Tried(mem'[w]))
    BY <1>12, <1>13, NumberFacts, MemFacts
  <2> QED BY <1>1, <1>2, <1>13, <1>20, <2>1, GotAlone
<1> QED BY <1>9, <1>10, <1>14, <1>17, <1>18, <1>19, <1>20 DEF GraphInv

LEMMA CollectInv ==
    ASSUME GraphInv, NEW w \in AgentWorkers, Graph!Collect(w)
    PROVE  GraphInv'
<1> DEFINE s == mem[w].st
           got == mem[w].got
           calls == [i \in DOMAIN s.pending |-> s.pending[i].call]
           batch == s.node = "parallel_execute"
           cited == \E i \in DOMAIN calls : got[i] = "result" /\ ledger[s.pending[i].id].url
           next == Graph!WithResults(s, got)
<1>1. /\ mem[w].alive /\ Executes(s) /\ s.calls + Len(s.pending) <= MaxToolCalls
      /\ UNCHANGED <<Graph!History, Graph!counters>>
      /\ Graph!Raise(w) \/ (Graph!Advance(w, next) /\ UNCHANGED runRow)
  BY DEF Graph!Collect, Graph!AllGot, Graph!Executing, Graph!At, Graph!WithinToolBudget, Executes
<1>2. /\ CheckpointOK(s, confirmed, found) /\ s \in Graph!Checkpoint
      /\ InvocationOK(mem[w], confirmed, found, DOMAIN ledger, invocations)
      /\ DOMAIN s.pending = 1..Len(s.pending) /\ Len(s.pending) \in Nat
      /\ DOMAIN got = DOMAIN s.pending
      /\ Cardinality(Tried(mem[w])) <= Len(s.pending) /\ Cardinality(Tried(mem[w])) \in Nat
  BY MemFacts, CheckpointFacts
<1>3. CASE Graph!Raise(w)
  BY <1>1, <1>3, RaiseInv
<1>4. CASE Graph!Advance(w, next) /\ UNCHANGED runRow
  <2>1. DOMAIN calls = 1..Len(s.pending) /\ Len(calls) = Len(s.pending)
    BY <1>2
  <2>2. Graph!Searches(calls) \in Nat
    <3> DEFINE places == {i \in DOMAIN calls : Graph!IsSearch(calls[i])}
    <3>1. IsFiniteSet(1..Len(s.pending)) /\ places \in SUBSET (1..Len(s.pending))
      <4>1. IsFiniteSet(1..Len(s.pending))
        <5> DEFINE len == Len(s.pending)
        <5>1. len \in Nat
          BY <1>2
        <5> HIDE DEF len
        <5>2. IsFiniteSet(1..len)
          BY <5>1, FS_Interval
        <5> QED BY <5>2 DEF len
      <4>2. places \in SUBSET (1..Len(s.pending))
        BY <2>1
      <4> QED BY <4>1, <4>2
    <3>2. Graph!Searches(calls) = Cardinality(places)
      BY SameOperators DEF Graph!Searches
    <3> HIDE DEF places
    <3>3. IsFiniteSet(places)
      BY <3>1, FS_Subset
    <3> QED BY <3>2, <3>3, FS_CardinalityType
  <2> DEFINE t == Graph!ToModel(s)
             results == t.results + Len(calls) + (IF batch THEN 1 ELSE 0)
             searches == t.searches + Graph!Searches(calls) * (IF batch THEN 2 ELSE 1)
             count == t.calls + Len(calls)
             urls == t.urls \/ cited
  <2>3. /\ t \in Graph!Checkpoint /\ t.node = "executive" /\ t.urls = s.urls
        /\ t.decisions = s.decisions /\ t.calls = s.calls
    BY <1>2, ToModelFacts
  <2>4. next = [t EXCEPT !.results = results, !.searches = searches, !.urls = urls,
                         !.calls = count]
    BY DEF Graph!WithResults
  <2> HIDE DEF t
  <2>5. results \in Nat /\ searches \in Nat /\ count \in Nat /\ urls \in BOOLEAN
    <3>1. t.results \in Nat /\ t.searches \in Nat /\ t.calls \in Nat /\ t.urls \in BOOLEAN
      BY <2>3, CheckpointFacts
    <3>2. Len(calls) \in Nat
      BY <1>2, <2>1
    <3> HIDE DEF calls, batch, cited
    <3>3. results \in Nat /\ count \in Nat
      BY <3>1, <3>2
    <3>4. searches \in Nat
      BY <2>2, <3>1
    <3>5. urls \in BOOLEAN
      OBVIOUS
    <3> QED BY <3>3, <3>4, <3>5
  <2>6. count = s.calls + Len(s.pending)
    BY <2>1, <2>3
  <2>7. urls => found
    <3>1. ASSUME NEW i \in DOMAIN calls, got[i] = "result", ledger[s.pending[i].id].url
          PROVE  found
      <4>1. s.pending[i].id \in DOMAIN ledger
        BY <1>2, <2>1, <3>1 DEF InvocationOK
      <4> QED BY <3>1, <4>1 DEF GraphInv, LedgerOK
    <3>2. s.urls => found
      BY <1>2 DEF CheckpointOK
    <3> QED BY <2>3, <3>1, <3>2
  <2> HIDE DEF results, searches, count, urls, next
  <2>8. /\ next \in Graph!Checkpoint /\ next.node = "executive" /\ next.urls = urls
        /\ next.calls = count /\ next.decisions = s.decisions
    BY <2>3, <2>4, <2>5 DEF Graph!Checkpoint
  <2>9. CheckpointOK(next, confirmed, found)
    BY <1>1, <1>2, <2>6, <2>7, <2>8 DEF CheckpointOK, Executes
  <2>10. mem[w].st.calls + Cardinality(Tried(mem[w])) <= next.calls
    <3>1. s.calls \in Nat
      BY MemFacts
    <3> QED BY <1>2, <2>6, <2>8, <3>1
  <2> HIDE DEF s
  <2> QED BY <1>1, <1>4, <2>9, <2>10, QuietAdvance
<1> QED BY <1>1, <1>3, <1>4

LEMMA GraphNext == GraphInv /\ [Graph!Next]_Graph!vars => GraphInv'
<1> SUFFICES ASSUME GraphInv, [Graph!Next]_Graph!vars PROVE GraphInv'
  OBVIOUS
<1>1. CASE UNCHANGED Graph!vars
  <2>1. UNCHANGED <<g, asking, mem, runRow, ledger, executed, confirmed, found, lost,
                    invocations, crashes, overlaps>>
    BY <1>1 DEF Graph!vars, Graph!counters
  <2>2. HistoryOK'
    BY <2>1 DEF GraphInv, HistoryOK
  <2>3. LedgerOK'
    BY <2>1 DEF GraphInv, LedgerOK
  <2>4. AloneOK => AloneOK'
    BY <2>1 DEF AloneOK, HolderOK, Strays
  <2> QED BY <2>1, <2>2, <2>3, <2>4 DEF GraphInv
<1>2. ASSUME NEW response \in {"confirm", "other"}, Graph!UserAnswers(response) PROVE GraphInv'
  BY <1>2, UserAnswersInv
<1>3. ASSUME NEW w \in AgentWorkers, Graph!NodeStep(w) PROVE GraphInv'
  <2>1. ASSUME NEW route \in {"respond", "ask_user"}, Graph!Decide(w, route, <<>>)
        PROVE  GraphInv'
    <3>1. <<>> \in Seq(Calls)
      OBVIOUS
    <3> QED BY <2>1, <3>1, DecideInv
  <2>2. ASSUME NEW call \in Calls, Graph!Decide(w, "policy", <<call>>) PROVE GraphInv'
    <3>1. <<call>> \in Seq(Calls) /\ Len(<<call>>) = 1
      OBVIOUS
    <3> QED BY <2>2, <3>1, DecideInv
  <2>3. ASSUME NEW calls \in Batches, Graph!Decide(w, "parallel_policy", calls) PROVE GraphInv'
    <3>1. calls \in Seq(Calls)
      BY CallsAssumption
    <3> QED BY <2>3, <3>1, DecideInv
  <2> QED
    BY <1>3, <2>1, <2>2, <2>3, DecideFailsInv, RespondInv, InterruptInv, AskUserInv, PolicyInv,
       ConfirmationInv, ParallelPolicyInv, CollectInv DEF Graph!NodeStep
<1>4. ASSUME NEW w \in AgentWorkers, NEW i \in DOMAIN mem[w].st.pending, Graph!CallStep(w, i)
      PROVE  GraphInv'
  BY <1>4, ChecksInv, StartInv, CachedInv, ThrowInv, FinishInv DEF Graph!CallStep
<1> QED
  BY <1>1, <1>2, <1>3, <1>4, InvokeInv, ContinueInv, InspectInv, GraphCrashInv DEF Graph!Next

LEMMA GraphAlways == Graph!Spec => []GraphInv
<1> QED BY GraphInit, GraphNext, PTL DEF Graph!Spec

\* The checkpoint, the invocations, the row of the run, the ledger and the histories
\* keep their types.
THEOREM GraphTypeCorrect == Graph!Spec => []Graph!TypeOK
<1>1. GraphInv => Graph!TypeOK
  <2> SUFFICES ASSUME GraphInv PROVE Graph!TypeOK
    OBVIOUS
  <2>1. mem \in [AgentWorkers -> Graph!Invocation]
    BY DEF GraphInv, Invocations
  <2>2. \A w \in AgentWorkers : DOMAIN mem[w].got = DOMAIN mem[w].st.pending
    BY MemFacts
  <2> QED BY <2>1, <2>2, NumberFacts DEF GraphInv, HistoryOK, Graph!TypeOK
<1> QED BY <1>1, GraphAlways, PTL

\* OneCallPerAction: a run that starts again numbers its actions from 0 again, perhaps
\* while a worker that was taken over is still at its own; the ledger's comparison keeps
\* every action id to the one call that ran under it, for any calls, batches, budgets,
\* workers and crashes.
THEOREM ActionsAreSingleCalls == Graph!Spec => []OneCallPerAction
<1>1. GraphInv => OneCallPerAction
  BY DEF GraphInv, LedgerOK, OneCallPerAction
<1> QED BY <1>1, GraphAlways, PTL

\* SensitiveIsConfirmed: no sensitive call reaches its handler without the confirmation
\* or the evidence the policy asks for, an invocation confirms one call at most, and as
\* long as no live worker was taken over only a crash makes a confirmation of an answer
\* that was given to something else, one each.
THEOREM SensitiveCallsConfirmed == Graph!Spec => []SensitiveIsConfirmed
<1>1. GraphInv => SensitiveIsConfirmed
  <2> SUFFICES ASSUME GraphInv PROVE SensitiveIsConfirmed
    OBVIOUS
  <2>1. \A e \in executed : Cleared(e, confirmed, found)
    BY DEF GraphInv, LedgerOK
  <2>2. \A c, d \in confirmed : c.by = d.by => c = d
    BY DEF GraphInv, ConfirmsOK
  <2>3. overlaps = 0 => Cardinality({c \in confirmed : ~c.asked}) <= crashes
    BY DEF GraphInv, AloneOK, Strays
  <2> QED BY <2>1, <2>2, <2>3 DEF SensitiveIsConfirmed, Cleared
<1> QED BY <1>1, GraphAlways, PTL

\* BudgetsKept: no invocation runs more handlers than the tool budget, whatever others
\* write over its checkpoints; and as long as no live worker was taken over the budget
\* bounds the run over all its restarts, but for the handlers of a node whose checkpoint
\* a crash lost.
THEOREM BudgetsAreKept == Graph!Spec => []BudgetsKept
<1>1. GraphInv => BudgetsKept
  <2> SUFFICES ASSUME GraphInv PROVE BudgetsKept
    OBVIOUS
  <2>1. g.decisions <= MaxDecisions /\ g.calls <= MaxToolCalls
    BY DEF GraphInv, CheckpointOK
  <2>2. \A n \in 1..invocations : Cardinality({e \in executed : e.by = n}) <= MaxToolCalls
    BY NumberFacts DEF GraphInv, HandlersOK, By
  <2>3. overlaps = 0 => Cardinality(executed) <= MaxToolCalls + lost
    BY DEF GraphInv, AloneOK
  <2> QED BY <2>1, <2>2, <2>3 DEF BudgetsKept
<1> QED BY <1>1, GraphAlways, PTL
=============================================================================
