------------------------- MODULE AutomationsProofs -------------------------
(***************************************************************************)
(* Reminders and automations proved correct for any automations, workers,    *)
(* trigger times, leases and stale clock readings: occurrence and job always  *)
(* tell the same story, an occurrence that succeeded is durable, and an ended  *)
(* automation stays as it ended.  The last part is about the push deliveries    *)
(* that the notifications of an occurrence lead to, for any number of endpoints. *)
(***************************************************************************)
EXTENDS Automations, PushTable, FiniteSetTheorems, TLAPS

Push == INSTANCE PushDelivery

-----------------------------------------------------------------------------
(* The inductive invariant *)

\* The stages in which a worker has a claim.
Busy == {"claimed", "loaded", "triggered", "failing"}

\* What any statement may do to a row of automations: it advances version whenever
\* it changes anything, and does not change an ended one.
AutoStep(row, row2) ==
    /\ row.version <= row2.version
    /\ row.version = row2.version => row2 = row
    /\ row.status \in Ended => row2 = row

\* A row a worker has read is older than the row or equal to it.
Read(seen, row) ==
    /\ seen.version <= row.version
    /\ seen.version = row.version => seen = row

WorkerOK(a, autos, ran) ==
    /\ a.pc \in Busy => a.slot \in Slots
    /\ a.pc = "triggered" => a.slot \in ran
    /\ a.pc \in {"loaded", "triggered"} => Read(a.seen, autos[Automation(a.slot)])

SlotOK(o, row) ==
    /\ row.status \in {"READY", "CLAIMED"} => o = "MATERIALIZED"
    /\ o = "MATERIALIZED" => row.status \in {"READY", "CLAIMED"} \/ row.exhausted

WorkersInv == \A w \in Workers : WorkerOK(at[w], auto, runs)

SlotsInv == \A s \in Slots : SlotOK(occ[s], jobs[s])

AutomationsInv == TypeOK /\ WorkersInv /\ SlotsInv /\ SucceededIsDurable

-----------------------------------------------------------------------------
(* What the statements do to one row *)

LEMMA UnclaimedFacts ==
    ASSUME NEW row \in Row(Workers), NEW status \in JobStatus
    PROVE  /\ Unclaimed(row, status) \in Row(Workers)
           /\ Unclaimed(row, status).status = status
           /\ Unclaimed(row, status).exhausted = row.exhausted
<1> DEFINE zero == 0
           new == [row EXCEPT !.status = status, !.owner = Nobody, !.lease = zero]
<1>1. zero \in Int
  OBVIOUS
<1>2. Unclaimed(row, status) = new
  BY DEF Unclaimed, zero
<1> HIDE DEF zero
<1>3. new \in Row(Workers)
  BY <1>1 DEF Row
<1>4. new.status = status /\ new.exhausted = row.exhausted
  BY DEF Row
<1>5. QED
  BY <1>2, <1>3, <1>4

\* requeue_expired touches claimed rows only, and makes them READY or, with the
\* deliveries used up, FAILED and exhausted.
LEMMA RequeueRowFacts ==
    ASSUME NEW row \in Row(Workers), NEW d \in 0 .. Lag
    PROVE  /\ RequeueRow(row, d) \in Row(Workers)
           /\ \/ RequeueRow(row, d) = row
              \/ /\ row.status = "CLAIMED"
                 /\ \/ RequeueRow(row, d).status = "READY"
                    \/ RequeueRow(row, d).status = "FAILED" /\ RequeueRow(row, d).exhausted
<1> DEFINE free == Unclaimed(row, "READY")
           failed == Unclaimed(row, "FAILED")
           wait == -d
<1>0. wait \in Int
  BY JobTableAssumption
<1>1. free \in Row(Workers) /\ free.status = "READY"
  BY UnclaimedFacts DEF JobStatus
<1>2. failed \in Row(Workers) /\ failed.status = "FAILED"
  BY UnclaimedFacts DEF JobStatus
<1>3. \/ RequeueRow(row, d) = row
      \/ row.status = "CLAIMED" /\ RequeueRow(row, d) = [free EXCEPT !.wait = wait]
      \/ row.status = "CLAIMED" /\ RequeueRow(row, d) = [failed EXCEPT !.exhausted = TRUE]
  BY DEF RequeueRow, Expired
<1> HIDE DEF free, failed, wait
<1>4. [free EXCEPT !.wait = wait] \in Row(Workers) /\ [free EXCEPT !.wait = wait].status = "READY"
  BY <1>0, <1>1 DEF Row
<1>5. /\ [failed EXCEPT !.exhausted = TRUE] \in Row(Workers)
      /\ [failed EXCEPT !.exhausted = TRUE].status = "FAILED"
      /\ [failed EXCEPT !.exhausted = TRUE].exhausted
  BY <1>2 DEF Row
<1>6. QED
  BY <1>3, <1>4, <1>5

LEMMA ClaimRowFacts ==
    ASSUME NEW row \in Row(Workers), NEW w \in Workers, NEW d \in 0 .. Lag
    PROVE  /\ ClaimRow(row, w, d) \in Row(Workers)
           /\ ClaimRow(row, w, d).status = "CLAIMED"
           /\ ClaimRow(row, w, d).epoch \in Nat
<1> DEFINE zero == 0
           epoch == row.epoch + 1
           attempts == row.attempts + 1
           lease == LeaseTicks - d
           new == [row EXCEPT !.status = "CLAIMED", !.owner = w, !.epoch = epoch,
                              !.attempts = attempts, !.lease = lease, !.wait = zero]
<1>1. zero \in Int /\ epoch \in Nat /\ attempts \in Nat /\ lease \in Int
  BY JobTableAssumption DEF Row
<1>2. ClaimRow(row, w, d) = new
  BY DEF ClaimRow
<1> HIDE DEF zero, epoch, attempts, lease
<1>3. new \in Row(Workers)
  BY <1>1 DEF Row, JobStatus
<1>4. new.status = "CLAIMED" /\ new.epoch = epoch
  BY DEF Row
<1>5. QED
  BY <1>1, <1>2, <1>3, <1>4

LEMMA ReleaseRowFacts ==
    ASSUME NEW row \in Row(Workers), NEW delay \in Int, NEW d \in 0 .. Lag
    PROVE  /\ ReleaseRow(row, delay, d) \in Row(Workers)
           /\ ReleaseRow(row, delay, d).status = "READY"
<1> DEFINE free == Unclaimed(row, "READY")
           wait == delay - d
<1>1. wait \in Int
  BY JobTableAssumption
<1>2. free \in Row(Workers) /\ free.status = "READY"
  BY UnclaimedFacts DEF JobStatus
<1>3. ReleaseRow(row, delay, d) = [free EXCEPT !.wait = wait]
  BY DEF ReleaseRow
<1> HIDE DEF free, wait
<1>4. QED
  BY <1>1, <1>2, <1>3 DEF Row

LEMMA AgeRowFacts ==
    ASSUME NEW row \in Row(Workers)
    PROVE  /\ AgeRow(row) \in Row(Workers)
           /\ AgeRow(row).status = row.status /\ AgeRow(row).exhausted = row.exhausted
<1> DEFINE lease == IF row.status = "CLAIMED" /\ row.lease > -(Lag + 1)
                    THEN row.lease - 1 ELSE row.lease
           wait == IF row.status = "READY" /\ row.wait > -Lag THEN row.wait - 1 ELSE row.wait
<1>1. lease \in Int /\ wait \in Int
  BY JobTableAssumption DEF Row
<1>2. AgeRow(row) = [row EXCEPT !.lease = lease, !.wait = wait]
  BY DEF AgeRow
<1> HIDE DEF lease, wait
<1>3. QED
  BY <1>1, <1>2 DEF Row

LEMMA NewRowFacts == /\ NoRow \in Row(Workers) /\ NoRow.status = "ABSENT"
                     /\ NewRow \in Row(Workers) /\ NewRow.status = "READY"
<1>1. NoRow \in Row(Workers) /\ NoRow.status = "ABSENT"
  BY DEF NoRow, Row, JobStatus
<1>2. NewRow \in Row(Workers) /\ NewRow.status = "READY"
  BY <1>1 DEF NewRow, Row, JobStatus
<1>3. QED
  BY <1>1, <1>2

\* Every method of an automation obeys AutoStep.
LEMMA AutoRowFacts ==
    ASSUME NEW row \in AutoRow
    PROVE  /\ AutoStep(row, row)
           /\ Completed(row) \in AutoRow /\ AutoStep(row, Completed(row))
           /\ Completed(row) # row => row.status = "ACTIVE"
           /\ CancelledAuto(row) \in AutoRow /\ AutoStep(row, CancelledAuto(row))
           /\ row.status = "ACTIVE" /\ row.next \in 1 .. MaxSlots =>
                 Triggered(row) \in AutoRow /\ AutoStep(row, Triggered(row))
<1> DEFINE next == row.version + 1
<1>0. row.version \in Nat /\ next \in Nat /\ next > row.version /\ row.status \in AutoStatus
  BY DEF AutoRow
<1> HIDE DEF next
<1>1. ASSUME NEW st \in AutoStatus, row.status \notin Ended
      PROVE  /\ [row EXCEPT !.status = st, !.version = next] \in AutoRow
             /\ AutoStep(row, [row EXCEPT !.status = st, !.version = next])
  <2> DEFINE new == [row EXCEPT !.status = st, !.version = next]
  <2>1. new \in AutoRow /\ new.version = next
    BY <1>0, <1>1 DEF AutoRow
  <2> HIDE DEF new
  <2>2. AutoStep(row, new)
    BY <1>0, <1>1, <2>1 DEF AutoStep
  <2>3. QED
    BY <2>1, <2>2 DEF new
<1>2. AutoStep(row, row)
  BY <1>0 DEF AutoStep
<1>3. /\ Completed(row) \in AutoRow /\ AutoStep(row, Completed(row))
      /\ Completed(row) # row => row.status = "ACTIVE"
  BY <1>1, <1>2 DEF Completed, AutoStatus, Ended, next
<1>4. CancelledAuto(row) \in AutoRow /\ AutoStep(row, CancelledAuto(row))
  BY <1>1, <1>2 DEF CancelledAuto, AutoStatus, next
<1>5. ASSUME row.status = "ACTIVE", row.next \in 1 .. MaxSlots
      PROVE  Triggered(row) \in AutoRow /\ AutoStep(row, Triggered(row))
  <2> DEFINE at2 == IF row.type = "once" THEN 0 ELSE row.next + 1
             new == [row EXCEPT !.next = at2, !.version = next]
  <2>1. at2 \in 0 .. (MaxSlots + 1)
    BY <1>5, AutomationsAssumption
  <2>2. Triggered(row) = new
    BY DEF Triggered, next
  <2> HIDE DEF at2
  <2>3. new \in AutoRow /\ new.version = next
    BY <1>0, <2>1 DEF AutoRow
  <2> HIDE DEF new
  <2>4. AutoStep(row, new)
    BY <1>0, <1>5, <2>3 DEF AutoStep, Ended
  <2>5. QED
    BY <2>2, <2>3, <2>4
<1>6. QED
  BY <1>2, <1>3, <1>4, <1>5

-----------------------------------------------------------------------------
(* What a step leaves of the invariant *)

\* No step changes an ended automation, and none forgets a run.
Frame == (\A a \in Autos : AutoStep(auto[a], auto'[a])) /\ runs \subseteq runs'

LEMMA SlotFacts ==
    /\ \A s \in Slots : Automation(s) \in Autos
    /\ \A a \in Autos : Due(a) => DueSlot(a) \in Slots /\ Automation(DueSlot(a)) = a
  BY DEF Slots, Automation, Due, DueSlot

LEMMA AutosStay ==
    ASSUME TypeOK, UNCHANGED <<auto, runs>>
    PROVE  Frame
  BY AutoRowFacts DEF TypeOK, Frame

\* What a worker knows outlives the steps of others.
LEMMA WorkerKept ==
    ASSUME TypeOK, TypeOK', Frame, NEW v \in Workers, WorkerOK(at[v], auto, runs)
    PROVE  WorkerOK(at[v], auto', runs')
<1>1. at[v].pc \in Busy => at[v].slot \in Slots
  BY DEF WorkerOK
<1>2. at[v].pc = "triggered" => at[v].slot \in runs'
  BY DEF WorkerOK, Frame
<1>3. ASSUME at[v].pc \in {"loaded", "triggered"}
      PROVE  Read(at[v].seen, auto'[Automation(at[v].slot)])
  <2> DEFINE a == Automation(at[v].slot)
  <2>1. a \in Autos
    BY <1>1, <1>3, SlotFacts DEF Busy
  <2>2. at[v].seen \in AutoRow /\ auto[a] \in AutoRow /\ auto'[a] \in AutoRow
    BY <2>1 DEF TypeOK, Worker
  <2>3. Read(at[v].seen, auto[a]) /\ AutoStep(auto[a], auto'[a])
    BY <1>3, <2>1 DEF WorkerOK, Frame
  <2> HIDE DEF a
  <2>4. /\ at[v].seen.version \in Nat /\ auto[a].version \in Nat /\ auto'[a].version \in Nat
    BY <2>2 DEF AutoRow
  <2>5. Read(at[v].seen, auto'[a])
    BY <2>3, <2>4 DEF Read, AutoStep
  <2>6. QED
    BY <2>5 DEF a
<1>4. QED
  BY <1>1, <1>2, <1>3 DEF WorkerOK

\* A step that one worker makes, or none.
LEMMA WorkersKept ==
    ASSUME AutomationsInv, TypeOK', Frame,
           \A v \in Workers : at'[v] = at[v] \/ WorkerOK(at'[v], auto', runs')
    PROVE  WorkersInv'
<1>1. ASSUME NEW v \in Workers
      PROVE  WorkerOK(at'[v], auto', runs')
  BY WorkerKept DEF AutomationsInv, WorkersInv
<1>2. QED
  BY <1>1 DEF WorkersInv

\* A worker that gives up its claim, or does not have one yet.
LEMMA IdleFacts ==
    /\ Idle \in Worker /\ Idle.pc = "idle" /\ NoAuto \in AutoRow /\ NoAuto.version = 0
    /\ \A a \in Worker : a.pc \in {"idle", "reconciling"} => \A x, y : WorkerOK(a, x, y)
<1>1. NoAuto \in AutoRow /\ NoAuto.version = 0
  BY AutomationsAssumption DEF NoAuto, AutoRow, AutoStatus
<1>2. Idle \in Worker /\ Idle.pc = "idle"
  BY <1>1 DEF Idle, Worker
<1>3. \A a \in Worker : a.pc \in {"idle", "reconciling"} => \A x, y : WorkerOK(a, x, y)
  BY DEF WorkerOK, Busy
<1>4. QED
  BY <1>1, <1>2, <1>3

LEMMA ReturnFacts ==
    ASSUME TypeOK, NEW w \in Workers, Return(w)
    PROVE  /\ at' \in [Workers -> Worker]
           /\ \A v \in Workers : at'[v] = at[v] \/ WorkerOK(at'[v], auto', runs')
<1>1. at \in [Workers -> Worker] /\ at' = [at EXCEPT ![w] = Idle]
  BY DEF TypeOK, Return
<1>2. QED
  BY <1>1, IdleFacts

\* A worker goes on with its claim.
LEMMA OnwardFacts ==
    ASSUME TypeOK, NEW w \in Workers, NEW new \in Worker, at' = [at EXCEPT ![w] = new],
           WorkerOK(new, auto', runs')
    PROVE  /\ at' \in [Workers -> Worker]
           /\ \A v \in Workers : at'[v] = at[v] \/ WorkerOK(at'[v], auto', runs')
<1>1. at \in [Workers -> Worker]
  BY DEF TypeOK
<1>2. QED
  BY <1>1

\* Only the slot s and its job change.
LEMMA OneSlot ==
    ASSUME AutomationsInv, NEW s \in Slots, NEW o, NEW row \in Row(Workers), SlotOK(o, row),
           occ' \in [Slots -> Settled \cup {"NONE", "MATERIALIZED"}],
           occ'[s] = o, \A t \in Slots \ {s} : occ'[t] = occ[t],
           jobs' = [jobs EXCEPT ![s] = row]
    PROVE  jobs' \in [Slots -> Row(Workers)] /\ SlotsInv'
<1>1. jobs \in [Slots -> Row(Workers)] /\ SlotsInv
  BY DEF AutomationsInv, TypeOK
<1>2. jobs' \in [Slots -> Row(Workers)] /\ jobs'[s] = row /\ \A t \in Slots \ {s} : jobs'[t] = jobs[t]
  BY <1>1
<1>3. SlotsInv'
  BY <1>1, <1>2 DEF SlotsInv
<1>4. QED
  BY <1>2, <1>3

\* Only jobs change.
LEMMA OnlyJobs ==
    ASSUME AutomationsInv, UNCHANGED <<auto, taskOpen, occ, intents, runs, changes>>,
           at' \in [Workers -> Worker],
           \A v \in Workers : at'[v] = at[v] \/ WorkerOK(at'[v], auto', runs'),
           jobs' \in [Slots -> Row(Workers)], SlotsInv'
    PROVE  AutomationsInv' /\ Frame
<1>1. TypeOK'
  BY DEF AutomationsInv, TypeOK
<1>2. Frame
  BY AutosStay DEF AutomationsInv
<1>3. WorkersInv'
  BY <1>1, <1>2, WorkersKept
<1>4. SucceededIsDurable'
  BY DEF AutomationsInv, SucceededIsDurable
<1>5. QED
  BY <1>1, <1>2, <1>3, <1>4 DEF AutomationsInv

\* Only what a worker does changes.
LEMMA OnlyWorker ==
    ASSUME AutomationsInv, UNCHANGED <<auto, taskOpen, occ, jobs, intents, runs, changes>>,
           at' \in [Workers -> Worker],
           \A v \in Workers : at'[v] = at[v] \/ WorkerOK(at'[v], auto', runs')
    PROVE  AutomationsInv' /\ Frame
<1>1. jobs' \in [Slots -> Row(Workers)] /\ SlotsInv'
  BY DEF AutomationsInv, TypeOK, SlotsInv
<1>2. QED
  BY <1>1, OnlyJobs

-----------------------------------------------------------------------------
(* Users and the scheduler *)

\* Only the automation a changes.
LEMMA OneAuto ==
    ASSUME AutomationsInv, NEW a \in Autos, NEW row \in AutoRow, AutoStep(auto[a], row),
           auto' = [auto EXCEPT ![a] = row], changes' \in 0 .. MaxChanges,
           UNCHANGED <<taskOpen, occ, jobs, intents, runs, at>>
    PROVE  AutomationsInv' /\ Frame
<1>1. TypeOK /\ auto \in [Autos -> AutoRow]
  BY DEF AutomationsInv, TypeOK
<1>2. TypeOK'
  BY <1>1 DEF TypeOK
<1>3. \A b \in Autos : AutoStep(auto[b], auto'[b])
  BY <1>1, AutoRowFacts
<1>4. Frame
  BY <1>3 DEF Frame
<1>5. WorkersInv'
  BY <1>2, <1>4, WorkersKept
<1>6. SlotsInv' /\ SucceededIsDurable'
  BY DEF AutomationsInv, SlotsInv, SucceededIsDurable
<1>7. QED
  BY <1>2, <1>4, <1>5, <1>6 DEF AutomationsInv

LEMMA UserInv ==
    ASSUME AutomationsInv, NEW a \in Autos, UserStep(a)
    PROVE  AutomationsInv' /\ Frame
<1>0. auto[a] \in AutoRow /\ changes \in 0 .. MaxChanges /\ TypeOK
  BY DEF AutomationsInv, TypeOK
<1>1. ASSUME NEW type \in Types, Create(a, type)
      PROVE  AutomationsInv' /\ Frame
  <2> DEFINE one == 1
             new == [type |-> type, status |-> IF type = "condition" THEN "PAUSED" ELSE "ACTIVE",
                     next |-> one, version |-> one]
  <2>1. /\ auto[a] = NoAuto /\ auto' = [auto EXCEPT ![a] = new]
        /\ UNCHANGED <<taskOpen, occ, jobs, intents, runs, at, changes>>
    BY <1>1 DEF Create
  <2>2. one \in 0 .. (MaxSlots + 1) /\ one \in Nat /\ one > 0
    BY AutomationsAssumption
  <2> HIDE DEF one
  <2>3. new \in AutoRow /\ new.version = one
    BY <2>2 DEF AutoRow, AutoStatus
  <2>4. AutoStep(auto[a], new)
    BY <2>1, <2>2, <2>3, IdleFacts DEF AutoStep, NoAuto, Ended
  <2> HIDE DEF new
  <2>5. QED
    BY <1>0, <2>1, <2>3, <2>4, OneAuto
<1>2. ASSUME NEW row \in AutoRow, AutoStep(auto[a], row), ChangeTo(a, row)
      PROVE  AutomationsInv' /\ Frame
  <2>1. changes' \in 0 .. MaxChanges
    BY <1>0, <1>2, AutomationsAssumption DEF ChangeTo
  <2>2. QED
    BY <1>2, <2>1, OneAuto DEF ChangeTo
<1>3. ASSUME NEW st \in {"PAUSED", "ACTIVE"}, auto[a].status \notin Ended,
             ChangeTo(a, [auto[a] EXCEPT !.status = st, !.version = auto[a].version + 1])
      PROVE  AutomationsInv' /\ Frame
  <2> DEFINE next == auto[a].version + 1
             new == [auto[a] EXCEPT !.status = st, !.version = next]
  <2>1. auto[a].version \in Nat /\ next \in Nat /\ next > auto[a].version
    BY <1>0 DEF AutoRow
  <2>2. ChangeTo(a, new)
    BY <1>3
  <2> HIDE DEF next
  <2>3. new \in AutoRow /\ new.version = next
    BY <1>0, <2>1 DEF AutoRow, AutoStatus
  <2> HIDE DEF new
  <2>4. AutoStep(auto[a], new)
    BY <1>3, <2>1, <2>3 DEF AutoStep
  <2>5. QED
    BY <1>2, <2>2, <2>3, <2>4
<1>4. CASE Pause(a) \/ Resume(a)
  BY <1>3, <1>4 DEF Pause, Resume, Ended
<1>5. CASE Cancel(a)
  BY <1>0, <1>2, <1>5, AutoRowFacts DEF Cancel
<1>6. CASE SwitchTask(a)
  <2>1. /\ UNCHANGED <<auto, occ, jobs, intents, runs, at, changes>>
        /\ taskOpen' \in [Autos -> BOOLEAN]
    BY <1>0, <1>6 DEF SwitchTask, TypeOK
  <2>2. TypeOK'
    BY <1>0, <2>1 DEF TypeOK
  <2>3. Frame
    BY <1>0, <2>1, AutosStay
  <2>4. WorkersInv'
    BY <2>1, <2>2, <2>3, WorkersKept
  <2>5. SlotsInv' /\ SucceededIsDurable'
    BY <2>1 DEF AutomationsInv, SlotsInv, SucceededIsDurable
  <2>6. QED
    BY <2>2, <2>3, <2>4, <2>5 DEF AutomationsInv
<1>7. QED
  BY <1>1, <1>4, <1>5, <1>6 DEF UserStep

LEMMA ProcessDueInv ==
    ASSUME AutomationsInv, NEW S \in SUBSET Autos, ProcessDue(S)
    PROVE  AutomationsInv' /\ Frame
<1> DEFINE fired == {DueSlot(a) : a \in {b \in S : Materializes(b)}}
<1>1. /\ TypeOK /\ SlotsInv /\ SucceededIsDurable
      /\ \A a \in S : Due(a)
      /\ occ' = [s \in Slots |-> IF s \in fired THEN "MATERIALIZED" ELSE occ[s]]
      /\ jobs' = [s \in Slots |-> IF s \in fired THEN NewRow ELSE jobs[s]]
      /\ auto' = [a \in Autos |->
            CASE a \notin S -> auto[a]
              [] a \in S /\ ~taskOpen[a] -> CancelledAuto(auto[a])
              [] a \in S /\ Materializes(a) -> Triggered(auto[a])
              [] OTHER -> auto[a]]
      /\ UNCHANGED <<taskOpen, intents, runs, at, changes>>
  BY DEF ProcessDue, AutomationsInv
<1>2. \A s \in fired : s \in Slots /\ occ[s] = "NONE"
  BY <1>1, SlotFacts DEF Materializes
<1> HIDE DEF fired
<1>3. ASSUME NEW a \in Autos
      PROVE  auto'[a] \in AutoRow /\ AutoStep(auto[a], auto'[a])
  <2>1. auto[a] \in AutoRow
    BY <1>1 DEF TypeOK
  <2>2. /\ auto'[a] \in {auto[a], CancelledAuto(auto[a]), Triggered(auto[a])}
        /\ auto'[a] = Triggered(auto[a]) =>
              \/ auto'[a] \in {auto[a], CancelledAuto(auto[a])}
              \/ auto[a].status = "ACTIVE" /\ auto[a].next \in 1 .. MaxSlots
    BY <1>1 DEF Due
  <2>3. QED
    BY <2>1, <2>2, AutoRowFacts
<1>4. \A s \in Slots : SlotOK(occ'[s], jobs'[s])
  BY <1>1, NewRowFacts DEF SlotsInv, SlotOK
<1>5. TypeOK'
  <2>1. auto' \in [Autos -> AutoRow]
    BY <1>1, <1>3
  <2>2. occ' \in [Slots -> Settled \cup {"NONE", "MATERIALIZED"}]
    BY <1>1 DEF TypeOK
  <2>3. jobs' \in [Slots -> Row(Workers)]
    BY <1>1, NewRowFacts DEF TypeOK
  <2>4. QED
    BY <1>1, <2>1, <2>2, <2>3 DEF TypeOK
<1>6. Frame
  BY <1>1, <1>3 DEF Frame
<1>7. WorkersInv'
  BY <1>1, <1>5, <1>6, WorkersKept
<1>8. SucceededIsDurable'
  BY <1>1, <1>2 DEF SucceededIsDurable
<1>9. QED
  BY <1>4, <1>5, <1>6, <1>7, <1>8 DEF AutomationsInv, SlotsInv

-----------------------------------------------------------------------------
(* Claiming, requeueing and reconciling *)

LEMMA RequeuedFacts ==
    ASSUME AutomationsInv, NEW d \in 0 .. Lag, NEW s \in Slots
    PROVE  /\ Requeued(d)[s] = RequeueRow(jobs[s], d)
           /\ Requeued(d)[s] \in Row(Workers) /\ SlotOK(occ[s], Requeued(d)[s])
<1>0. jobs[s] \in Row(Workers)
  BY DEF AutomationsInv, TypeOK
<1>1. SlotOK(occ[s], jobs[s])
  BY DEF AutomationsInv, SlotsInv
<1>2. Requeued(d)[s] = RequeueRow(jobs[s], d)
  BY DEF Requeued
<1>3. PICK row \in Row(Workers) : row = RequeueRow(jobs[s], d)
  BY <1>0, RequeueRowFacts
<1>4. \/ row = jobs[s]
      \/ /\ jobs[s].status = "CLAIMED"
         /\ \/ row.status = "READY"
            \/ row.status = "FAILED" /\ row.exhausted
  BY <1>0, <1>3, RequeueRowFacts
<1>5. SlotOK(occ[s], row)
  BY <1>1, <1>4 DEF SlotOK
<1>6. QED
  BY <1>2, <1>3, <1>5

LEMMA ScanInv ==
    ASSUME AutomationsInv, NEW w \in Workers, NEW d \in 0 .. Lag, NEW s \in Slots \cup {NoSlot},
           Scan(w, s, d)
    PROVE  AutomationsInv' /\ Frame
<1> DEFINE job(t) == IF t = s THEN ClaimRow(Requeued(d)[t], w, d) ELSE Requeued(d)[t]
           epoch == IF s = NoSlot THEN 0 ELSE jobs'[s].epoch
           new == [Idle EXCEPT !.pc = "reconciling", !.slot = s, !.epoch = epoch]
<1>1. /\ TypeOK
      /\ s # NoSlot => Claimable(Requeued(d)[s], d)
      /\ jobs' = [t \in Slots |-> job(t)]
      /\ at' = [at EXCEPT ![w] = new]
      /\ UNCHANGED <<auto, taskOpen, occ, intents, runs, changes>>
  BY DEF Scan, AutomationsInv
<1>2. ASSUME NEW t \in Slots
      PROVE  job(t) \in Row(Workers) /\ SlotOK(occ[t], job(t))
  <2>1. Requeued(d)[t] \in Row(Workers) /\ SlotOK(occ[t], Requeued(d)[t])
    BY RequeuedFacts
  <2>2. CASE t # s
    BY <2>1, <2>2
  <2>3. CASE t = s
    <3>1. t # NoSlot
      BY DEF Slots, NoSlot
    <3>2. Requeued(d)[t].status = "READY"
      BY <1>1, <2>3, <3>1 DEF Claimable
    <3>3. job(t) \in Row(Workers) /\ job(t).status = "CLAIMED"
      BY <2>1, <2>3, ClaimRowFacts
    <3> HIDE DEF job
    <3>4. SlotOK(occ[t], job(t))
      BY <2>1, <3>2, <3>3 DEF SlotOK
    <3>5. QED
      BY <3>3, <3>4
  <2>4. QED
    BY <2>2, <2>3
<1> HIDE DEF job
<1>3. jobs' \in [Slots -> Row(Workers)]
  BY <1>1, <1>2
<1>4. SlotsInv'
  BY <1>1, <1>2 DEF SlotsInv
<1>5. epoch \in Nat
  <2>1. CASE s = NoSlot
    BY <2>1
  <2>2. CASE s # NoSlot
    BY <1>3, <2>2 DEF Row
  <2>3. QED
    BY <2>1, <2>2
<1> HIDE DEF epoch
<1>6. new \in Worker /\ new.pc = "reconciling"
  BY <1>5, IdleFacts DEF Worker
<1> HIDE DEF new
<1>7. WorkerOK(new, auto', runs')
  BY <1>6, IdleFacts
<1>8. /\ at' \in [Workers -> Worker]
      /\ \A v \in Workers : at'[v] = at[v] \/ WorkerOK(at'[v], auto', runs')
  BY <1>1, <1>6, <1>7, OnwardFacts
<1>9. QED
  BY <1>1, <1>3, <1>4, <1>8, OnlyJobs

LEMMA RequeueInv ==
    ASSUME AutomationsInv, NEW d \in 0 .. Lag, RequeueByOthers(d)
    PROVE  AutomationsInv' /\ Frame
<1>1. /\ jobs' = Requeued(d) /\ at' = at /\ at \in [Workers -> Worker]
      /\ UNCHANGED <<auto, taskOpen, occ, intents, runs, changes>>
  BY DEF RequeueByOthers, AutomationsInv, TypeOK
<1>2. Requeued(d) \in [Slots -> Row(Workers)]
  <2>1. \A s \in Slots : Requeued(d)[s] \in Row(Workers)
    BY RequeuedFacts
  <2>2. QED
    BY <2>1 DEF Requeued
<1>3. SlotsInv'
  BY <1>1, RequeuedFacts DEF SlotsInv
<1>4. QED
  BY <1>1, <1>2, <1>3, OnlyJobs

LEMMA TickInv ==
    ASSUME AutomationsInv, Tick
    PROVE  AutomationsInv' /\ Frame
<1>1. /\ jobs' = [s \in Slots |-> AgeRow(jobs[s])] /\ at' = at /\ at \in [Workers -> Worker]
      /\ jobs \in [Slots -> Row(Workers)] /\ SlotsInv
      /\ UNCHANGED <<auto, taskOpen, occ, intents, runs, changes>>
  BY DEF Tick, AutomationsInv, TypeOK
<1>2. jobs' \in [Slots -> Row(Workers)]
  BY <1>1, AgeRowFacts
<1>3. SlotsInv'
  BY <1>1, AgeRowFacts DEF SlotsInv, SlotOK
<1>4. QED
  BY <1>1, <1>2, <1>3, OnlyJobs

\* The claim that reconcile_exhausted is followed by is still what the worker has.
LEMMA ReconcileInv ==
    ASSUME AutomationsInv, NEW w \in Workers, Reconcile(w)
    PROVE  AutomationsInv' /\ Frame
<1> DEFINE new == IF at[w].slot = NoSlot THEN Idle ELSE [at[w] EXCEPT !.pc = "claimed"]
<1>1. /\ TypeOK /\ SlotsInv /\ SucceededIsDurable /\ at \in [Workers -> Worker]
      /\ occ' = [s \in Slots |-> IF s \in Exhausted THEN "FAILED" ELSE occ[s]]
      /\ auto' = [a \in Autos |-> IF \E s \in Exhausted : Automation(s) = a
                                  THEN Completed(auto[a]) ELSE auto[a]]
      /\ at' = [at EXCEPT ![w] = new]
      /\ UNCHANGED <<taskOpen, jobs, intents, runs, changes>>
  BY DEF Reconcile, AutomationsInv, TypeOK
<1>2. \A a \in Autos : auto'[a] \in AutoRow /\ AutoStep(auto[a], auto'[a])
  BY <1>1, AutoRowFacts DEF TypeOK
<1>3. \A s \in Slots : s \in Exhausted <=> occ[s] = "MATERIALIZED" /\ jobs[s].status = "FAILED"
  BY DEF Exhausted
<1>4. SlotsInv'
  BY <1>1, <1>3 DEF SlotsInv, SlotOK
<1>5. SucceededIsDurable'
  BY <1>1, <1>3 DEF SucceededIsDurable
<1>6. new \in Worker /\ WorkerOK(new, auto', runs')
  <2>1. at[w] \in Worker
    BY <1>1
  <2>2. CASE at[w].slot = NoSlot
    BY <2>2, IdleFacts
  <2>3. CASE at[w].slot # NoSlot
    <3> DEFINE claimed == [at[w] EXCEPT !.pc = "claimed"]
    <3>1. claimed \in Worker /\ claimed.pc = "claimed" /\ claimed.slot \in Slots
      BY <2>1, <2>3 DEF Worker
    <3>2. new = claimed
      BY <2>3
    <3> HIDE DEF claimed, new
    <3>3. QED
      BY <3>1, <3>2 DEF WorkerOK
  <2>4. QED
    BY <2>2, <2>3
<1> HIDE DEF new
<1>7. /\ at' \in [Workers -> Worker]
      /\ \A v \in Workers : at'[v] = at[v] \/ WorkerOK(at'[v], auto', runs')
  BY <1>1, <1>6, OnwardFacts
<1>8. TypeOK'
  <2>1. auto' \in [Autos -> AutoRow]
    BY <1>1, <1>2
  <2>2. occ' \in [Slots -> Settled \cup {"NONE", "MATERIALIZED"}]
    BY <1>1 DEF TypeOK, Settled
  <2>3. QED
    BY <1>1, <1>7, <2>1, <2>2 DEF TypeOK
<1>9. Frame
  BY <1>1, <1>2 DEF Frame
<1>10. WorkersInv'
  BY <1>7, <1>8, <1>9, WorkersKept
<1>11. QED
  BY <1>4, <1>5, <1>8, <1>9, <1>10 DEF AutomationsInv

-----------------------------------------------------------------------------
(* Executing an occurrence *)

\* An owned claim is CLAIMED, and its occurrence open.
LEMMA OwnedFacts ==
    ASSUME AutomationsInv, NEW w \in Workers, NEW d \in 0 .. Lag, at[w].pc \in Busy, Owns(w, d)
    PROVE  /\ at[w] \in Worker /\ at[w].slot \in Slots /\ Automation(at[w].slot) \in Autos
           /\ jobs[at[w].slot] \in Row(Workers) /\ occ[at[w].slot] = "MATERIALIZED"
<1>1. at[w] \in Worker /\ at[w].slot \in Slots
  BY DEF AutomationsInv, TypeOK, WorkersInv, WorkerOK
<1>2. jobs[at[w].slot].status = "CLAIMED"
  BY DEF Owns, MaySettle, Holds
<1>3. occ[at[w].slot] = "MATERIALIZED"
  BY <1>1, <1>2 DEF AutomationsInv, SlotsInv, SlotOK
<1>4. QED
  BY <1>1, <1>3, SlotFacts DEF AutomationsInv, TypeOK

LEMMA LocalStepsInv ==
    ASSUME AutomationsInv, NEW w \in Workers, NEW d \in 0 .. Lag,
           Load(w, d) \/ TriggerRun(w) \/ Raise(w) \/ LoseClaim(w, d) \/ Abandon(w)
    PROVE  AutomationsInv' /\ Frame
<1>0. TypeOK /\ at \in [Workers -> Worker] /\ at[w] \in Worker /\ WorkerOK(at[w], auto, runs)
  BY DEF AutomationsInv, TypeOK, WorkersInv
<1>1. CASE Load(w, d)
  <2> DEFINE row == auto[Automation(at[w].slot)]
             new == [at[w] EXCEPT !.pc = "loaded", !.seen = row]
  <2>1. /\ at[w].pc = "claimed" /\ Owns(w, d) /\ at' = [at EXCEPT ![w] = new]
        /\ UNCHANGED <<auto, taskOpen, occ, jobs, intents, runs, changes>>
    BY <1>0, <1>1 DEF Load
  <2>2. at[w].slot \in Slots /\ row \in AutoRow
    BY <2>1, OwnedFacts DEF Busy, AutomationsInv, TypeOK
  <2>3. Read(row, row)
    BY <2>2 DEF Read, AutoRow
  <2>4. /\ new \in Worker /\ new.pc = "loaded" /\ new.slot = at[w].slot /\ new.seen = row
    BY <1>0, <2>2 DEF Worker
  <2> HIDE DEF new
  <2>5. WorkerOK(new, auto', runs')
    BY <2>1, <2>2, <2>3, <2>4 DEF WorkerOK
  <2>6. QED
    BY <1>0, <2>1, <2>4, <2>5, OnwardFacts, OnlyWorker
<1>2. CASE TriggerRun(w)
  <2> DEFINE new == [at[w] EXCEPT !.pc = "triggered"]
  <2>1. /\ at[w].pc = "loaded" /\ at' = [at EXCEPT ![w] = new]
        /\ runs' = runs \cup {at[w].slot}
        /\ UNCHANGED <<auto, taskOpen, occ, jobs, intents, changes>>
    BY <1>0, <1>2 DEF TriggerRun
  <2>2. at[w].slot \in Slots /\ Read(at[w].seen, auto[Automation(at[w].slot)])
    BY <1>0, <2>1 DEF WorkerOK, Busy
  <2>3. /\ new \in Worker /\ new.pc = "triggered" /\ new.slot = at[w].slot
        /\ new.seen = at[w].seen
    BY <1>0 DEF Worker
  <2> HIDE DEF new
  <2>4. WorkerOK(new, auto', runs')
    BY <2>1, <2>2, <2>3 DEF WorkerOK
  <2>5. /\ at' \in [Workers -> Worker]
        /\ \A v \in Workers : at'[v] = at[v] \/ WorkerOK(at'[v], auto', runs')
    BY <1>0, <2>1, <2>3, <2>4, OnwardFacts
  <2>6. TypeOK'
    BY <1>0, <2>1, <2>2, <2>5 DEF TypeOK
  <2>7. Frame
    BY <1>0, <2>1, AutoRowFacts DEF TypeOK, Frame
  <2>8. WorkersInv'
    BY <2>5, <2>6, <2>7, WorkersKept
  <2>9. SlotsInv' /\ SucceededIsDurable'
    BY <2>1 DEF AutomationsInv, SlotsInv, SucceededIsDurable
  <2>10. QED
    BY <2>6, <2>7, <2>8, <2>9 DEF AutomationsInv
<1>3. CASE Raise(w)
  <2> DEFINE new == [at[w] EXCEPT !.pc = "failing"]
  <2>1. /\ at[w].pc \in Busy /\ at' = [at EXCEPT ![w] = new]
        /\ UNCHANGED <<auto, taskOpen, occ, jobs, intents, runs, changes>>
    BY <1>0, <1>3 DEF Raise, Busy
  <2>2. /\ new \in Worker /\ new.pc = "failing" /\ new.slot = at[w].slot
    BY <1>0 DEF Worker
  <2> HIDE DEF new
  <2>3. WorkerOK(new, auto', runs')
    BY <1>0, <2>1, <2>2 DEF WorkerOK
  <2>4. QED
    BY <1>0, <2>1, <2>2, <2>3, OnwardFacts, OnlyWorker
<1>4. CASE LoseClaim(w, d) \/ Abandon(w)
  <2>1. Return(w) /\ UNCHANGED <<auto, taskOpen, occ, jobs, intents, runs, changes>>
    BY <1>4 DEF LoseClaim, Abandon
  <2>2. QED
    BY <1>0, <2>1, ReturnFacts, OnlyWorker
<1>5. QED
  BY <1>1, <1>2, <1>3, <1>4

LEMMA RetryLaterInv ==
    ASSUME AutomationsInv, NEW w \in Workers, NEW d \in 0 .. Lag, RetryLater(w, d)
    PROVE  AutomationsInv' /\ Frame
<1> DEFINE s == at[w].slot
           row == ReleaseRow(jobs[s], RetryDelay, d)
<1>1. /\ TypeOK /\ Owns(w, d) /\ at[w].pc \in Busy
      /\ jobs' = [jobs EXCEPT ![s] = row] /\ Return(w)
      /\ UNCHANGED <<auto, taskOpen, occ, intents, runs, changes>>
  BY DEF RetryLater, AutomationsInv, Busy
<1>2. s \in Slots /\ jobs[s] \in Row(Workers) /\ occ[s] = "MATERIALIZED"
  BY <1>1, OwnedFacts
<1>3. RetryDelay \in Int
  BY AutomationsAssumption
<1>4. row \in Row(Workers) /\ row.status = "READY"
  BY <1>2, <1>3, ReleaseRowFacts
<1> HIDE DEF row
<1>5. SlotOK(occ[s], row)
  BY <1>2, <1>4 DEF SlotOK
<1>6. /\ occ' \in [Slots -> Settled \cup {"NONE", "MATERIALIZED"}]
      /\ \A t \in Slots : occ'[t] = occ[t]
  BY <1>1 DEF TypeOK
<1>7. jobs' \in [Slots -> Row(Workers)] /\ SlotsInv'
  BY <1>1, <1>2, <1>4, <1>5, <1>6, OneSlot
<1>8. QED
  BY <1>1, <1>7, ReturnFacts, OnlyJobs

\* An owned claim ends: the occurrence and the job are settled in one transaction.
LEMMA Settles ==
    ASSUME AutomationsInv, NEW w \in Workers, NEW d \in 0 .. Lag, NEW o \in Settled,
           NEW status \in {"COMPLETED", "FAILED"}, NEW s, s = at[w].slot,
           at[w].pc \in Busy, Owns(w, d),
           occ' = [occ EXCEPT ![s] = o],
           jobs' = [jobs EXCEPT ![s] = SettleRow(jobs[s], status)],
           Return(w), UNCHANGED <<taskOpen, runs, changes>>,
           auto' \in [Autos -> AutoRow], \A a \in Autos : AutoStep(auto[a], auto'[a]),
           \/ o = "SUCCEEDED" /\ intents' = intents \cup {s} /\ s \in runs
           \/ o # "SUCCEEDED" /\ intents' = intents
    PROVE  AutomationsInv' /\ Frame
<1> DEFINE row == SettleRow(jobs[s], status)
<1>1. /\ TypeOK /\ SucceededIsDurable
      /\ s \in Slots /\ jobs[s] \in Row(Workers) /\ occ[s] = "MATERIALIZED"
      /\ occ \in [Slots -> Settled \cup {"NONE", "MATERIALIZED"}]
  BY OwnedFacts DEF AutomationsInv, TypeOK
<1>2. row \in Row(Workers) /\ row.status = status
  BY <1>1, UnclaimedFacts DEF SettleRow, JobStatus
<1> HIDE DEF row
<1>3. SlotOK(o, row)
  BY <1>2 DEF SlotOK, Settled
<1>4. /\ occ' \in [Slots -> Settled \cup {"NONE", "MATERIALIZED"}]
      /\ occ'[s] = o /\ \A t \in Slots \ {s} : occ'[t] = occ[t]
  BY <1>1
<1>5. jobs' = [jobs EXCEPT ![s] = row]
  BY DEF row
<1>6. jobs' \in [Slots -> Row(Workers)] /\ SlotsInv'
  BY <1>1, <1>2, <1>3, <1>4, <1>5, OneSlot
<1>7. /\ at' \in [Workers -> Worker]
      /\ \A v \in Workers : at'[v] = at[v] \/ WorkerOK(at'[v], auto', runs')
  BY <1>1, ReturnFacts
<1>8. intents' \subseteq Slots
  BY <1>1 DEF TypeOK
<1>9. TypeOK'
  BY <1>1, <1>4, <1>6, <1>7, <1>8 DEF TypeOK
<1>10. Frame
  BY DEF Frame
<1>11. WorkersInv'
  BY <1>7, <1>9, <1>10, WorkersKept
<1>12. s \notin intents
  BY <1>1 DEF SucceededIsDurable
<1>13. SucceededIsDurable'
  BY <1>1, <1>4, <1>12 DEF SucceededIsDurable
<1>14. QED
  BY <1>6, <1>9, <1>10, <1>11, <1>13 DEF AutomationsInv

LEMMA SettlingInv ==
    ASSUME AutomationsInv, NEW w \in Workers, NEW d \in 0 .. Lag,
           Skip(w, d) \/ React(w, d) \/ GiveUp(w, d)
    PROVE  AutomationsInv' /\ Frame
<1> DEFINE s == at[w].slot
           a == Automation(s)
           seen == at[w].seen
<1>0. /\ at[w].pc \in Busy /\ Owns(w, d) /\ Return(w)
      /\ UNCHANGED <<taskOpen, runs, changes>>
  BY DEF Skip, React, GiveUp, Busy
<1>1. /\ s \in Slots /\ a \in Autos /\ occ[s] = "MATERIALIZED" /\ WorkerOK(at[w], auto, runs)
      /\ at[w] \in Worker /\ auto \in [Autos -> AutoRow]
  BY <1>0, OwnedFacts DEF AutomationsInv, WorkersInv, TypeOK
<1>2. \A b \in Autos : AutoStep(auto[b], auto[b])
  BY <1>1, AutoRowFacts
<1>3. CASE Skip(w, d)
  <2>1. /\ occ' = [occ EXCEPT ![s] = "SKIPPED"]
        /\ jobs' = [jobs EXCEPT ![s] = SettleRow(jobs[s], "COMPLETED")]
        /\ UNCHANGED <<auto, intents>>
    BY <1>3 DEF Skip
  <2>2. auto' \in [Autos -> AutoRow] /\ \A b \in Autos : AutoStep(auto[b], auto'[b])
    BY <1>1, <1>2, <2>1
  <2>3. QED
    BY <1>0, <2>1, <2>2, Settles DEF Settled
<1>4. CASE React(w, d)
  <2> DEFINE row == IF Completed(seen) = seen THEN auto[a] ELSE Completed(seen)
  <2>1. /\ at[w].pc = "triggered" /\ Current(a, seen)
        /\ intents' = intents \cup {s}
        /\ occ' = [occ EXCEPT ![s] = "SUCCEEDED"]
        /\ auto' = [auto EXCEPT ![a] = row]
        /\ jobs' = [jobs EXCEPT ![s] = SettleRow(jobs[s], "COMPLETED")]
    BY <1>1, <1>4 DEF React
  <2>2. s \in runs /\ Read(seen, auto[a]) /\ auto[a] \in AutoRow
    BY <1>1, <2>1 DEF WorkerOK
  <2>3. row \in AutoRow /\ AutoStep(auto[a], row)
    <3>1. CASE Completed(seen) = seen
      BY <1>1, <1>2, <3>1
    <3>2. CASE Completed(seen) # seen
      <4>1. seen = auto[a]
        BY <2>1, <2>2, <3>2 DEF Current, Read
      <4>2. QED
        BY <2>2, <3>2, <4>1, AutoRowFacts
    <3>3. QED
      BY <3>1, <3>2
  <2> HIDE DEF row
  <2>4. auto' \in [Autos -> AutoRow] /\ \A b \in Autos : AutoStep(auto[b], auto'[b])
    BY <1>1, <1>2, <2>1, <2>3
  <2>5. QED
    BY <1>0, <2>1, <2>2, <2>4, Settles DEF Settled
<1>5. CASE GiveUp(w, d)
  <2>1. /\ occ' = [occ EXCEPT ![s] = "FAILED"]
        /\ auto' = [auto EXCEPT ![a] = Completed(auto[a])]
        /\ jobs' = [jobs EXCEPT ![s] = SettleRow(jobs[s], "FAILED")]
        /\ UNCHANGED intents
    BY <1>1, <1>5 DEF GiveUp
  <2>2. auto' \in [Autos -> AutoRow] /\ \A b \in Autos : AutoStep(auto[b], auto'[b])
    BY <1>1, <1>2, <2>1, AutoRowFacts
  <2>3. QED
    BY <1>0, <2>1, <2>2, Settles DEF Settled
<1>6. QED
  BY <1>3, <1>4, <1>5

-----------------------------------------------------------------------------
(* The invariant *)

LEMMA AutomationsInit == Init => AutomationsInv
<1> SUFFICES ASSUME Init PROVE AutomationsInv
  OBVIOUS
<1>1. TypeOK
  BY IdleFacts, NewRowFacts, AutomationsAssumption DEF Init, TypeOK
<1>2. WorkersInv
  BY IdleFacts DEF Init, WorkersInv
<1>3. SlotsInv /\ SucceededIsDurable
  BY NewRowFacts DEF Init, SlotsInv, SlotOK, SucceededIsDurable
<1>4. QED
  BY <1>1, <1>2, <1>3 DEF AutomationsInv

LEMMA WorkerStepInv ==
    ASSUME AutomationsInv, NEW w \in Workers, WorkerStep(w)
    PROVE  AutomationsInv' /\ Frame
<1>0. 0 \in 0 .. Lag
  BY JobTableAssumption
<1>1. CASE \E d \in 0 .. Lag, s \in Slots \cup {NoSlot} : Scan(w, s, d)
  BY <1>1, ScanInv
<1>2. CASE Reconcile(w)
  BY <1>2, ReconcileInv
<1>3. CASE Executing(w)
  <2>1. CASE TriggerRun(w) \/ Raise(w)
    BY <1>0, <2>1, LocalStepsInv
  <2>2. ASSUME NEW d \in 0 .. Lag,
               \/ Load(w, d) \/ Skip(w, d) \/ React(w, d)
               \/ RetryLater(w, d) \/ GiveUp(w, d) \/ LoseClaim(w, d)
        PROVE  AutomationsInv' /\ Frame
    BY <2>2, LocalStepsInv, SettlingInv, RetryLaterInv
  <2>3. QED
    BY <1>3, <2>1, <2>2 DEF Executing
<1>4. CASE Abandon(w)
  BY <1>0, <1>4, LocalStepsInv
<1>5. QED
  BY <1>1, <1>2, <1>3, <1>4 DEF WorkerStep

LEMMA AutomationsNext ==
    ASSUME AutomationsInv, [Next]_vars
    PROVE  AutomationsInv' /\ Frame
<1>1. CASE UNCHANGED vars
  <2>1. /\ UNCHANGED <<auto, taskOpen, occ, jobs, intents, runs, changes>> /\ at' = at
        /\ at \in [Workers -> Worker]
    BY <1>1 DEF vars, AutomationsInv, TypeOK
  <2>2. QED
    BY <2>1, OnlyWorker
<1>2. CASE \E a \in Autos : UserStep(a)
  BY <1>2, UserInv
<1>3. CASE \E S \in SUBSET Autos : ProcessDue(S)
  BY <1>3, ProcessDueInv
<1>4. CASE \E w \in Workers : WorkerStep(w)
  BY <1>4, WorkerStepInv
<1>5. CASE (\E d \in 0 .. Lag : RequeueByOthers(d)) \/ Tick
  BY <1>5, RequeueInv, TickInv
<1>6. QED
  BY <1>1, <1>2, <1>3, <1>4, <1>5 DEF Next

\* What every automation, occurrence, job and worker satisfies in every reachable state.
LEMMA AutomationsAlways == Spec => []AutomationsInv
<1>1. AutomationsInv /\ [Next]_vars => AutomationsInv'
  BY AutomationsNext
<1>2. QED
  BY <1>1, AutomationsInit, PTL DEF Spec

-----------------------------------------------------------------------------
(* The theorems *)

\* The tables of the reminder scheduler and what each occurrence worker has read keep
\* their types, whatever is due together and however many trigger times there are.
THEOREM AutomationsTypeCorrect == Spec => []TypeOK
<1>1. AutomationsInv => TypeOK
  BY DEF AutomationsInv
<1>2. QED
  BY <1>1, AutomationsAlways, PTL

\* An occurrence is open exactly while its job is, or until reconcile_exhausted closes
\* it, whichever workers lose their claims, crash, retry or give up; so execute_claimed
\* never finds a settled occurrence under a claim it owns.
THEOREM OccurrencesMatchJobs == Spec => []OccurrenceMatchesJob
<1>1. AutomationsInv => OccurrenceMatchesJob
  BY DEF AutomationsInv, SlotsInv, SlotOK, OccurrenceMatchesJob
<1>2. QED
  BY <1>1, AutomationsAlways, PTL

\* An occurrence is SUCCEEDED if and only if its notification intent was committed, and
\* then its agent run exists: the reaction is one transaction with the fence of the
\* claim, and comes after the run's own.
THEOREM SuccessIsDurable == Spec => []SucceededIsDurable
<1>1. AutomationsInv => SucceededIsDurable
  BY DEF AutomationsInv
<1>2. QED
  BY <1>1, AutomationsAlways, PTL

\* No scheduler, worker or user brings a COMPLETED or CANCELLED automation back or turns
\* one into the other, although a worker writes the row it read before its agent run:
\* expected_version refuses the write (automations.update).
THEOREM EndedAutomationsStay == Spec => EndedStaysEnded
<1> DEFINE Final == \A a \in Autos : auto[a].status \in Ended => auto'[a] = auto[a]
<1>1. AutomationsInv /\ [Next]_vars => Final
  BY AutomationsNext DEF Frame, AutoStep
<1>2. AutomationsInv /\ [Next]_vars => [Final]_vars
  BY <1>1
<1>3. Spec => [][Final]_vars
  BY <1>2, AutomationsAlways, PTL DEF Spec
<1>4. QED
  BY <1>3 DEF EndedStaysEnded

-----------------------------------------------------------------------------
(* From the intent to the push provider: PushDelivery, served by the same     *)
(* processes, for any intents and any endpoints.                             *)

\* A worker knows its delivery, and an acceptance it has to record is one of the provider.
PusherOK(rec, accepted) ==
    /\ rec.pc # "idle" => rec.key \in Push!Deliveries
    /\ rec.pc = "answered" /\ rec.accepted => rec.key \in accepted

\* A job has had its last delivery before it is requeued no more, and before its intent
\* is created there is none.
PushRowOK(row, exists) ==
    /\ row.attempts <= MaxAttempts
    /\ row.status = "READY" => row.attempts < MaxAttempts
    /\ ~exists => row.status = "ABSENT" /\ row.attempts = 0

\* The workers that have claimed a delivery and not submitted it yet.
Unsubmitted(workers, k) == {w \in Workers : workers[w].pc = "claimed" /\ workers[w].key = k}

\* Every submission, made or still to come, has a claim of its own.
Counted(workers, n, row, k) ==
    /\ IsFiniteSet(Unsubmitted(workers, k))
    /\ n + Cardinality(Unsubmitted(workers, k)) <= row.attempts

PushInv ==
    /\ Push!TypeOK
    /\ \A w \in Workers : PusherOK(pusher[w], taken)
    /\ \A k \in Push!Deliveries : PushRowOK(pushJobs[k], k[1] \in created)
    /\ \A k \in Push!Deliveries : Counted(pusher, sent[k], pushJobs[k], k)
    /\ Push!AcceptedIsTrue

\* The statements of durable_jobs are the same.
LEMMA PushRows ==
    ASSUME NEW row, NEW w, NEW d, NEW e, NEW status
    PROVE  /\ Push!Row(Workers) = Row(Workers) /\ Push!NoRow = NoRow /\ Push!NewRow = NewRow
           /\ Push!RequeueRow(row, d) = RequeueRow(row, d)
           /\ Push!Claimable(row, d) = Claimable(row, d)
           /\ Push!ClaimRow(row, w, d) = ClaimRow(row, w, d)
           /\ Push!MaySettle(row, w, e, d) = MaySettle(row, w, e, d)
           /\ Push!SettleRow(row, status) = SettleRow(row, status)
           /\ Push!AgeRow(row) = AgeRow(row)
<1>1. Push!Row(Workers) = Row(Workers)
  BY DEF Push!Row, Row, Push!JobStatus, JobStatus
<1>2. Push!NoRow = NoRow /\ Push!NewRow = NewRow
  BY DEF Push!NoRow, NoRow, Push!NewRow, NewRow
<1>3. Push!RequeueRow(row, d) = RequeueRow(row, d)
  BY DEF Push!RequeueRow, RequeueRow, Push!Expired, Expired, Push!Unclaimed, Unclaimed
<1>4. Push!Claimable(row, d) = Claimable(row, d)
  BY DEF Push!Claimable, Claimable
<1>5. Push!ClaimRow(row, w, d) = ClaimRow(row, w, d)
  BY DEF Push!ClaimRow, ClaimRow
<1>6. Push!MaySettle(row, w, e, d) = MaySettle(row, w, e, d)
  BY DEF Push!MaySettle, MaySettle, Push!Holds, Holds
<1>7. Push!SettleRow(row, status) = SettleRow(row, status)
  BY DEF Push!SettleRow, SettleRow, Push!Unclaimed, Unclaimed
<1>8. Push!AgeRow(row) = AgeRow(row)
  BY DEF Push!AgeRow, AgeRow
<1>9. QED
  BY <1>1, <1>2, <1>3, <1>4, <1>5, <1>6, <1>7, <1>8

\* Only a claim counts as a delivery.
LEMMA AttemptsFacts ==
    ASSUME NEW row \in Row(Workers), NEW d \in 0 .. Lag
    PROVE  /\ RequeueRow(row, d).attempts = row.attempts
           /\ RequeueRow(row, d).status = "READY" =>
                row.status = "READY" \/ row.attempts < MaxAttempts
           /\ \A w : ClaimRow(row, w, d).attempts = row.attempts + 1
           /\ SettleRow(row, "COMPLETED") \in Row(Workers)
           /\ SettleRow(row, "COMPLETED").status = "COMPLETED"
           /\ SettleRow(row, "COMPLETED").attempts = row.attempts
           /\ AgeRow(row).attempts = row.attempts
<1>1. ASSUME NEW status \in JobStatus
      PROVE  Unclaimed(row, status).attempts = row.attempts
  BY DEF Unclaimed, Row
<1>2. RequeueRow(row, d).attempts = row.attempts
  <2> DEFINE free == Unclaimed(row, "READY")
             failed == Unclaimed(row, "FAILED")
  <2>1. /\ free \in Row(Workers) /\ free.attempts = row.attempts
        /\ failed \in Row(Workers) /\ failed.attempts = row.attempts
    BY <1>1, UnclaimedFacts DEF JobStatus
  <2>2. \/ RequeueRow(row, d) = row
        \/ RequeueRow(row, d) = [free EXCEPT !.wait = -d]
        \/ RequeueRow(row, d) = [failed EXCEPT !.exhausted = TRUE]
    BY DEF RequeueRow
  <2> HIDE DEF free, failed
  <2>3. QED
    BY <2>1, <2>2 DEF Row
<1>3. RequeueRow(row, d).status = "READY" => row.status = "READY" \/ row.attempts < MaxAttempts
  <2> DEFINE failed == Unclaimed(row, "FAILED")
  <2>1. failed \in Row(Workers) /\ failed.status = "FAILED"
    BY UnclaimedFacts DEF JobStatus
  <2>2. \/ row.attempts < MaxAttempts
        \/ RequeueRow(row, d) \in {row, [failed EXCEPT !.exhausted = TRUE]}
    BY DEF RequeueRow
  <2> HIDE DEF failed
  <2>3. [failed EXCEPT !.exhausted = TRUE].status = "FAILED"
    BY <2>1 DEF Row
  <2>4. QED
    BY <2>2, <2>3
<1>4. \A w : ClaimRow(row, w, d).attempts = row.attempts + 1
  BY DEF ClaimRow, Row
<1>5. /\ SettleRow(row, "COMPLETED") \in Row(Workers)
      /\ SettleRow(row, "COMPLETED").status = "COMPLETED"
      /\ SettleRow(row, "COMPLETED").attempts = row.attempts
  BY <1>1, UnclaimedFacts DEF SettleRow, JobStatus
<1>6. AgeRow(row).attempts = row.attempts
  BY DEF AgeRow, Row
<1>7. QED
  BY <1>2, <1>3, <1>4, <1>5, <1>6

\* A worker that moves on has no submission to come any more.
LEMMA WorkerMovesOn ==
    ASSUME NEW workers \in [Workers -> Push!Worker], NEW w \in Workers, NEW k,
           NEW rec, rec.pc # "claimed", IsFiniteSet(Unsubmitted(workers, k))
    PROVE  LET before == Unsubmitted(workers, k)
               after == Unsubmitted([workers EXCEPT ![w] = rec], k)
           IN  /\ IsFiniteSet(after)
               /\ Cardinality(before) \in Nat /\ Cardinality(after) \in Nat
               /\ Cardinality(after) <= Cardinality(before)
               /\ w \in before => Cardinality(after) = Cardinality(before) - 1
<1> DEFINE before == Unsubmitted(workers, k)
           after == Unsubmitted([workers EXCEPT ![w] = rec], k)
<1>1. after = before \ {w}
  BY DEF Unsubmitted
<1>2. IsFiniteSet(before)
  OBVIOUS
<1> HIDE DEF before, after
<1>3. /\ IsFiniteSet(after)
      /\ Cardinality(after) = IF w \in before THEN Cardinality(before) - 1 ELSE Cardinality(before)
  BY <1>1, <1>2, FS_RemoveElement
<1>4. Cardinality(before) \in Nat /\ Cardinality(after) \in Nat
  BY <1>2, <1>3, FS_CardinalityType
<1>5. /\ Cardinality(after) <= Cardinality(before)
      /\ w \in before => Cardinality(after) = Cardinality(before) - 1
  BY <1>3, <1>4
<1>6. QED
  BY <1>3, <1>4, <1>5 DEF before, after

\* A claim brings one more submission, of the claimed delivery.
LEMMA WorkerClaims ==
    ASSUME NEW workers \in [Workers -> Push!Worker], NEW w \in Workers, NEW k,
           NEW rec, rec.pc = "claimed", workers[w].pc = "idle",
           IsFiniteSet(Unsubmitted(workers, k))
    PROVE  LET before == Unsubmitted(workers, k)
               after == Unsubmitted([workers EXCEPT ![w] = rec], k)
           IN  /\ IsFiniteSet(after)
               /\ Cardinality(before) \in Nat
               /\ rec.key = k => Cardinality(after) = Cardinality(before) + 1
               /\ rec.key # k => Cardinality(after) = Cardinality(before)
<1> DEFINE before == Unsubmitted(workers, k)
           after == Unsubmitted([workers EXCEPT ![w] = rec], k)
<1>1. w \notin before
  BY DEF Unsubmitted
<1>2. after = IF rec.key = k THEN before \cup {w} ELSE before
  BY <1>1 DEF Unsubmitted
<1>3. IsFiniteSet(before)
  OBVIOUS
<1> HIDE DEF before, after
<1>4. Cardinality(before) \in Nat
  BY <1>3, FS_CardinalityType
<1>5. CASE rec.key = k
  <2>1. IsFiniteSet(after) /\ Cardinality(after) = Cardinality(before) + 1
    BY <1>1, <1>2, <1>3, <1>5, FS_AddElement
  <2>2. QED
    BY <1>4, <1>5, <2>1 DEF before, after
<1>6. CASE rec.key # k
  <2>1. after = before
    BY <1>2, <1>6
  <2>2. QED
    BY <1>3, <1>4, <1>6, <2>1 DEF before, after
<1>7. QED
  BY <1>5, <1>6

\* A row that is requeued or grows older has no delivery more, and can be delivered again
\* only when it could be before or deliveries remain.
SameDelivery(row, new) ==
    /\ new \in Row(Workers)
    /\ new.attempts = row.attempts
    /\ new.status = "READY" => row.status = "READY" \/ row.attempts < MaxAttempts
    /\ row.status = "ABSENT" => new.status = "ABSENT"

\* Statements that leave the push workers alone.
LEMMA PushQuiet ==
    ASSUME PushInv, UNCHANGED <<created, pusher, sent, taken>>,
           UNCHANGED delivery, eligible' \subseteq Endpoints, switches' \in 0 .. MaxSwitches,
           pushJobs' \in [Push!Deliveries -> Row(Workers)],
           \A k \in Push!Deliveries : SameDelivery(pushJobs[k], pushJobs'[k])
    PROVE  PushInv'
<1>1. Push!TypeOK'
  BY PushRows DEF PushInv, Push!TypeOK
<1>2. \A w \in Workers : PusherOK(pusher'[w], taken')
  BY DEF PushInv
<1>3. ASSUME NEW k \in Push!Deliveries
      PROVE  /\ PushRowOK(pushJobs'[k], k[1] \in created')
             /\ Counted(pusher', sent'[k], pushJobs'[k], k)
  <2>1. PushRowOK(pushJobs[k], k[1] \in created) /\ Counted(pusher, sent[k], pushJobs[k], k)
    BY DEF PushInv
  <2>2. SameDelivery(pushJobs[k], pushJobs'[k])
    OBVIOUS
  <2>3. Counted(pusher', sent'[k], pushJobs'[k], k)
    BY <2>1, <2>2 DEF SameDelivery, Counted
  <2>4. PushRowOK(pushJobs'[k], k[1] \in created')
    BY <2>1, <2>2 DEF SameDelivery, PushRowOK
  <2>5. QED
    BY <2>3, <2>4
<1>4. Push!AcceptedIsTrue'
  BY DEF PushInv, Push!AcceptedIsTrue
<1>5. QED
  BY <1>1, <1>2, <1>3, <1>4 DEF PushInv

\* Requeueing, aging, completing and inserting a row.
LEMMA SameDeliveries ==
    ASSUME NEW row \in Row(Workers), NEW d \in 0 .. Lag
    PROVE  /\ SameDelivery(row, row)
           /\ SameDelivery(row, RequeueRow(row, d))
           /\ SameDelivery(row, AgeRow(row))
           /\ row.status # "ABSENT" => SameDelivery(row, SettleRow(row, "COMPLETED"))
<1>1. SameDelivery(row, row)
  BY DEF SameDelivery
<1>2. SameDelivery(row, RequeueRow(row, d))
  BY RequeueRowFacts, AttemptsFacts DEF SameDelivery
<1>3. SameDelivery(row, AgeRow(row))
  BY AgeRowFacts, AttemptsFacts DEF SameDelivery
<1>4. row.status # "ABSENT" => SameDelivery(row, SettleRow(row, "COMPLETED"))
  BY AttemptsFacts DEF SameDelivery
<1>5. QED
  BY <1>1, <1>2, <1>3, <1>4

LEMMA PushSwitch ==
    ASSUME PushInv, NEW E \in SUBSET Endpoints, Push!SwitchTo(E)
    PROVE  PushInv'
<1>1. switches \in 0 .. MaxSwitches /\ pushJobs \in [Push!Deliveries -> Row(Workers)]
  BY PushRows DEF PushInv, Push!TypeOK
<1>2. switches < MaxSwitches /\ switches' = switches + 1 /\ eligible' = E
  BY DEF Push!SwitchTo
<1>3. UNCHANGED <<created, delivery, pushJobs, pusher, sent, taken>>
  BY DEF Push!SwitchTo
<1>4. switches' \in 0 .. MaxSwitches
  BY <1>1, <1>2, PushTableAssumption
<1>5. \A k \in Push!Deliveries : SameDelivery(pushJobs[k], pushJobs'[k])
  BY <1>1, <1>3 DEF SameDelivery
<1>6. QED
  BY <1>1, <1>2, <1>3, <1>4, <1>5, PushQuiet

LEMMA PushStutter ==
    ASSUME PushInv, UNCHANGED Push!vars
    PROVE  PushInv'
<1>1. pushJobs \in [Push!Deliveries -> Row(Workers)] /\ switches \in 0 .. MaxSwitches
      /\ eligible \subseteq Endpoints
  BY PushRows DEF PushInv, Push!TypeOK
<1>2. UNCHANGED <<eligible, created, delivery, pushJobs, pusher, sent, taken, switches>>
  BY DEF Push!vars
<1>3. \A k \in Push!Deliveries : SameDelivery(pushJobs[k], pushJobs'[k])
  BY <1>1, <1>2 DEF SameDelivery
<1>4. QED
  BY <1>1, <1>2, <1>3, PushQuiet

LEMMA PushRequeued ==
    ASSUME PushInv, NEW d \in 0 .. Lag
    PROVE  /\ Push!Requeued(d) \in [Push!Deliveries -> Row(Workers)]
           /\ \A k \in Push!Deliveries : /\ Push!Requeued(d)[k] = RequeueRow(pushJobs[k], d)
                                         /\ SameDelivery(pushJobs[k], Push!Requeued(d)[k])
<1>1. pushJobs \in [Push!Deliveries -> Row(Workers)]
  BY PushRows DEF PushInv, Push!TypeOK
<1>2. Push!Requeued(d) = [k \in Push!Deliveries |-> RequeueRow(pushJobs[k], d)]
  BY PushRows DEF Push!Requeued
<1>3. \A k \in Push!Deliveries : /\ Push!Requeued(d)[k] = RequeueRow(pushJobs[k], d)
                                 /\ SameDelivery(pushJobs[k], Push!Requeued(d)[k])
  BY <1>1, <1>2, SameDeliveries
<1>4. \A k \in Push!Deliveries : RequeueRow(pushJobs[k], d) \in Row(Workers)
  BY <1>1, RequeueRowFacts
<1>5. QED
  BY <1>2, <1>3, <1>4

LEMMA PushRequeue ==
    ASSUME PushInv, NEW d \in 0 .. Lag, Push!RequeueExpired(d)
    PROVE  PushInv'
<1>1. switches \in 0 .. MaxSwitches /\ eligible \subseteq Endpoints
  BY DEF PushInv, Push!TypeOK
<1>2. pushJobs' = Push!Requeued(d)
  BY DEF Push!RequeueExpired
<1>3. UNCHANGED <<eligible, created, delivery, pusher, sent, taken, switches>>
  BY DEF Push!RequeueExpired
<1>4. QED
  BY <1>1, <1>2, <1>3, PushRequeued, PushQuiet

LEMMA PushTick ==
    ASSUME PushInv, Push!Tick
    PROVE  PushInv'
<1>1. /\ pushJobs \in [Push!Deliveries -> Row(Workers)]
      /\ switches \in 0 .. MaxSwitches /\ eligible \subseteq Endpoints
  BY PushRows DEF PushInv, Push!TypeOK
<1>2. pushJobs' = [k \in Push!Deliveries |-> AgeRow(pushJobs[k])]
  BY PushRows DEF Push!Tick
<1>3. UNCHANGED <<eligible, created, delivery, pusher, sent, taken, switches>>
  BY DEF Push!Tick
<1>4. \A k \in Push!Deliveries : AgeRow(pushJobs[k]) \in Row(Workers)
  BY <1>1, AgeRowFacts
<1>5. pushJobs' \in [Push!Deliveries -> Row(Workers)]
  BY <1>2, <1>4
<1>6. 0 \in 0 .. Lag
  BY JobTableAssumption
<1>7. \A k \in Push!Deliveries : SameDelivery(pushJobs[k], pushJobs'[k])
  BY <1>1, <1>2, <1>6, SameDeliveries
<1>8. QED
  BY <1>1, <1>3, <1>5, <1>7, PushQuiet

\* The deliveries of an intent that is created had no job.
LEMMA PushNotify ==
    ASSUME PushInv, NEW i \in Intents, Push!Notify(i)
    PROVE  PushInv'
<1> DEFINE new == {i} \X eligible
<1>1. /\ pushJobs \in [Push!Deliveries -> Row(Workers)]
      /\ eligible \subseteq Endpoints /\ created \subseteq Intents
      /\ delivery \in [Push!Deliveries -> Push!Final \cup {"NONE", "READY"}]
  BY PushRows DEF PushInv, Push!TypeOK
<1>2. i \notin created /\ created' = created \cup {i}
  BY DEF Push!Notify
<1>3. delivery' = [k \in Push!Deliveries |-> IF k \in new THEN "READY" ELSE delivery[k]]
  BY DEF Push!Notify
<1>4. pushJobs' = [k \in Push!Deliveries |-> IF k \in new THEN NewRow ELSE pushJobs[k]]
  BY PushRows DEF Push!Notify
<1>5. UNCHANGED <<eligible, pusher, sent, taken, switches>>
  BY DEF Push!Notify
<1>6. \A k \in new : k \in Push!Deliveries /\ k[1] = i
  BY <1>1 DEF Push!Deliveries
<1> HIDE DEF new
<1>7. delivery' \in [Push!Deliveries -> Push!Final \cup {"NONE", "READY"}]
  BY <1>1, <1>3
<1>8. pushJobs' \in [Push!Deliveries -> Row(Workers)]
  BY <1>1, <1>4, NewRowFacts
<1>9. Push!TypeOK'
  BY <1>1, <1>2, <1>5, <1>7, <1>8, PushRows DEF PushInv, Push!TypeOK
<1>10. \A w \in Workers : PusherOK(pusher'[w], taken')
  BY <1>5 DEF PushInv
<1>11. NewRow.attempts = 0
  BY DEF NewRow, NoRow
<1>12. ASSUME NEW k \in Push!Deliveries
       PROVE  /\ PushRowOK(pushJobs'[k], k[1] \in created')
              /\ Counted(pusher', sent'[k], pushJobs'[k], k)
  <2>1. PushRowOK(pushJobs[k], k[1] \in created) /\ Counted(pusher, sent[k], pushJobs[k], k)
    BY DEF PushInv
  <2>2. CASE k \in new
    <3>1. pushJobs[k].attempts = 0 /\ pushJobs'[k] = NewRow /\ k[1] \in created'
      BY <1>2, <1>4, <1>6, <2>1, <2>2 DEF PushRowOK
    <3>2. PushRowOK(pushJobs'[k], k[1] \in created')
      BY <3>1, <1>11, JobTableAssumption DEF PushRowOK
    <3>3. Counted(pusher', sent'[k], pushJobs'[k], k)
      BY <3>1, <1>5, <1>11, <2>1 DEF Counted
    <3>4. QED
      BY <3>2, <3>3
  <2>3. CASE k \notin new
    <3>1. pushJobs'[k] = pushJobs[k] /\ (k[1] \in created => k[1] \in created')
      BY <1>2, <1>4, <2>3
    <3>2. QED
      BY <3>1, <1>5, <2>1 DEF PushRowOK, Counted
  <2>4. QED
    BY <2>2, <2>3
<1>13. Push!AcceptedIsTrue'
  BY <1>1, <1>3, <1>5 DEF PushInv, Push!AcceptedIsTrue
<1>14. QED
  BY <1>9, <1>10, <1>12, <1>13 DEF PushInv

\* A worker submits, records, settles or gives up; only a submission is counted.
LEMMA PushMoves ==
    ASSUME PushInv, NEW w \in Workers, NEW rec \in Push!Worker, rec.pc # "claimed",
           pusher' = [pusher EXCEPT ![w] = rec], PusherOK(rec, taken'),
           taken \subseteq taken', taken' \subseteq Push!Deliveries,
           UNCHANGED <<eligible, created, switches>>,
           delivery' \in [Push!Deliveries -> Push!Final \cup {"NONE", "READY"}],
           Push!AcceptedIsTrue',
           pushJobs' \in [Push!Deliveries -> Row(Workers)],
           \A k \in Push!Deliveries : SameDelivery(pushJobs[k], pushJobs'[k]),
           sent' \in [Push!Deliveries -> Nat],
           \A k \in Push!Deliveries :
               \/ sent'[k] = sent[k]
               \/ sent'[k] = sent[k] + 1 /\ w \in Unsubmitted(pusher, k)
    PROVE  PushInv'
<1>1. /\ pusher \in [Workers -> Push!Worker]
      /\ pushJobs \in [Push!Deliveries -> Row(Workers)] /\ sent \in [Push!Deliveries -> Nat]
  BY PushRows DEF PushInv, Push!TypeOK
<1>2. pusher' \in [Workers -> Push!Worker]
  BY <1>1
<1>3. Push!TypeOK'
  BY <1>2, PushRows DEF PushInv, Push!TypeOK
<1>4. \A v \in Workers : PusherOK(pusher'[v], taken')
  <2> SUFFICES ASSUME NEW v \in Workers
               PROVE  PusherOK(pusher'[v], taken')
    OBVIOUS
  <2>1. PusherOK(pusher[v], taken)
    BY DEF PushInv
  <2>2. CASE v = w
    BY <1>1, <2>2
  <2>3. CASE v # w
    BY <1>1, <2>1, <2>3 DEF PusherOK
  <2>4. QED
    BY <2>2, <2>3
<1>5. ASSUME NEW k \in Push!Deliveries
      PROVE  /\ PushRowOK(pushJobs'[k], k[1] \in created')
             /\ Counted(pusher', sent'[k], pushJobs'[k], k)
  <2> DEFINE before == Cardinality(Unsubmitted(pusher, k))
             after == Cardinality(Unsubmitted(pusher', k))
  <2>1. PushRowOK(pushJobs[k], k[1] \in created) /\ Counted(pusher, sent[k], pushJobs[k], k)
    BY DEF PushInv
  <2>2. SameDelivery(pushJobs[k], pushJobs'[k])
    OBVIOUS
  <2>3. PushRowOK(pushJobs'[k], k[1] \in created')
    BY <2>1, <2>2 DEF SameDelivery, PushRowOK
  <2>4. IsFiniteSet(Unsubmitted(pusher, k)) /\ sent[k] + before <= pushJobs[k].attempts
    BY <2>1 DEF Counted
  <2>5. /\ IsFiniteSet(Unsubmitted(pusher', k))
        /\ before \in Nat /\ after \in Nat /\ after <= before
        /\ w \in Unsubmitted(pusher, k) => after = before - 1
    BY <1>1, <2>4, WorkerMovesOn
  <2>6. /\ sent[k] \in Nat /\ sent'[k] \in Nat
        /\ pushJobs'[k].attempts = pushJobs[k].attempts /\ pushJobs[k].attempts \in Nat
    BY <1>1, <2>2 DEF SameDelivery, Row
  <2> HIDE DEF before, after
  <2>7. sent'[k] + after <= pushJobs'[k].attempts
    BY <2>4, <2>5, <2>6
  <2>8. QED
    BY <2>3, <2>5, <2>7 DEF Counted, after
<1>6. QED
  BY <1>3, <1>4, <1>5 DEF PushInv

\* The submission of a claim is taken off the ones to come when it is made.
LEMMA PushSubmit ==
    ASSUME PushInv, NEW w \in Workers, NEW answer \in Push!Answers, NEW reached \in BOOLEAN,
           Push!Submit(w, answer, reached)
    PROVE  PushInv'
<1> DEFINE rec == Push!Answered(pusher[w], answer)
           k == pusher[w].key
<1>1. /\ pusher \in [Workers -> Push!Worker]
      /\ pushJobs \in [Push!Deliveries -> Row(Workers)] /\ sent \in [Push!Deliveries -> Nat]
      /\ taken \subseteq Push!Deliveries
      /\ delivery \in [Push!Deliveries -> Push!Final \cup {"NONE", "READY"}]
  BY PushRows DEF PushInv, Push!TypeOK
<1>2. /\ pusher[w].pc = "claimed" /\ (answer = "accepted" => reached)
      /\ sent' = [sent EXCEPT ![k] = @ + 1]
      /\ taken' = IF reached THEN taken \cup {k} ELSE taken
      /\ pusher' = [pusher EXCEPT ![w] = rec]
      /\ UNCHANGED <<eligible, created, delivery, pushJobs, switches>>
  BY DEF Push!Submit
<1>3. pusher[w] \in Push!Worker /\ PusherOK(pusher[w], taken)
  BY <1>1 DEF PushInv
<1>4. k \in Push!Deliveries
  BY <1>2, <1>3 DEF PusherOK
<1>5. /\ rec \in Push!Worker /\ rec.pc = "answered" /\ rec.key = k
      /\ rec.accepted = (answer = "accepted")
  BY <1>3 DEF Push!Answered, Push!Worker
<1>6. w \in Unsubmitted(pusher, k)
  BY <1>2 DEF Unsubmitted
<1> HIDE DEF rec
<1>7. PusherOK(rec, taken')
  BY <1>2, <1>4, <1>5 DEF PusherOK
<1> HIDE DEF k
<1>8. taken \subseteq taken' /\ taken' \subseteq Push!Deliveries
  BY <1>1, <1>2, <1>4
<1>9. Push!AcceptedIsTrue'
  BY <1>2, <1>8 DEF PushInv, Push!AcceptedIsTrue
<1>10. \A j \in Push!Deliveries : SameDelivery(pushJobs[j], pushJobs'[j])
  BY <1>1, <1>2 DEF SameDelivery
<1>11. /\ sent' \in [Push!Deliveries -> Nat]
       /\ \A j \in Push!Deliveries :
              \/ sent'[j] = sent[j]
              \/ sent'[j] = sent[j] + 1 /\ w \in Unsubmitted(pusher, j)
  BY <1>1, <1>2, <1>4, <1>6
<1>12. rec.pc # "claimed"
  BY <1>5
<1>13. QED
  BY <1>1, <1>2, <1>5, <1>7, <1>8, <1>9, <1>10, <1>11, <1>12, PushMoves

\* ACCEPTED is recorded by a worker whose submission was accepted.
LEMMA PushRecord ==
    ASSUME PushInv, NEW w \in Workers, Push!Record(w)
    PROVE  PushInv'
<1> DEFINE rec == [pusher[w] EXCEPT !.pc = "recorded"]
           k == pusher[w].key
           outcome == Push!Outcome(w)
<1>1. /\ pusher \in [Workers -> Push!Worker]
      /\ pushJobs \in [Push!Deliveries -> Row(Workers)] /\ sent \in [Push!Deliveries -> Nat]
      /\ taken \subseteq Push!Deliveries
      /\ delivery \in [Push!Deliveries -> Push!Final \cup {"NONE", "READY"}]
  BY PushRows DEF PushInv, Push!TypeOK
<1>2. /\ pusher[w].pc = "answered"
      /\ delivery' = [delivery EXCEPT ![k] = outcome]
      /\ pusher' = [pusher EXCEPT ![w] = rec]
      /\ UNCHANGED <<eligible, created, pushJobs, sent, taken, switches>>
  BY DEF Push!Record
<1>3. pusher[w] \in Push!Worker /\ PusherOK(pusher[w], taken)
  BY <1>1 DEF PushInv
<1>4. k \in Push!Deliveries /\ (outcome = "ACCEPTED" => k \in taken) /\ outcome \in Push!Final
  BY <1>2, <1>3 DEF PusherOK, Push!Outcome, Push!Final
<1>5. rec \in Push!Worker /\ rec.pc = "recorded" /\ rec.key = k
  BY <1>3 DEF Push!Worker
<1>6. PusherOK(rec, taken') /\ rec.pc # "claimed"
  BY <1>4, <1>5 DEF PusherOK
<1> HIDE DEF rec, k, outcome
<1>7. delivery' \in [Push!Deliveries -> Push!Final \cup {"NONE", "READY"}]
  BY <1>1, <1>2, <1>4
<1>8. Push!AcceptedIsTrue'
  BY <1>1, <1>2, <1>4 DEF PushInv, Push!AcceptedIsTrue
<1>9. \A j \in Push!Deliveries : SameDelivery(pushJobs[j], pushJobs'[j])
  BY <1>1, <1>2 DEF SameDelivery
<1>10. QED
  BY <1>1, <1>2, <1>5, <1>6, <1>7, <1>8, <1>9, PushMoves

LEMMA PushIdle == Push!Idle \in Push!Worker /\ Push!Idle.pc = "idle"
  BY DEF Push!Idle, Push!Worker, Push!NoDelivery

LEMMA PushSettle ==
    ASSUME PushInv, NEW w \in Workers, NEW d \in 0 .. Lag, Push!Settle(w, d)
    PROVE  PushInv'
<1> DEFINE k == pusher[w].key
           done == SettleRow(pushJobs[k], "COMPLETED")
<1>1. /\ pusher \in [Workers -> Push!Worker]
      /\ pushJobs \in [Push!Deliveries -> Row(Workers)] /\ sent \in [Push!Deliveries -> Nat]
      /\ taken \subseteq Push!Deliveries
      /\ delivery \in [Push!Deliveries -> Push!Final \cup {"NONE", "READY"}]
  BY PushRows DEF PushInv, Push!TypeOK
<1>2. /\ pusher[w].pc = "recorded"
      /\ pushJobs' = IF MaySettle(pushJobs[k], w, pusher[w].epoch, d)
                     THEN [pushJobs EXCEPT ![k] = done] ELSE pushJobs
      /\ pusher' = [pusher EXCEPT ![w] = Push!Idle]
      /\ UNCHANGED <<eligible, created, delivery, sent, taken, switches>>
  <2>1. /\ Push!MaySettle(pushJobs[k], w, pusher[w].epoch, d)
                = MaySettle(pushJobs[k], w, pusher[w].epoch, d)
        /\ Push!SettleRow(pushJobs[k], "COMPLETED") = done
    BY PushRows
  <2>2. QED
    BY <2>1 DEF Push!Settle
<1>3. k \in Push!Deliveries
  BY <1>1, <1>2 DEF PushInv, PusherOK
<1>4. pushJobs[k] \in Row(Workers)
  BY <1>1, <1>3
<1>5. done \in Row(Workers)
  BY <1>4, UnclaimedFacts DEF SettleRow, JobStatus
<1>6. MaySettle(pushJobs[k], w, pusher[w].epoch, d) => SameDelivery(pushJobs[k], done)
  BY <1>4, SameDeliveries DEF MaySettle, Holds
<1> HIDE DEF k, done
<1>7. pushJobs' \in [Push!Deliveries -> Row(Workers)]
  BY <1>1, <1>2, <1>5
<1>8. \A j \in Push!Deliveries : SameDelivery(pushJobs[j], pushJobs'[j])
  <2> SUFFICES ASSUME NEW j \in Push!Deliveries
               PROVE  SameDelivery(pushJobs[j], pushJobs'[j])
    OBVIOUS
  <2>1. CASE pushJobs' = pushJobs
    BY <1>1, <2>1 DEF SameDelivery
  <2>2. CASE pushJobs' = [pushJobs EXCEPT ![k] = done] /\ SameDelivery(pushJobs[k], done)
    <3>1. CASE j = k
      BY <1>1, <2>2, <3>1
    <3>2. CASE j # k
      BY <1>1, <2>2, <3>2 DEF SameDelivery
    <3>3. QED
      BY <3>1, <3>2
  <2>3. QED
    BY <1>2, <1>6, <2>1, <2>2
<1>9. Push!AcceptedIsTrue'
  BY <1>2 DEF PushInv, Push!AcceptedIsTrue
<1>10. PusherOK(Push!Idle, taken')
  BY PushIdle DEF PusherOK
<1>11. Push!Idle \in Push!Worker /\ Push!Idle.pc # "claimed"
  BY PushIdle
<1>12. QED
  BY <1>1, <1>2, <1>7, <1>8, <1>9, <1>10, <1>11, PushMoves

LEMMA PushAbandon ==
    ASSUME PushInv, NEW w \in Workers, Push!Abandon(w)
    PROVE  PushInv'
<1>1. /\ pushJobs \in [Push!Deliveries -> Row(Workers)] /\ sent \in [Push!Deliveries -> Nat]
      /\ taken \subseteq Push!Deliveries
      /\ delivery \in [Push!Deliveries -> Push!Final \cup {"NONE", "READY"}]
  BY PushRows DEF PushInv, Push!TypeOK
<1>2. /\ pusher' = [pusher EXCEPT ![w] = Push!Idle]
      /\ UNCHANGED <<eligible, created, delivery, pushJobs, sent, taken, switches>>
  BY DEF Push!Abandon
<1>3. \A j \in Push!Deliveries : SameDelivery(pushJobs[j], pushJobs'[j])
  BY <1>1, <1>2 DEF SameDelivery
<1>4. Push!AcceptedIsTrue'
  BY <1>2 DEF PushInv, Push!AcceptedIsTrue
<1>5. PusherOK(Push!Idle, taken') /\ Push!Idle \in Push!Worker /\ Push!Idle.pc # "claimed"
  BY PushIdle DEF PusherOK
<1>6. QED
  BY <1>1, <1>2, <1>3, <1>4, <1>5, PushMoves

\* A claim is a delivery more and a submission to come.
LEMMA PushClaim ==
    ASSUME PushInv, NEW w \in Workers, NEW k \in Push!Deliveries, NEW d \in 0 .. Lag,
           Push!Claim(w, k, d)
    PROVE  PushInv'
<1> DEFINE old == Push!Requeued(d)
           row == ClaimRow(old[k], w, d)
           rec == [Push!Idle EXCEPT !.pc = "claimed", !.key = k, !.epoch = row.epoch]
<1>1. /\ pusher \in [Workers -> Push!Worker]
      /\ pushJobs \in [Push!Deliveries -> Row(Workers)] /\ sent \in [Push!Deliveries -> Nat]
  BY PushRows DEF PushInv, Push!TypeOK
<1>2. /\ old \in [Push!Deliveries -> Row(Workers)]
      /\ \A j \in Push!Deliveries : SameDelivery(pushJobs[j], old[j])
  BY PushRequeued
<1>3. /\ pusher[w].pc = "idle" /\ Claimable(old[k], d)
      /\ pushJobs' = [old EXCEPT ![k] = row]
      /\ pusher' = [pusher EXCEPT ![w] = [Push!Idle EXCEPT !.pc = "claimed", !.key = k,
                                                           !.epoch = pushJobs'[k].epoch]]
      /\ UNCHANGED <<eligible, created, delivery, sent, taken, switches>>
  BY PushRows DEF Push!Claim
<1>4. old[k] \in Row(Workers)
  BY <1>2
<1>5. row \in Row(Workers) /\ row.status = "CLAIMED" /\ row.epoch \in Nat
  BY <1>4, ClaimRowFacts
<1>6. row.attempts = old[k].attempts + 1
  BY <1>4, AttemptsFacts
<1>7. old[k].status = "READY"
  BY <1>3 DEF Claimable
<1> HIDE DEF old, row
<1>8. pushJobs' \in [Push!Deliveries -> Row(Workers)] /\ pushJobs'[k] = row
  BY <1>2, <1>3, <1>5
<1>9. pusher' = [pusher EXCEPT ![w] = rec]
  BY <1>3, <1>8
<1>10. rec \in Push!Worker /\ rec.pc = "claimed" /\ rec.key = k
  BY <1>5 DEF Push!Idle, Push!Worker
<1> HIDE DEF rec
<1>11. pusher' \in [Workers -> Push!Worker]
  BY <1>1, <1>9, <1>10
<1>12. Push!TypeOK'
  BY <1>3, <1>8, <1>11, PushRows DEF PushInv, Push!TypeOK
<1>13. \A v \in Workers : PusherOK(pusher'[v], taken')
  <2> SUFFICES ASSUME NEW v \in Workers
               PROVE  PusherOK(pusher'[v], taken')
    OBVIOUS
  <2>1. PusherOK(pusher[v], taken)
    BY DEF PushInv
  <2>2. CASE v = w
    BY <1>1, <1>9, <1>10, <2>2 DEF PusherOK
  <2>3. CASE v # w
    BY <1>1, <1>3, <1>9, <2>1, <2>3
  <2>4. QED
    BY <2>2, <2>3
<1>14. ASSUME NEW j \in Push!Deliveries
       PROVE  /\ PushRowOK(pushJobs'[j], j[1] \in created')
              /\ Counted(pusher', sent'[j], pushJobs'[j], j)
  <2> DEFINE before == Cardinality(Unsubmitted(pusher, j))
             after == Cardinality(Unsubmitted(pusher', j))
  <2>1. PushRowOK(pushJobs[j], j[1] \in created) /\ Counted(pusher, sent[j], pushJobs[j], j)
    BY DEF PushInv
  <2>2. SameDelivery(pushJobs[j], old[j])
    BY <1>2
  <2>3. IsFiniteSet(Unsubmitted(pusher, j)) /\ sent[j] + before <= pushJobs[j].attempts
    BY <2>1 DEF Counted
  <2>4. /\ IsFiniteSet(Unsubmitted(pusher', j)) /\ before \in Nat
        /\ (rec.key = j => after = before + 1) /\ (rec.key # j => after = before)
    <3>1. rec.pc = "claimed" /\ pusher[w].pc = "idle"
      BY <1>3, <1>10
    <3>2. pusher' = [pusher EXCEPT ![w] = rec]
      BY <1>9
    <3> HIDE DEF rec
    <3>3. QED
      BY <1>1, <2>3, <3>1, <3>2, WorkerClaims
  <2>5. /\ sent[j] \in Nat /\ sent'[j] = sent[j]
        /\ old[j].attempts = pushJobs[j].attempts /\ pushJobs[j].attempts \in Nat
    BY <1>1, <1>3, <2>2 DEF SameDelivery, Row
  <2>6. PushRowOK(old[j], j[1] \in created)
    BY <2>1, <2>2 DEF SameDelivery, PushRowOK
  <2> HIDE DEF before, after
  <2>7. CASE j = k
    <3>1. pushJobs'[j].attempts = pushJobs[j].attempts + 1 /\ after = before + 1
      BY <1>6, <1>8, <1>10, <2>4, <2>5, <2>7
    <3>2. Counted(pusher', sent'[j], pushJobs'[j], j)
      BY <2>3, <2>4, <2>5, <3>1 DEF Counted, after
    <3>3. old[j].attempts < MaxAttempts /\ j[1] \in created
      BY <1>7, <2>6, <2>7 DEF PushRowOK
    <3>4. row.attempts <= MaxAttempts
      BY <1>6, <2>5, <2>7, <3>3, JobTableAssumption
    <3>5. PushRowOK(pushJobs'[j], j[1] \in created')
      BY <1>3, <1>5, <1>8, <2>7, <3>3, <3>4 DEF PushRowOK
    <3>6. QED
      BY <3>2, <3>5
  <2>8. CASE j # k
    <3>1. pushJobs'[j] = old[j] /\ after = before
      BY <1>2, <1>3, <1>10, <2>4, <2>8
    <3>2. Counted(pusher', sent'[j], pushJobs'[j], j)
      BY <2>3, <2>4, <2>5, <3>1 DEF Counted, after
    <3>3. PushRowOK(pushJobs'[j], j[1] \in created')
      BY <1>3, <2>6, <3>1
    <3>4. QED
      BY <3>2, <3>3
  <2>9. QED
    BY <2>7, <2>8
<1>15. Push!AcceptedIsTrue'
  BY <1>3 DEF PushInv, Push!AcceptedIsTrue
<1>16. QED
  BY <1>12, <1>13, <1>14, <1>15 DEF PushInv

LEMMA PushInit ==
    ASSUME Push!Init
    PROVE  PushInv
<1>1. /\ eligible = {} /\ created = {} /\ taken = {} /\ switches = 0
      /\ delivery = [k \in Push!Deliveries |-> "NONE"]
      /\ pushJobs = [k \in Push!Deliveries |-> NoRow]
      /\ pusher = [w \in Workers |-> Push!Idle]
      /\ sent = [k \in Push!Deliveries |-> 0]
  BY PushRows DEF Push!Init
<1>2. Push!TypeOK
  BY <1>1, PushIdle, NewRowFacts, PushRows, PushTableAssumption DEF Push!TypeOK
<1>3. \A w \in Workers : PusherOK(pusher[w], taken)
  BY <1>1, PushIdle DEF PusherOK
<1>4. NoRow.attempts = 0 /\ NoRow.status = "ABSENT"
  BY DEF NoRow
<1>5. ASSUME NEW k \in Push!Deliveries
      PROVE  /\ PushRowOK(pushJobs[k], k[1] \in created)
             /\ Counted(pusher, sent[k], pushJobs[k], k)
  <2>1. pushJobs[k] = NoRow /\ sent[k] = 0
    BY <1>1
  <2>2. Unsubmitted(pusher, k) = {}
    BY <1>1, PushIdle DEF Unsubmitted
  <2>3. Cardinality(Unsubmitted(pusher, k)) = 0 /\ IsFiniteSet(Unsubmitted(pusher, k))
    BY <2>2, FS_EmptySet
  <2>4. Counted(pusher, sent[k], pushJobs[k], k)
    BY <1>4, <2>1, <2>3 DEF Counted
  <2>5. PushRowOK(pushJobs[k], k[1] \in created)
    BY <1>4, <2>1, JobTableAssumption DEF PushRowOK
  <2>6. QED
    BY <2>4, <2>5
<1>6. Push!AcceptedIsTrue
  BY <1>1 DEF Push!AcceptedIsTrue
<1>7. QED
  BY <1>2, <1>3, <1>5, <1>6 DEF PushInv

LEMMA PushNext ==
    ASSUME PushInv, [Push!Next]_(Push!vars)
    PROVE  PushInv'
<1>1. ASSUME NEW e \in Endpoints, Push!Register(e) \/ Push!Invalidate(e)
      PROVE  PushInv'
  <2>1. eligible \subseteq Endpoints
    BY DEF PushInv, Push!TypeOK
  <2>2. eligible \cup {e} \in SUBSET Endpoints /\ eligible \ {e} \in SUBSET Endpoints
    BY <2>1
  <2>3. QED
    BY <1>1, <2>2, PushSwitch DEF Push!Register, Push!Invalidate
<1>2. ASSUME NEW w \in Workers, Push!ClaimBy(w)
      PROVE  PushInv'
  BY <1>2, PushClaim DEF Push!ClaimBy
<1>3. ASSUME NEW w \in Workers, Push!Working(w)
      PROVE  PushInv'
  BY <1>3, PushSubmit, PushRecord, PushSettle DEF Push!Working
<1>4. ASSUME Push!Next
      PROVE  PushInv'
  BY <1>1, <1>2, <1>3, <1>4, PushNotify, PushAbandon, PushRequeue, PushTick DEF Push!Next
<1>5. QED
  BY <1>4, PushStutter

LEMMA PushAlways == Push!Spec => []PushInv
<1>1. Push!Init => PushInv
  BY PushInit
<1>2. PushInv /\ [Push!Next]_(Push!vars) => PushInv'
  BY PushNext
<1>3. QED
  BY <1>1, <1>2, PTL DEF Push!Spec

\* Type correctness of the push delivery: rows, workers, deliveries and the bound counter
\* of PushDelivery.
THEOREM PushTypeCorrect == Push!Spec => []Push!TypeOK
<1>1. PushInv => Push!TypeOK
  BY DEF PushInv
<1>2. QED
  BY <1>1, PushAlways, PTL

\* AcceptedIsTrue: a delivery is ACCEPTED in notification_deliveries only if the provider has accepted it,
\* whichever of several workers with the same delivery stored its answer last and without
\* a fence: the submission of PushDeliveryWorker and the storing of its answer.
THEOREM AcceptancesAreTrue == Push!Spec => []AcceptedIsTrue
<1>1. PushInv => AcceptedIsTrue
  BY DEF PushInv, Push!AcceptedIsTrue, AcceptedIsTrue, Push!Deliveries, Deliveries
<1>2. QED
  BY <1>1, PushAlways, PTL

\* SubmissionsBounded: however often push workers die between the submission and the completion of the job,
\* the provider sees a delivery at most once for each claim of its job, and never more
\* often than max_delivery_attempts.
THEOREM SubmissionsWithinAttempts == Push!Spec => []SubmissionsBounded
<1>1. PushInv => SubmissionsBounded
  <2> SUFFICES ASSUME PushInv, NEW k \in Push!Deliveries
               PROVE  sent[k] <= pushJobs[k].attempts /\ pushJobs[k].attempts <= MaxAttempts
    BY DEF SubmissionsBounded, Deliveries, Push!Deliveries
  <2> DEFINE n == Cardinality(Unsubmitted(pusher, k))
  <2>1. IsFiniteSet(Unsubmitted(pusher, k)) /\ sent[k] + n <= pushJobs[k].attempts
    BY DEF PushInv, Counted
  <2>2. n \in Nat
    BY <2>1, FS_CardinalityType
  <2>3. pushJobs[k] \in Row(Workers) /\ sent[k] \in Nat
    BY PushRows DEF PushInv, Push!TypeOK
  <2>4. pushJobs[k].attempts \in Nat
    BY <2>3 DEF Row
  <2>5. pushJobs[k].attempts <= MaxAttempts
    BY DEF PushInv, PushRowOK
  <2> HIDE DEF n
  <2>6. QED
    BY <2>1, <2>2, <2>3, <2>4, <2>5
<1>2. QED
  BY <1>1, PushAlways, PTL
=============================================================================
