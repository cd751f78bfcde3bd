------------------------- MODULE AgentRuntimeProofs -------------------------
(***************************************************************************)
(* The agent runtime proved correct for any number of runs and workers, any  *)
(* batch size, any leases and any number of questions: the invariants of     *)
(* AgentRuntime, the fence of its claim tokens, and that it implements       *)
(* RunLifecycle.                                                             *)
(***************************************************************************)
EXTENDS AgentRuntime, FiniteSetTheorems, SequenceTheorems, TLAPS

-----------------------------------------------------------------------------
(* The inductive invariant *)

\* What a worker knows by itself: it works on a claim, asks a question that has a
\* number, and keeps a copy of the run only between a read and the write (or the
\* settlement) that follows it.
WorkerOK(a) ==
    /\ a.pc # "idle" => a.claim \in JobClaim
    /\ a.pc \in {"wait", "reask"} => a.question > 0
    /\ a.pc \notin Writing \cup {"settle"} => a.copy = NoRun
    /\ a.pc \in Writing /\ a.copy # NoRun =>
          a.copy.status = "RUNNING" /\ a.copy.token = a.token
    /\ a.pc = "settle" => a.copy.status \notin {"QUEUED", "RUNNING"}

\* A copy that has the version of its row has the row, but for the lease.
SameRow(copy, row) ==
    /\ row.status = copy.status /\ row.token = copy.token /\ row.claims = copy.claims
    /\ row.ask = copy.ask /\ row.answer = copy.answer /\ row.output = copy.output

Fresh(copy, row) ==
    /\ copy.version <= row.version
    /\ copy.version = row.version => SameRow(copy, row)

\* What the worker read is still so when version, or its claim of the job, says so.
ReadsHold(w, a, row, jrow) ==
    /\ a.pc \in Writing /\ a.copy # NoRun => Fresh(a.copy, row)
    /\ a.pc = "settle" /\ Holds(jrow, w, a.claim.epoch) => row.status = a.copy.status

\* A run and its job.
RowsOK(row, jrow) ==
    /\ row.status = "ABSENT" <=> jrow.status = "ABSENT"
    /\ row.status = "ABSENT" => row.version = 0
    /\ row.status = "RUNNING" => row.token = row.claims
    /\ jrow.status = "PAUSED" => row.status = "WAITING"
    /\ jrow.status = "COMPLETED" => row.status \in {"COMPLETED", "FAILED"}
    /\ jrow.status = "CANCELLED" => row.status = "CANCELLED"
    /\ jrow.status = "FAILED" => jrow.exhausted

\* A run and its interactions: only a run that waits, or was cancelled while it
\* waited, has an open one, and that is the newest.
QuestionsOK(row, q) ==
    /\ \A i \in DOMAIN q : i < Len(q) => q[i].status = "RESOLVED"
    /\ row.status \in {"ABSENT", "QUEUED", "RUNNING"} =>
          \A i \in DOMAIN q : q[i].status = "RESOLVED"
    /\ row.status = "WAITING" =>
          /\ row.ask = Len(q) /\ row.ask > 0
          /\ q[row.ask].status = "PENDING"

WorkersInv == \A w \in Workers : WorkerOK(at[w])

ReadsInv ==
    \A w \in Workers :
        at[w].pc # "idle" => ReadsHold(w, at[w], run[Target(w)], job[Target(w)])

RowsInv == \A r \in Runs : RowsOK(run[r], job[r])

QuestionsInv == \A r \in Runs : QuestionsOK(run[r], asked[r])

CheckpointsInv == \A r \in Runs : ckpt[r].kind = "interrupt" => ckpt[r].question > 0

RuntimeInv == /\ TypeOK /\ WorkersInv /\ ReadsInv /\ RowsInv /\ QuestionsInv
              /\ CheckpointsInv

-----------------------------------------------------------------------------
(* What the statements do to one row of durable_jobs and of agent_runs *)

LEMMA UnclaimedFacts ==
    ASSUME NEW row \in Row(Workers), NEW status \in JobStatus
    PROVE  Unclaimed(row, status) \in Row(Workers) /\ Unclaimed(row, status).status = status
<1> DEFINE zero == 0
<1>1. zero \in Int
  OBVIOUS
<1> HIDE DEF zero
<1>2. [row EXCEPT !.status = status, !.owner = Nobody, !.lease = zero] \in Row(Workers)
  BY <1>1 DEF Row
<1>3. Unclaimed(row, status) \in Row(Workers)
  BY <1>2 DEF Unclaimed, zero
<1>4. Unclaimed(row, status).status = status
  BY DEF Unclaimed, Row
<1>5. QED
  BY <1>3, <1>4

LEMMA JobRowFacts ==
    ASSUME NEW row \in Row(Workers), NEW w \in Workers
    PROVE  /\ /\ ClaimRow(row, w, 0) \in Row(Workers)
              /\ ClaimRow(row, w, 0).status = "CLAIMED"
              /\ ClaimRow(row, w, 0).owner = w
              /\ ClaimRow(row, w, 0).epoch \in Nat \ {0}
           /\ /\ RenewRow(row, 0) \in Row(Workers)
              /\ RenewRow(row, 0).status = row.status
              /\ RenewRow(row, 0).owner = row.owner
              /\ RenewRow(row, 0).epoch = row.epoch
              /\ RenewRow(row, 0).exhausted = row.exhausted
<1> DEFINE zero == 0
           epoch == row.epoch + 1
           attempts == row.attempts + 1
<1>0. zero \in Int /\ epoch \in Nat \ {0} /\ attempts \in Nat
  BY DEF Row
<1>1. LeaseTicks - 0 \in Int
  BY JobTableAssumption
<1> HIDE DEF zero, epoch, attempts
<1>3. /\ ClaimRow(row, w, 0) \in Row(Workers)
      /\ ClaimRow(row, w, 0).status = "CLAIMED"
      /\ ClaimRow(row, w, 0).owner = w
      /\ ClaimRow(row, w, 0).epoch \in Nat \ {0}
  <2> DEFINE new == [row EXCEPT !.status = "CLAIMED", !.owner = w, !.epoch = epoch,
                                !.attempts = attempts, !.lease = LeaseTicks - 0, !.wait = zero]
  <2>1. ClaimRow(row, w, 0) = new
    BY DEF ClaimRow, epoch, attempts, zero
  <2>2. new \in Row(Workers)
    BY <1>0, <1>1 DEF Row, JobStatus
  <2>3. new.status = "CLAIMED" /\ new.owner = w /\ new.epoch = epoch
    BY DEF Row
  <2>4. QED
    BY <1>0, <2>1, <2>2, <2>3
<1>5. /\ RenewRow(row, 0) \in Row(Workers)
      /\ RenewRow(row, 0).status = row.status
      /\ RenewRow(row, 0).owner = row.owner
      /\ RenewRow(row, 0).epoch = row.epoch
      /\ RenewRow(row, 0).exhausted = row.exhausted
  BY <1>1 DEF RenewRow, Row
<1>6. QED
  BY <1>3, <1>5

LEMMA ResumeRowFacts ==
    ASSUME NEW row \in Row(Workers)
    PROVE  ResumeRow(row, 0) \in Row(Workers) /\ ResumeRow(row, 0).status = "READY"
<1>1. -0 \in Int
  OBVIOUS
<1>2. QED
  BY <1>1 DEF ResumeRow, Row, JobStatus

\* requeue_expired touches claimed rows only, and makes them READY or, with the
\* deliveries used up, FAILED and exhausted.
LEMMA RequeueRowFacts ==
    ASSUME NEW row \in Row(Workers)
    PROVE  /\ RequeueRow(row, 0) \in Row(Workers)
           /\ \/ RequeueRow(row, 0) = row
              \/ /\ row.status = "CLAIMED"
                 /\ \/ RequeueRow(row, 0).status = "READY"
                    \/ RequeueRow(row, 0).status = "FAILED" /\ RequeueRow(row, 0).exhausted
<1> DEFINE free == Unclaimed(row, "READY")
           failed == Unclaimed(row, "FAILED")
<1>1. free \in Row(Workers) /\ free.status = "READY"
  BY UnclaimedFacts DEF JobStatus
<1>2. failed \in Row(Workers) /\ failed.status = "FAILED"
  BY UnclaimedFacts DEF JobStatus
<1>3. \/ RequeueRow(row, 0) = row
      \/ row.status = "CLAIMED" /\ RequeueRow(row, 0) = [free EXCEPT !.wait = -0]
      \/ row.status = "CLAIMED" /\ RequeueRow(row, 0) = [failed EXCEPT !.exhausted = TRUE]
  BY DEF RequeueRow, Expired
<1> HIDE DEF free, failed
<1>4. [free EXCEPT !.wait = -0] \in Row(Workers) /\ [free EXCEPT !.wait = -0].status = "READY"
  BY <1>1 DEF Row
<1>5. /\ [failed EXCEPT !.exhausted = TRUE] \in Row(Workers)
      /\ [failed EXCEPT !.exhausted = TRUE].status = "FAILED"
      /\ [failed EXCEPT !.exhausted = TRUE].exhausted
  BY <1>2 DEF Row
<1>6. QED
  BY <1>3, <1>4, <1>5

LEMMA AgeRowFacts ==
    ASSUME NEW row \in Row(Workers)
    PROVE  /\ AgeRow(row) \in Row(Workers)
           /\ AgeRow(row).status = row.status /\ AgeRow(row).owner = row.owner
           /\ AgeRow(row).epoch = row.epoch /\ AgeRow(row).exhausted = row.exhausted
<1> DEFINE lease == IF row.status = "CLAIMED" /\ row.lease > -(Lag + 1) THEN row.lease - 1 ELSE row.lease
           wait == IF row.status = "READY" /\ row.wait > -Lag THEN row.wait - 1 ELSE row.wait
<1>1. lease \in Int /\ wait \in Int
  BY JobTableAssumption DEF Row
<1>2. AgeRow(row) = [row EXCEPT !.lease = lease, !.wait = wait]
  BY DEF AgeRow
<1> HIDE DEF lease, wait
<1>3. QED
  BY <1>1, <1>2 DEF Row

\* Every way of giving up a run clears its claim token and lease.
LEMMA ReleasedFacts ==
    ASSUME NEW row \in RunRow, NEW status \in RunStatus
    PROVE  /\ Released(row, status) \in RunRow /\ Released(row, status).status = status
           /\ Released(row, status).version = row.version + 1
           /\ Released(row, status).claims = row.claims
<1> DEFINE zero == 0
           next == row.version + 1
           new == [row EXCEPT !.status = status, !.token = zero, !.lease = zero, !.version = next]
<1>1. zero \in Nat /\ zero \in Int /\ next \in Nat
  BY DEF RunRow
<1>2. Released(row, status) = new
  BY DEF Released
<1> HIDE DEF zero, next
<1>3. new \in RunRow
  BY <1>1 DEF RunRow
<1>4. new.status = status /\ new.version = next /\ new.claims = row.claims
  BY DEF RunRow
<1>5. QED
  BY <1>2, <1>3, <1>4 DEF next

\* The fields the entity's methods write, and the version each of them advances.
LEMMA RunRowFacts ==
    ASSUME NEW row \in RunRow, NEW id \in Nat, NEW status \in RunStatus
    PROVE  /\ /\ Claimed(row) \in RunRow /\ Claimed(row).status = "RUNNING"
              /\ Claimed(row).version = row.version + 1
              /\ Claimed(row).claims = row.claims + 1
              /\ Claimed(row).token = Claimed(row).claims
           /\ /\ Waiting(row, id) \in RunRow /\ Waiting(row, id).status = "WAITING"
              /\ Waiting(row, id).version = row.version + 1
              /\ Waiting(row, id).ask = id
              /\ Waiting(row, id).claims = row.claims
           /\ /\ Resumed(row) \in RunRow /\ Resumed(row).status = "QUEUED"
              /\ Resumed(row).version = row.version + 1
           /\ /\ Accepted(row) \in RunRow /\ Accepted(row).status = row.status
              /\ Accepted(row).version = row.version + 1
              /\ Accepted(row).token = row.token
              /\ Accepted(row).claims = row.claims
           /\ /\ Ended(row, status) \in RunRow /\ Ended(row, status).status = status
              /\ Ended(row, status).version = row.version + 1
              /\ Ended(row, status).claims = row.claims
<1> DEFINE zero == 0
           next == row.version + 1
           claim == row.claims + 1
<1>0. zero \in Nat /\ zero \in Int /\ next \in Nat /\ claim \in Nat /\ RunLease \in Int
  BY RunTableAssumption DEF RunRow
<1> HIDE DEF zero, next, claim
<1>1. /\ Claimed(row) \in RunRow /\ Claimed(row).status = "RUNNING"
      /\ Claimed(row).version = next
      /\ Claimed(row).claims = claim
      /\ Claimed(row).token = claim
  <2> DEFINE new == [row EXCEPT !.status = "RUNNING", !.token = claim, !.claims = claim,
                                !.lease = RunLease, !.version = next]
  <2>1. Claimed(row) = new
    BY DEF Claimed, claim, next
  <2>2. new \in RunRow
    BY <1>0 DEF RunRow, RunStatus
  <2>3. new.status = "RUNNING" /\ new.version = next /\ new.claims = claim /\ new.token = claim
    BY DEF RunRow
  <2>4. QED
    BY <2>1, <2>2, <2>3
<1>2. ASSUME NEW s \in RunStatus
      PROVE  /\ Released(row, s) \in RunRow /\ Released(row, s).status = s
             /\ Released(row, s).version = next
             /\ Released(row, s).claims = row.claims
  BY ReleasedFacts DEF next
<1>3. /\ Waiting(row, id) \in RunRow /\ Waiting(row, id).status = "WAITING"
      /\ Waiting(row, id).version = next
      /\ Waiting(row, id).ask = id
      /\ Waiting(row, id).claims = row.claims
  <2> DEFINE free == Released(row, "WAITING")
  <2>1. /\ free \in RunRow /\ free.status = "WAITING" /\ free.version = next
        /\ free.claims = row.claims
    BY <1>2 DEF RunStatus
  <2>2. Waiting(row, id) = [free EXCEPT !.ask = id]
    BY DEF Waiting
  <2> HIDE DEF free
  <2>3. QED
    BY <2>1, <2>2 DEF RunRow
<1>4. /\ Resumed(row) \in RunRow /\ Resumed(row).status = "QUEUED"
      /\ Resumed(row).version = next
  <2> DEFINE new == [row EXCEPT !.status = "QUEUED", !.answer = row.ask, !.ask = zero,
                                !.version = next]
  <2>1. Resumed(row) = new
    BY DEF Resumed, zero, next
  <2>2. new \in RunRow
    BY <1>0 DEF RunRow, RunStatus
  <2>3. new.status = "QUEUED" /\ new.version = next
    BY DEF RunRow
  <2>4. QED
    BY <2>1, <2>2, <2>3
<1>5. /\ Accepted(row) \in RunRow /\ Accepted(row).status = row.status
      /\ Accepted(row).version = next
      /\ Accepted(row).token = row.token
      /\ Accepted(row).claims = row.claims
  <2> DEFINE new == [row EXCEPT !.output = TRUE, !.version = next]
  <2>1. Accepted(row) = new
    BY DEF Accepted, next
  <2>2. new \in RunRow
    BY <1>0 DEF RunRow
  <2>3. /\ new.status = row.status /\ new.version = next
        /\ new.token = row.token /\ new.claims = row.claims
    BY DEF RunRow
  <2>4. QED
    BY <2>1, <2>2, <2>3
<1>6. /\ Ended(row, status) \in RunRow /\ Ended(row, status).status = status
      /\ Ended(row, status).version = next
      /\ Ended(row, status).claims = row.claims
  BY <1>2 DEF Ended
<1>7. QED
  BY <1>1, <1>3, <1>4, <1>5, <1>6 DEF next, claim

LEMMA ClaimedFacts ==
    ASSUME NEW row \in RunRow
    PROVE  /\ Claimed(row) \in RunRow /\ Claimed(row).status = "RUNNING"
           /\ Claimed(row).version = row.version + 1
           /\ Claimed(row).claims = row.claims + 1
           /\ Claimed(row).token = Claimed(row).claims
<1>1. 0 \in Nat /\ "RUNNING" \in RunStatus
  BY DEF RunStatus
<1>2. QED
  BY <1>1, RunRowFacts

LEMMA WaitingFacts ==
    ASSUME NEW row \in RunRow, NEW id \in Nat
    PROVE  /\ Waiting(row, id) \in RunRow /\ Waiting(row, id).status = "WAITING"
           /\ Waiting(row, id).version = row.version + 1
           /\ Waiting(row, id).ask = id
           /\ Waiting(row, id).claims = row.claims
<1>1. "WAITING" \in RunStatus
  BY DEF RunStatus
<1>2. QED
  BY <1>1, RunRowFacts

\* The clock and a renewal move the lease and nothing else.
LEMMA LeaseFacts ==
    ASSUME NEW row \in RunRow
    PROVE  /\ Renewed(row) \in RunRow /\ Renewed(row).version = row.version
           /\ SameRow(row, Renewed(row))
           /\ Aged(row) \in RunRow /\ Aged(row).version = row.version
           /\ SameRow(row, Aged(row))
<1>1. /\ Renewed(row) \in RunRow /\ Renewed(row).version = row.version
      /\ SameRow(row, Renewed(row))
  BY RunTableAssumption DEF Renewed, RunRow, SameRow
<1> DEFINE lease == IF row.status = "RUNNING" /\ row.lease > 0 THEN row.lease - 1 ELSE row.lease
<1>2. lease \in Int
  BY DEF RunRow
<1>3. Aged(row) = [row EXCEPT !.lease = lease]
  BY DEF Aged
<1> HIDE DEF lease
<1>4. Aged(row) \in RunRow /\ Aged(row).version = row.version /\ SameRow(row, Aged(row))
  BY <1>2, <1>3 DEF RunRow, SameRow
<1>5. QED
  BY <1>1, <1>4

LEMMA NoRunFacts == /\ NoRun \in RunRow /\ NoRun.status = "ABSENT" /\ NoRun.version = 0
                    /\ NewRun \in RunRow /\ NewRun.status = "QUEUED" /\ NewRun.version = 1
                    /\ NoRow \in Row(Workers) /\ NoRow.status = "ABSENT"
                    /\ NewRow \in Row(Workers) /\ NewRow.status = "READY"
<1>1. NoRun \in RunRow /\ NoRun.status = "ABSENT" /\ NoRun.version = 0
  BY DEF NoRun, RunRow, RunStatus
<1>2. NewRun \in RunRow /\ NewRun.status = "QUEUED" /\ NewRun.version = 1
  BY <1>1 DEF NewRun, RunRow, RunStatus
<1>3. NoRow \in Row(Workers) /\ NoRow.status = "ABSENT"
  BY DEF NoRow, Row, JobStatus
<1>4. NewRow \in Row(Workers) /\ NewRow.status = "READY"
  BY <1>3 DEF NewRow, Row, JobStatus
<1>5. QED
  BY <1>1, <1>2, <1>3, <1>4

-----------------------------------------------------------------------------
(* What a step leaves of the invariant *)

\* A row only ever moves on to higher versions.
RowMoves(row, row2) ==
    /\ row.version <= row2.version
    /\ row.version = row2.version => SameRow(row, row2)

\* A claim of a job that is under way was held before, and a run whose outcome a
\* worker may have read has not changed while the claim is held.
ClaimKept(row, row2, jrow, jrow2, v, e) ==
    Holds(jrow2, v, e) =>
        /\ Holds(jrow, v, e)
        /\ row.status \in {"QUEUED", "RUNNING"} \/ row2.status = row.status

Frame ==
    \A r \in Runs :
        /\ RowMoves(run[r], run'[r])
        /\ \A v \in Workers : at[v].pc # "idle" =>
              \A e \in Nat \ {0} : ClaimKept(run[r], run'[r], job[r], job'[r], v, e)

LEMMA StageFacts ==
    /\ Stage \ {"idle"} = {"graph", "wait", "accept", "complete", "memory", "start", "inspect",
                           "reask", "finalAccept", "finalComplete", "fail", "report", "settle"}
    /\ "idle" \notin Writing /\ "settle" \notin Writing /\ Writing \subseteq Stage
  BY DEF Stage, Guarded, Unguarded, Writing

\* A worker that is not idle works on a run.
LEMMA TargetFacts ==
    ASSUME TypeOK, WorkersInv, NEW w \in Workers, at[w].pc # "idle"
    PROVE  /\ at[w] \in Worker /\ Target(w) \in Runs /\ at[w].claim.epoch \in Nat \ {0}
           /\ run[Target(w)] \in RunRow /\ job[Target(w)] \in Row(Workers)
<1>1. at[w].claim \in JobClaim
  BY DEF WorkersInv, WorkerOK
<1>2. Target(w) \in Runs /\ at[w].claim.epoch \in Nat \ {0}
  BY <1>1 DEF Target, JobClaim
<1>3. QED
  BY <1>2 DEF TypeOK

LEMMA RowStays == \A row \in RunRow : RowMoves(row, row)
  BY DEF RowMoves, SameRow, RunRow

\* What a worker read outlives the steps of others.
LEMMA ReadsFrame ==
    ASSUME RuntimeInv, TypeOK', Frame, NEW v \in Workers, at'[v] = at[v]
    PROVE  WorkerOK(at'[v])
           /\ (at'[v].pc # "idle" =>
                 ReadsHold(v, at'[v], run'[at'[v].claim.run], job'[at'[v].claim.run]))
<1>1. WorkerOK(at'[v])
  BY DEF RuntimeInv, WorkersInv
<1>2. ASSUME at[v].pc # "idle"
      PROVE  ReadsHold(v, at[v], run'[Target(v)], job'[Target(v)])
  <2> DEFINE r == Target(v)
             a == at[v]
  <2>1. /\ a \in Worker /\ r \in Runs /\ a.claim.epoch \in Nat \ {0} /\ WorkerOK(a)
        /\ ReadsHold(v, a, run[r], job[r])
    BY <1>2, TargetFacts DEF RuntimeInv, ReadsInv, WorkersInv
  <2>2. /\ RowMoves(run[r], run'[r])
        /\ ClaimKept(run[r], run'[r], job[r], job'[r], v, a.claim.epoch)
    BY <1>2, <2>1 DEF Frame
  <2>3. /\ run[r] \in RunRow /\ run'[r] \in RunRow
    BY <2>1 DEF RuntimeInv, TypeOK
  <2>4. ASSUME a.pc \in Writing /\ a.copy # NoRun
        PROVE  Fresh(a.copy, run'[r])
    <3>1. Fresh(a.copy, run[r])
      BY <2>1, <2>4 DEF ReadsHold
    <3>2. a.copy \in RunRow
      BY <2>1 DEF Worker
    <3>3. /\ a.copy.version \in Nat /\ run[r].version \in Nat /\ run'[r].version \in Nat
      BY <2>3, <3>2 DEF RunRow
    <3>4. QED
      BY <2>2, <3>1, <3>3 DEF Fresh, RowMoves, SameRow
  <2>5. ASSUME a.pc = "settle", Holds(job'[r], v, a.claim.epoch)
        PROVE  run'[r].status = a.copy.status
    BY <2>1, <2>2, <2>5 DEF ClaimKept, ReadsHold, WorkerOK
  <2>6. QED
    BY <2>4, <2>5 DEF ReadsHold
<1>3. QED
  BY <1>1, <1>2 DEF Target

LEMMA WorkersStay ==
    ASSUME RuntimeInv, TypeOK', Frame, at' = at
    PROVE  WorkersInv' /\ ReadsInv'
  BY ReadsFrame DEF WorkersInv, ReadsInv, Target

LEMMA OneWorker ==
    ASSUME RuntimeInv, TypeOK', Frame, NEW w \in Workers,
           \A v \in Workers \ {w} : at'[v] = at[v],
           WorkerOK(at'[w]),
           at'[w].pc # "idle" =>
               ReadsHold(w, at'[w], run'[at'[w].claim.run], job'[at'[w].claim.run])
    PROVE  WorkersInv' /\ ReadsInv'
<1>1. \A v \in Workers \ {w} :
          WorkerOK(at'[v])
          /\ (at'[v].pc # "idle" =>
                 ReadsHold(v, at'[v], run'[at'[v].claim.run], job'[at'[v].claim.run]))
  BY ReadsFrame
<1>2. QED
  BY <1>1 DEF WorkersInv, ReadsInv, Target

\* A step that touches the rows of one run.
LEMMA OneRun ==
    ASSUME RuntimeInv, TypeOK', NEW r \in Runs,
           \A x \in Runs \ {r} : /\ run'[x] = run[x] /\ job'[x] = job[x]
                                  /\ asked'[x] = asked[x] /\ ckpt'[x] = ckpt[x],
           RowMoves(run[r], run'[r]), RowsOK(run'[r], job'[r]),
           QuestionsOK(run'[r], asked'[r]),
           ckpt'[r].kind = "interrupt" => ckpt'[r].question > 0,
           \A v \in Workers, e \in Nat \ {0} : ClaimKept(run[r], run'[r], job[r], job'[r], v, e)
    PROVE  Frame /\ RowsInv' /\ QuestionsInv' /\ CheckpointsInv'
<1>1. \A x \in Runs : RowMoves(run[x], run[x])
  BY RowStays DEF RuntimeInv, TypeOK
<1>2. \A x \in Runs, v \in Workers, e \in Nat \ {0} : ClaimKept(run[x], run[x], job[x], job[x], v, e)
  BY DEF ClaimKept
<1>3. Frame
  BY <1>1, <1>2 DEF Frame
<1>4. RowsInv'
  BY DEF RowsInv, RuntimeInv
<1>5. QuestionsInv'
  BY DEF QuestionsInv, RuntimeInv
<1>6. CheckpointsInv'
  BY DEF CheckpointsInv, RuntimeInv
<1>7. QED
  BY <1>3, <1>4, <1>5, <1>6

LEMMA NoRunTouched ==
    ASSUME RuntimeInv, UNCHANGED <<run, job, asked, ckpt>>
    PROVE  Frame /\ RowsInv' /\ QuestionsInv' /\ CheckpointsInv'
<1>1. \A x \in Runs : RowMoves(run[x], run[x])
  BY RowStays DEF RuntimeInv, TypeOK
<1>2. \A x \in Runs, v \in Workers, e \in Nat \ {0} : ClaimKept(run[x], run[x], job[x], job[x], v, e)
  BY DEF ClaimKept
<1>3. Frame
  BY <1>1, <1>2 DEF Frame
<1>4. QED
  BY <1>3 DEF RowsInv, QuestionsInv, CheckpointsInv, RuntimeInv

-----------------------------------------------------------------------------
(* Steps of a worker that touch no row *)

LEMMA AtRestFacts == AtRest \in Worker /\ AtRest.pc = "idle" /\ AtRest.copy = NoRun
  BY NoRunFacts, AgentRuntimeAssumption DEF AtRest, Worker, Stage

\* A worker that goes on has no copy, so nothing it has read can be out of date.
LEMMA GotoFacts ==
    ASSUME RuntimeInv, NEW w \in Workers, NEW pc \in Stage \ {"idle", "settle"},
           at[w].pc # "idle", Goto(w, pc), pc \in {"wait", "reask"} => at[w].question > 0
    PROVE  /\ at' \in [Workers -> Worker]
           /\ \A v \in Workers \ {w} : at'[v] = at[v]
           /\ at'[w].pc = pc /\ at'[w].claim = at[w].claim /\ at'[w].token = at[w].token
           /\ WorkerOK(at'[w])
           /\ \A row, jrow : ReadsHold(w, at'[w], row, jrow)
<1> DEFINE new == [at[w] EXCEPT !.pc = pc, !.copy = NoRun]
<1>1. at \in [Workers -> Worker] /\ at[w] \in Worker /\ WorkerOK(at[w])
  BY DEF RuntimeInv, TypeOK, WorkersInv
<1>2. at' = [at EXCEPT ![w] = new]
  BY <1>1 DEF Goto
<1>3. /\ new \in Worker /\ new.pc = pc /\ new.copy = NoRun /\ new.claim = at[w].claim
      /\ new.token = at[w].token /\ new.question = at[w].question
  BY <1>1, NoRunFacts DEF Worker
<1> HIDE DEF new
<1>4. at'[w] = new /\ at' \in [Workers -> Worker] /\ \A v \in Workers \ {w} : at'[v] = at[v]
  BY <1>1, <1>2, <1>3
<1>5. WorkerOK(new)
  BY <1>1, <1>3 DEF WorkerOK
<1>6. \A row, jrow : ReadsHold(w, new, row, jrow)
  BY <1>3 DEF ReadsHold
<1>7. QED
  BY <1>3, <1>4, <1>5, <1>6

LEMMA ForgetFacts ==
    ASSUME TypeOK, NEW w \in Workers, Forget(w)
    PROVE  /\ at' \in [Workers -> Worker] /\ rest' \in [Workers -> SUBSET JobClaim]
           /\ at'[w] = AtRest /\ at'[w].pc = "idle"
           /\ \A v \in Workers \ {w} : at'[v] = at[v]
           /\ WorkerOK(at'[w])
<1>1. WorkerOK(AtRest)
  BY AtRestFacts DEF WorkerOK, Writing
<1>2. QED
  BY <1>1, AtRestFacts DEF Forget, TypeOK

\* Such a step keeps the invariant.
LEMMA LocalStep ==
    ASSUME RuntimeInv, NEW w \in Workers, UNCHANGED <<run, job, asked, replies, ckpt>>,
           at' \in [Workers -> Worker], rest' \in [Workers -> SUBSET JobClaim],
           \A v \in Workers \ {w} : at'[v] = at[v],
           WorkerOK(at'[w]),
           at'[w].pc # "idle" =>
               ReadsHold(w, at'[w], run'[at'[w].claim.run], job'[at'[w].claim.run])
    PROVE  RuntimeInv'
<1>1. TypeOK'
  BY DEF RuntimeInv, TypeOK
<1>2. Frame /\ RowsInv' /\ QuestionsInv' /\ CheckpointsInv'
  BY NoRunTouched
<1>3. WorkersInv' /\ ReadsInv'
  BY <1>1, <1>2, OneWorker
<1>4. QED
  BY <1>1, <1>2, <1>3 DEF RuntimeInv

LEMMA GotoInv ==
    ASSUME RuntimeInv, NEW w \in Workers, NEW pc \in Stage \ {"idle", "settle"},
           at[w].pc # "idle", Goto(w, pc), pc \in {"wait", "reask"} => at[w].question > 0,
           UNCHANGED <<run, job, asked, replies, ckpt, rest>>
    PROVE  RuntimeInv'
<1>1. rest' \in [Workers -> SUBSET JobClaim]
  BY DEF RuntimeInv, TypeOK
<1>2. QED
  BY <1>1, GotoFacts, LocalStep

LEMMA ForgetInv ==
    ASSUME RuntimeInv, NEW w \in Workers, Forget(w), UNCHANGED <<run, job, asked, replies, ckpt>>
    PROVE  RuntimeInv'
<1>1. TypeOK
  BY DEF RuntimeInv
<1>2. QED
  BY <1>1, ForgetFacts, LocalStep

LEMMA ThrowsInv ==
    ASSUME RuntimeInv, NEW w \in Workers, at[w].pc \in Guarded \cup Unguarded, Throws(w),
           UNCHANGED <<run, job, asked, replies, ckpt, rest>>
    PROVE  RuntimeInv'
<1> DEFINE pc == IF at[w].pc \in Guarded THEN "fail" ELSE "report"
<1>1. pc \in Stage \ {"idle", "settle"} /\ pc \notin {"wait", "reask"} /\ at[w].pc # "idle"
  BY DEF Stage, Unguarded, Guarded
<1>2. Goto(w, pc)
  BY DEF Throws
<1> HIDE DEF pc
<1>3. QED
  BY <1>1, <1>2, GotoInv

LEMMA BeginInv ==
    ASSUME RuntimeInv, NEW w \in Workers, NEW c \in rest[w], Begin(w, c)
    PROVE  RuntimeInv'
<1> DEFINE new == [at[w] EXCEPT !.pc = "start", !.claim = c]
<1>1. /\ at \in [Workers -> Worker] /\ at[w] \in Worker /\ WorkerOK(at[w])
      /\ rest \in [Workers -> SUBSET JobClaim] /\ c \in JobClaim /\ at[w].pc = "idle"
  BY DEF RuntimeInv, TypeOK, WorkersInv, Begin
<1>2. at' = [at EXCEPT ![w] = new] /\ rest' \in [Workers -> SUBSET JobClaim]
      /\ UNCHANGED <<run, job, asked, replies, ckpt>>
  BY <1>1 DEF Begin
<1>3. /\ new \in Worker /\ new.pc = "start" /\ new.copy = at[w].copy /\ new.claim = c
  BY <1>1 DEF Worker, Stage, Unguarded
<1> HIDE DEF new
<1>4. at'[w] = new /\ at' \in [Workers -> Worker] /\ \A v \in Workers \ {w} : at'[v] = at[v]
  BY <1>1, <1>2, <1>3
<1>5. WorkerOK(new) /\ \A row, jrow : ReadsHold(w, new, row, jrow)
  BY <1>1, <1>3 DEF WorkerOK, ReadsHold, Writing
<1>6. QED
  BY <1>2, <1>4, <1>5, LocalStep

LEMMA ReadOutcomeInv ==
    ASSUME RuntimeInv, NEW w \in Workers, ReadOutcome(w)
    PROVE  RuntimeInv'
<1> DEFINE row == run[Target(w)]
           new == [at[w] EXCEPT !.pc = "settle", !.copy = row]
<1>1. /\ at \in [Workers -> Worker] /\ at[w] \in Worker /\ WorkerOK(at[w])
      /\ at[w].pc = "report" /\ UNCHANGED <<run, job, asked, replies, ckpt>>
  BY DEF RuntimeInv, TypeOK, WorkersInv, ReadOutcome
<1>2. CASE row.status \in {"QUEUED", "RUNNING"}
  BY <1>1, <1>2, ForgetInv DEF ReadOutcome
<1>3. CASE ~(row.status \in {"QUEUED", "RUNNING"})
  <2>1. row \in RunRow
    BY <1>1, TargetFacts DEF RuntimeInv
  <2>2. at' = [at EXCEPT ![w] = new] /\ rest' = rest
    BY <1>1, <1>3 DEF ReadOutcome
  <2>3. /\ new \in Worker /\ new.pc = "settle" /\ new.copy = row /\ new.claim = at[w].claim
    BY <1>1, <2>1 DEF Worker, Stage
  <2>4. run'[new.claim.run] = row
    BY <1>1, <2>3 DEF Target
  <2> HIDE DEF new, row
  <2>5. at'[w] = new /\ at' \in [Workers -> Worker] /\ \A v \in Workers \ {w} : at'[v] = at[v]
    BY <1>1, <2>2, <2>3
  <2>6. WorkerOK(new) /\ \A jrow : ReadsHold(w, new, row, jrow)
    BY <1>1, <1>3, <2>3 DEF WorkerOK, ReadsHold, Writing
  <2>7. rest' \in [Workers -> SUBSET JobClaim]
    BY <2>2 DEF RuntimeInv, TypeOK
  <2>8. QED
    BY <1>1, <2>4, <2>5, <2>6, <2>7, LocalStep
<1>4. QED
  BY <1>2, <1>3

LEMMA InspectInv ==
    ASSUME RuntimeInv, NEW w \in Workers, Inspect(w)
    PROVE  RuntimeInv'
<1> DEFINE c == ckpt[Target(w)]
           new == [at[w] EXCEPT !.pc = "reask", !.question = c.question]
<1>1. /\ at \in [Workers -> Worker] /\ at[w] \in Worker /\ WorkerOK(at[w])
      /\ at[w].pc = "inspect" /\ UNCHANGED <<run, job, asked, replies, ckpt, rest>>
      /\ rest \in [Workers -> SUBSET JobClaim]
  BY DEF RuntimeInv, TypeOK, WorkersInv, Inspect
<1>2. ASSUME NEW pc \in {"fail", "finalComplete", "finalAccept", "graph"}, Goto(w, pc)
      PROVE  RuntimeInv'
  <2>1. pc \in Stage \ {"idle", "settle"} /\ pc \notin {"wait", "reask"}
    BY DEF Stage, Unguarded, Guarded
  <2>2. QED
    BY <1>1, <1>2, <2>1, GotoInv
<1>3. ASSUME c.kind = "interrupt",
             at' = [at EXCEPT ![w].pc = "reask", ![w].question = c.question]
      PROVE  RuntimeInv'
  <2>1. c \in Checkpoint /\ c.question > 0
    BY <1>1, <1>3, TargetFacts DEF RuntimeInv, TypeOK, CheckpointsInv
  <2>2. at' = [at EXCEPT ![w] = new]
    BY <1>1, <1>3
  <2>3. /\ new \in Worker /\ new.pc = "reask" /\ new.copy = at[w].copy
        /\ new.claim = at[w].claim /\ new.question = c.question
    BY <1>1, <2>1 DEF Worker, Stage, Unguarded, Checkpoint
  <2> HIDE DEF new, c
  <2>4. at'[w] = new /\ at' \in [Workers -> Worker] /\ \A v \in Workers \ {w} : at'[v] = at[v]
    BY <1>1, <2>2, <2>3
  <2>5. new.copy = NoRun
    BY <1>1, <2>3 DEF WorkerOK, Writing
  <2>6. WorkerOK(new) /\ \A row, jrow : ReadsHold(w, new, row, jrow)
    BY <1>1, <2>1, <2>3, <2>5 DEF WorkerOK, ReadsHold
  <2>7. QED
    BY <1>1, <2>4, <2>6, LocalStep
<1>4. QED
  BY <1>2, <1>3 DEF Inspect

LEMMA ReadRunInv ==
    ASSUME RuntimeInv, NEW w \in Workers, ReadRun(w)
    PROVE  RuntimeInv'
<1> DEFINE row == run[Target(w)]
           new == [at[w] EXCEPT !.copy = row]
<1>1. /\ at \in [Workers -> Worker] /\ at[w] \in Worker /\ WorkerOK(at[w])
      /\ at[w].pc \in Writing /\ UNCHANGED <<run, job, asked, replies, ckpt, rest>>
      /\ rest \in [Workers -> SUBSET JobClaim]
  BY DEF RuntimeInv, TypeOK, WorkersInv, ReadRun
<1>2. at[w].pc \in Guarded \cup Unguarded /\ at[w].pc # "idle" /\ at[w].pc # "settle"
  BY <1>1 DEF Writing, Guarded, Unguarded
<1>3. CASE HeldBy(row, at[w].token)
  <2>1. row \in RunRow
    BY <1>2, TargetFacts DEF RuntimeInv
  <2>2. at' = [at EXCEPT ![w] = new]
    BY <1>1, <1>3 DEF ReadRun
  <2>3. /\ new \in Worker /\ new.pc = at[w].pc /\ new.copy = row /\ new.claim = at[w].claim
        /\ new.token = at[w].token /\ new.question = at[w].question
    BY <1>1, <2>1 DEF Worker
  <2>4. run'[new.claim.run] = row /\ row.status = "RUNNING" /\ row.token = at[w].token
    BY <1>1, <1>3, <2>3 DEF Target, HeldBy
  <2> HIDE DEF new, row
  <2>5. at'[w] = new /\ at' \in [Workers -> Worker] /\ \A v \in Workers \ {w} : at'[v] = at[v]
    BY <1>1, <2>2, <2>3
  <2>6. WorkerOK(new)
    BY <1>1, <1>2, <2>3, <2>4 DEF WorkerOK
  <2>7. Fresh(row, row)
    BY <2>1 DEF Fresh, SameRow, RunRow
  <2>8. \A jrow : ReadsHold(w, new, row, jrow)
    BY <1>2, <2>3, <2>7 DEF ReadsHold
  <2>9. QED
    BY <1>1, <2>4, <2>5, <2>6, <2>8, LocalStep
<1>4. CASE ~HeldBy(row, at[w].token)
  BY <1>1, <1>2, <1>4, ThrowsInv DEF ReadRun
<1>5. QED
  BY <1>3, <1>4

LEMMA LocalStepsInv ==
    ASSUME RuntimeInv, NEW w \in Workers,
           Crash(w) \/ Raise(w) \/ WriteRefused(w) \/ FormMemory(w)
    PROVE  RuntimeInv'
<1>1. CASE Crash(w)
  BY <1>1, ForgetInv DEF Crash
<1>2. CASE Raise(w)
  BY <1>2, ThrowsInv DEF Raise
<1>3. CASE WriteRefused(w)
  <2>1. at[w].pc \in Guarded \cup Unguarded
    BY <1>3 DEF WriteRefused, AtWrite, Writing, Guarded, Unguarded
  <2>2. QED
    BY <1>3, <2>1, ThrowsInv DEF WriteRefused
<1>4. CASE FormMemory(w)
  <2>1. "report" \in Stage \ {"idle", "settle"}
    BY DEF Stage
  <2>2. QED
    BY <1>4, <2>1, GotoInv DEF FormMemory
<1>5. QED
  BY <1>1, <1>2, <1>3, <1>4

-----------------------------------------------------------------------------
(* The users' steps *)

LEMMA CreateRunInv ==
    ASSUME RuntimeInv, NEW r \in Runs, CreateRun(r)
    PROVE  RuntimeInv'
<1>1. /\ TypeOK /\ run[r] \in RunRow /\ run[r].status = "ABSENT" /\ RowsOK(run[r], job[r])
      /\ run' = [run EXCEPT ![r] = NewRun] /\ job' = [job EXCEPT ![r] = NewRow]
      /\ UNCHANGED <<at, rest, ckpt, replies, asked>>
      /\ QuestionsOK(run[r], asked[r])
  BY DEF RuntimeInv, TypeOK, RowsInv, QuestionsInv, CreateRun, users
<1>2. TypeOK'
  BY <1>1, NoRunFacts DEF TypeOK
<1>3. run'[r] = NewRun /\ job'[r] = NewRow /\ asked'[r] = asked[r] /\ ckpt'[r] = ckpt[r]
  BY <1>1 DEF TypeOK
<1>4. RowMoves(run[r], run'[r])
  BY <1>1, <1>3, NoRunFacts DEF RowMoves, RowsOK
<1>5. RowsOK(run'[r], job'[r])
  BY <1>3, NoRunFacts DEF RowsOK
<1>6. QuestionsOK(run'[r], asked'[r])
  BY <1>1, <1>3, NoRunFacts DEF QuestionsOK
<1>7. \A v \in Workers, e \in Nat \ {0} : ClaimKept(run[r], run'[r], job[r], job'[r], v, e)
  BY <1>3, NoRunFacts DEF ClaimKept, Holds
<1>8. ckpt'[r].kind = "interrupt" => ckpt'[r].question > 0
  BY <1>3 DEF RuntimeInv, CheckpointsInv
<1>9. \A x \in Runs \ {r} : /\ run'[x] = run[x] /\ job'[x] = job[x]
                             /\ asked'[x] = asked[x] /\ ckpt'[x] = ckpt[x]
  BY <1>1
<1>10. Frame /\ RowsInv' /\ QuestionsInv' /\ CheckpointsInv'
  BY <1>2, <1>4, <1>5, <1>6, <1>7, <1>8, <1>9, OneRun
<1>11. QED
  BY <1>1, <1>2, <1>10, WorkersStay DEF RuntimeInv

\* The answer resolves the one open interaction.
LEMMA ResumeInv ==
    ASSUME RuntimeInv, NEW r \in Runs, Resume(r)
    PROVE  RuntimeInv'
<1> DEFINE q == asked[r]
           k == run[r].ask
           q2 == [q EXCEPT ![k].status = "RESOLVED"]
<1>1. /\ TypeOK /\ run[r] \in RunRow /\ job[r] \in Row(Workers) /\ run[r].status = "WAITING"
      /\ RowsOK(run[r], job[r]) /\ QuestionsOK(run[r], q) /\ q \in Seq(Interaction)
      /\ run' = [run EXCEPT ![r] = Resumed(run[r])]
      /\ job' = [job EXCEPT ![r] = ResumeRow(job[r], 0)]
      /\ asked' = [asked EXCEPT ![r] = q2]
      /\ MayResume(job[r])
      /\ UNCHANGED <<at, rest, ckpt, replies>>
  BY DEF RuntimeInv, TypeOK, RowsInv, QuestionsInv, Resume, users
<1>2. k = Len(q) /\ k > 0 /\ Len(q) \in Nat /\ k \in 1 .. Len(q)
  BY <1>1 DEF QuestionsOK
<1>3. /\ q2 \in Seq(Interaction) /\ Len(q2) = Len(q)
      /\ q2[k].status = "RESOLVED"
      /\ \A i \in 1 .. Len(q) : i # k => q2[i] = q[i]
  <2> DEFINE x == [q[k] EXCEPT !.status = "RESOLVED"]
  <2>1. q[k] \in Interaction
    BY <1>1, <1>2
  <2>2. x \in Interaction /\ x.status = "RESOLVED"
    BY <2>1 DEF Interaction
  <2>3. q2 = [q EXCEPT ![k] = x]
    BY <1>2
  <2> HIDE DEF x, q2, q, k
  <2>4. /\ q2 \in Seq(Interaction) /\ Len(q2) = Len(q)
        /\ \A i \in 1 .. Len(q) : q2[i] = IF i = k THEN x ELSE q[i]
    BY <1>1, <1>2, <2>2, <2>3, ExceptSeq
  <2>5. QED
    BY <1>2, <2>2, <2>4
<1> HIDE DEF q2
<1>4. \A i \in DOMAIN q2 : q2[i].status = "RESOLVED"
  BY <1>1, <1>2, <1>3 DEF QuestionsOK
<1>5. /\ Resumed(run[r]) \in RunRow /\ Resumed(run[r]).status = "QUEUED"
      /\ Resumed(run[r]).version = run[r].version + 1
  BY <1>1, RunRowFacts DEF RunRow
<1>6. ResumeRow(job[r], 0) \in Row(Workers) /\ ResumeRow(job[r], 0).status = "READY"
  BY <1>1, ResumeRowFacts
<1>7. TypeOK'
  BY <1>1, <1>3, <1>5, <1>6 DEF TypeOK
<1>8. /\ run'[r] = Resumed(run[r]) /\ job'[r] = ResumeRow(job[r], 0)
      /\ asked'[r] = q2 /\ ckpt'[r] = ckpt[r]
  BY <1>1 DEF TypeOK
<1>9. RowMoves(run[r], run'[r])
  BY <1>1, <1>5, <1>8 DEF RowMoves, RunRow
<1>10. RowsOK(run'[r], job'[r])
  BY <1>5, <1>6, <1>8 DEF RowsOK
<1>11. QuestionsOK(run'[r], asked'[r])
  BY <1>4, <1>5, <1>8 DEF QuestionsOK
<1>12. \A v \in Workers, e \in Nat \ {0} : ClaimKept(run[r], run'[r], job[r], job'[r], v, e)
  BY <1>6, <1>8 DEF ClaimKept, Holds
<1>13. ckpt'[r].kind = "interrupt" => ckpt'[r].question > 0
  BY <1>8 DEF RuntimeInv, CheckpointsInv
<1>14. \A x \in Runs \ {r} : /\ run'[x] = run[x] /\ job'[x] = job[x]
                              /\ asked'[x] = asked[x] /\ ckpt'[x] = ckpt[x]
  BY <1>1
<1>15. Frame /\ RowsInv' /\ QuestionsInv' /\ CheckpointsInv'
  BY <1>7, <1>9, <1>10, <1>11, <1>12, <1>13, <1>14, OneRun
<1>16. QED
  BY <1>1, <1>7, <1>15, WorkersStay DEF RuntimeInv

\* A cancelled run takes its job with it unless the job is closed already, and a
\* job that is still CLAIMED cannot be.
LEMMA CancelInv ==
    ASSUME RuntimeInv, NEW r \in Runs, Cancel(r)
    PROVE  RuntimeInv'
<1> DEFINE new == Ended(run[r], "CANCELLED")
           jnew == IF MayCancel(job[r]) THEN CancelRow(job[r]) ELSE job[r]
<1>1. /\ TypeOK /\ run[r] \in RunRow /\ job[r] \in Row(Workers)
      /\ run[r].status \notin Terminal \cup {"ABSENT"}
      /\ RowsOK(run[r], job[r]) /\ QuestionsOK(run[r], asked[r])
      /\ run' = [run EXCEPT ![r] = new] /\ job' = [job EXCEPT ![r] = jnew]
      /\ UNCHANGED <<at, rest, ckpt, replies, asked>>
  BY DEF RuntimeInv, TypeOK, RowsInv, QuestionsInv, Cancel, users
<1>2. new \in RunRow /\ new.status = "CANCELLED" /\ new.version = run[r].version + 1
  BY <1>1, RunRowFacts DEF RunRow, RunStatus
<1>3. CancelRow(job[r]) \in Row(Workers) /\ CancelRow(job[r]).status = "CANCELLED"
  BY <1>1, UnclaimedFacts DEF CancelRow, JobStatus
<1>4. /\ jnew \in Row(Workers) /\ jnew.status \in {"CANCELLED", "FAILED"}
      /\ jnew.status = "FAILED" => jnew.exhausted
  BY <1>1, <1>3 DEF MayCancel, RowsOK, Row, JobStatus, Terminal
<1> HIDE DEF new, jnew
<1>5. TypeOK'
  BY <1>1, <1>2, <1>4 DEF TypeOK
<1>6. run'[r] = new /\ job'[r] = jnew /\ asked'[r] = asked[r] /\ ckpt'[r] = ckpt[r]
  BY <1>1 DEF TypeOK
<1>7. RowMoves(run[r], run'[r])
  BY <1>1, <1>2, <1>6 DEF RowMoves, RunRow
<1>8. RowsOK(run'[r], job'[r])
  BY <1>2, <1>4, <1>6 DEF RowsOK
<1>9. QuestionsOK(run'[r], asked'[r])
  BY <1>1, <1>2, <1>6 DEF QuestionsOK
<1>10. \A v \in Workers, e \in Nat \ {0} : ClaimKept(run[r], run'[r], job[r], job'[r], v, e)
  BY <1>4, <1>6 DEF ClaimKept, Holds
<1>11. ckpt'[r].kind = "interrupt" => ckpt'[r].question > 0
  BY <1>6 DEF RuntimeInv, CheckpointsInv
<1>12. \A x \in Runs \ {r} : /\ run'[x] = run[x] /\ job'[x] = job[x]
                              /\ asked'[x] = asked[x] /\ ckpt'[x] = ckpt[x]
  BY <1>1
<1>13. Frame /\ RowsInv' /\ QuestionsInv' /\ CheckpointsInv'
  BY <1>5, <1>7, <1>8, <1>9, <1>10, <1>11, <1>12, OneRun
<1>14. QED
  BY <1>1, <1>5, <1>13, WorkersStay DEF RuntimeInv

-----------------------------------------------------------------------------
(* A worker's writes of its run *)

\* A copy whose version is still the row's was read from the run as it is: it is
\* RUNNING, under the worker's own claim.
LEMMA CurrentCopy ==
    ASSUME RuntimeInv, NEW w \in Workers, at[w].pc \in Writing, at[w].copy # NoRun,
           run[Target(w)].version = at[w].copy.version
    PROVE  /\ at[w].pc # "idle" /\ Target(w) \in Runs /\ at[w].copy \in RunRow
           /\ run[Target(w)] \in RunRow
           /\ run[Target(w)].status = "RUNNING"
           /\ run[Target(w)].claims = at[w].token
           /\ SameRow(at[w].copy, run[Target(w)])
<1>1. at[w].pc # "idle" /\ TypeOK /\ WorkersInv /\ ReadsInv /\ RowsInv
  BY DEF Writing, RuntimeInv
<1>2. at[w] \in Worker /\ Target(w) \in Runs /\ run[Target(w)] \in RunRow
  BY <1>1, TargetFacts
<1>3. at[w].copy \in RunRow
  BY <1>2 DEF Worker
<1>4. Fresh(at[w].copy, run[Target(w)])
  BY <1>1 DEF ReadsInv, ReadsHold
<1>5. at[w].copy.status = "RUNNING" /\ at[w].copy.token = at[w].token
  BY <1>1 DEF WorkersInv, WorkerOK
<1>6. SameRow(at[w].copy, run[Target(w)])
  BY <1>4 DEF Fresh
<1>7. RowsOK(run[Target(w)], job[Target(w)])
  BY <1>1, <1>2 DEF RowsInv
<1>8. QED
  BY <1>1, <1>2, <1>3, <1>5, <1>6, <1>7 DEF SameRow, RowsOK

\* What a write of a run that is queued or running has to establish.
LEMMA RunWritten ==
    ASSUME RuntimeInv, NEW w \in Workers, NEW new \in RunRow, at[w].pc # "idle",
           run[Target(w)].status \in {"QUEUED", "RUNNING"},
           run' = [run EXCEPT ![Target(w)] = new],
           new.version = run[Target(w)].version + 1, new.status # "ABSENT",
           new.status = "RUNNING" => new.token = new.claims,
           QuestionsOK(new, asked'[Target(w)]),
           \A x \in Runs \ {Target(w)} : asked'[x] = asked[x],
           asked' \in [Runs -> Seq(Interaction)], replies' \in [Runs -> Nat],
           UNCHANGED <<job, ckpt, rest>>,
           at' \in [Workers -> Worker],
           \A v \in Workers \ {w} : at'[v] = at[v],
           WorkerOK(at'[w]),
           \A row, jrow : ReadsHold(w, at'[w], row, jrow)
    PROVE  RuntimeInv'
<1> DEFINE r == Target(w)
<1>1. /\ TypeOK /\ r \in Runs /\ run[r] \in RunRow /\ job[r] \in Row(Workers)
      /\ RowsOK(run[r], job[r])
  BY TargetFacts DEF RuntimeInv, RowsInv
<1>2. TypeOK'
  BY <1>1 DEF TypeOK
<1> HIDE DEF r
<1>3. run'[r] = new /\ job'[r] = job[r] /\ ckpt'[r] = ckpt[r]
  BY <1>1 DEF TypeOK, r
<1>4. RowMoves(run[r], run'[r])
  BY <1>1, <1>3 DEF RowMoves, RunRow, r
<1>5. RowsOK(run'[r], job'[r])
  BY <1>1, <1>3 DEF RowsOK, r
<1>6. QuestionsOK(run'[r], asked'[r])
  BY <1>3 DEF r
<1>7. \A v \in Workers, e \in Nat \ {0} : ClaimKept(run[r], run'[r], job[r], job'[r], v, e)
  BY <1>3 DEF ClaimKept, r
<1>8. ckpt'[r].kind = "interrupt" => ckpt'[r].question > 0
  BY <1>1, <1>3 DEF RuntimeInv, CheckpointsInv
<1>9. \A x \in Runs \ {r} : /\ run'[x] = run[x] /\ job'[x] = job[x]
                             /\ asked'[x] = asked[x] /\ ckpt'[x] = ckpt[x]
  BY <1>1 DEF r
<1>10. Frame /\ RowsInv' /\ QuestionsInv' /\ CheckpointsInv'
  BY <1>1, <1>2, <1>4, <1>5, <1>6, <1>7, <1>8, <1>9, OneRun
<1>11. WorkersInv' /\ ReadsInv'
  BY <1>2, <1>10, OneWorker
<1>12. QED
  BY <1>2, <1>10, <1>11 DEF RuntimeInv

LEMMA ClaimRunInv ==
    ASSUME RuntimeInv, NEW w \in Workers, ClaimRun(w)
    PROVE  RuntimeInv'
<1> DEFINE r == Target(w)
           row == Claimed(run[r])
           new == [at[w] EXCEPT !.pc = "inspect", !.token = row.token, !.output = run[r].output]
<1>1. /\ at[w].pc = "start" /\ TypeOK /\ WorkersInv
      /\ UNCHANGED <<job, asked, replies, ckpt, rest>>
  BY DEF ClaimRun, RuntimeInv
<1>2. CASE ~MayClaim(run[r])
  <2>1. Goto(w, "report") /\ UNCHANGED run
    BY <1>2 DEF ClaimRun
  <2>2. "report" \in Stage \ {"idle", "settle"}
    BY DEF Stage
  <2>3. QED
    BY <1>1, <2>1, <2>2, GotoInv
<1>3. CASE MayClaim(run[r])
  <2>1. /\ at[w] \in Worker /\ r \in Runs /\ run[r] \in RunRow /\ WorkerOK(at[w])
        /\ at \in [Workers -> Worker] /\ run \in [Runs -> RunRow]
    BY <1>1, TargetFacts DEF WorkersInv, TypeOK
  <2>2. /\ row \in RunRow /\ row.status = "RUNNING" /\ row.version = run[r].version + 1
        /\ row.token = row.claims
    BY <2>1, RunRowFacts DEF RunStatus, RunRow
  <2>3. run' = [run EXCEPT ![r] = row]
    BY <1>3 DEF ClaimRun
  <2>4. run'[r] = row
    BY <2>1, <2>3
  <2>5. at' = [at EXCEPT ![w] = new]
    BY <1>3, <2>1, <2>4 DEF ClaimRun
  <2>6. row.token \in Nat /\ run[r].output \in BOOLEAN
    BY <2>1, <2>2 DEF RunRow
  <2>7. run[r].status \in {"QUEUED", "RUNNING"}
    BY <1>3 DEF MayClaim
  <2>8. QuestionsOK(row, asked'[r])
    BY <1>1, <2>1, <2>2, <2>7 DEF RuntimeInv, QuestionsInv, QuestionsOK
  <2> HIDE DEF row
  <2>9. /\ new \in Worker /\ new.pc = "inspect" /\ new.claim = at[w].claim
        /\ new.copy = at[w].copy
    BY <2>1, <2>6 DEF Worker, Stage, Unguarded
  <2>10. WorkerOK(new) /\ \A row1, jrow : ReadsHold(w, new, row1, jrow)
    BY <1>1, <2>1, <2>9 DEF WorkerOK, ReadsHold, Writing
  <2> HIDE DEF new
  <2>11. at'[w] = new /\ at' \in [Workers -> Worker] /\ \A v \in Workers \ {w} : at'[v] = at[v]
    BY <2>1, <2>5, <2>9
  <2>12. asked' \in [Runs -> Seq(Interaction)] /\ replies' \in [Runs -> Nat]
         /\ \A x \in Runs \ {r} : asked'[x] = asked[x]
    BY <1>1 DEF TypeOK
  <2>13. QED
    BY <1>1, <2>2, <2>3, <2>7, <2>8, <2>10, <2>11, <2>12, RunWritten
<1>4. QED
  BY <1>2, <1>3

LEMMA WriteWaitInv ==
    ASSUME RuntimeInv, NEW w \in Workers, WriteWait(w)
    PROVE  RuntimeInv'
<1> DEFINE r == Target(w)
           q == asked[r]
           new == Waiting(at[w].copy, Len(q) + 1)
           x == [question |-> at[w].question, keyed |-> at[w].pc = "reask",
                 status |-> "PENDING"]
           q2 == Append(q, x)
<1>1. /\ TypeOK /\ WorkersInv /\ at[w].pc \in {"wait", "reask"} /\ at[w].copy # NoRun
      /\ run[r].version = at[w].copy.version
      /\ run' = [run EXCEPT ![r] = new] /\ asked' = [asked EXCEPT ![r] = q2]
      /\ Goto(w, "report")
      /\ UNCHANGED <<job, replies, ckpt, rest>>
  BY DEF WriteWait, AtWrite, Write, RuntimeInv
<1>2. /\ at[w].pc # "idle" /\ r \in Runs /\ at[w].copy \in RunRow /\ run[r] \in RunRow
      /\ run[r].status = "RUNNING"
  BY <1>1, CurrentCopy DEF Writing
<1>3. /\ q \in Seq(Interaction) /\ Len(q) \in Nat /\ QuestionsOK(run[r], q)
      /\ at[w].question \in 1 .. MaxQuestions
  BY <1>1, <1>2, AgentRuntimeAssumption
     DEF TypeOK, RuntimeInv, QuestionsInv, WorkersInv, WorkerOK, Worker
<1>4. x \in Interaction /\ x.status = "PENDING"
  BY <1>3 DEF Interaction
<1> HIDE DEF x
<1>5. /\ q2 \in Seq(Interaction) /\ Len(q2) = Len(q) + 1 /\ q2[Len(q) + 1] = x
      /\ \A i \in 1 .. Len(q) : q2[i] = q[i]
  BY <1>3, <1>4, AppendProperties
<1>6. Len(q) + 1 \in Nat
  BY <1>3
<1>7. /\ new \in RunRow /\ new.status = "WAITING" /\ new.version = at[w].copy.version + 1
      /\ new.ask = Len(q) + 1
  BY <1>2, <1>6, WaitingFacts
<1>8. QuestionsOK(new, q2)
  <2> HIDE DEF q, q2, new
  <2>1. ASSUME NEW i \in DOMAIN q2, i < Len(q2)
        PROVE  q2[i].status = "RESOLVED"
    <3>1. i \in 1 .. Len(q)
      BY <1>3, <1>5, <2>1
    <3>2. q[i].status = "RESOLVED"
      BY <1>2, <1>3, <3>1 DEF QuestionsOK
    <3>3. QED
      BY <1>5, <3>1, <3>2
  <2>2. QED
    BY <1>3, <1>4, <1>5, <1>7, <2>1 DEF QuestionsOK
<1> HIDE DEF q2, new
<1>9. "report" \in Stage \ {"idle", "settle"}
  BY DEF Stage
<1>10. /\ at' \in [Workers -> Worker] /\ \A v \in Workers \ {w} : at'[v] = at[v]
       /\ WorkerOK(at'[w]) /\ \A row, jrow : ReadsHold(w, at'[w], row, jrow)
  BY <1>1, <1>2, <1>9, GotoFacts
<1>11. /\ asked' \in [Runs -> Seq(Interaction)] /\ asked'[r] = q2 /\ replies' \in [Runs -> Nat]
       /\ \A y \in Runs \ {r} : asked'[y] = asked[y]
  BY <1>1, <1>2, <1>5 DEF TypeOK
<1>12. QED
  BY <1>1, <1>2, <1>7, <1>8, <1>10, <1>11, RunWritten

\* The other writes leave the interactions alone.
LEMMA PlainWrite ==
    ASSUME RuntimeInv, NEW w \in Workers, NEW pc \in Stage \ {"idle", "settle"}, NEW new \in RunRow,
           at[w].pc \in Writing, at[w].copy # NoRun, pc \notin {"wait", "reask"},
           Write(w, new), Goto(w, pc),
           new.version = at[w].copy.version + 1,
           new.status \in Terminal \/ (new.status = "RUNNING" /\ new.token = new.claims),
           replies' \in [Runs -> Nat],
           UNCHANGED <<job, asked, ckpt, rest>>
    PROVE  RuntimeInv'
<1> DEFINE r == Target(w)
<1>1. run[r].version = at[w].copy.version /\ run' = [run EXCEPT ![r] = new]
  BY DEF Write
<1>2. at[w].pc # "idle" /\ r \in Runs /\ run[r].status = "RUNNING"
  BY <1>1, CurrentCopy
<1>3. QuestionsOK(run[r], asked[r]) /\ asked \in [Runs -> Seq(Interaction)]
  BY <1>2 DEF RuntimeInv, QuestionsInv, TypeOK
<1>4. QuestionsOK(new, asked'[r])
  BY <1>2, <1>3 DEF QuestionsOK, Terminal
<1>5. /\ at' \in [Workers -> Worker] /\ \A v \in Workers \ {w} : at'[v] = at[v]
      /\ WorkerOK(at'[w]) /\ \A row, jrow : ReadsHold(w, at'[w], row, jrow)
  BY <1>2, GotoFacts
<1>6. QED
  BY <1>1, <1>2, <1>3, <1>4, <1>5, RunWritten DEF Terminal

LEMMA WritesInv ==
    ASSUME RuntimeInv, NEW w \in Workers, WriteOutput(w) \/ WriteReply(w) \/ WriteFailure(w)
    PROVE  RuntimeInv'
<1> DEFINE r == Target(w)
           c == at[w].copy
<1>0. replies \in [Runs -> Nat] /\ {"accept", "finalAccept", "complete", "finalComplete", "fail"} \subseteq Writing
  BY DEF RuntimeInv, TypeOK, Writing
<1>1. CASE WriteOutput(w)
  <2> DEFINE pc == IF at[w].pc = "accept" THEN "complete" ELSE "finalComplete"
  <2>1. /\ at[w].pc \in Writing /\ c # NoRun /\ Write(w, Accepted(c)) /\ Goto(w, pc)
        /\ UNCHANGED <<job, asked, replies, ckpt, rest>>
    BY <1>0, <1>1 DEF WriteOutput, AtWrite
  <2>2. /\ c \in RunRow /\ c.status = "RUNNING" /\ c.token = c.claims
    <3>1. run[r].version = c.version
      BY <2>1 DEF Write
    <3>2. /\ c \in RunRow /\ SameRow(c, run[r]) /\ r \in Runs /\ run[r].status = "RUNNING"
      BY <2>1, <3>1, CurrentCopy
    <3>3. run[r].token = run[r].claims
      BY <3>2 DEF RuntimeInv, RowsInv, RowsOK
    <3>4. QED
      BY <3>2, <3>3 DEF SameRow
  <2>3. /\ Accepted(c) \in RunRow /\ Accepted(c).status = "RUNNING"
        /\ Accepted(c).version = c.version + 1 /\ Accepted(c).token = Accepted(c).claims
    BY <2>2, RunRowFacts DEF RunStatus, RunRow
  <2>4. pc \in Stage \ {"idle", "settle"} /\ pc \notin {"wait", "reask"}
    BY DEF Stage, Guarded, Unguarded
  <2> HIDE DEF pc
  <2>5. QED
    BY <1>0, <2>1, <2>3, <2>4, PlainWrite
<1>2. CASE WriteReply(w)
  <2> DEFINE pc == IF at[w].pc = "complete" THEN "memory" ELSE "report"
             new == Ended(c, "COMPLETED")
  <2>1. /\ at[w].pc \in Writing /\ c # NoRun /\ Write(w, new) /\ Goto(w, pc)
        /\ UNCHANGED <<job, asked, ckpt, rest>>
        /\ replies' = [replies EXCEPT ![r] = replies[r] + 1]
    BY <1>0, <1>2 DEF WriteReply, AtWrite
  <2>2. c \in RunRow /\ r \in Runs
    BY <2>1, CurrentCopy DEF Write
  <2>3. new \in RunRow /\ new.status = "COMPLETED" /\ new.version = c.version + 1
    BY <2>2, RunRowFacts DEF RunStatus, RunRow
  <2>4. pc \in Stage \ {"idle", "settle"} /\ pc \notin {"wait", "reask"}
    BY DEF Stage, Guarded, Unguarded
  <2>5. replies' \in [Runs -> Nat]
    BY <1>0, <2>1, <2>2
  <2> HIDE DEF pc, new
  <2>6. QED
    BY <2>1, <2>3, <2>4, <2>5, PlainWrite DEF Terminal
<1>3. CASE WriteFailure(w)
  <2> DEFINE new == Ended(c, "FAILED")
  <2>1. /\ at[w].pc \in Writing /\ c # NoRun /\ Write(w, new) /\ Goto(w, "report")
        /\ UNCHANGED <<job, asked, replies, ckpt, rest>>
    BY <1>0, <1>3 DEF WriteFailure, AtWrite
  <2>2. c \in RunRow
    BY <2>1, CurrentCopy DEF Write
  <2>3. new \in RunRow /\ new.status = "FAILED" /\ new.version = c.version + 1
    BY <2>2, RunRowFacts DEF RunStatus, RunRow
  <2>4. "report" \in Stage \ {"idle", "settle"}
    BY DEF Stage
  <2> HIDE DEF new
  <2>5. QED
    BY <1>0, <2>1, <2>3, <2>4, PlainWrite DEF Terminal
<1>4. QED
  BY <1>1, <1>2, <1>3

-----------------------------------------------------------------------------
(* Heartbeats, the graph, the scanner's job and the clock *)

LEMMA RunBeatInv ==
    ASSUME RuntimeInv, NEW w \in Workers, RunBeat(w)
    PROVE  RuntimeInv'
<1> DEFINE r == Target(w)
           row == Renewed(run[r])
           new == [at[w] EXCEPT !.lost = TRUE]
<1>1. /\ TypeOK /\ WorkersInv /\ ReadsInv /\ at[w].pc \in Guarded
      /\ UNCHANGED <<job, asked, replies, ckpt, rest>>
  BY DEF RunBeat, RuntimeInv
<1>2. /\ at[w].pc # "idle" /\ at[w] \in Worker /\ r \in Runs /\ run[r] \in RunRow
      /\ at \in [Workers -> Worker] /\ WorkerOK(at[w])
      /\ ReadsHold(w, at[w], run[r], job[r])
  BY <1>1, TargetFacts DEF Guarded, TypeOK, WorkersInv, ReadsInv
<1>3. CASE HeldBy(run[r], at[w].token)
  <2>1. run' = [run EXCEPT ![r] = row] /\ at' = at
    BY <1>3 DEF RunBeat
  <2>2. /\ row \in RunRow /\ row.version = run[r].version /\ SameRow(run[r], row)
    BY <1>2, LeaseFacts
  <2> HIDE DEF row
  <2>3. TypeOK'
    BY <1>1, <1>2, <2>1, <2>2 DEF TypeOK
  <2>4. run'[r] = row /\ job'[r] = job[r] /\ asked'[r] = asked[r] /\ ckpt'[r] = ckpt[r]
    BY <1>1, <1>2, <2>1 DEF TypeOK
  <2>5. RowMoves(run[r], run'[r])
    BY <1>2, <2>2, <2>4 DEF RowMoves, RunRow
  <2>6. RowsOK(run[r], job[r]) /\ QuestionsOK(run[r], asked[r])
    BY <1>2 DEF RuntimeInv, RowsInv, QuestionsInv
  <2>7. RowsOK(run'[r], job'[r]) /\ QuestionsOK(run'[r], asked'[r])
    BY <2>2, <2>4, <2>6 DEF RowsOK, QuestionsOK, SameRow
  <2>8. \A v \in Workers, e \in Nat \ {0} : ClaimKept(run[r], run'[r], job[r], job'[r], v, e)
    BY <2>2, <2>4 DEF ClaimKept, SameRow
  <2>9. ckpt'[r].kind = "interrupt" => ckpt'[r].question > 0
    BY <1>2, <2>4 DEF RuntimeInv, CheckpointsInv
  <2>10. \A x \in Runs \ {r} : /\ run'[x] = run[x] /\ job'[x] = job[x]
                                /\ asked'[x] = asked[x] /\ ckpt'[x] = ckpt[x]
    BY <1>1, <1>2, <2>1 DEF TypeOK
  <2>11. Frame /\ RowsInv' /\ QuestionsInv' /\ CheckpointsInv'
    BY <1>2, <2>3, <2>5, <2>7, <2>8, <2>9, <2>10, OneRun
  <2>12. QED
    BY <2>1, <2>3, <2>11, WorkersStay DEF RuntimeInv
<1>4. CASE ~HeldBy(run[r], at[w].token)
  <2>1. at' = [at EXCEPT ![w] = new] /\ UNCHANGED run
    BY <1>2, <1>4 DEF RunBeat
  <2>2. /\ new \in Worker /\ new.pc = at[w].pc /\ new.claim = at[w].claim
        /\ new.token = at[w].token /\ new.question = at[w].question /\ new.copy = at[w].copy
    BY <1>2 DEF Worker
  <2> HIDE DEF new
  <2>3. at'[w] = new /\ at' \in [Workers -> Worker] /\ \A v \in Workers \ {w} : at'[v] = at[v]
    BY <1>2, <2>1, <2>2
  <2>4. WorkerOK(new) /\ ReadsHold(w, new, run[r], job[r])
    BY <1>2, <2>2 DEF WorkerOK, ReadsHold
  <2>5. run'[new.claim.run] = run[r] /\ job'[new.claim.run] = job[r]
    BY <1>1, <2>1, <2>2 DEF Target
  <2>6. rest' \in [Workers -> SUBSET JobClaim]
    BY <1>1 DEF TypeOK
  <2>7. QED
    BY <1>1, <2>1, <2>3, <2>4, <2>5, <2>6, LocalStep
<1>5. QED
  BY <1>3, <1>4

\* A checkpoint is written, and the worker goes on or stays where it is.
LEMMA CheckpointWritten ==
    ASSUME RuntimeInv, NEW w \in Workers, NEW c \in Checkpoint, at[w].pc # "idle",
           c.kind = "interrupt" => c.question > 0,
           ckpt' = [ckpt EXCEPT ![Target(w)] = c],
           UNCHANGED <<run, job, asked, replies, rest>>,
           at' \in [Workers -> Worker]
    PROVE  TypeOK' /\ Frame /\ RowsInv' /\ QuestionsInv' /\ CheckpointsInv'
<1> DEFINE r == Target(w)
<1>1. /\ TypeOK /\ r \in Runs /\ run[r] \in RunRow
      /\ RowsOK(run[r], job[r]) /\ QuestionsOK(run[r], asked[r])
  BY TargetFacts DEF RuntimeInv, RowsInv, QuestionsInv
<1>2. TypeOK'
  BY <1>1 DEF TypeOK
<1>3. ckpt'[r] = c /\ \A x \in Runs \ {r} : ckpt'[x] = ckpt[x]
  BY <1>1 DEF TypeOK
<1>4. RowMoves(run[r], run'[r])
  BY <1>1, RowStays
<1>5. \A v \in Workers, e \in Nat \ {0} : ClaimKept(run[r], run'[r], job[r], job'[r], v, e)
  BY DEF ClaimKept
<1> HIDE DEF r
<1>6. QED
  BY <1>1, <1>2, <1>3, <1>4, <1>5, OneRun

LEMMA GraphInv ==
    ASSUME RuntimeInv, NEW w \in Workers, GraphStep(w) \/ GraphInterrupt(w) \/ GraphFinish(w)
    PROVE  RuntimeInv'
<1> DEFINE c == ckpt[Target(w)]
<1>1. /\ TypeOK /\ WorkersInv /\ at[w].pc = "graph" /\ at[w].pc # "idle"
      /\ at \in [Workers -> Worker] /\ at[w] \in Worker /\ WorkerOK(at[w])
      /\ UNCHANGED <<run, job, asked, replies, rest>>
  BY DEF RuntimeInv, TypeOK, WorkersInv, GraphStep, GraphInterrupt, GraphFinish
<1>2. Target(w) \in Runs /\ c \in Checkpoint /\ ckpt \in [Runs -> Checkpoint]
  BY <1>1, TargetFacts DEF TypeOK
<1>3. ASSUME NEW kind \in {"mid", "final"}
      PROVE  [c EXCEPT !.kind = kind] \in Checkpoint /\ [c EXCEPT !.kind = kind].kind = kind
  BY <1>2 DEF Checkpoint
<1>4. CASE GraphStep(w)
  <2> DEFINE new == [c EXCEPT !.kind = "mid"]
  <2>1. ckpt' = [ckpt EXCEPT ![Target(w)] = new] /\ at' = at
    BY <1>2, <1>4 DEF GraphStep
  <2>2. new \in Checkpoint /\ new.kind = "mid"
    BY <1>3
  <2> HIDE DEF new
  <2>3. TypeOK' /\ Frame /\ RowsInv' /\ QuestionsInv' /\ CheckpointsInv'
    BY <1>1, <2>1, <2>2, CheckpointWritten
  <2>4. QED
    BY <2>1, <2>3, WorkersStay DEF RuntimeInv
<1>5. CASE GraphInterrupt(w)
  <2> DEFINE n == c.question + 1
             new == [kind |-> "interrupt", question |-> n]
             a == [at[w] EXCEPT !.pc = "wait", !.question = n]
  <2>1. /\ ckpt' = [ckpt EXCEPT ![Target(w)] = new] /\ at' = [at EXCEPT ![w] = a]
        /\ c.question < MaxQuestions
    BY <1>1, <1>5 DEF GraphInterrupt
  <2>2. n \in 0 .. MaxQuestions /\ n > 0
    BY <1>2, <2>1, AgentRuntimeAssumption DEF Checkpoint
  <2> HIDE DEF n
  <2>3. new \in Checkpoint /\ new.question > 0
    BY <2>2 DEF Checkpoint
  <2>4. /\ a \in Worker /\ a.pc = "wait" /\ a.copy = at[w].copy /\ a.claim = at[w].claim
        /\ a.question = n
    BY <1>1, <2>2 DEF Worker, Stage, Guarded
  <2>5. a.copy = NoRun
    BY <1>1, <2>4 DEF WorkerOK, Writing
  <2> HIDE DEF new, a
  <2>6. at'[w] = a /\ at' \in [Workers -> Worker] /\ \A v \in Workers \ {w} : at'[v] = at[v]
    BY <1>1, <2>1, <2>4
  <2>7. WorkerOK(a) /\ \A row, jrow : ReadsHold(w, a, row, jrow)
    BY <1>1, <2>2, <2>4, <2>5 DEF WorkerOK, ReadsHold
  <2>8. TypeOK' /\ Frame /\ RowsInv' /\ QuestionsInv' /\ CheckpointsInv'
    BY <1>1, <2>1, <2>3, <2>6, CheckpointWritten
  <2>9. WorkersInv' /\ ReadsInv'
    BY <2>6, <2>7, <2>8, OneWorker
  <2>10. QED
    BY <2>8, <2>9 DEF RuntimeInv
<1>6. CASE GraphFinish(w)
  <2> DEFINE new == [c EXCEPT !.kind = "final"]
             pc == IF at[w].lost THEN "fail" ELSE "accept"
  <2>1. ckpt' = [ckpt EXCEPT ![Target(w)] = new] /\ Goto(w, pc)
    BY <1>2, <1>6 DEF GraphFinish
  <2>2. new \in Checkpoint /\ new.kind = "final"
    BY <1>3
  <2>3. pc \in Stage \ {"idle", "settle"} /\ pc \notin {"wait", "reask"}
    BY DEF Stage, Guarded, Unguarded
  <2> HIDE DEF new, pc
  <2>4. /\ at' \in [Workers -> Worker] /\ \A v \in Workers \ {w} : at'[v] = at[v]
        /\ WorkerOK(at'[w]) /\ \A row, jrow : ReadsHold(w, at'[w], row, jrow)
    BY <1>1, <2>1, <2>3, GotoFacts
  <2>5. TypeOK' /\ Frame /\ RowsInv' /\ QuestionsInv' /\ CheckpointsInv'
    BY <1>1, <2>1, <2>2, <2>4, CheckpointWritten
  <2>6. WorkersInv' /\ ReadsInv'
    BY <2>4, <2>5, OneWorker
  <2>7. QED
    BY <2>5, <2>6 DEF RuntimeInv
<1>7. QED
  BY <1>4, <1>5, <1>6

\* A step that writes the job of one run and not the run.
LEMMA JobWritten ==
    ASSUME RuntimeInv, NEW r \in Runs, NEW new \in Row(Workers),
           job' = [job EXCEPT ![r] = new], RowsOK(run[r], new),
           \A v \in Workers, e \in Nat \ {0} : Holds(new, v, e) => Holds(job[r], v, e),
           UNCHANGED <<run, asked, replies, ckpt>>,
           at' \in [Workers -> Worker], rest' \in [Workers -> SUBSET JobClaim]
    PROVE  TypeOK' /\ Frame /\ RowsInv' /\ QuestionsInv' /\ CheckpointsInv'
<1>1. /\ TypeOK /\ run[r] \in RunRow /\ QuestionsOK(run[r], asked[r])
      /\ (ckpt[r].kind = "interrupt" => ckpt[r].question > 0)
  BY DEF RuntimeInv, TypeOK, QuestionsInv, CheckpointsInv
<1>2. TypeOK'
  BY <1>1 DEF TypeOK
<1>3. job'[r] = new /\ \A x \in Runs \ {r} : job'[x] = job[x]
  BY <1>1 DEF TypeOK
<1>4. RowMoves(run[r], run'[r])
  BY <1>1, RowStays
<1>5. \A v \in Workers, e \in Nat \ {0} : ClaimKept(run[r], run'[r], job[r], job'[r], v, e)
  BY <1>3 DEF ClaimKept
<1>6. QED
  BY <1>1, <1>2, <1>3, <1>4, <1>5, OneRun

LEMMA JobBeatInv ==
    ASSUME RuntimeInv, NEW w \in Workers, JobBeat(w)
    PROVE  RuntimeInv'
<1> DEFINE r == Target(w)
           new == RenewRow(job[r], 0)
<1>1. /\ TypeOK /\ WorkersInv /\ at[w].pc # "idle"
      /\ job' = [job EXCEPT ![r] = new]
      /\ UNCHANGED <<run, asked, replies, ckpt, at, rest>>
  BY DEF RuntimeInv, JobBeat, Guarded, Unguarded
<1>2. r \in Runs /\ job[r] \in Row(Workers) /\ RowsOK(run[r], job[r])
  BY <1>1, TargetFacts DEF RuntimeInv, RowsInv
<1>3. /\ new \in Row(Workers) /\ new.status = job[r].status /\ new.owner = job[r].owner
      /\ new.epoch = job[r].epoch /\ new.exhausted = job[r].exhausted
  BY <1>2, JobRowFacts
<1> HIDE DEF new
<1>4. RowsOK(run[r], new) /\ \A v \in Workers, e \in Nat \ {0} : Holds(new, v, e) => Holds(job[r], v, e)
  BY <1>2, <1>3 DEF RowsOK, Holds
<1>5. at' \in [Workers -> Worker] /\ rest' \in [Workers -> SUBSET JobClaim]
  BY <1>1 DEF TypeOK
<1> HIDE DEF r
<1>6. TypeOK' /\ Frame /\ RowsInv' /\ QuestionsInv' /\ CheckpointsInv'
  BY <1>1, <1>2, <1>3, <1>4, <1>5, JobWritten
<1>7. QED
  BY <1>1, <1>6, WorkersStay DEF RuntimeInv

\* The run has not moved since the worker read it, for the worker still holds the job.
LEMMA SettleJobInv ==
    ASSUME RuntimeInv, NEW w \in Workers, SettleJob(w)
    PROVE  RuntimeInv'
<1> DEFINE r == Target(w)
           e == at[w].claim.epoch
           s == at[w].copy.status
           new == SettleRow(job[r], Verdict(s))
<1>1. /\ TypeOK /\ WorkersInv /\ ReadsInv /\ at[w].pc = "settle" /\ at[w].pc # "idle"
      /\ UNCHANGED <<run, asked, replies, ckpt>>
  BY DEF RuntimeInv, SettleJob
<1>2. /\ r \in Runs /\ job[r] \in Row(Workers) /\ run[r] \in RunRow /\ RowsOK(run[r], job[r])
      /\ at \in [Workers -> Worker] /\ rest \in [Workers -> SUBSET JobClaim]
  BY <1>1, TargetFacts DEF RuntimeInv, RowsInv, TypeOK
<1>3. CASE ~MaySettle(job[r], w, e, 0)
  BY <1>1, <1>3, ForgetInv DEF SettleJob
<1>4. CASE MaySettle(job[r], w, e, 0)
  <2>1. /\ job' = [job EXCEPT ![r] = new] /\ at' = [at EXCEPT ![w] = AtRest] /\ rest' = rest
    BY <1>4 DEF SettleJob
  <2>2. Holds(job[r], w, e) /\ job[r].status = "CLAIMED"
    BY <1>4 DEF MaySettle, Holds
  <2>3. run[r].status = s /\ s \notin {"QUEUED", "RUNNING", "ABSENT"}
    BY <1>1, <1>2, <2>2 DEF ReadsInv, ReadsHold, WorkersInv, WorkerOK, RowsOK
  <2>4. s \in RunStatus
    BY <1>2, <2>3 DEF RunRow
  <2>5. /\ Verdict(s) \in JobStatus
        /\ \/ Verdict(s) = "PAUSED" /\ s = "WAITING"
           \/ Verdict(s) = "CANCELLED" /\ s = "CANCELLED"
           \/ Verdict(s) = "COMPLETED" /\ s \in {"COMPLETED", "FAILED"}
    BY <2>3, <2>4 DEF Verdict, JobStatus, RunStatus
  <2>6. new \in Row(Workers) /\ new.status = Verdict(s)
    BY <1>2, <2>5, UnclaimedFacts DEF SettleRow
  <2> HIDE DEF new
  <2>7. RowsOK(run[r], new) /\ \A v \in Workers, e1 \in Nat \ {0} : ~Holds(new, v, e1)
    BY <2>3, <2>5, <2>6 DEF RowsOK, Holds
  <2>8. /\ at'[w] = AtRest /\ at' \in [Workers -> Worker]
        /\ \A v \in Workers \ {w} : at'[v] = at[v]
    BY <1>2, <2>1, AtRestFacts
  <2>9. WorkerOK(AtRest)
    BY AtRestFacts DEF WorkerOK, Writing
  <2> HIDE DEF r
  <2>10. TypeOK' /\ Frame /\ RowsInv' /\ QuestionsInv' /\ CheckpointsInv'
    BY <1>1, <1>2, <2>1, <2>6, <2>7, <2>8, JobWritten
  <2>11. WorkersInv' /\ ReadsInv'
    BY <2>8, <2>9, <2>10, AtRestFacts, OneWorker
  <2>12. QED
    BY <2>10, <2>11 DEF RuntimeInv
<1>5. QED
  BY <1>3, <1>4

\* Expired jobs are made ready, ready ones are claimed by an idle worker.
LEMMA ClaimJobsInv ==
    ASSUME RuntimeInv, NEW w \in Workers, NEW S \in SUBSET Runs, ClaimJobs(w, S)
    PROVE  RuntimeInv'
<1> DEFINE req(r) == RequeueRow(job[r], 0)
           new(r) == IF r \in S THEN ClaimRow(req(r), w, 0) ELSE req(r)
<1>1. /\ TypeOK /\ at[w].pc = "idle"
      /\ \A r \in S : req(r).status = "READY"
      /\ \A r \in Runs : job'[r] = new(r)
      /\ job' = [r \in Runs |-> new(r)]
      /\ rest' = [rest EXCEPT ![w] = {[run |-> r, epoch |-> job'[r].epoch] : r \in S}]
      /\ UNCHANGED <<run, asked, replies, ckpt, at>>
  BY DEF RuntimeInv, ClaimJobs, Idle, Requeued, Claimable
<1>2. ASSUME NEW r \in Runs
      PROVE  /\ job'[r] \in Row(Workers)
             /\ RowsOK(run[r], job'[r])
             /\ r \in S => job'[r].epoch \in Nat \ {0}
             /\ \A v \in Workers \ {w}, e \in Nat \ {0} : Holds(job'[r], v, e) => Holds(job[r], v, e)
  <2>1. job[r] \in Row(Workers) /\ RowsOK(run[r], job[r])
    BY DEF RuntimeInv, TypeOK, RowsInv
  <2>2. /\ req(r) \in Row(Workers)
        /\ \/ req(r) = job[r]
           \/ /\ job[r].status = "CLAIMED"
              /\ req(r).status = "READY" \/ (req(r).status = "FAILED" /\ req(r).exhausted)
    BY <2>1, RequeueRowFacts
  <2> HIDE DEF req
  <2>3. RowsOK(run[r], req(r)) /\ \A v \in Workers, e \in Nat \ {0} : Holds(req(r), v, e) => Holds(job[r], v, e)
    BY <2>1, <2>2 DEF RowsOK, Holds
  <2>4. CASE r \notin S
    BY <1>1, <2>2, <2>3, <2>4
  <2>5. CASE r \in S
    <3> DEFINE c == ClaimRow(req(r), w, 0)
    <3>1. c \in Row(Workers) /\ c.status = "CLAIMED" /\ c.owner = w /\ c.epoch \in Nat \ {0}
      BY <2>2, JobRowFacts
    <3>2. job'[r] = c
      BY <1>1, <2>5
    <3> HIDE DEF c
    <3>3. req(r).status = "READY"
      BY <1>1, <2>5
    <3>4. run[r].status # "ABSENT"
      BY <2>3, <3>3 DEF RowsOK
    <3>5. RowsOK(run[r], c)
      BY <2>1, <3>1, <3>4 DEF RowsOK
    <3>6. \A v \in Workers \ {w}, e \in Nat \ {0} : ~Holds(c, v, e)
      BY <3>1 DEF Holds
    <3>7. QED
      BY <3>1, <3>2, <3>5, <3>6
  <2>6. QED
    BY <2>4, <2>5
<1>3. job' \in [Runs -> Row(Workers)]
  BY <1>1, <1>2
<1> HIDE DEF new, req
<1>4. {[run |-> r, epoch |-> job'[r].epoch] : r \in S} \subseteq JobClaim
  BY <1>2 DEF JobClaim
<1>5. TypeOK'
  BY <1>1, <1>3, <1>4 DEF TypeOK
<1>6. Frame
  <2>1. ASSUME NEW r \in Runs
        PROVE  RowMoves(run[r], run'[r])
    BY <1>1, RowStays DEF TypeOK
  <2>2. ASSUME NEW r \in Runs, NEW v \in Workers, at[v].pc # "idle", NEW e \in Nat \ {0}
        PROVE  ClaimKept(run[r], run'[r], job[r], job'[r], v, e)
    BY <1>1, <1>2, <2>2 DEF ClaimKept
  <2>3. QED
    BY <2>1, <2>2 DEF Frame
<1>7. RowsInv' /\ QuestionsInv' /\ CheckpointsInv'
  BY <1>1, <1>2 DEF RowsInv, QuestionsInv, CheckpointsInv, RuntimeInv
<1>8. QED
  BY <1>1, <1>5, <1>6, <1>7, WorkersStay DEF RuntimeInv

LEMMA TickInv ==
    ASSUME RuntimeInv, Tick
    PROVE  RuntimeInv'
<1>1. /\ TypeOK /\ UNCHANGED <<at, rest, ckpt, replies, asked>>
      /\ run' = [r \in Runs |-> Aged(run[r])] /\ job' = [r \in Runs |-> AgeRow(job[r])]
  BY DEF RuntimeInv, Tick, users
<1>2. ASSUME NEW r \in Runs
      PROVE  /\ run'[r] \in RunRow /\ job'[r] \in Row(Workers)
             /\ RowMoves(run[r], run'[r]) /\ RowsOK(run'[r], job'[r])
             /\ QuestionsOK(run'[r], asked[r])
             /\ \A v \in Workers, e \in Nat \ {0} : ClaimKept(run[r], run'[r], job[r], job'[r], v, e)
  <2> DEFINE x == Aged(run[r])
             j == AgeRow(job[r])
  <2>1. /\ run[r] \in RunRow /\ job[r] \in Row(Workers)
        /\ RowsOK(run[r], job[r]) /\ QuestionsOK(run[r], asked[r])
    BY DEF RuntimeInv, TypeOK, RowsInv, QuestionsInv
  <2>2. x \in RunRow /\ x.version = run[r].version /\ SameRow(run[r], x)
    BY <2>1, LeaseFacts
  <2>3. /\ j \in Row(Workers) /\ j.status = job[r].status /\ j.owner = job[r].owner
        /\ j.epoch = job[r].epoch /\ j.exhausted = job[r].exhausted
    BY <2>1, AgeRowFacts
  <2>4. run'[r] = x /\ job'[r] = j
    BY <1>1
  <2> HIDE DEF x, j
  <2>5. RowMoves(run[r], x)
    BY <2>1, <2>2 DEF RowMoves, RunRow
  <2>6. RowsOK(x, j) /\ QuestionsOK(x, asked[r])
    BY <2>1, <2>2, <2>3 DEF RowsOK, QuestionsOK, SameRow
  <2>7. \A v \in Workers, e \in Nat \ {0} : ClaimKept(run[r], x, job[r], j, v, e)
    BY <2>2, <2>3 DEF ClaimKept, Holds, SameRow
  <2>8. QED
    BY <2>2, <2>3, <2>4, <2>5, <2>6, <2>7
<1>3. run' \in [Runs -> RunRow] /\ job' \in [Runs -> Row(Workers)]
  BY <1>1, <1>2
<1>4. TypeOK'
  BY <1>1, <1>3 DEF TypeOK
<1>5. Frame
  BY <1>2 DEF Frame
<1>6. RowsInv' /\ QuestionsInv' /\ CheckpointsInv'
  BY <1>1, <1>2 DEF RowsInv, QuestionsInv, CheckpointsInv, RuntimeInv
<1>7. QED
  BY <1>1, <1>4, <1>5, <1>6, WorkersStay DEF RuntimeInv

-----------------------------------------------------------------------------
(* The invariant *)

LEMMA RuntimeInit == Init => RuntimeInv
<1> SUFFICES ASSUME Init PROVE RuntimeInv
  OBVIOUS
<1>1. TypeOK
  <2>1. run \in [Runs -> RunRow] /\ job \in [Runs -> Row(Workers)]
    BY NoRunFacts DEF Init
  <2>2. asked \in [Runs -> Seq(Interaction)] /\ replies \in [Runs -> Nat]
    BY DEF Init
  <2>3. ckpt \in [Runs -> Checkpoint]
    BY AgentRuntimeAssumption DEF Init, Checkpoint
  <2>4. at \in [Workers -> Worker] /\ rest \in [Workers -> SUBSET JobClaim]
    BY AtRestFacts DEF Init
  <2>5. QED
    BY <2>1, <2>2, <2>3, <2>4 DEF TypeOK
<1>2. WorkersInv
  BY AtRestFacts DEF Init, WorkersInv, WorkerOK, Writing
<1>3. ReadsInv
  BY AtRestFacts DEF Init, ReadsInv
<1>4. RowsInv /\ QuestionsInv /\ CheckpointsInv
  BY NoRunFacts DEF Init, RowsInv, RowsOK, QuestionsInv, QuestionsOK, CheckpointsInv
<1>5. QED
  BY <1>1, <1>2, <1>3, <1>4 DEF RuntimeInv

LEMMA WorkerStepInv ==
    ASSUME RuntimeInv, NEW w \in Workers, WorkerStep(w)
    PROVE  RuntimeInv'
<1>1. CASE \E S \in SUBSET Runs : ClaimJobs(w, S)
  BY <1>1, ClaimJobsInv
<1>2. CASE Onward(w)
  BY <1>2, BeginInv, ClaimRunInv, InspectInv, GraphInv, ReadRunInv, WriteWaitInv, WritesInv,
     LocalStepsInv, ReadOutcomeInv, SettleJobInv DEF Onward, Transition
<1>3. CASE GraphStep(w) \/ Raise(w) \/ Crash(w) \/ JobBeat(w) \/ RunBeat(w)
  BY <1>3, GraphInv, LocalStepsInv, JobBeatInv, RunBeatInv
<1>4. QED
  BY <1>1, <1>2, <1>3 DEF WorkerStep

LEMMA RuntimeNext == RuntimeInv /\ [Next]_vars => RuntimeInv'
<1> SUFFICES ASSUME RuntimeInv, [Next]_vars PROVE RuntimeInv'
  OBVIOUS
<1>1. CASE UNCHANGED vars
  BY <1>1 DEF vars, RuntimeInv, TypeOK, WorkersInv, ReadsInv, RowsInv, QuestionsInv,
              CheckpointsInv, Target
<1>2. CASE \E r \in Runs : UserStep(r)
  BY <1>2, CreateRunInv, ResumeInv, CancelInv DEF UserStep
<1>3. QED
  BY <1>1, <1>2, WorkerStepInv, TickInv DEF Next

\* What every worker, run, job and interaction satisfies in every reachable state.
LEMMA RuntimeAlways == Spec => []RuntimeInv
<1>1. QED
  BY RuntimeInit, RuntimeNext, PTL DEF Spec

-----------------------------------------------------------------------------
(* The theorems about states *)

\* For any runs, workers, leases, batch size and number of questions, the rows of
\* agent_runs, durable_jobs and run_interactions, the checkpoints and the workers'
\* own variables keep their types: no scanner executes a claim of nothing, no
\* interaction is made of a question that was never asked.
THEOREM RuntimeTypeCorrect == Spec => []TypeOK
<1>1. RuntimeInv => TypeOK
  BY DEF RuntimeInv
<1>2. QED
  BY <1>1, RuntimeAlways, PTL

\* A run in WAITING_FOR_USER can always be answered: resume_run finds the newest
\* interaction pending, and no older one is open, whichever workers raced to put it
\* (AgentRuntimeService.wait_for_user, resume_run).
THEOREM WaitingRunsAreAnswerable == Spec => []WaitingIsAnswerable
<1>1. RuntimeInv => WaitingIsAnswerable
  BY DEF RuntimeInv, QuestionsInv, QuestionsOK, WaitingIsAnswerable
<1>2. QED
  BY <1>1, RuntimeAlways, PTL

\* settle_agent_run_job never settles a job against its run, although the run is
\* read in one statement and the job settled in another, by a process whose lease
\* may have run out in between.
THEOREM JobsFollowRuns == Spec => []JobFollowsRun
<1>1. RuntimeInv => JobFollowsRun
  BY DEF RuntimeInv, RowsInv, RowsOK, JobFollowsRun
<1>2. QED
  BY <1>1, RuntimeAlways, PTL

\* No crash, exception, takeover, answer or cancellation leaves a run that is not
\* over without a job that will bring it on, except by using up the job's deliveries
\* (RunDispatchScanner, requeue_expired).
THEOREM NoRunIsStranded == Spec => []NotStranded
<1>1. ASSUME RuntimeInv, NEW r \in Runs
      PROVE  \/ run[r].status \in Terminal \cup {"ABSENT"}
             \/ job[r].status \in {"READY", "CLAIMED"}
             \/ run[r].status = "WAITING" /\ job[r].status = "PAUSED"
             \/ job[r].exhausted
  <2>1. RowsOK(run[r], job[r]) /\ job[r].status \in JobStatus
    BY <1>1 DEF RuntimeInv, RowsInv, TypeOK, Row
  <2>2. QED
    BY <2>1 DEF RowsOK, JobStatus, Terminal
<1>2. RuntimeInv => NotStranded
  BY <1>1 DEF NotStranded
<1>3. QED
  BY <1>2, RuntimeAlways, PTL

-----------------------------------------------------------------------------
(* How a step moves a run *)

\* What RunLifecycle calls answers.
Answered(q) == Cardinality({i \in DOMAIN q : q[i].status = "RESOLVED"})

LEMMA AllAnswered ==
    ASSUME NEW q \in Seq(Interaction), \A i \in DOMAIN q : q[i].status = "RESOLVED"
    PROVE  Answered(q) = Len(q)
<1>1. Len(q) \in Nat /\ {i \in DOMAIN q : q[i].status = "RESOLVED"} = 1 .. Len(q)
  OBVIOUS
<1>2. Cardinality(1 .. Len(q)) = Len(q)
  BY <1>1, FS_Interval
<1>3. QED
  BY <1>1, <1>2 DEF Answered

LEMMA OneOpen ==
    ASSUME NEW q \in Seq(Interaction), Len(q) > 0, q[Len(q)].status = "PENDING",
           \A i \in DOMAIN q : i < Len(q) => q[i].status = "RESOLVED"
    PROVE  Answered(q) = Len(q) - 1
<1>1. Len(q) \in Nat /\ {i \in DOMAIN q : q[i].status = "RESOLVED"} = 1 .. Len(q) - 1
  OBVIOUS
<1>2. Cardinality(1 .. Len(q) - 1) = Len(q) - 1
  BY <1>1, FS_Interval
<1>3. QED
  BY <1>1, <1>2 DEF Answered

LEMMA AnsweredNat == \A q \in Seq(Interaction) : Answered(q) \in Nat
<1>1. ASSUME NEW q \in Seq(Interaction)
      PROVE  Answered(q) \in Nat
  <2>1. Len(q) \in Nat /\ {i \in DOMAIN q : q[i].status = "RESOLVED"} \subseteq 1 .. Len(q)
    OBVIOUS
  <2>2. IsFiniteSet({i \in DOMAIN q : q[i].status = "RESOLVED"})
    BY <2>1, FS_Interval, FS_Subset
  <2>3. QED
    BY <2>2, FS_CardinalityType DEF Answered
<1>2. QED
  BY <1>1

\* To its user the run stays as it is.
Still(r) ==
    /\ run'[r].status = run[r].status /\ asked'[r] = asked[r] /\ replies'[r] = replies[r]

\* A step that no user of any run sees, and that writes no run's version.
Quiet == \A r \in Runs : Still(r) /\ run'[r].version = run[r].version

\* The moves RunLifecycle knows.
Moved(r, from, to, asks, answers, says) ==
    /\ run[r].status \in from /\ run'[r].status = to
    /\ Len(asked'[r]) = Len(asked[r]) + asks
    /\ Answered(asked'[r]) = Answered(asked[r]) + answers
    /\ replies'[r] = replies[r] + says
    /\ \A x \in Runs \ {r} : Still(x)

LifecycleMove(r) ==
    \/ Moved(r, {"ABSENT"}, "QUEUED", 0, 0, 0)
    \/ Moved(r, {"QUEUED"}, "RUNNING", 0, 0, 0)
    \/ Moved(r, {"RUNNING"}, "WAITING", 1, 0, 0)
    \/ Moved(r, {"WAITING"}, "QUEUED", 0, 1, 0) /\ Len(asked[r]) = Answered(asked[r]) + 1
    \/ Moved(r, {"RUNNING"}, "COMPLETED", 0, 0, 1)
    \/ Moved(r, {"RUNNING"}, "FAILED", 0, 0, 0)
    \/ Moved(r, {"QUEUED", "RUNNING", "WAITING"}, "CANCELLED", 0, 0, 0)

LEMMA InitMaps == Init => Lifecycle!Init
<1> SUFFICES ASSUME Init PROVE Lifecycle!Init
  OBVIOUS
<1>1. \A r \in Runs : run[r].status = "ABSENT" /\ Len(asked[r]) = 0 /\ replies = [x \in Runs |-> 0]
  BY NoRunFacts DEF Init
<1>2. \A r \in Runs : Cardinality({i \in DOMAIN asked[r] : asked[r][i].status = "RESOLVED"}) = 0
  <2>1. ASSUME NEW r \in Runs
        PROVE  {i \in DOMAIN asked[r] : asked[r][i].status = "RESOLVED"} = {}
    BY DEF Init
  <2>2. QED
    BY <2>1, FS_EmptySet
<1>3. QED
  BY <1>1, <1>2 DEF Lifecycle!Init, Init

LEMMA StillMaps ==
    ASSUME TypeOK, TypeOK', \A r \in Runs : Still(r)
    PROVE  UNCHANGED Lifecycle!lifecycleVars
<1>1. replies' = replies
  BY DEF TypeOK, Still
<1>2. QED
  BY <1>1 DEF Lifecycle!lifecycleVars, Still

LEMMA MoveMaps ==
    ASSUME TypeOK, TypeOK', NEW r \in Runs, LifecycleMove(r)
    PROVE  Lifecycle!Next
<1> DEFINE Ph == [x \in Runs |-> run[x].status]
           Qs == [x \in Runs |-> Len(asked[x])]
           An == [x \in Runs |-> Answered(asked[x])]
<1>0. Len(asked[r]) \in Nat /\ Answered(asked[r]) \in Nat /\ replies[r] \in Nat
  BY AnsweredNat DEF TypeOK
<1>1. ASSUME NEW from, NEW to, NEW asks \in Nat, NEW answers \in Nat, NEW says \in Nat,
             Moved(r, from, to, asks, answers, says)
      PROVE  /\ Ph[r] \in from /\ Ph' = [Ph EXCEPT ![r] = to]
             /\ Qs' = [Qs EXCEPT ![r] = Qs[r] + asks]
             /\ An' = [An EXCEPT ![r] = An[r] + answers]
             /\ replies' = [replies EXCEPT ![r] = replies[r] + says]
             /\ (asks = 0 => Qs' = Qs) /\ (answers = 0 => An' = An)
             /\ (says = 0 => replies' = replies)
  <2>1. /\ \A x \in Runs \ {r} : Still(x)
        /\ run[r].status \in from /\ run'[r].status = to
        /\ Len(asked'[r]) = Len(asked[r]) + asks
        /\ Answered(asked'[r]) = Answered(asked[r]) + answers
        /\ replies'[r] = replies[r] + says
    BY <1>1 DEF Moved
  <2>2. replies \in [Runs -> Nat] /\ replies' \in [Runs -> Nat]
    BY DEF TypeOK
  <2>3. Ph[r] \in from /\ Ph' = [Ph EXCEPT ![r] = to]
    BY <2>1 DEF Still
  <2>4. Qs' = [Qs EXCEPT ![r] = Qs[r] + asks]
    BY <2>1 DEF Still
  <2>5. An' = [An EXCEPT ![r] = An[r] + answers]
    BY <2>1 DEF Still
  <2>6. replies' = [replies EXCEPT ![r] = replies[r] + says]
    BY <2>1, <2>2 DEF Still
  <2>7. asks = 0 => Qs' = Qs
    BY <1>0, <2>1 DEF Still
  <2>8. answers = 0 => An' = An
    BY <1>0, <2>1 DEF Still
  <2>9. says = 0 => replies' = replies
    BY <1>0, <2>1, <2>2 DEF Still
  <2>10. QED
    BY <2>3, <2>4, <2>5, <2>6, <2>7, <2>8, <2>9
<1>2. /\ Lifecycle!Goes(r, {"ABSENT"}, "QUEUED") <=>
            Ph[r] \in {"ABSENT"} /\ Ph' = [Ph EXCEPT ![r] = "QUEUED"]
      /\ Lifecycle!Goes(r, {"QUEUED"}, "RUNNING") <=>
            Ph[r] \in {"QUEUED"} /\ Ph' = [Ph EXCEPT ![r] = "RUNNING"]
      /\ Lifecycle!Goes(r, {"RUNNING"}, "WAITING") <=>
            Ph[r] \in {"RUNNING"} /\ Ph' = [Ph EXCEPT ![r] = "WAITING"]
      /\ Lifecycle!Goes(r, {"WAITING"}, "QUEUED") <=>
            Ph[r] \in {"WAITING"} /\ Ph' = [Ph EXCEPT ![r] = "QUEUED"]
      /\ Lifecycle!Goes(r, {"RUNNING"}, "COMPLETED") <=>
            Ph[r] \in {"RUNNING"} /\ Ph' = [Ph EXCEPT ![r] = "COMPLETED"]
      /\ Lifecycle!Goes(r, {"RUNNING"}, "FAILED") <=>
            Ph[r] \in {"RUNNING"} /\ Ph' = [Ph EXCEPT ![r] = "FAILED"]
      /\ Lifecycle!Goes(r, {"QUEUED", "RUNNING", "WAITING"}, "CANCELLED") <=>
            /\ Ph[r] \in {"QUEUED", "RUNNING", "WAITING"}
            /\ Ph' = [Ph EXCEPT ![r] = "CANCELLED"]
  BY DEF Lifecycle!Goes
<1> HIDE DEF Ph, Qs, An
<1>3. CASE Moved(r, {"ABSENT"}, "QUEUED", 0, 0, 0)
  <2>1. /\ Ph[r] \in {"ABSENT"} /\ Ph' = [Ph EXCEPT ![r] = "QUEUED"]
        /\ Qs' = Qs /\ An' = An /\ replies' = replies
    BY <1>1, <1>3
  <2>2. Lifecycle!Submit(r)
    BY <1>2, <2>1 DEF Ph, Qs, An, Lifecycle!Submit, Answered
  <2>3. QED
    BY <2>2 DEF Lifecycle!Next
<1>4. CASE Moved(r, {"QUEUED"}, "RUNNING", 0, 0, 0)
  <2>1. /\ Ph[r] \in {"QUEUED"} /\ Ph' = [Ph EXCEPT ![r] = "RUNNING"]
        /\ Qs' = Qs /\ An' = An /\ replies' = replies
    BY <1>1, <1>4
  <2>2. Lifecycle!Start(r)
    BY <1>2, <2>1 DEF Ph, Qs, An, Lifecycle!Start, Answered
  <2>3. QED
    BY <2>2 DEF Lifecycle!Next
<1>5. CASE Moved(r, {"RUNNING"}, "WAITING", 1, 0, 0)
  <2>0. Qs' = [Qs EXCEPT ![r] = Qs[r] + 1]
    BY <1>5 DEF Moved, Still, Qs
  <2>1. /\ Ph[r] \in {"RUNNING"} /\ Ph' = [Ph EXCEPT ![r] = "WAITING"]
        /\ An' = An /\ replies' = replies
    BY <1>1, <1>5
  <2>2. Lifecycle!Ask(r)
    BY <1>2, <2>0, <2>1 DEF Ph, Qs, An, Lifecycle!Ask, Answered
  <2>3. QED
    BY <2>2 DEF Lifecycle!Next
<1>6. CASE Moved(r, {"WAITING"}, "QUEUED", 0, 1, 0) /\ Len(asked[r]) = Answered(asked[r]) + 1
  <2>0. An' = [An EXCEPT ![r] = An[r] + 1]
    BY <1>6 DEF Moved, Still, An
  <2>1. /\ Ph[r] \in {"WAITING"} /\ Ph' = [Ph EXCEPT ![r] = "QUEUED"]
        /\ Qs' = Qs /\ replies' = replies
    BY <1>1, <1>6
  <2>2. Qs[r] = An[r] + 1
    BY <1>6 DEF Qs, An
  <2>3. Lifecycle!Answer(r)
    BY <1>2, <2>0, <2>1, <2>2 DEF Ph, Qs, An, Lifecycle!Answer, Answered
  <2>4. QED
    BY <2>3 DEF Lifecycle!Next
<1>7. CASE Moved(r, {"RUNNING"}, "COMPLETED", 0, 0, 1)
  <2>0. replies' = [replies EXCEPT ![r] = replies[r] + 1]
    BY <1>7 DEF Moved, Still, TypeOK
  <2>1. /\ Ph[r] \in {"RUNNING"} /\ Ph' = [Ph EXCEPT ![r] = "COMPLETED"]
        /\ Qs' = Qs /\ An' = An
    BY <1>1, <1>7
  <2>2. Lifecycle!Reply(r)
    BY <1>2, <2>0, <2>1 DEF Ph, Qs, An, Lifecycle!Reply, Answered
  <2>3. QED
    BY <2>2 DEF Lifecycle!Next
<1>8. CASE Moved(r, {"RUNNING"}, "FAILED", 0, 0, 0)
  <2>1. /\ Ph[r] \in {"RUNNING"} /\ Ph' = [Ph EXCEPT ![r] = "FAILED"]
        /\ Qs' = Qs /\ An' = An /\ replies' = replies
    BY <1>1, <1>8
  <2>2. Lifecycle!Fail(r)
    BY <1>2, <2>1 DEF Ph, Qs, An, Lifecycle!Fail, Answered
  <2>3. QED
    BY <2>2 DEF Lifecycle!Next
<1>9. CASE Moved(r, {"QUEUED", "RUNNING", "WAITING"}, "CANCELLED", 0, 0, 0)
  <2>1. /\ Ph[r] \in {"QUEUED", "RUNNING", "WAITING"} /\ Ph' = [Ph EXCEPT ![r] = "CANCELLED"]
        /\ Qs' = Qs /\ An' = An /\ replies' = replies
    BY <1>1, <1>9
  <2>2. Lifecycle!Cancel(r)
    BY <1>2, <2>1 DEF Ph, Qs, An, Lifecycle!Cancel, Answered
  <2>3. QED
    BY <2>2 DEF Lifecycle!Next
<1>10. QED
  BY <1>3, <1>4, <1>5, <1>6, <1>7, <1>8, <1>9 DEF LifecycleMove

\* No run moves, or one run makes a move of its life cycle.
Seen == (\A r \in Runs : Still(r)) \/ \E r \in Runs : LifecycleMove(r)

\* What MovedByHolder says of a step.
Fenced ==
    \A r \in Runs :
        /\ run[r].status = "RUNNING"
        /\ run'[r].version # run[r].version
        /\ run'[r].status # "CANCELLED"
        /\ run'[r].claims = run[r].claims
        => \E w \in Workers : /\ Target(w) = r
                              /\ at[w].token = run[r].claims
                              /\ at'[w] # at[w]

LEMMA QuietStep ==
    ASSUME Quiet
    PROVE  Seen /\ Fenced
  BY DEF Quiet, Seen, Fenced

LEMMA NothingWritten ==
    ASSUME UNCHANGED <<run, asked, replies>>
    PROVE  Seen /\ Fenced
  BY QuietStep DEF Quiet, Still

LEMMA CreateRunSeen ==
    ASSUME RuntimeInv, NEW r \in Runs, CreateRun(r)
    PROVE  Seen /\ Fenced
<1>1. /\ run \in [Runs -> RunRow] /\ run[r].status = "ABSENT" /\ run' = [run EXCEPT ![r] = NewRun]
      /\ UNCHANGED <<asked, replies>> /\ replies \in [Runs -> Nat] /\ asked \in [Runs -> Seq(Interaction)]
  BY DEF RuntimeInv, TypeOK, CreateRun, users
<1>2. run'[r] = NewRun /\ \A x \in Runs \ {r} : run'[x] = run[x]
  BY <1>1
<1>3. run'[r].status = "QUEUED"
  BY <1>2, NoRunFacts
<1>4. \A x \in Runs \ {r} : Still(x)
  BY <1>1, <1>2 DEF Still
<1>5. /\ Len(asked'[r]) = Len(asked[r]) + 0 /\ Answered(asked'[r]) = Answered(asked[r]) + 0
      /\ replies'[r] = replies[r] + 0
  BY <1>1, AnsweredNat
<1>6. LifecycleMove(r)
  BY <1>1, <1>3, <1>4, <1>5 DEF LifecycleMove, Moved
<1>7. Fenced
  BY <1>1, <1>2 DEF Fenced
<1>8. QED
  BY <1>6, <1>7 DEF Seen

LEMMA CancelSeen ==
    ASSUME RuntimeInv, NEW r \in Runs, Cancel(r)
    PROVE  Seen /\ Fenced
<1> DEFINE new == Ended(run[r], "CANCELLED")
<1>1. /\ run \in [Runs -> RunRow] /\ run[r].status \notin Terminal \cup {"ABSENT"}
      /\ run' = [run EXCEPT ![r] = new]
      /\ UNCHANGED <<asked, replies>> /\ replies \in [Runs -> Nat] /\ asked \in [Runs -> Seq(Interaction)]
  BY DEF RuntimeInv, TypeOK, Cancel, users
<1>2. run'[r] = new /\ \A x \in Runs \ {r} : run'[x] = run[x]
  BY <1>1
<1>3. new.status = "CANCELLED" /\ run[r].status \in {"QUEUED", "RUNNING", "WAITING"}
  <2>1. run[r] \in RunRow /\ "CANCELLED" \in RunStatus
    BY <1>1 DEF RunStatus
  <2>2. new.status = "CANCELLED"
    BY <2>1, ReleasedFacts DEF Ended
  <2>3. run[r].status \in {"QUEUED", "RUNNING", "WAITING"}
    BY <1>1, <2>1 DEF RunRow, RunStatus, Terminal
  <2>4. QED
    BY <2>2, <2>3
<1> HIDE DEF new
<1>4. \A x \in Runs \ {r} : Still(x)
  BY <1>1, <1>2 DEF Still
<1>5. /\ Len(asked'[r]) = Len(asked[r]) + 0 /\ Answered(asked'[r]) = Answered(asked[r]) + 0
      /\ replies'[r] = replies[r] + 0
  BY <1>1, AnsweredNat
<1>6. LifecycleMove(r)
  BY <1>2, <1>3, <1>4, <1>5 DEF LifecycleMove, Moved
<1>7. Fenced
  BY <1>2, <1>3 DEF Fenced
<1>8. QED
  BY <1>6, <1>7 DEF Seen

LEMMA ResumeSeen ==
    ASSUME RuntimeInv, NEW r \in Runs, Resume(r)
    PROVE  Seen /\ Fenced
<1> DEFINE new == Resumed(run[r])
           q == asked[r]
           i == Len(q)
           x == [q[i] EXCEPT !.status = "RESOLVED"]
           q2 == [q EXCEPT ![i] = x]
<1>1. /\ TypeOK /\ run \in [Runs -> RunRow] /\ run[r].status = "WAITING"
      /\ run' = [run EXCEPT ![r] = new]
      /\ UNCHANGED replies /\ replies \in [Runs -> Nat] /\ asked \in [Runs -> Seq(Interaction)]
      /\ QuestionsOK(run[r], q)
  BY DEF RuntimeInv, TypeOK, Resume, users, QuestionsInv
<1>2. /\ q \in Seq(Interaction) /\ run[r].ask = i /\ i > 0 /\ i \in Nat /\ q[i].status = "PENDING"
      /\ \A k \in DOMAIN q : k < i => q[k].status = "RESOLVED"
  BY <1>1 DEF QuestionsOK
<1>3. i \in 1 .. Len(q) /\ q[i] \in Interaction /\ DOMAIN q = 1 .. Len(q)
  BY <1>2
<1>4. x \in Interaction /\ x.status = "RESOLVED"
  BY <1>3 DEF Interaction
<1>5. asked' = [asked EXCEPT ![r] = q2]
  BY <1>1, <1>2, <1>3 DEF Resume
<1> HIDE DEF x
<1>6. /\ q2 \in Seq(Interaction) /\ Len(q2) = Len(q) /\ q2[i] = x
      /\ \A k \in 1 .. Len(q) : k # i => q2[k] = q[k]
  BY <1>2, <1>3, <1>4, ExceptSeq
<1> HIDE DEF q2
<1>7. DOMAIN q2 = 1 .. Len(q) /\ \A k \in DOMAIN q2 : q2[k].status = "RESOLVED"
  BY <1>2, <1>3, <1>4, <1>6
<1>8. Answered(q2) = Len(q)
  BY <1>6, <1>7, AllAnswered
<1>9. Answered(q) = Len(q) - 1
  BY <1>2, OneOpen
<1>10. /\ run'[r] = new /\ \A y \in Runs \ {r} : run'[y] = run[y]
       /\ asked'[r] = q2 /\ \A y \in Runs \ {r} : asked'[y] = asked[y]
  BY <1>1, <1>5
<1>11. new.status = "QUEUED"
  BY <1>1, RunRowFacts DEF RunStatus
<1> HIDE DEF new
<1>12. \A y \in Runs \ {r} : Still(y)
  BY <1>1, <1>10 DEF Still
<1>13. /\ Len(asked'[r]) = Len(asked[r]) + 0 /\ Answered(asked'[r]) = Answered(asked[r]) + 1
       /\ Len(asked[r]) = Answered(asked[r]) + 1 /\ replies'[r] = replies[r] + 0
  BY <1>1, <1>2, <1>6, <1>8, <1>9, <1>10
<1>14. LifecycleMove(r)
  BY <1>1, <1>10, <1>11, <1>12, <1>13 DEF LifecycleMove, Moved
<1>15. Fenced
  BY <1>1, <1>10 DEF Fenced
<1>16. QED
  BY <1>14, <1>15 DEF Seen

\* A worker that writes its run is the one that holds it, and goes on.
LEMMA WriterMoves ==
    ASSUME RuntimeInv, NEW w \in Workers, NEW pc \in Stage \ {"idle", "settle"}, NEW new \in RunRow,
           at[w].pc \in Writing, at[w].copy # NoRun, pc # at[w].pc, pc \notin {"wait", "reask"},
           Write(w, new), Goto(w, pc)
    PROVE  /\ Target(w) \in Runs /\ run[Target(w)].status = "RUNNING"
           /\ run'[Target(w)] = new /\ \A x \in Runs \ {Target(w)} : run'[x] = run[x]
           /\ Fenced
<1> DEFINE r == Target(w)
<1>1. /\ run[r].version = at[w].copy.version /\ run' = [run EXCEPT ![r] = new]
      /\ run \in [Runs -> RunRow]
  BY DEF Write, RuntimeInv, TypeOK
<1>2. /\ at[w].pc # "idle" /\ r \in Runs /\ run[r].status = "RUNNING"
      /\ run[r].claims = at[w].token
  BY <1>1, CurrentCopy
<1>3. at'[w].pc = pc
  BY <1>2, GotoFacts
<1>4. run'[r] = new /\ \A x \in Runs \ {r} : run'[x] = run[x]
  BY <1>1, <1>2
<1>5. at'[w] # at[w]
  BY <1>3
<1>6. Fenced
  BY <1>2, <1>4, <1>5 DEF Fenced
<1>7. QED
  BY <1>2, <1>4, <1>6

LEMMA WriteWaitSeen ==
    ASSUME RuntimeInv, NEW w \in Workers, WriteWait(w)
    PROVE  Seen /\ Fenced
<1> DEFINE r == Target(w)
           q == asked[r]
           new == Waiting(at[w].copy, Len(q) + 1)
           x == [question |-> at[w].question, keyed |-> at[w].pc = "reask",
                 status |-> "PENDING"]
           q2 == Append(q, x)
<1>1. /\ TypeOK /\ WorkersInv /\ at[w].pc \in {"wait", "reask"} /\ at[w].copy # NoRun
      /\ run[r].version = at[w].copy.version
      /\ Write(w, new) /\ asked' = [asked EXCEPT ![r] = q2]
      /\ Goto(w, "report") /\ UNCHANGED replies
  BY DEF WriteWait, AtWrite, Write, RuntimeInv
<1>2. /\ at[w].pc \in Writing /\ r \in Runs /\ at[w].copy \in RunRow
      /\ run[r].status = "RUNNING"
  BY <1>1, CurrentCopy DEF Writing
<1>3. /\ q \in Seq(Interaction) /\ Len(q) \in Nat /\ QuestionsOK(run[r], q)
      /\ asked \in [Runs -> Seq(Interaction)] /\ replies \in [Runs -> Nat]
      /\ at[w].question \in 1 .. MaxQuestions
  BY <1>1, <1>2, AgentRuntimeAssumption
     DEF TypeOK, RuntimeInv, QuestionsInv, WorkersInv, WorkerOK, Worker
<1>4. x \in Interaction /\ x.status = "PENDING"
  BY <1>3 DEF Interaction
<1> HIDE DEF x
<1>5. /\ q2 \in Seq(Interaction) /\ Len(q2) = Len(q) + 1 /\ q2[Len(q) + 1] = x
      /\ \A i \in 1 .. Len(q) : q2[i] = q[i]
  BY <1>3, <1>4, AppendProperties
<1>6. \A i \in DOMAIN q : q[i].status = "RESOLVED"
  BY <1>2, <1>3 DEF QuestionsOK
<1>7. Answered(q) = Len(q)
  BY <1>3, <1>6, AllAnswered
<1> HIDE DEF q2
<1>8. /\ Len(q2) > 0 /\ q2[Len(q2)].status = "PENDING" /\ DOMAIN q2 = 1 .. Len(q2)
      /\ DOMAIN q = 1 .. Len(q)
  BY <1>3, <1>4, <1>5
<1>9. \A i \in DOMAIN q2 : i < Len(q2) => q2[i].status = "RESOLVED"
  BY <1>3, <1>5, <1>6, <1>8
<1>10. Answered(q2) = Len(q2) - 1
  BY <1>5, <1>8, <1>9, OneOpen
<1>11. new \in RunRow /\ new.status = "WAITING"
  <2>1. Len(q) + 1 \in Nat /\ at[w].copy \in RunRow
    BY <1>2, <1>3
  <2>2. QED
    BY <2>1, WaitingFacts
<1>12. "report" \in Stage \ {"idle", "settle"} /\ "report" \notin Writing
  BY DEF Stage, Writing
<1> HIDE DEF new
<1>13. /\ run'[r] = new /\ \A y \in Runs \ {r} : run'[y] = run[y]
       /\ Fenced
  BY <1>1, <1>2, <1>11, <1>12, WriterMoves DEF Writing
<1>14. asked'[r] = q2 /\ \A y \in Runs \ {r} : asked'[y] = asked[y]
  BY <1>1, <1>2, <1>3
<1>15. \A y \in Runs \ {r} : Still(y)
  BY <1>1, <1>13, <1>14 DEF Still
<1>16. /\ Len(asked'[r]) = Len(asked[r]) + 1 /\ Answered(asked'[r]) = Answered(asked[r]) + 0
       /\ replies'[r] = replies[r] + 0
  BY <1>1, <1>2, <1>3, <1>5, <1>7, <1>10, <1>14
<1>17. LifecycleMove(r)
  BY <1>2, <1>11, <1>13, <1>15, <1>16 DEF LifecycleMove, Moved
<1>18. QED
  BY <1>2, <1>13, <1>17 DEF Seen

LEMMA WriteOutputSeen ==
    ASSUME RuntimeInv, NEW w \in Workers, WriteOutput(w)
    PROVE  Seen /\ Fenced
<1> DEFINE r == Target(w)
           c == at[w].copy
           new == Accepted(c)
           pc == IF at[w].pc = "accept" THEN "complete" ELSE "finalComplete"
<1>1. /\ at[w].pc \in {"accept", "finalAccept"} /\ c # NoRun
      /\ run[r].version = c.version
      /\ Write(w, new) /\ Goto(w, pc) /\ UNCHANGED <<asked, replies>>
  BY DEF WriteOutput, AtWrite, Write
<1>2. /\ pc \in Stage \ {"idle", "settle"} /\ pc \notin {"wait", "reask"}
      /\ pc # at[w].pc /\ at[w].pc \in Writing
  BY <1>1 DEF Stage, Guarded, Unguarded, Writing
<1>3. r \in Runs /\ c \in RunRow /\ run[r].status = "RUNNING" /\ c.status = "RUNNING"
  BY <1>1, <1>2, CurrentCopy DEF SameRow
<1>4. new \in RunRow /\ new.status = "RUNNING"
  BY <1>3, RunRowFacts DEF RunStatus, RunRow
<1> HIDE DEF new, pc
<1>5. /\ run'[r] = new /\ \A y \in Runs \ {r} : run'[y] = run[y]
      /\ Fenced
  BY <1>1, <1>2, <1>4, WriterMoves
<1>6. \A y \in Runs : Still(y)
  BY <1>1, <1>3, <1>4, <1>5 DEF Still
<1>7. QED
  BY <1>5, <1>6 DEF Seen

LEMMA WriteReplySeen ==
    ASSUME RuntimeInv, NEW w \in Workers, WriteReply(w)
    PROVE  Seen /\ Fenced
<1> DEFINE r == Target(w)
           c == at[w].copy
           new == Ended(c, "COMPLETED")
           pc == IF at[w].pc = "complete" THEN "memory" ELSE "report"
<1>1. /\ at[w].pc \in {"complete", "finalComplete"} /\ c # NoRun
      /\ run[r].version = c.version
      /\ Write(w, new) /\ Goto(w, pc) /\ UNCHANGED asked
      /\ replies' = [replies EXCEPT ![r] = replies[r] + 1]
      /\ replies \in [Runs -> Nat] /\ asked \in [Runs -> Seq(Interaction)]
  BY DEF WriteReply, AtWrite, Write, RuntimeInv, TypeOK
<1>2. /\ pc \in Stage \ {"idle", "settle"} /\ pc \notin {"wait", "reask"}
      /\ pc # at[w].pc /\ at[w].pc \in Writing
  BY <1>1 DEF Stage, Guarded, Unguarded, Writing
<1>3. r \in Runs /\ c \in RunRow /\ run[r].status = "RUNNING"
  BY <1>1, <1>2, CurrentCopy
<1>4. new \in RunRow /\ new.status = "COMPLETED"
  BY <1>3, RunRowFacts DEF RunStatus, RunRow
<1> HIDE DEF new, pc
<1>5. /\ run'[r] = new /\ \A y \in Runs \ {r} : run'[y] = run[y]
      /\ Fenced
  BY <1>1, <1>2, <1>4, WriterMoves
<1>6. replies'[r] = replies[r] + 1 /\ \A y \in Runs \ {r} : replies'[y] = replies[y]
  BY <1>1, <1>3
<1>7. \A y \in Runs \ {r} : Still(y)
  BY <1>1, <1>5, <1>6 DEF Still
<1>8. Len(asked'[r]) = Len(asked[r]) + 0 /\ Answered(asked'[r]) = Answered(asked[r]) + 0
  BY <1>1, <1>3, AnsweredNat
<1>9. LifecycleMove(r)
  BY <1>3, <1>4, <1>5, <1>6, <1>7, <1>8 DEF LifecycleMove, Moved
<1>10. QED
  BY <1>3, <1>5, <1>9 DEF Seen

LEMMA WriteFailureSeen ==
    ASSUME RuntimeInv, NEW w \in Workers, WriteFailure(w)
    PROVE  Seen /\ Fenced
<1> DEFINE r == Target(w)
           c == at[w].copy
           new == Ended(c, "FAILED")
<1>1. /\ at[w].pc = "fail" /\ c # NoRun
      /\ run[r].version = c.version
      /\ Write(w, new) /\ Goto(w, "report") /\ UNCHANGED <<asked, replies>>
      /\ replies \in [Runs -> Nat] /\ asked \in [Runs -> Seq(Interaction)]
  BY DEF WriteFailure, AtWrite, Write, RuntimeInv, TypeOK
<1>2. "report" \in Stage \ {"idle", "settle"} /\ at[w].pc \in Writing /\ at[w].pc # "report"
  BY <1>1 DEF Stage, Writing
<1>3. r \in Runs /\ c \in RunRow /\ run[r].status = "RUNNING"
  BY <1>1, <1>2, CurrentCopy
<1>4. new \in RunRow /\ new.status = "FAILED"
  BY <1>3, RunRowFacts DEF RunStatus, RunRow
<1> HIDE DEF new
<1>5. /\ run'[r] = new /\ \A y \in Runs \ {r} : run'[y] = run[y]
      /\ Fenced
  BY <1>1, <1>2, <1>4, WriterMoves
<1>6. \A y \in Runs \ {r} : Still(y)
  BY <1>1, <1>5 DEF Still
<1>7. /\ Len(asked'[r]) = Len(asked[r]) + 0 /\ Answered(asked'[r]) = Answered(asked[r]) + 0
      /\ replies'[r] = replies[r] + 0
  BY <1>1, <1>3, AnsweredNat
<1>8. LifecycleMove(r)
  BY <1>3, <1>4, <1>5, <1>6, <1>7 DEF LifecycleMove, Moved
<1>9. QED
  BY <1>3, <1>5, <1>8 DEF Seen

\* A takeover of a run that is running shows its user nothing.
LEMMA ClaimRunSeen ==
    ASSUME RuntimeInv, NEW w \in Workers, ClaimRun(w)
    PROVE  Seen /\ Fenced
<1> DEFINE r == Target(w)
           new == Claimed(run[r])
<1>1. /\ at[w].pc # "idle" /\ TypeOK /\ WorkersInv /\ UNCHANGED <<asked, replies>>
      /\ run \in [Runs -> RunRow] /\ replies \in [Runs -> Nat] /\ asked \in [Runs -> Seq(Interaction)]
  BY DEF ClaimRun, RuntimeInv, TypeOK
<1>2. r \in Runs /\ run[r] \in RunRow
  BY <1>1, TargetFacts
<1>3. CASE ~MayClaim(run[r])
  <2>1. UNCHANGED run
    BY <1>3 DEF ClaimRun
  <2>2. QED
    BY <1>1, <2>1, NothingWritten
<1>4. CASE MayClaim(run[r])
  <2>1. /\ new.status = "RUNNING" /\ new.claims = run[r].claims + 1 /\ run[r].claims \in Nat
    <3>1. run[r].claims \in Nat
      BY <1>2 DEF RunRow
    <3>2. QED
      BY <1>2, <3>1, ClaimedFacts
  <2>2. run' = [run EXCEPT ![r] = new]
    BY <1>4 DEF ClaimRun
  <2>3. run'[r] = new /\ \A y \in Runs \ {r} : run'[y] = run[y]
    BY <1>1, <1>2, <2>2
  <2> HIDE DEF new
  <2>4. Fenced
    BY <2>1, <2>3 DEF Fenced
  <2>5. \A y \in Runs \ {r} : Still(y)
    BY <1>1, <2>3 DEF Still
  <2>6. /\ Len(asked'[r]) = Len(asked[r]) + 0 /\ Answered(asked'[r]) = Answered(asked[r]) + 0
        /\ replies'[r] = replies[r] + 0
    BY <1>1, <1>2, AnsweredNat
  <2>7. CASE run[r].status = "RUNNING"
    <3>1. Still(r)
      BY <1>1, <2>1, <2>3, <2>7 DEF Still
    <3>2. QED
      BY <2>4, <2>5, <3>1 DEF Seen
  <2>8. CASE run[r].status = "QUEUED"
    <3>1. LifecycleMove(r)
      BY <2>1, <2>3, <2>5, <2>6, <2>8 DEF LifecycleMove, Moved
    <3>2. QED
      BY <1>2, <2>4, <3>1 DEF Seen
  <2>9. QED
    BY <1>4, <2>7, <2>8 DEF MayClaim
<1>5. QED
  BY <1>3, <1>4

LEMMA RunBeatSeen ==
    ASSUME RuntimeInv, NEW w \in Workers, RunBeat(w)
    PROVE  Seen /\ Fenced
<1> DEFINE r == Target(w)
           new == Renewed(run[r])
<1>1. /\ at[w].pc # "idle" /\ TypeOK /\ WorkersInv /\ UNCHANGED <<asked, replies>>
      /\ run \in [Runs -> RunRow]
  BY DEF RunBeat, RuntimeInv, TypeOK, Guarded
<1>2. r \in Runs /\ run[r] \in RunRow
  BY <1>1, TargetFacts
<1>3. CASE UNCHANGED run
  BY <1>1, <1>3, NothingWritten
<1>4. CASE run' = [run EXCEPT ![r] = new]
  <2>1. new.version = run[r].version /\ new.status = run[r].status
    BY <1>2, LeaseFacts DEF SameRow
  <2>2. run'[r] = new /\ \A y \in Runs \ {r} : run'[y] = run[y]
    BY <1>1, <1>2, <1>4
  <2> HIDE DEF new
  <2>3. Quiet
    BY <1>1, <2>1, <2>2 DEF Quiet, Still
  <2>4. QED
    BY <2>3, QuietStep
<1>5. QED
  BY <1>3, <1>4 DEF RunBeat

LEMMA TickSeen ==
    ASSUME RuntimeInv, Tick
    PROVE  Seen /\ Fenced
<1>1. /\ UNCHANGED <<asked, replies>> /\ run \in [Runs -> RunRow]
      /\ run' = [r \in Runs |-> Aged(run[r])]
  BY DEF Tick, users, RuntimeInv, TypeOK
<1>2. \A r \in Runs : Aged(run[r]).version = run[r].version /\ Aged(run[r]).status = run[r].status
  BY <1>1, LeaseFacts DEF SameRow
<1>3. Quiet
  BY <1>1, <1>2 DEF Quiet, Still
<1>4. QED
  BY <1>3, QuietStep

LEMMA WorkerStepSeen ==
    ASSUME RuntimeInv, NEW w \in Workers, WorkerStep(w)
    PROVE  Seen /\ Fenced
<1>1. CASE \/ \E S \in SUBSET Runs : ClaimJobs(w, S)
           \/ \E c \in rest[w] : Begin(w, c)
           \/ Inspect(w) \/ GraphStep(w) \/ GraphInterrupt(w) \/ GraphFinish(w)
           \/ ReadRun(w) \/ WriteRefused(w) \/ FormMemory(w) \/ ReadOutcome(w) \/ SettleJob(w)
           \/ Raise(w) \/ Crash(w) \/ JobBeat(w)
  <2>1. UNCHANGED <<run, asked, replies>>
    BY <1>1 DEF ClaimJobs, Begin, Inspect, GraphStep, GraphInterrupt, GraphFinish, ReadRun,
                WriteRefused, FormMemory, ReadOutcome, SettleJob, Raise, Crash, JobBeat
  <2>2. QED
    BY <2>1, NothingWritten
<1>2. CASE \/ ClaimRun(w) \/ RunBeat(w) \/ WriteWait(w) \/ WriteOutput(w) \/ WriteReply(w)
           \/ WriteFailure(w)
  BY <1>2, ClaimRunSeen, RunBeatSeen, WriteWaitSeen, WriteOutputSeen, WriteReplySeen,
     WriteFailureSeen
<1>3. QED
  BY <1>1, <1>2 DEF WorkerStep, Onward, Transition

LEMMA StepSeen ==
    ASSUME RuntimeInv, [Next]_vars
    PROVE  Seen /\ Fenced
<1>1. CASE UNCHANGED vars
  BY <1>1, NothingWritten DEF vars
<1>2. CASE \E r \in Runs : UserStep(r)
  BY <1>2, CreateRunSeen, ResumeSeen, CancelSeen DEF UserStep
<1>3. QED
  BY <1>1, <1>2, WorkerStepSeen, TickSeen DEF Next

-----------------------------------------------------------------------------
(* The theorems about steps *)

\* Fencing: whatever the clocks, the leases and the order in which workers wake up, a
\* RUNNING run is moved on only by a user's cancellation, by a new claim, or by the
\* worker of its newest claim; a worker whose lease was taken over changes nothing
\* (AgentRuntimeRepository.claim and update, AgentRun.claim_token).
THEOREM RunsMovedByHolder == Spec => MovedByHolder
<1>1. RuntimeInv /\ [Next]_vars => Fenced
  BY StepSeen
<1>2. RuntimeInv /\ [Next]_vars => [Fenced]_vars
  BY <1>1
<1>3. Spec => [][Fenced]_vars
  BY <1>2, RuntimeAlways, PTL DEF Spec
<1>4. QED
  BY <1>3 DEF MovedByHolder, Fenced

\* The refinement: every step of the users, the workers, their crashes and the clock
\* is a step of the product state machine of the run, or one its user does not see.  A
\* run puts one question at a time and is answered once per question, and it has one
\* reply, exactly when it is COMPLETED (AgentRun, AgentRuntimeService).
THEOREM RuntimeImplementsLifecycle == Spec => ImplementsLifecycle
<1>1. RuntimeInv /\ RuntimeInv' /\ [Next]_vars => [Lifecycle!Next]_(Lifecycle!lifecycleVars)
  <2> SUFFICES ASSUME RuntimeInv, RuntimeInv', [Next]_vars
               PROVE  [Lifecycle!Next]_(Lifecycle!lifecycleVars)
    OBVIOUS
  <2>1. Seen /\ TypeOK /\ TypeOK'
    BY StepSeen DEF RuntimeInv
  <2>2. CASE \A r \in Runs : Still(r)
    BY <2>1, <2>2, StillMaps
  <2>3. CASE \E r \in Runs : LifecycleMove(r)
    BY <2>1, <2>3, MoveMaps
  <2>4. QED
    BY <2>1, <2>2, <2>3 DEF Seen
<1>2. QED
  BY <1>1, InitMaps, RuntimeAlways, PTL DEF Spec, ImplementsLifecycle, Lifecycle!Spec
=============================================================================
