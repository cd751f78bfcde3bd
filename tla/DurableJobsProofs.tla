------------------------- MODULE DurableJobsProofs -------------------------
(***************************************************************************)
(* The durable job queue proved correct for any jobs, workers, kinds, roles  *)
(* and any values of the bounds: type correctness, the uniqueness of fencing *)
(* tokens, the finality of closed rows, the protection of live leases, who   *)
(* may settle a row, and when its deliveries are exhausted.                  *)
(***************************************************************************)
EXTENDS DurableJobs, TLAPS

-----------------------------------------------------------------------------
(* What the statements of the repository do to one row. *)

\* Giving up a claim keeps the shape and the epoch of the row.
LEMMA UnclaimedFacts ==
    ASSUME NEW row \in Row(Workers), NEW status \in JobStatus
    PROVE  /\ Unclaimed(row, status) \in Row(Workers)
           /\ Unclaimed(row, status).epoch = row.epoch
           /\ Unclaimed(row, status).status = status
           /\ Unclaimed(row, status).exhausted = row.exhausted
<1> DEFINE r1 == [row EXCEPT !.status = status]
           r2 == [r1 EXCEPT !.owner = Nobody]
           r3 == [r2 EXCEPT !.lease = 0]
<1>1. r1 \in Row(Workers) /\ r1.epoch = row.epoch /\ r1.status = status
      /\ r1.exhausted = row.exhausted
  BY DEF Row
<1>2. Unclaimed(row, status) = r3
  BY DEF Unclaimed, Row
<1> HIDE DEF r1
<1>3. r2 \in Row(Workers) /\ r2.epoch = row.epoch /\ r2.status = status
      /\ r2.exhausted = row.exhausted
  BY <1>1 DEF Row
<1> HIDE DEF r2
<1>4. r3 \in Row(Workers) /\ r3.epoch = row.epoch /\ r3.status = status
      /\ r3.exhausted = row.exhausted
  BY <1>3 DEF Row
<1>5. QED
  BY <1>2, <1>4

\* requeue_expired keeps the shape and the epoch of a row, and a row that is
\* CLAIMED afterwards was not touched.
LEMMA RequeueRowFacts ==
    ASSUME NEW row \in Row(Workers), NEW d \in 0..Lag
    PROVE  /\ RequeueRow(row, d) \in Row(Workers)
           /\ RequeueRow(row, d).epoch = row.epoch
           /\ RequeueRow(row, d).status = "CLAIMED" => RequeueRow(row, d) = row
           /\ row.status # "CLAIMED" => RequeueRow(row, d) = row
           /\ row.lease >= 0 => RequeueRow(row, d) = row
<1>1. d \in Nat /\ -d \in Int
  BY JobTableAssumption
<1>2. CASE ~Expired(row, d)
  BY <1>2 DEF RequeueRow
<1>3. CASE Expired(row, d)
  <2>1. row.status = "CLAIMED" /\ ~(row.lease >= 0)
    BY <1>1, <1>3 DEF Expired, Row
  <2>2. CASE row.attempts < MaxAttempts
    <3>1. DEFINE free == Unclaimed(row, "READY")
    <3>2. free \in Row(Workers) /\ free.epoch = row.epoch /\ free.status = "READY"
      BY UnclaimedFacts DEF JobStatus
    <3>3. RequeueRow(row, d) = [free EXCEPT !.wait = -d]
      BY <1>3, <2>2 DEF RequeueRow
    <3>4. QED
      BY <1>1, <2>1, <3>2, <3>3 DEF Row
  <2>3. CASE ~(row.attempts < MaxAttempts)
    <3>1. DEFINE free == Unclaimed(row, "FAILED")
    <3>2. free \in Row(Workers) /\ free.epoch = row.epoch /\ free.status = "FAILED"
      BY UnclaimedFacts DEF JobStatus
    <3>3. RequeueRow(row, d) = [free EXCEPT !.exhausted = TRUE]
      BY <1>3, <2>3 DEF RequeueRow
    <3>4. QED
      BY <1>1, <2>1, <3>2, <3>3 DEF Row
  <2>4. QED
    BY <2>2, <2>3
<1>4. QED
  BY <1>2, <1>3

\* claim_ready turns a row into one with the next epoch, held by the claimant.
LEMMA ClaimRowFacts ==
    ASSUME NEW row \in Row(Workers), NEW w \in Workers, NEW d \in 0..Lag
    PROVE  /\ ClaimRow(row, w, d) \in Row(Workers)
           /\ ClaimRow(row, w, d).epoch = row.epoch + 1
           /\ ClaimRow(row, w, d).owner = w
           /\ ClaimRow(row, w, d).status = "CLAIMED"
<1> DEFINE r1 == [row EXCEPT !.status = "CLAIMED"]
           r2 == [r1 EXCEPT !.owner = w]
           r3 == [r2 EXCEPT !.epoch = @ + 1]
           r4 == [r3 EXCEPT !.attempts = @ + 1]
           r5 == [r4 EXCEPT !.lease = LeaseTicks - d]
           r6 == [r5 EXCEPT !.wait = 0]
<1>1. LeaseTicks - d \in Int
  BY JobTableAssumption
<1>2. ClaimRow(row, w, d) = r6
  BY DEF ClaimRow, Row
<1>3. r1 \in Row(Workers) /\ r1.epoch = row.epoch /\ r1.status = "CLAIMED"
  BY DEF Row, JobStatus
<1> HIDE DEF r1
<1>4. r2 \in Row(Workers) /\ r2.epoch = row.epoch /\ r2.status = "CLAIMED" /\ r2.owner = w
  BY <1>3 DEF Row
<1> HIDE DEF r2
<1>5. r3 \in Row(Workers) /\ r3.epoch = row.epoch + 1 /\ r3.status = "CLAIMED" /\ r3.owner = w
  BY <1>4 DEF Row
<1> HIDE DEF r3
<1>6. r4 \in Row(Workers) /\ r4.epoch = row.epoch + 1 /\ r4.status = "CLAIMED" /\ r4.owner = w
  BY <1>5 DEF Row
<1> HIDE DEF r4
<1>7. r5 \in Row(Workers) /\ r5.epoch = row.epoch + 1 /\ r5.status = "CLAIMED" /\ r5.owner = w
  BY <1>1, <1>6 DEF Row
<1> HIDE DEF r5
<1>8. QED
  BY <1>2, <1>7 DEF Row

\* The remaining statements keep the shape and the epoch of a row.
LEMMA OtherRowFacts ==
    ASSUME NEW row \in Row(Workers), NEW d \in 0..Lag
    PROVE  /\ ReleaseRow(row, RetryDelay, d) \in Row(Workers)
           /\ ReleaseRow(row, RetryDelay, d).epoch = row.epoch
           /\ ReleaseRow(row, RetryDelay, d).status = "READY"
           /\ RenewRow(row, d) \in Row(Workers)
           /\ RenewRow(row, d).epoch = row.epoch
           /\ RenewRow(row, d).status = row.status
           /\ RenewRow(row, d).owner = row.owner
           /\ ResumeRow(row, d) \in Row(Workers)
           /\ ResumeRow(row, d).epoch = row.epoch
           /\ ResumeRow(row, d).status = "READY"
<1>1. d \in Int /\ RetryDelay - d \in Int /\ LeaseTicks - d \in Int
  BY JobTableAssumption, DurableJobsAssumption
<1>2. Unclaimed(row, "READY") \in Row(Workers) /\ Unclaimed(row, "READY").epoch = row.epoch
  BY UnclaimedFacts DEF JobStatus
<1>3. /\ ReleaseRow(row, RetryDelay, d) \in Row(Workers)
      /\ ReleaseRow(row, RetryDelay, d).epoch = row.epoch
      /\ ReleaseRow(row, RetryDelay, d).status = "READY"
  BY <1>1, <1>2, UnclaimedFacts DEF ReleaseRow, Row, JobStatus
<1>4. /\ RenewRow(row, d) \in Row(Workers)
      /\ RenewRow(row, d).epoch = row.epoch
      /\ RenewRow(row, d).status = row.status
      /\ RenewRow(row, d).owner = row.owner
  BY <1>1 DEF RenewRow, Row
<1>5. /\ ResumeRow(row, d) \in Row(Workers)
      /\ ResumeRow(row, d).epoch = row.epoch
      /\ ResumeRow(row, d).status = "READY"
  <2> DEFINE r1 == [row EXCEPT !.status = "READY"]
             r2 == [r1 EXCEPT !.wait = -d]
  <2>1. r1 \in Row(Workers) /\ r1.epoch = row.epoch /\ r1.status = "READY"
    BY DEF Row, JobStatus
  <2>2. ResumeRow(row, d) = r2
    BY DEF ResumeRow, Row
  <2> HIDE DEF r1
  <2>3. QED
    BY <1>1, <2>1, <2>2 DEF Row
<1>6. QED
  BY <1>3, <1>4, <1>5

\* A tick ages the lease of a CLAIMED row and the wait of a READY one, no more.
LEMMA AgeRowFacts ==
    ASSUME NEW row \in Row(Workers)
    PROVE  /\ AgeRow(row) \in Row(Workers)
           /\ AgeRow(row).epoch = row.epoch
           /\ AgeRow(row).status = row.status
           /\ AgeRow(row).owner = row.owner
           /\ AgeRow(row).exhausted = row.exhausted
           /\ row.status \notin {"CLAIMED", "READY"} => AgeRow(row) = row
<1> DEFINE lease == IF row.status = "CLAIMED" /\ row.lease > -(Lag + 1)
                    THEN row.lease - 1 ELSE row.lease
           wait == IF row.status = "READY" /\ row.wait > -Lag
                   THEN row.wait - 1 ELSE row.wait
           r1 == [row EXCEPT !.lease = lease]
           r2 == [r1 EXCEPT !.wait = wait]
<1>1. lease \in Int /\ wait \in Int
  BY JobTableAssumption DEF Row
<1>2. AgeRow(row) = r2
  BY DEF AgeRow, Row
<1>3. row.status \notin {"CLAIMED", "READY"} => AgeRow(row) = row
  BY <1>2 DEF Row
<1> HIDE DEF lease, wait
<1>4. r1 \in Row(Workers) /\ r1.epoch = row.epoch /\ r1.status = row.status
      /\ r1.owner = row.owner /\ r1.exhausted = row.exhausted
  BY <1>1 DEF Row
<1> HIDE DEF r1
<1>5. r2 \in Row(Workers) /\ r2.epoch = row.epoch /\ r2.status = row.status
      /\ r2.owner = row.owner /\ r2.exhausted = row.exhausted
  BY <1>1, <1>4 DEF Row
<1>6. QED
  BY <1>2, <1>3, <1>5

-----------------------------------------------------------------------------
(* Type correctness *)

\* The requeue of a claim transaction, on the whole table.
LEMMA RequeuedFacts ==
    ASSUME TypeOK, NEW d \in 0..Lag
    PROVE  /\ Requeued(d) \in [Jobs -> Row(Workers)]
           /\ \A j \in Jobs : /\ Requeued(d)[j] = RequeueRow(rows[j], d)
                             /\ Requeued(d)[j] \in Row(Workers)
                             /\ Requeued(d)[j].epoch = rows[j].epoch
<1>1. \A j \in Jobs : rows[j] \in Row(Workers)
  BY DEF TypeOK
<1>2. \A j \in Jobs : /\ RequeueRow(rows[j], d) \in Row(Workers)
                     /\ RequeueRow(rows[j], d).epoch = rows[j].epoch
  BY <1>1, RequeueRowFacts
<1>3. QED
  BY <1>2 DEF Requeued

\* The token of a claim being executed is a real claim.
LEMMA CurrentFacts ==
    ASSUME TypeOK, NEW w \in Workers, current[w] # NoClaim
    PROVE  /\ current[w] \in Claim
           /\ current[w].job \in Jobs
           /\ rows[current[w].job] \in Row(Workers)
<1>1. current[w] \in Claim
  BY DEF TypeOK
<1>2. QED
  BY <1>1 DEF TypeOK, Claim

LEMMA InitType == Init => TypeOK
<1> SUFFICES ASSUME Init PROVE TypeOK
  OBVIOUS
<1>1. NoRow \in Row(Workers)
  BY DEF NoRow, Row, JobStatus
<1>2. QED
  BY <1>1, DurableJobsAssumption DEF Init, TypeOK

\* Every step keeps the types.
LEMMA NextType == TypeOK /\ [Next]_vars => TypeOK'
<1> SUFFICES ASSUME TypeOK, [Next]_vars PROVE TypeOK'
  OBVIOUS
<1>1. ASSUME NEW j \in Jobs, Enqueue(j) PROVE TypeOK'
  <2>1. NewRow \in Row(Workers)
    <3>1. NoRow \in Row(Workers)
      BY DEF NoRow, Row, JobStatus
    <3>2. QED
      BY <3>1 DEF NewRow, Row, JobStatus
  <2>2. QED
    BY <1>1, <2>1 DEF Enqueue, TypeOK
<1>2. ASSUME NEW j \in Jobs, Cancel(j) PROVE TypeOK'
  <2>1. CancelRow(rows[j]) \in Row(Workers)
    BY UnclaimedFacts DEF CancelRow, TypeOK, JobStatus
  <2>2. QED
    BY <1>2, <2>1 DEF Cancel, TypeOK
<1>3. ASSUME NEW j \in Jobs, NEW d \in 0..Lag, Resume(j, d) PROVE TypeOK'
  <2>1. ResumeRow(rows[j], d) \in Row(Workers)
    BY OtherRowFacts DEF TypeOK
  <2>2. resumes[j] + 1 \in 0..MaxResumes
    BY <1>3, DurableJobsAssumption DEF Resume, TypeOK
  <2>3. QED
    BY <1>3, <2>1, <2>2 DEF Resume, TypeOK
<1>4. ASSUME NEW w \in Workers, NEW S \in SUBSET Jobs, NEW d \in 0..Lag, ClaimJobs(w, S, d)
      PROVE  TypeOK'
  <2>1. \A j \in Jobs : ClaimRow(Requeued(d)[j], w, d) \in Row(Workers)
    BY RequeuedFacts, ClaimRowFacts
  <2>2. rows' \in [Jobs -> Row(Workers)]
    BY <1>4, <2>1, RequeuedFacts DEF ClaimJobs
  <2>3. \A j \in S : rows'[j].epoch \in Nat \ {0}
    <3>1. \A j \in S : rows'[j] = ClaimRow(Requeued(d)[j], w, d)
      BY <1>4 DEF ClaimJobs
    <3>2. \A j \in S : rows[j].epoch \in Nat
      BY DEF TypeOK, Row
    <3>3. QED
      BY <3>1, <3>2, RequeuedFacts, ClaimRowFacts
  <2>4. {[job |-> j, epoch |-> rows'[j].epoch] : j \in S} \in SUBSET Claim
    BY <2>3 DEF Claim
  <2>5. QED
    BY <1>4, <2>2, <2>4 DEF ClaimJobs, TypeOK
<1>5. ASSUME NEW w \in Workers, NEW j \in Jobs, NEW d \in 0..Lag, ClaimAndSettle(w, j, d)
      PROVE  TypeOK'
  <2>1. ClaimRow(Requeued(d)[j], w, d) \in Row(Workers)
    BY RequeuedFacts, ClaimRowFacts
  <2>2. SettleRow(ClaimRow(Requeued(d)[j], w, d), "COMPLETED") \in Row(Workers)
    BY <2>1, UnclaimedFacts DEF SettleRow, JobStatus
  <2>3. QED
    BY <1>5, <2>2, RequeuedFacts DEF ClaimAndSettle, TypeOK
<1>6. ASSUME NEW w \in Workers, NEW c \in rest[w], Begin(w, c) PROVE TypeOK'
  BY <1>6 DEF Begin, TypeOK
<1>7. ASSUME NEW w \in Workers, NEW d \in 0..Lag, Heartbeat(w, d) PROVE TypeOK'
  <2>1. CASE Holds(rows[current[w].job], w, current[w].epoch)
    <3>1. \A j \in Jobs : RenewRow(rows[j], d) \in Row(Workers)
      BY OtherRowFacts DEF TypeOK
    <3>2. rows' \in [Jobs -> Row(Workers)] /\ UNCHANGED beating
      BY <1>7, <2>1, <3>1 DEF Heartbeat, TypeOK
    <3>3. QED
      BY <1>7, <3>2 DEF Heartbeat, TypeOK
  <2>2. CASE ~Holds(rows[current[w].job], w, current[w].epoch)
    BY <1>7, <2>2 DEF Heartbeat, TypeOK
  <2>3. QED
    BY <2>1, <2>2
<1>8. ASSUME NEW w \in Workers, NEW d \in 0..Lag, NEW status \in SettleStatus,
             Settle(w, status, d)
      PROVE  TypeOK'
  <2>1. SettleRow(rows[current[w].job], status) \in Row(Workers)
    BY <1>8, CurrentFacts, UnclaimedFacts DEF Settle, SettleRow, SettleStatus, JobStatus
  <2>2. QED
    BY <1>8, <2>1 DEF Settle, NextClaim, TypeOK
<1>9. ASSUME NEW w \in Workers, NEW d \in 0..Lag, SettleLost(w, d) PROVE TypeOK'
  BY <1>9 DEF SettleLost, DropBatch, TypeOK
<1>10. ASSUME NEW w \in Workers, NEW d \in 0..Lag, Release(w, d) PROVE TypeOK'
  <2>1. ReleaseRow(rows[current[w].job], RetryDelay, d) \in Row(Workers)
    BY <1>10, CurrentFacts, OtherRowFacts DEF Release
  <2>2. QED
    BY <1>10, <2>1 DEF Release, NextClaim, TypeOK
<1>11. ASSUME NEW w \in Workers, Abandon(w) PROVE TypeOK'
  BY <1>11 DEF Abandon, DropBatch, TypeOK
<1>12. CASE Tick
  <2>1. \A j \in Jobs : AgeRow(rows[j]) \in Row(Workers)
    BY AgeRowFacts DEF TypeOK
  <2>2. QED
    BY <1>12, <2>1 DEF Tick, TypeOK
<1>13. CASE UNCHANGED vars
  BY <1>13 DEF vars, TypeOK
<1>14. QED
  BY <1>1, <1>2, <1>3, <1>4, <1>5, <1>6, <1>7, <1>8, <1>9, <1>10, <1>11, <1>12, <1>13
     DEF Next, JobStep, WorkerStep, Claiming, Finishing

\* The repository and its callers write only well-formed rows and claims.
THEOREM TypeCorrect == Spec => []TypeOK
  BY InitType, NextType, PTL DEF Spec

-----------------------------------------------------------------------------
(* Fencing tokens *)

\* A step that hands out no new claim keeps tokens unique, provided no row goes
\* back in its epoch and none becomes CLAIMED, or changes owner, under an epoch
\* that was already issued.
LEMMA TokensKept ==
    ASSUME TypeOK, TokenUnique,
           \A w \in Workers : InHand(w)' \subseteq InHand(w),
           \A j \in Jobs :
              /\ rows'[j].epoch \in Nat
              /\ rows'[j].epoch >= rows[j].epoch
              /\ rows'[j].status = "CLAIMED" /\ rows'[j].epoch = rows[j].epoch
                   => rows[j].status = "CLAIMED" /\ rows'[j].owner = rows[j].owner
    PROVE  TokenUnique'
<1> SUFFICES ASSUME NEW w \in Workers, NEW c \in InHand(w)'
             PROVE  /\ c.epoch <= rows'[c.job].epoch
                    /\ \A v \in Workers : c \in InHand(v)' => v = w
                    /\ rows'[c.job].status = "CLAIMED" /\ rows'[c.job].epoch = c.epoch
                          => rows'[c.job].owner = w
  BY DEF TokenUnique
<1>1. c \in InHand(w)
  OBVIOUS
<1>2. c \in Claim
  BY <1>1 DEF InHand, TypeOK
<1>3. /\ c.job \in Jobs
      /\ c.epoch \in Nat
      /\ rows[c.job].epoch \in Nat
  BY <1>2 DEF Claim, TypeOK, Row
<1>4. /\ c.epoch <= rows[c.job].epoch
      /\ \A v \in Workers : c \in InHand(v) => v = w
      /\ rows[c.job].status = "CLAIMED" /\ rows[c.job].epoch = c.epoch
           => rows[c.job].owner = w
  BY <1>1 DEF TokenUnique
<1>5. c.epoch <= rows'[c.job].epoch
  BY <1>3, <1>4
<1>6. ASSUME rows'[c.job].status = "CLAIMED", rows'[c.job].epoch = c.epoch
      PROVE  rows'[c.job].owner = w
  <2>1. rows'[c.job].epoch = rows[c.job].epoch
    BY <1>3, <1>4, <1>6
  <2>2. QED
    BY <1>3, <1>4, <1>6, <2>1
<1>7. QED
  BY <1>4, <1>5, <1>6

\* A claim transaction hands out tokens nobody has: their epochs are newer than
\* every row, hence than every token in hand.
LEMMA ClaimTokens ==
    ASSUME TypeOK, TokenUnique,
           NEW w \in Workers, NEW S \in SUBSET Jobs, NEW d \in 0..Lag,
           ClaimJobs(w, S, d)
    PROVE  TokenUnique'
<1> DEFINE issued == {[job |-> j, epoch |-> rows'[j].epoch] : j \in S}
           held == [u \in Workers |-> InHand(u)]
           holds == [u \in Workers |-> InHand(u)']
<1>1. holds = [held EXCEPT ![w] = issued]
  <2>1. \A u \in Workers : holds[u] = IF u = w THEN issued ELSE held[u]
    BY DEF ClaimJobs, InHand, Idle, TypeOK
  <2> HIDE DEF issued
  <2>2. \A u \in Workers : [held EXCEPT ![w] = issued][u] = IF u = w THEN issued ELSE held[u]
    OBVIOUS
  <2>3. QED
    BY <2>1, <2>2
<1>2. \A j \in Jobs : rows[j] \in Row(Workers) /\ rows[j].epoch \in Nat
  BY DEF TypeOK, Row
<1>3. \A j \in S : /\ rows'[j].epoch = rows[j].epoch + 1
                   /\ rows'[j].owner = w
  <2>1. \A j \in S : rows'[j] = ClaimRow(Requeued(d)[j], w, d)
    BY DEF ClaimJobs
  <2>2. QED
    BY <2>1, RequeuedFacts, ClaimRowFacts
<1>4. \A j \in Jobs \ S : /\ rows'[j].epoch = rows[j].epoch
                          /\ rows'[j].status = "CLAIMED" => rows'[j] = rows[j]
  <2>1. \A j \in Jobs \ S : rows'[j] = RequeueRow(rows[j], d)
    BY RequeuedFacts DEF ClaimJobs
  <2>2. QED
    BY <1>2, <2>1, RequeueRowFacts
<1>5. \A u \in Workers : \A k \in held[u] :
         /\ k.job \in Jobs /\ k.epoch \in Nat
         /\ k.epoch <= rows[k.job].epoch
         /\ \A x \in Workers : k \in held[x] => x = u
         /\ rows[k.job].status = "CLAIMED" /\ rows[k.job].epoch = k.epoch
              => rows[k.job].owner = u
  <2>1. \A u \in Workers : InHand(u) \subseteq Claim
    BY DEF InHand, TypeOK
  <2>2. \A k \in Claim : k.job \in Jobs /\ k.epoch \in Nat
    BY DEF Claim
  <2>3. QED
    BY <2>1, <2>2 DEF TokenUnique
<1>6. \A k \in issued : /\ k.job \in S
                        /\ k.epoch = rows[k.job].epoch + 1
  BY <1>3
<1> SUFFICES ASSUME NEW v \in Workers, NEW c \in holds[v]
             PROVE  /\ c.epoch <= rows'[c.job].epoch
                    /\ \A u \in Workers : c \in holds[u] => u = v
                    /\ rows'[c.job].status = "CLAIMED" /\ rows'[c.job].epoch = c.epoch
                          => rows'[c.job].owner = v
  BY DEF TokenUnique
<1>7. held \in [Workers -> {held[u] : u \in Workers}] /\ DOMAIN held = Workers
  OBVIOUS
<1> HIDE DEF held, holds, issued
<1>8. CASE v = w
  <2>1. c \in issued
    BY <1>1, <1>7, <1>8
  <2>2. c.job \in S /\ c.epoch = rows[c.job].epoch + 1 /\ rows[c.job].epoch \in Nat
    BY <1>2, <1>6, <2>1
  <2>3. rows'[c.job].epoch = c.epoch /\ rows'[c.job].owner = w
    BY <1>3, <2>2
  <2>4. \A u \in Workers \ {w} : c \notin holds[u]
    BY <1>1, <1>5, <1>7, <2>2
  <2>5. QED
    BY <1>8, <2>2, <2>3, <2>4
<1>9. CASE v # w
  <2>1. c \in held[v]
    BY <1>1, <1>7, <1>9
  <2>2. /\ c.job \in Jobs /\ c.epoch \in Nat /\ rows[c.job].epoch \in Nat
        /\ c.epoch <= rows[c.job].epoch
    BY <1>2, <1>5, <2>1
  <2>3. c \notin holds[w]
    BY <1>1, <1>6, <1>7, <2>2
  <2>4. \A u \in Workers : c \in holds[u] => u = v
    BY <1>1, <1>5, <1>7, <2>1, <2>3
  <2>5. CASE c.job \in S
    BY <1>3, <2>2, <2>4, <2>5
  <2>6. CASE c.job \notin S
    BY <1>4, <1>5, <2>1, <2>2, <2>4, <2>6
  <2>7. QED
    BY <2>5, <2>6
<1>10. QED
  BY <1>8, <1>9

LEMMA InitTokens == Init => TokenUnique
  BY DEF Init, InHand, TokenUnique

\* Every step keeps fencing tokens unique.
LEMMA NextTokens == TypeOK /\ TokenUnique /\ [Next]_vars => TokenUnique'
<1> SUFFICES ASSUME TypeOK, TokenUnique, [Next]_vars PROVE TokenUnique'
  OBVIOUS
<1> DEFINE Same(row, new) ==
              /\ new.epoch \in Nat
              /\ new.epoch >= row.epoch
              /\ new.status = "CLAIMED" /\ new.epoch = row.epoch
                   => row.status = "CLAIMED" /\ new.owner = row.owner
<1>1. \A j \in Jobs : /\ rows[j] \in Row(Workers)
                     /\ rows[j].epoch \in Nat
                     /\ Same(rows[j], rows[j])
  BY DEF TypeOK, Row
<1>2. ASSUME UNCHANGED <<rest, current>>, \A j \in Jobs : Same(rows[j], rows'[j])
      PROVE  TokenUnique'
  <2>1. \A w \in Workers : InHand(w)' \subseteq InHand(w)
    BY <1>2 DEF InHand
  <2>2. QED
    BY <1>2, <2>1, TokensKept
<1>3. ASSUME NEW w \in Workers,
             rest' = rest \/ rest' = [rest EXCEPT ![w] = {}],
             current' = [current EXCEPT ![w] = NoClaim],
             \A j \in Jobs : Same(rows[j], rows'[j])
      PROVE  TokenUnique'
  <2>1. \A v \in Workers : InHand(v)' \subseteq InHand(v)
    BY <1>3 DEF InHand, TypeOK
  <2>2. QED
    BY <1>3, <2>1, TokensKept
<1>4. ASSUME NEW j \in Jobs, Enqueue(j) PROVE TokenUnique'
  <2>1. NewRow.epoch = 0 /\ NewRow.status = "READY" /\ NoRow.epoch = 0
    BY DEF NewRow, NoRow
  <2>2. rows[j].epoch = 0
    BY <1>4, <2>1 DEF Enqueue
  <2>3. Same(rows[j], NewRow)
    BY <2>1, <2>2
  <2>4. \A i \in Jobs : Same(rows[i], rows'[i])
    BY <1>1, <1>4, <2>3 DEF Enqueue, TypeOK
  <2>5. QED
    BY <1>2, <1>4, <2>4 DEF Enqueue
<1>5. ASSUME NEW j \in Jobs, Cancel(j) PROVE TokenUnique'
  <2>1. Same(rows[j], CancelRow(rows[j]))
    BY <1>1, UnclaimedFacts DEF CancelRow, JobStatus
  <2>2. \A i \in Jobs : Same(rows[i], rows'[i])
    BY <1>1, <1>5, <2>1 DEF Cancel, TypeOK
  <2>3. QED
    BY <1>2, <1>5, <2>2 DEF Cancel
<1>6. ASSUME NEW j \in Jobs, NEW d \in 0..Lag, Resume(j, d) PROVE TokenUnique'
  <2>1. Same(rows[j], ResumeRow(rows[j], d))
    BY <1>1, OtherRowFacts
  <2>2. \A i \in Jobs : Same(rows[i], rows'[i])
    BY <1>1, <1>6, <2>1 DEF Resume, TypeOK
  <2>3. QED
    BY <1>2, <1>6, <2>2 DEF Resume
<1>7. ASSUME NEW w \in Workers, NEW S \in SUBSET Jobs, NEW d \in 0..Lag, ClaimJobs(w, S, d)
      PROVE  TokenUnique'
  BY <1>7, ClaimTokens
<1>8. ASSUME NEW w \in Workers, NEW j \in Jobs, NEW d \in 0..Lag, ClaimAndSettle(w, j, d)
      PROVE  TokenUnique'
  <2> DEFINE claimed == ClaimRow(Requeued(d)[j], w, d)
             settled == SettleRow(claimed, "COMPLETED")
  <2>1. claimed \in Row(Workers) /\ claimed.epoch = rows[j].epoch + 1
    BY RequeuedFacts, ClaimRowFacts
  <2>2. settled.epoch = rows[j].epoch + 1 /\ settled.status = "COMPLETED"
    BY <2>1, UnclaimedFacts DEF SettleRow, JobStatus
  <2>3. rows' = [Requeued(d) EXCEPT ![j] = settled]
    BY <1>8 DEF ClaimAndSettle
  <2> HIDE DEF claimed, settled
  <2>4. \A i \in Jobs : rows'[i] = IF i = j THEN settled ELSE RequeueRow(rows[i], d)
    BY <2>3, RequeuedFacts
  <2>5. \A i \in Jobs : Same(rows[i], RequeueRow(rows[i], d))
    <3> TAKE i \in Jobs
    <3>1. /\ RequeueRow(rows[i], d).epoch = rows[i].epoch
          /\ RequeueRow(rows[i], d).status = "CLAIMED" => RequeueRow(rows[i], d) = rows[i]
      BY <1>1, RequeueRowFacts
    <3>2. QED
      BY <1>1, <3>1
  <2>6. Same(rows[j], settled)
    BY <1>1, <2>2
  <2>7. \A i \in Jobs : Same(rows[i], rows'[i])
    BY <2>4, <2>5, <2>6
  <2>8. QED
    BY <1>2, <1>8, <2>7 DEF ClaimAndSettle
<1>9. ASSUME NEW w \in Workers, NEW c \in rest[w], Begin(w, c) PROVE TokenUnique'
  <2>1. \A v \in Workers : InHand(v)' \subseteq InHand(v)
    BY <1>9 DEF Begin, InHand, TypeOK
  <2>2. QED
    BY <1>1, <1>9, <2>1, TokensKept DEF Begin
<1>10. ASSUME NEW w \in Workers, NEW d \in 0..Lag, Heartbeat(w, d) PROVE TokenUnique'
  <2>1. \A j \in Jobs : Same(rows[j], RenewRow(rows[j], d))
    <3> TAKE j \in Jobs
    <3>1. /\ RenewRow(rows[j], d).epoch = rows[j].epoch
          /\ RenewRow(rows[j], d).status = rows[j].status
          /\ RenewRow(rows[j], d).owner = rows[j].owner
      BY <1>1, OtherRowFacts
    <3>2. QED
      BY <1>1, <3>1
  <2>2. \A j \in Jobs : rows'[j] = rows[j] \/ rows'[j] = RenewRow(rows[j], d)
    BY <1>10 DEF Heartbeat, TypeOK
  <2>3. \A j \in Jobs : Same(rows[j], rows'[j])
    BY <1>1, <2>1, <2>2
  <2>4. QED
    BY <1>2, <1>10, <2>3 DEF Heartbeat
<1>11. ASSUME NEW w \in Workers, NEW d \in 0..Lag, NEW status \in SettleStatus,
              Settle(w, status, d)
       PROVE  TokenUnique'
  <2>1. current[w].job \in Jobs
    BY <1>11, CurrentFacts DEF Settle
  <2>2. Same(rows[current[w].job], SettleRow(rows[current[w].job], status))
    BY <1>1, <2>1, UnclaimedFacts DEF SettleRow, SettleStatus, JobStatus
  <2>3. \A j \in Jobs : Same(rows[j], rows'[j])
    BY <1>1, <1>11, <2>1, <2>2 DEF Settle, TypeOK
  <2>4. QED
    BY <1>3, <1>11, <2>3 DEF Settle, NextClaim
<1>12. ASSUME NEW w \in Workers, NEW d \in 0..Lag, SettleLost(w, d) PROVE TokenUnique'
  BY <1>1, <1>3, <1>12 DEF SettleLost, DropBatch
<1>13. ASSUME NEW w \in Workers, NEW d \in 0..Lag, Release(w, d) PROVE TokenUnique'
  <2>1. current[w].job \in Jobs
    BY <1>13, CurrentFacts DEF Release
  <2>2. Same(rows[current[w].job], ReleaseRow(rows[current[w].job], RetryDelay, d))
    BY <1>1, <2>1, OtherRowFacts
  <2>3. \A j \in Jobs : Same(rows[j], rows'[j])
    BY <1>1, <1>13, <2>1, <2>2 DEF Release, TypeOK
  <2>4. QED
    BY <1>3, <1>13, <2>3 DEF Release, NextClaim
<1>14. ASSUME NEW w \in Workers, Abandon(w) PROVE TokenUnique'
  BY <1>1, <1>3, <1>14 DEF Abandon, DropBatch
<1>15. CASE Tick
  <2>1. \A j \in Jobs : rows'[j] = AgeRow(rows[j])
    BY <1>15 DEF Tick
  <2>2. \A j \in Jobs : Same(rows[j], rows'[j])
    <3> TAKE j \in Jobs
    <3>1. /\ rows'[j].epoch = rows[j].epoch
          /\ rows'[j].status = rows[j].status
          /\ rows'[j].owner = rows[j].owner
      BY <1>1, <2>1, AgeRowFacts
    <3>2. QED
      BY <1>1, <3>1
  <2>3. QED
    BY <1>2, <1>15, <2>2 DEF Tick
<1>16. CASE UNCHANGED vars
  BY <1>1, <1>2, <1>16 DEF vars
<1>17. QED
  BY <1>4, <1>5, <1>6, <1>7, <1>8, <1>9, <1>10, <1>11, <1>12, <1>13, <1>14, <1>15, <1>16
     DEF Next, JobStep, WorkerStep, Claiming, Finishing

\* claim_epoch fences: no two workers ever hold the same token of a job, and
\* the token of a CLAIMED row is held by the worker the row names or by nobody.
THEOREM TokensAreUnique == Spec => []TokenUnique
<1>1. Init => TypeOK /\ TokenUnique
  BY InitType, InitTokens
<1>2. TypeOK /\ TokenUnique /\ [Next]_vars => (TypeOK /\ TokenUnique)'
  BY NextType, NextTokens
<1>3. QED
  BY <1>1, <1>2, PTL DEF Spec

-----------------------------------------------------------------------------
(* What a step may never do to a row *)

\* One step changes a row by a statement of the repository and in no other way.
\* A worker's own settlement or release takes the claim out of its hand.
LEMMA RowSteps ==
    ASSUME TypeOK, [Next]_vars, NEW j \in Jobs
    PROVE  \/ rows'[j] = rows[j]
           \/ rows[j] = NoRow /\ rows'[j] = NewRow
           \/ \E d \in 0..Lag : MayResume(rows[j]) /\ rows'[j] = ResumeRow(rows[j], d)
           \/ MayCancel(rows[j]) /\ rows'[j] = CancelRow(rows[j])
           \/ \E d \in 0..Lag : rows'[j] = RequeueRow(rows[j], d)
           \/ \E d \in 0..Lag, w \in Workers :
                 LET claimed == ClaimRow(RequeueRow(rows[j], d), w, d)
                 IN  /\ Claimable(RequeueRow(rows[j], d), d)
                     /\ rows'[j] \in {claimed, SettleRow(claimed, "COMPLETED")}
           \/ \E d \in 0..Lag, w \in Workers :
                 Holds(rows[j], w, rows[j].epoch) /\ rows'[j] = RenewRow(rows[j], d)
           \/ \E w \in Workers :
                 /\ current[w] = [job |-> j, epoch |-> rows[j].epoch]
                 /\ current'[w] = NoClaim
                 /\ rows[j].status = "CLAIMED"
                 /\ \/ \E status \in SettleStatus : rows'[j] = SettleRow(rows[j], status)
                    \/ \E d \in 0..Lag : rows'[j] = ReleaseRow(rows[j], RetryDelay, d)
           \/ rows'[j] = AgeRow(rows[j])
<1>1. ASSUME NEW i \in Jobs, Enqueue(i) PROVE rows'[j] = rows[j] \/ (rows[j] = NoRow /\ rows'[j] = NewRow)
  BY <1>1 DEF Enqueue, TypeOK
<1>2. ASSUME NEW i \in Jobs, Cancel(i)
      PROVE  rows'[j] = rows[j] \/ (MayCancel(rows[j]) /\ rows'[j] = CancelRow(rows[j]))
  BY <1>2 DEF Cancel, TypeOK
<1>3. ASSUME NEW i \in Jobs, NEW d \in 0..Lag, Resume(i, d)
      PROVE  rows'[j] = rows[j] \/ (MayResume(rows[j]) /\ rows'[j] = ResumeRow(rows[j], d))
  BY <1>3 DEF Resume, TypeOK
<1>4. ASSUME NEW w \in Workers, NEW S \in SUBSET Jobs, NEW d \in 0..Lag, ClaimJobs(w, S, d)
      PROVE  \/ rows'[j] = RequeueRow(rows[j], d)
             \/ /\ Claimable(RequeueRow(rows[j], d), d)
                /\ rows'[j] = ClaimRow(RequeueRow(rows[j], d), w, d)
  <2>1. rows'[j] = IF j \in S THEN ClaimRow(RequeueRow(rows[j], d), w, d)
                              ELSE RequeueRow(rows[j], d)
    BY <1>4, RequeuedFacts DEF ClaimJobs
  <2>2. j \in S => Claimable(RequeueRow(rows[j], d), d)
    BY <1>4, RequeuedFacts DEF ClaimJobs, Available
  <2>3. QED
    BY <2>1, <2>2
<1>5. ASSUME NEW w \in Workers, NEW i \in Jobs, NEW d \in 0..Lag, ClaimAndSettle(w, i, d)
      PROVE  \/ rows'[j] = RequeueRow(rows[j], d)
             \/ /\ Claimable(RequeueRow(rows[j], d), d)
                /\ rows'[j] = SettleRow(ClaimRow(RequeueRow(rows[j], d), w, d), "COMPLETED")
  <2>1. rows' = [Requeued(d) EXCEPT ![i] = SettleRow(ClaimRow(Requeued(d)[i], w, d), "COMPLETED")]
    BY <1>5 DEF ClaimAndSettle
  <2>2. Claimable(Requeued(d)[i], d)
    BY <1>5 DEF ClaimAndSettle, Available
  <2>3. QED
    BY <2>1, <2>2, RequeuedFacts
<1>6. ASSUME NEW w \in Workers, NEW c \in rest[w], Begin(w, c) PROVE rows'[j] = rows[j]
  BY <1>6 DEF Begin
<1>7. ASSUME NEW w \in Workers, NEW d \in 0..Lag, Heartbeat(w, d)
      PROVE  \/ rows'[j] = rows[j]
             \/ Holds(rows[j], w, rows[j].epoch) /\ rows'[j] = RenewRow(rows[j], d)
  BY <1>7 DEF Heartbeat, Holds, TypeOK
<1>8. ASSUME NEW w \in Workers, NEW d \in 0..Lag, NEW status \in SettleStatus,
             Settle(w, status, d)
      PROVE  \/ rows'[j] = rows[j]
             \/ /\ current[w] = [job |-> j, epoch |-> rows[j].epoch]
                /\ current'[w] = NoClaim
                /\ rows[j].status = "CLAIMED"
                /\ rows'[j] = SettleRow(rows[j], status)
  <2>1. current[w] \in Claim /\ Holds(rows[current[w].job], w, current[w].epoch)
    BY <1>8, CurrentFacts DEF Settle, MaySettle
  <2>2. CASE current[w].job = j
    <3>1. current[w] = [job |-> j, epoch |-> rows[j].epoch] /\ rows[j].status = "CLAIMED"
      BY <2>1, <2>2 DEF Holds, Claim
    <3>2. QED
      BY <1>8, <2>2, <3>1 DEF Settle, NextClaim, TypeOK
  <2>3. CASE current[w].job # j
    BY <1>8, <2>3 DEF Settle, TypeOK
  <2>4. QED
    BY <2>2, <2>3
<1>9. ASSUME NEW w \in Workers, NEW d \in 0..Lag, SettleLost(w, d) PROVE rows'[j] = rows[j]
  BY <1>9 DEF SettleLost
<1>10. ASSUME NEW w \in Workers, NEW d \in 0..Lag, Release(w, d)
       PROVE  \/ rows'[j] = rows[j]
              \/ /\ current[w] = [job |-> j, epoch |-> rows[j].epoch]
                 /\ current'[w] = NoClaim
                 /\ rows[j].status = "CLAIMED"
                 /\ rows'[j] = ReleaseRow(rows[j], RetryDelay, d)
  <2>1. current[w] \in Claim /\ Holds(rows[current[w].job], w, current[w].epoch)
    BY <1>10, CurrentFacts DEF Release, MaySettle
  <2>2. CASE current[w].job = j
    <3>1. current[w] = [job |-> j, epoch |-> rows[j].epoch] /\ rows[j].status = "CLAIMED"
      BY <2>1, <2>2 DEF Holds, Claim
    <3>2. QED
      BY <1>10, <2>2, <3>1 DEF Release, NextClaim, TypeOK
  <2>3. CASE current[w].job # j
    BY <1>10, <2>3 DEF Release, TypeOK
  <2>4. QED
    BY <2>2, <2>3
<1>11. ASSUME NEW w \in Workers, Abandon(w) PROVE rows'[j] = rows[j]
  BY <1>11 DEF Abandon
<1>12. CASE Tick
  BY <1>12 DEF Tick
<1>13. CASE UNCHANGED vars
  BY <1>13 DEF vars
<1>14. QED
  BY <1>1, <1>2, <1>3, <1>4, <1>5, <1>6, <1>7, <1>8, <1>9, <1>10, <1>11, <1>12, <1>13
     DEF Next, JobStep, WorkerStep, Claiming, Finishing

\* A job that is COMPLETED, FAILED or CANCELLED never changes again, whichever
\* late settlement, renewal, requeue, resume or cancellation still arrives.
THEOREM ClosedStaysClosed == Spec => ClosedIsFinal
<1>1. ASSUME TypeOK, [Next]_vars, NEW j \in Jobs, rows[j].status \in Closed
      PROVE  rows'[j] = rows[j]
  <2>1. rows[j] \in Row(Workers) /\ rows[j].status \in {"COMPLETED", "FAILED", "CANCELLED"}
    BY <1>1 DEF TypeOK, Closed
  <2>2. \A d \in 0..Lag : RequeueRow(rows[j], d) = rows[j]
    BY <2>1, RequeueRowFacts
  <2>3. AgeRow(rows[j]) = rows[j]
    BY <2>1, AgeRowFacts
  <2>4. rows[j] # NoRow /\ ~MayResume(rows[j]) /\ ~MayCancel(rows[j])
    BY <2>1 DEF NoRow, MayResume, MayCancel
  <2>5. \A d \in 0..Lag : ~Claimable(RequeueRow(rows[j], d), d)
    BY <2>1, <2>2 DEF Claimable
  <2>6. \A w \in Workers : ~Holds(rows[j], w, rows[j].epoch) /\ rows[j].status # "CLAIMED"
    BY <2>1 DEF Holds
  <2>7. QED
    BY <1>1, <2>2, <2>3, <2>4, <2>5, <2>6, RowSteps
<1>2. TypeOK /\ [Next]_vars
      => [\A j \in Jobs : rows[j].status \in Closed => rows'[j] = rows[j]]_vars
  BY <1>1
<1>3. QED
  BY <1>2, TypeCorrect, PTL DEF Spec, ClosedIsFinal

\* A CLAIMED row whose lease runs is taken from its worker by nobody but that
\* worker and a cancelling user, for every skew of the clock readings.
THEOREM LiveLeasesRespected == Spec => LeaseRespected
<1> DEFINE Taken(j) == /\ rows[j].status = "CLAIMED"
                       /\ rows[j].lease >= 0
                       /\ rows'[j].status # "CANCELLED"
                       /\ rows'[j].status # "CLAIMED" \/ rows'[j].epoch # rows[j].epoch
           Given(j) == \E w \in Workers :
                          /\ current[w] = [job |-> j, epoch |-> rows[j].epoch]
                          /\ current'[w] = NoClaim
<1>1. ASSUME TypeOK, [Next]_vars, NEW j \in Jobs, Taken(j) PROVE Given(j)
  <2>1. rows[j] \in Row(Workers) /\ rows[j].status = "CLAIMED" /\ rows[j].lease >= 0
    BY <1>1 DEF TypeOK
  <2>2. \A d \in 0..Lag : RequeueRow(rows[j], d) = rows[j]
    BY <2>1, RequeueRowFacts
  <2>3. AgeRow(rows[j]).status = "CLAIMED" /\ AgeRow(rows[j]).epoch = rows[j].epoch
    BY <2>1, AgeRowFacts
  <2>4. \A d \in 0..Lag : /\ RenewRow(rows[j], d).status = "CLAIMED"
                          /\ RenewRow(rows[j], d).epoch = rows[j].epoch
    BY <2>1, OtherRowFacts
  <2>5. CancelRow(rows[j]).status = "CANCELLED"
    BY <2>1, UnclaimedFacts DEF CancelRow, JobStatus
  <2>6. rows[j] # NoRow /\ ~MayResume(rows[j])
    BY <2>1 DEF NoRow, MayResume
  <2>7. \A d \in 0..Lag : ~Claimable(RequeueRow(rows[j], d), d)
    BY <2>1, <2>2 DEF Claimable
  <2>8. QED
    BY <1>1, <2>1, <2>2, <2>3, <2>4, <2>5, <2>6, <2>7, RowSteps
<1>2. TypeOK /\ [Next]_vars => [\A j \in Jobs : Taken(j) => Given(j)]_vars
  BY <1>1
<1>3. QED
  BY <1>2, TypeCorrect, PTL DEF Spec, LeaseRespected


\* What requeue_expired decides: nothing, another delivery, or that there is none left.
LEMMA RequeueVerdict ==
    ASSUME NEW row \in Row(Workers), NEW d \in 0..Lag
    PROVE  \/ RequeueRow(row, d) = row
           \/ /\ RequeueRow(row, d).status = "READY"
              /\ RequeueRow(row, d).exhausted = row.exhausted
           \/ /\ RequeueRow(row, d).status = "FAILED" /\ RequeueRow(row, d).exhausted
              /\ row.status = "CLAIMED" /\ row.lease < 0 /\ row.attempts >= MaxAttempts
<1> DEFINE free == Unclaimed(row, "READY")
           failed == Unclaimed(row, "FAILED")
           wait == -d
<1>0. d \in Nat /\ wait \in Int /\ row.lease \in Int /\ row.attempts \in Nat /\ MaxAttempts \in Nat
  BY JobTableAssumption DEF Row
<1>1. free \in Row(Workers) /\ free.status = "READY" /\ free.exhausted = row.exhausted
  BY UnclaimedFacts DEF JobStatus
<1>2. failed \in Row(Workers) /\ failed.status = "FAILED"
  BY UnclaimedFacts DEF JobStatus
<1>3. \/ RequeueRow(row, d) = row
      \/ RequeueRow(row, d) = [free EXCEPT !.wait = wait]
      \/ /\ RequeueRow(row, d) = [failed EXCEPT !.exhausted = TRUE]
         /\ row.status = "CLAIMED" /\ row.lease < 0 /\ row.attempts >= MaxAttempts
  BY <1>0 DEF RequeueRow, Expired
<1> HIDE DEF free, failed, wait
<1>4. /\ [free EXCEPT !.wait = wait].status = "READY"
      /\ [free EXCEPT !.wait = wait].exhausted = row.exhausted
  BY <1>1 DEF Row
<1>5. /\ [failed EXCEPT !.exhausted = TRUE].status = "FAILED"
      /\ [failed EXCEPT !.exhausted = TRUE].exhausted
  BY <1>2 DEF Row
<1>6. QED
  BY <1>3, <1>4, <1>5

\* No other statement writes the verdict RECOVERY_EXHAUSTED.
LEMMA VerdictKept ==
    ASSUME NEW row \in Row(Workers), NEW w \in Workers, NEW d \in 0..Lag
    PROVE  /\ ClaimRow(row, w, d).exhausted = row.exhausted
           /\ ReleaseRow(row, RetryDelay, d).exhausted = row.exhausted
           /\ RenewRow(row, d).exhausted = row.exhausted
           /\ ResumeRow(row, d).exhausted = row.exhausted
<1>1. ClaimRow(row, w, d).exhausted = row.exhausted
  BY DEF ClaimRow, Row
<1>2. ReleaseRow(row, RetryDelay, d).exhausted = row.exhausted
  <2> DEFINE free == Unclaimed(row, "READY")
             wait == RetryDelay - d
  <2>1. free \in Row(Workers) /\ free.exhausted = row.exhausted
    BY UnclaimedFacts DEF JobStatus
  <2>2. ReleaseRow(row, RetryDelay, d) = [free EXCEPT !.wait = wait]
    BY DEF ReleaseRow
  <2> HIDE DEF free, wait
  <2>3. QED
    BY <2>1, <2>2 DEF Row
<1>3. RenewRow(row, d).exhausted = row.exhausted
  BY DEF RenewRow, Row
<1>4. ResumeRow(row, d).exhausted = row.exhausted
  BY DEF ResumeRow, Row
<1>5. QED
  BY <1>1, <1>2, <1>3, <1>4

\* A worker whose claim was requeued, claimed again or cancelled cannot settle: only
\* the holder of the newest epoch, a transactional claim or the verdict of
\* requeue_expired makes a row PAUSED, COMPLETED or FAILED (settle, claim_epoch).
THEOREM OnlyHoldersSettle == Spec => SettledByHolder
<1> DEFINE Ends(j) == /\ rows'[j].status # rows[j].status
                      /\ rows'[j].status \in {"PAUSED", "COMPLETED", "FAILED"}
           Just(j) == \/ rows'[j].exhausted
                      \/ rows'[j].epoch > rows[j].epoch
                      \/ \E w \in Workers :
                            /\ current[w] = [job |-> j, epoch |-> rows[j].epoch]
                            /\ current'[w] = NoClaim
<1>1. ASSUME TypeOK, [Next]_vars, NEW j \in Jobs, Ends(j) PROVE Just(j)
  <2>1. rows[j] \in Row(Workers) /\ rows[j].epoch \in Nat
    BY <1>1 DEF TypeOK, Row
  <2>2. ASSUME NEW d \in 0..Lag, rows'[j] = RequeueRow(rows[j], d)
        PROVE  Just(j)
    BY <1>1, <2>1, <2>2, RequeueVerdict
  <2>3. ASSUME NEW d \in 0..Lag, NEW w \in Workers,
               rows'[j] \in {ClaimRow(RequeueRow(rows[j], d), w, d),
                             SettleRow(ClaimRow(RequeueRow(rows[j], d), w, d), "COMPLETED")}
        PROVE  Just(j)
    <3> DEFINE ready == RequeueRow(rows[j], d)
               claimed == ClaimRow(ready, w, d)
    <3>1. ready \in Row(Workers) /\ ready.epoch = rows[j].epoch
      BY <2>1, RequeueRowFacts
    <3>2. claimed \in Row(Workers) /\ claimed.epoch = rows[j].epoch + 1
      BY <3>1, ClaimRowFacts
    <3>3. SettleRow(claimed, "COMPLETED").epoch = rows[j].epoch + 1
      BY <3>2, UnclaimedFacts DEF SettleRow, JobStatus
    <3> HIDE DEF claimed
    <3>4. rows'[j].epoch = rows[j].epoch + 1
      BY <2>3, <3>2, <3>3 DEF claimed
    <3>5. QED
      BY <2>1, <3>4
  <2>4. NewRow.status = "READY"
    BY DEF NewRow, NoRow
  <2>5. \A d \in 0..Lag : /\ RenewRow(rows[j], d).status = rows[j].status
                          /\ ResumeRow(rows[j], d).status = "READY"
                          /\ ReleaseRow(rows[j], RetryDelay, d).status = "READY"
    BY <2>1, OtherRowFacts
  <2>6. CancelRow(rows[j]).status = "CANCELLED" /\ AgeRow(rows[j]).status = rows[j].status
    BY <2>1, UnclaimedFacts, AgeRowFacts DEF CancelRow, JobStatus
  <2>7. QED
    BY <1>1, <2>2, <2>3, <2>4, <2>5, <2>6, RowSteps
<1>2. TypeOK /\ [Next]_vars => [\A j \in Jobs : Ends(j) => Just(j)]_vars
  BY <1>1
<1>3. QED
  BY <1>2, TypeCorrect, PTL DEF Spec, SettledByHolder

\* RECOVERY_EXHAUSTED falls on the holder of the last permitted delivery whose lease
\* ran out, and on no row at rest, for every number of deliveries and every skew of
\* the clock readings (requeue_expired, max_delivery_attempts).
THEOREM ExhaustionAfterDeliveries == Spec => ExhaustedAfterDeliveries
<1> DEFINE Verdict(j) == rows'[j].exhausted /\ ~rows[j].exhausted
           Just(j) == /\ rows[j].status = "CLAIMED"
                      /\ rows[j].lease < 0
                      /\ rows[j].attempts >= MaxAttempts
<1>1. ASSUME TypeOK, [Next]_vars, NEW j \in Jobs, Verdict(j) PROVE Just(j)
  <2>1. rows[j] \in Row(Workers) /\ ~rows[j].exhausted /\ rows'[j].exhausted
    BY <1>1 DEF TypeOK
  <2>2. ASSUME NEW d \in 0..Lag, rows'[j] = RequeueRow(rows[j], d)
        PROVE  Just(j)
    BY <2>1, <2>2, RequeueVerdict
  <2>3. ASSUME NEW d \in 0..Lag, NEW w \in Workers,
               Claimable(RequeueRow(rows[j], d), d),
               rows'[j] \in {ClaimRow(RequeueRow(rows[j], d), w, d),
                             SettleRow(ClaimRow(RequeueRow(rows[j], d), w, d), "COMPLETED")}
        PROVE  FALSE
    <3> DEFINE ready == RequeueRow(rows[j], d)
               claimed == ClaimRow(ready, w, d)
    <3>1. ready \in Row(Workers) /\ ready.status = "READY"
      BY <2>1, <2>3, RequeueRowFacts DEF Claimable
    <3>2. ready.exhausted = rows[j].exhausted
      BY <2>1, <3>1, RequeueVerdict
    <3>3. claimed \in Row(Workers) /\ claimed.exhausted = ready.exhausted
      BY <3>1, ClaimRowFacts, VerdictKept
    <3>4. SettleRow(claimed, "COMPLETED").exhausted = claimed.exhausted
      BY <3>3, UnclaimedFacts DEF SettleRow, JobStatus
    <3> HIDE DEF claimed, ready
    <3>5. QED
      BY <2>1, <2>3, <3>2, <3>3, <3>4 DEF claimed, ready
  <2>4. ~NewRow.exhausted
    BY DEF NewRow, NoRow
  <2>5. ASSUME NEW w \in Workers, NEW d \in 0..Lag
        PROVE  /\ RenewRow(rows[j], d).exhausted = rows[j].exhausted
               /\ ResumeRow(rows[j], d).exhausted = rows[j].exhausted
               /\ ReleaseRow(rows[j], RetryDelay, d).exhausted = rows[j].exhausted
    BY <2>1, VerdictKept
  <2>6. \A d \in 0..Lag : ResumeRow(rows[j], d).exhausted = rows[j].exhausted
    BY <2>1 DEF ResumeRow, Row
  <2>7. \A status \in SettleStatus : SettleRow(rows[j], status).exhausted = rows[j].exhausted
    BY <2>1, UnclaimedFacts DEF SettleRow, SettleStatus, JobStatus
  <2>8. CancelRow(rows[j]).exhausted = rows[j].exhausted /\ AgeRow(rows[j]).exhausted = rows[j].exhausted
    BY <2>1, UnclaimedFacts, AgeRowFacts DEF CancelRow, JobStatus
  <2>9. \/ Just(j) \/ rows'[j] = NewRow
        \/ rows'[j].exhausted = rows[j].exhausted
    <3> HIDE DEF Just
    <3>1. CASE \E d \in 0..Lag, w \in Workers :
                  LET claimed == ClaimRow(RequeueRow(rows[j], d), w, d)
                  IN  /\ Claimable(RequeueRow(rows[j], d), d)
                      /\ rows'[j] \in {claimed, SettleRow(claimed, "COMPLETED")}
      BY <2>3, <3>1
    <3>2. CASE \E w \in Workers :
                  /\ current[w] = [job |-> j, epoch |-> rows[j].epoch]
                  /\ current'[w] = NoClaim
                  /\ rows[j].status = "CLAIMED"
                  /\ \/ \E status \in SettleStatus : rows'[j] = SettleRow(rows[j], status)
                     \/ \E d \in 0..Lag : rows'[j] = ReleaseRow(rows[j], RetryDelay, d)
      BY <2>5, <2>7, <3>2
    <3>3. CASE \E d \in 0..Lag, w \in Workers :
                  Holds(rows[j], w, rows[j].epoch) /\ rows'[j] = RenewRow(rows[j], d)
      BY <2>5, <3>3
    <3>4. CASE \E d \in 0..Lag : rows'[j] = RequeueRow(rows[j], d)
      BY <2>2, <3>4
    <3>5. QED
      BY <1>1, <2>6, <2>8, <3>1, <3>2, <3>3, <3>4, RowSteps
  <2>10. QED
    BY <2>1, <2>4, <2>9
<1>2. TypeOK /\ [Next]_vars => [\A j \in Jobs : Verdict(j) => Just(j)]_vars
  BY <1>1
<1>3. QED
  BY <1>2, TypeCorrect, PTL DEF Spec, ExhaustedAfterDeliveries
=============================================================================
