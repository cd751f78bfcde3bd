---------------------------- MODULE PushDelivery ----------------------------
(***************************************************************************)
(* From a notification intent to the push provider: the fan-out to the       *)
(* user's push endpoints, the PUSH_DELIVERY jobs, the workers that submit     *)
(* them, and devices that register and log out meanwhile.                    *)
(*                                                                           *)
(* A delivery is a pair <<intent, endpoint>>.  The worker submits, records    *)
(* the answer in one transaction and settles the job in another.  The         *)
(* provider is external: it accepts, refuses, or the call raises, in which     *)
(* case the provider may or may not have accepted.  When an intent is created   *)
(* is in Automations.                                                          *)
(***************************************************************************)
EXTENDS PushTable

CONSTANT Workers

ASSUME PushDeliveryAssumption == Nobody \notin Workers

vars == <<eligible, created, delivery, pushJobs, pusher, sent, taken, switches>>

Final == {"ACCEPTED", "FAILED"}

NoDelivery == <<>>

Worker == [pc: {"idle", "claimed", "answered", "recorded"},
           key: Deliveries \cup {NoDelivery}, epoch: Nat, accepted: BOOLEAN]
Idle == [pc |-> "idle", key |-> NoDelivery, epoch |-> 0, accepted |-> FALSE]

TypeOK ==
    /\ eligible \subseteq Endpoints
    /\ created \subseteq Intents
    /\ delivery \in [Deliveries -> Final \cup {"NONE", "READY"}]
    /\ pushJobs \in [Deliveries -> Row(Workers)]
    /\ pusher \in [Workers -> Worker]
    /\ sent \in [Deliveries -> Nat]
    /\ taken \subseteq Deliveries
    /\ switches \in 0..MaxSwitches

Init ==
    /\ eligible = {}
    /\ created = {}
    /\ delivery = [k \in Deliveries |-> "NONE"]
    /\ pushJobs = [k \in Deliveries |-> NoRow]
    /\ pusher = [w \in Workers |-> Idle]
    /\ sent = [k \in Deliveries |-> 0]
    /\ taken = {}
    /\ switches = 0

-----------------------------------------------------------------------------
(* Devices and notifications *)

SwitchTo(E) ==
    /\ switches < MaxSwitches
    /\ switches' = switches + 1
    /\ eligible' = E
    /\ UNCHANGED <<created, delivery, pushJobs, pusher, sent, taken>>

\* upsert_push_token: registers the endpoint or makes it eligible again.
Register(e) == SwitchTo(eligible \cup {e})

\* delete_push_token and logout: invalidate_for_device.
Invalidate(e) == e \in eligible /\ SwitchTo(eligible \ {e})

\* create_reminder_notification: a delivery and a job for every endpoint that is
\* eligible now; the intent stands even when there is none.
Notify(i) ==
    /\ i \notin created
    /\ created' = created \cup {i}
    /\ delivery' = [k \in Deliveries |-> IF k \in {i} \X eligible THEN "READY" ELSE delivery[k]]
    /\ pushJobs' = [k \in Deliveries |-> IF k \in {i} \X eligible THEN NewRow ELSE pushJobs[k]]
    /\ UNCHANGED <<eligible, pusher, sent, taken, switches>>

-----------------------------------------------------------------------------
(* Push workers *)

Requeued(d) == [k \in Deliveries |-> RequeueRow(pushJobs[k], d)]

\* The claim transaction of run_once.
Claim(w, k, d) ==
    /\ pusher[w].pc = "idle"
    /\ Claimable(Requeued(d)[k], d)
    /\ pushJobs' = [Requeued(d) EXCEPT ![k] = ClaimRow(@, w, d)]
    /\ pusher' = [pusher EXCEPT ![w] = [Idle EXCEPT !.pc = "claimed", !.key = k,
                                                    !.epoch = pushJobs'[k].epoch]]
    /\ UNCHANGED <<eligible, created, delivery, sent, taken, switches>>

\* Any claim that finds nothing for itself, of this kind or of another, still
\* requeues the expired ones.
RequeueExpired(d) ==
    /\ pushJobs' = Requeued(d)
    /\ pushJobs' # pushJobs
    /\ UNCHANGED <<eligible, created, delivery, pusher, sent, taken, switches>>

\* Faulty: a refused submission is repeated at once.
AnsweredOrAgain(rec, answer) ==
    IF answer = "accepted" THEN [rec EXCEPT !.pc = "answered", !.accepted = TRUE] ELSE rec

\* An exception of the port counts as a refusal.
Answered(rec, answer) ==
    [rec EXCEPT !.pc = "answered", !.accepted = (answer = "accepted")]

\* The rows are loaded and submit_delivery is called.  The status of the delivery
\* and of the endpoint are not looked at.
Submit(w, answer, reached) ==
    LET k == pusher[w].key IN
    /\ pusher[w].pc = "claimed"
    /\ answer = "accepted" => reached
    /\ answer = "refused" => ~reached
    /\ sent' = [sent EXCEPT ![k] = @ + 1]
    /\ taken' = IF reached THEN taken \cup {k} ELSE taken
    /\ pusher' = [pusher EXCEPT ![w] = Answered(@, answer)]
    /\ UNCHANGED <<eligible, created, delivery, pushJobs, switches>>

\* Faulty: every answer counts as acceptance.
OutcomeAlways(w) == "ACCEPTED"

Outcome(w) == IF pusher[w].accepted THEN "ACCEPTED" ELSE "FAILED"

\* The answer is stored and committed, without a fence.
Record(w) ==
    /\ pusher[w].pc = "answered"
    /\ delivery' = [delivery EXCEPT ![pusher[w].key] = Outcome(w)]
    /\ pusher' = [pusher EXCEPT ![w].pc = "recorded"]
    /\ UNCHANGED <<eligible, created, pushJobs, sent, taken, switches>>

\* The job is COMPLETED whatever the answer was; without the claim, rolled back.
Settle(w, d) ==
    LET k == pusher[w].key IN
    /\ pusher[w].pc = "recorded"
    /\ pushJobs' = IF MaySettle(pushJobs[k], w, pusher[w].epoch, d)
                   THEN [pushJobs EXCEPT ![k] = SettleRow(@, "COMPLETED")] ELSE pushJobs
    /\ pusher' = [pusher EXCEPT ![w] = Idle]
    /\ UNCHANGED <<eligible, created, delivery, sent, taken, switches>>

\* The process dies or a transaction raises: the claim stays until its lease ends.
Abandon(w) ==
    /\ pusher[w].pc # "idle"
    /\ pusher' = [pusher EXCEPT ![w] = Idle]
    /\ UNCHANGED <<eligible, created, delivery, pushJobs, sent, taken, switches>>

Tick ==
    /\ pushJobs' = [k \in Deliveries |-> AgeRow(pushJobs[k])]
    /\ UNCHANGED <<eligible, created, delivery, pusher, sent, taken, switches>>

-----------------------------------------------------------------------------
Answers == {"accepted", "refused", "raised"}

ClaimBy(w) == \E k \in Deliveries, d \in 0..Lag : Claim(w, k, d)

Working(w) ==
    \/ \E answer \in Answers, reached \in BOOLEAN : Submit(w, answer, reached)
    \/ Record(w)
    \/ \E d \in 0..Lag : Settle(w, d)

Next ==
    \/ \E e \in Endpoints : Register(e) \/ Invalidate(e)
    \/ \E i \in Intents : Notify(i)
    \/ \E w \in Workers : ClaimBy(w) \/ Working(w) \/ Abandon(w)
    \/ \E d \in 0..Lag : RequeueExpired(d)
    \/ Tick

Spec == Init /\ [][Next]_vars

\* The scheduler loop drains the push jobs for ever, every call to the provider
\* returns or raises, and time passes.
Fairness ==
    /\ WF_vars(Tick)
    /\ \A d \in 0..Lag : WF_vars(RequeueExpired(d))
    /\ \A w \in Workers : WF_vars(Working(w))
    /\ \A k \in Deliveries : SF_vars(\E w \in Workers, d \in 0..Lag : Claim(w, k, d))

FairSpec == Spec /\ Fairness

-----------------------------------------------------------------------------
(* Properties *)

\* Every delivery is tried to the end: its status is final or its job gave up.
EveryPushEnds ==
    \A k \in Deliveries :
        delivery[k] = "READY" ~> delivery[k] \in Final \/ pushJobs[k].status = "FAILED"
=============================================================================
