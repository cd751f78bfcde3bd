----------------------------- MODULE PushTable -----------------------------
(***************************************************************************)
(* What is known of the push deliveries: their rows, their jobs, and what    *)
(* the provider has seen of them.  A delivery is a pair <<intent, endpoint>>. *)
(* The steps are in PushDelivery.                                            *)
(***************************************************************************)
EXTENDS JobTable

CONSTANTS
    Intents, Endpoints,
    MaxSwitches     \* bound: registrations and invalidations of endpoints

ASSUME PushTableAssumption == MaxSwitches \in Nat

Deliveries == Intents \X Endpoints

VARIABLES
    eligible,   \* endpoints that are active, enabled and not invalidated
    created,    \* notification_intents
    delivery,   \* notification_deliveries: status
    pushJobs,   \* durable_jobs of kind PUSH_DELIVERY
    pusher,     \* what each push worker is doing
    sent,       \* how often a delivery was submitted to the provider
    taken,      \* deliveries the provider has accepted at least once
    switches    \* bound counter

-----------------------------------------------------------------------------
(* Properties *)

\* ACCEPTED is never a guess: whichever worker wrote it last, the provider did
\* accept the delivery.
AcceptedIsTrue == \A k \in Deliveries : delivery[k] = "ACCEPTED" => k \in taken

\* However often workers die between submitting and settling, the provider sees a
\* delivery at most once per claim and at most max_delivery_attempts times.
SubmissionsBounded ==
    \A k \in Deliveries : sent[k] <= pushJobs[k].attempts /\ pushJobs[k].attempts <= MaxAttempts
=============================================================================
