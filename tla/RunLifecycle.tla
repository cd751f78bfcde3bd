---------------------------- MODULE RunLifecycle ----------------------------
(***************************************************************************)
(* What the runtime promises the user of a run, whatever the workers do:    *)
(* the product state machine of a run, its questions and its one reply.      *)
(* AgentRuntime implements it.                                               *)
(***************************************************************************)
EXTENDS Naturals

CONSTANT Runs

VARIABLES
    phase,      \* what GET /runs shows
    questions,  \* how many questions the run has put
    answers,    \* how many of them the user has answered
    replies     \* assistant messages of the run in its thread

lifecycleVars == <<phase, questions, answers, replies>>

Init ==
    /\ phase = [r \in Runs |-> "ABSENT"]
    /\ questions = [r \in Runs |-> 0]
    /\ answers = [r \in Runs |-> 0]
    /\ replies = [r \in Runs |-> 0]

Goes(r, from, to) == phase[r] \in from /\ phase' = [phase EXCEPT ![r] = to]

Submit(r) == Goes(r, {"ABSENT"}, "QUEUED") /\ UNCHANGED <<questions, answers, replies>>

Start(r) == Goes(r, {"QUEUED"}, "RUNNING") /\ UNCHANGED <<questions, answers, replies>>

Ask(r) ==
    /\ Goes(r, {"RUNNING"}, "WAITING")
    /\ questions' = [questions EXCEPT ![r] = @ + 1]
    /\ UNCHANGED <<answers, replies>>

\* Only the newest question is open, and it is answered once.
Answer(r) ==
    /\ questions[r] = answers[r] + 1
    /\ Goes(r, {"WAITING"}, "QUEUED")
    /\ answers' = [answers EXCEPT ![r] = @ + 1]
    /\ UNCHANGED <<questions, replies>>

Reply(r) ==
    /\ Goes(r, {"RUNNING"}, "COMPLETED")
    /\ replies' = [replies EXCEPT ![r] = @ + 1]
    /\ UNCHANGED <<questions, answers>>

Fail(r) == Goes(r, {"RUNNING"}, "FAILED") /\ UNCHANGED <<questions, answers, replies>>

Cancel(r) ==
    /\ Goes(r, {"QUEUED", "RUNNING", "WAITING"}, "CANCELLED")
    /\ UNCHANGED <<questions, answers, replies>>

Next ==
    \E r \in Runs : \/ Submit(r) \/ Start(r) \/ Ask(r) \/ Answer(r)
                    \/ Reply(r) \/ Fail(r) \/ Cancel(r)

Spec == Init /\ [][Next]_lifecycleVars

-----------------------------------------------------------------------------
\* A run has its one reply exactly when it is COMPLETED.
OneReply == \A r \in Runs : replies[r] = IF phase[r] = "COMPLETED" THEN 1 ELSE 0

\* At most one question is open, and a waiting run has one.
OneOpenQuestion ==
    \A r \in Runs : /\ questions[r] - answers[r] \in {0, 1}
                    /\ phase[r] = "WAITING" => questions[r] = answers[r] + 1
=============================================================================
