----------------------------- MODULE RunEvents ------------------------------
(***************************************************************************)
(* The events of one run on their way to the phone: the rows of run_events, *)
(* the wake-ups published after their commit, the generator behind           *)
(* GET /runs/{id}/events and the ChatViewModel that follows it.              *)
(*                                                                           *)
(* A row is its type; its sequence is its place in the log, since            *)
(* append_event draws it from a counter of the run's row and so holds that   *)
(* row's lock until the commit.  The wake-up's payload is never looked at,   *)
(* so a wake-up is a token.  No code publishes a live frame: none is here.   *)
(* When the phone connects again the generator of the lost connection, which *)
(* nobody reads any more, is forgotten.                                      *)
(***************************************************************************)
EXTENDS Naturals, SequencesExt

CONSTANTS
    PageLimit,      \* list_events' limit (200 in the code)
    MaxEvents,      \* bound on the rows of the run
    MaxBreaks       \* bound on the connections and requests that fail

ASSUME RunEventsAssumption ==
    /\ PageLimit \in Nat \ {0}
    /\ MaxEvents \in Nat \ {0}     \* run.queued comes with the run
    /\ MaxBreaks \in Nat

VARIABLES
    status,     \* agent_runs.status
    log,        \* run_events, by sequence
    owed,       \* wake-ups whose transaction is committed, not yet published
    stream,     \* the request's generator in the API process
    wire,       \* sequences yielded and not yet received
    phone,      \* the ChatViewModel
    breaks      \* failures so far

vars == <<status, log, owed, stream, wire, phone, breaks>>

runVars == <<status, log, owed>>

EventType ==
    {"run.queued", "run.started", "tool.completed", "hitl.requested",
     "run.waiting_for_user", "run.resumed", "assistant.completed",
     "run.completed", "run.failed", "run.cancelled"}

RunStatus ==
    {"QUEUED", "RUNNING", "WAITING_FOR_USER", "COMPLETED", "FAILED", "CANCELLED"}

Terminal == {"COMPLETED", "FAILED", "CANCELLED"}

\* bells are the messages in the subscription's buffer; without a subscription
\* (Redis was not reachable) there is none.
Stream ==
    [pc: {"off", "subscribe", "replay", "send", "wait", "read", "ended"},
     cursor: 0 .. MaxEvents, pending: Seq(1 .. MaxEvents),
     subscribed: BOOLEAN, bells: Nat]

\* after is the Last-Event-ID of the connection and got what it has brought;
\* status and replied are what the screen shows once the follow is over.
Phone ==
    [pc: {"new", "follow", "ask", "refresh", "idle"},
     after: 0 .. MaxEvents, got: Seq(1 .. MaxEvents),
     status: RunStatus \cup {"none"}, waiting: BOOLEAN, replied: BOOLEAN,
     error: BOOLEAN]

NoStream == [pc |-> "off", cursor |-> 0, pending |-> <<>>, subscribed |-> FALSE,
             bells |-> 0]

TypeOK ==
    /\ status \in RunStatus
    /\ log \in Seq(EventType) /\ Len(log) <= MaxEvents
    /\ owed \in Nat
    /\ stream \in Stream
    /\ wire \in Seq(1 .. MaxEvents)
    /\ phone \in Phone
    /\ breaks \in 0 .. MaxBreaks

Init ==
    /\ status = "QUEUED"
    /\ log = <<"run.queued">>
    /\ owed = 0
    /\ stream = NoStream
    /\ wire = <<>>
    /\ phone = [pc |-> "new", after |-> 0, got |-> <<>>, status |-> "none",
                waiting |-> FALSE, replied |-> FALSE, error |-> FALSE]
    /\ breaks = 0

-----------------------------------------------------------------------------
(* The run: each transaction moves the status and appends its events.        *)

Commit(types, to, wakeups) ==
    /\ Len(log) + Len(types) <= MaxEvents
    /\ status' = to
    /\ log' = log \o types
    /\ owed' = owed + wakeups
    /\ UNCHANGED <<stream, wire, phone, breaks>>

\* claim_run, of a queued run or of one whose worker's lease is over.
Start == status \in {"QUEUED", "RUNNING"} /\ Commit(<<"run.started">>, "RUNNING", 1)

\* emit_event asks only that the run exists: a worker that has lost it, or whose
\* run has ended meanwhile, still appends.
EmitEvent ==
    /\ Contains(log, "run.started")
    /\ Commit(<<"tool.completed">>, status, 1)

Wait ==
    /\ status = "RUNNING"
    /\ Commit(<<"hitl.requested", "run.waiting_for_user">>, "WAITING_FOR_USER", 1)

Complete ==
    /\ status = "RUNNING"
    /\ Commit(<<"assistant.completed", "run.completed">>, "COMPLETED", 1)

Fail == status = "RUNNING" /\ Commit(<<"run.failed">>, "FAILED", 1)

\* The user's two operations publish no wake-up.
Resume == status = "WAITING_FOR_USER" /\ Commit(<<"run.resumed">>, "QUEUED", 0)

Cancel == status \notin Terminal /\ Commit(<<"run.cancelled">>, "CANCELLED", 0)

\* The publisher's Redis may fail, or its process stop, between commit and publish.
PublishWakeup ==
    /\ owed > 0
    /\ owed' = owed - 1
    /\ stream' = [stream EXCEPT !.bells = IF stream.subscribed THEN @ + 1 ELSE @]
    /\ UNCHANGED <<status, log, wire, phone, breaks>>

LoseWakeup ==
    /\ owed > 0
    /\ owed' = owed - 1
    /\ UNCHANGED <<status, log, stream, wire, phone, breaks>>

-----------------------------------------------------------------------------
(* stream_run_events.                                                        *)

\* Faulty: without the ORDER BY the limit keeps the newest rows.
NewestPage(after) ==
    LET rest == [i \in 1 .. Len(log) - after |-> after + i]
    IN  SubSeq(rest, IF Len(rest) > PageLimit THEN Len(rest) - PageLimit + 1 ELSE 1,
               Len(rest))

\* list_events: the first rows after the cursor, by sequence.
ListEvents(after) ==
    LET n == Len(log) - after
    IN  [i \in 1 .. (IF n > PageLimit THEN PageLimit ELSE n) |-> after + i]

Subscribe ==
    /\ stream.pc = "subscribe"
    /\ \E ok \in BOOLEAN :
           stream' = [stream EXCEPT !.pc = "replay", !.subscribed = ok, !.bells = 0]
    /\ UNCHANGED <<runVars, wire, phone, breaks>>

\* The catch-up read before the response starts, and the read of every round.
Read ==
    /\ stream.pc \in {"replay", "read"}
    /\ stream' = [stream EXCEPT !.pc = "send", !.pending = ListEvents(stream.cursor)]
    /\ UNCHANGED <<runVars, wire, phone, breaks>>

Send ==
    /\ stream.pc = "send"
    /\ stream.pending # <<>>
    /\ wire' = Append(wire, Head(stream.pending))
    /\ stream' = [stream EXCEPT !.cursor = Head(stream.pending), !.pending = Tail(@)]
    /\ UNCHANGED <<runVars, phone, breaks>>

\* Faulty: the stream is not followed beyond the replay.
MayEndAnyTime == TRUE

\* The status is read after the events were: what was committed in between is
\* not sent if it ended the run.
MayEnd == status \in Terminal

CheckRun ==
    /\ stream.pc = "send"
    /\ stream.pending = <<>>
    /\ stream' = [stream EXCEPT !.pc = IF MayEnd THEN "ended" ELSE "wait"]
    /\ UNCHANGED <<runVars, wire, phone, breaks>>

WakeUp ==
    /\ stream.pc = "wait"
    /\ stream.bells > 0
    /\ stream' = [stream EXCEPT !.pc = "read", !.bells = @ - 1]
    /\ UNCHANGED <<runVars, wire, phone, breaks>>

\* Faulty: the wait ends by a message alone.
WakeUpAlone == WakeUp

\* wait returns after half a second whether or not a message has come.
Timeout ==
    /\ stream.pc = "wait"
    /\ stream' = [stream EXCEPT !.pc = "read"]
    /\ UNCHANGED <<runVars, wire, phone, breaks>>

-----------------------------------------------------------------------------
(* ChatViewModel.  respondToInterrupt asks for waitingRun, which follow never *)
(* sets (see WaitingIsShown): the answers of Resume are another client's.    *)

Connect(after) ==
    /\ phone' = [phone EXCEPT !.pc = "follow", !.after = after, !.got = <<>>,
                              !.error = FALSE]
    /\ stream' = [NoStream EXCEPT !.pc = "subscribe", !.cursor = after]
    /\ wire' = <<>>
    /\ UNCHANGED <<runVars, breaks>>

\* The row that POST /runs returns was read before its first event was appended,
\* so the phone asks for everything.
SendMessage == phone.pc = "new" /\ Connect(0)

\* The same idempotency key brings back the run as it is now, and the phone asks
\* for what comes after its last event.
Retry == phone.pc = "idle" /\ phone.error /\ Connect(Len(log))

\* onEvent looks for interrupt.required, upon which it closes the stream.
Receive ==
    /\ phone.pc = "follow"
    /\ wire # <<>>
    /\ phone' = [phone EXCEPT !.got = Append(@, Head(wire)),
                              !.pc = IF log[Head(wire)] = "interrupt.required"
                                     THEN "ask" ELSE @]
    /\ wire' = Tail(wire)
    /\ UNCHANGED <<runVars, stream, breaks>>

StreamEnds ==
    /\ phone.pc = "follow"
    /\ stream.pc = "ended"
    /\ wire = <<>>
    /\ phone' = [phone EXCEPT !.pc = "ask"]
    /\ UNCHANGED <<runVars, stream, wire, breaks>>

GetRun ==
    /\ phone.pc = "ask"
    /\ phone' = [phone EXCEPT !.pc = "refresh", !.status = status,
                              !.waiting = (status = "WAITING_USER")]
    /\ UNCHANGED <<runVars, stream, wire, breaks>>

\* listMessages; the reply is committed with the status COMPLETED.
RefreshMessages ==
    /\ phone.pc = "refresh"
    /\ phone' = [phone EXCEPT !.pc = "idle", !.replied = (status = "COMPLETED")]
    /\ UNCHANGED <<runVars, stream, wire, breaks>>

\* A request fails: what was on the wire is lost, and the screen offers a retry.
\* The generator finds the client gone, or is cancelled at its next yield.
Break ==
    /\ breaks < MaxBreaks
    /\ phone.pc \in {"follow", "ask", "refresh"}
    /\ phone' = [phone EXCEPT !.pc = "idle", !.error = TRUE]
    /\ stream' = NoStream
    /\ wire' = <<>>
    /\ breaks' = breaks + 1
    /\ UNCHANGED runVars

RunSteps ==
    \/ Start \/ EmitEvent \/ Wait \/ Complete \/ Fail \/ Resume \/ Cancel
    \/ PublishWakeup \/ LoseWakeup

StreamSteps == Subscribe \/ Read \/ Send \/ CheckRun \/ WakeUp \/ Timeout

PhoneSteps == Receive \/ StreamEnds \/ GetRun \/ RefreshMessages

Next == RunSteps \/ StreamSteps \/ PhoneSteps \/ SendMessage \/ Retry \/ Break

Spec == Init /\ [][Next]_vars

\* The API's event loop goes on with a request it serves, asyncio.timeout ends a
\* wait, and the phone handles what it receives.  Nothing is assumed of the run's
\* worker, of the user or of the wake-ups.
FairSpec == Spec /\ WF_vars(StreamSteps) /\ WF_vars(PhoneSteps)

-----------------------------------------------------------------------------
\* A connection brings the phone the events after its Last-Event-ID one after the
\* other, none missing and none twice, whatever is committed while pages are read,
\* sent and waited for (stream_run_events, list_events).
NoGapNoRepeat ==
    \A i \in 1 .. Len(phone.got) : phone.got[i] = phone.after + i

\* When a follow is over without an error the screen shows how the run ended, and
\* the reply of a completed one: the generator stops only on a terminal status, so
\* the status and the messages read afterwards are final, even when the last events
\* were not sent (stream_run_events, ChatViewModel.follow).
EndedMeansShown ==
    phone.pc = "idle" /\ ~phone.error =>
        /\ phone.status \in Terminal
        /\ phone.status = status
        /\ phone.replied <=> status = "COMPLETED"

\* Every event committed while the phone follows arrives, or the follow ends; and
\* the follow of a run that has ended does end.  Lost wake-ups delay this by a
\* timeout and never prevent it (RedisRuntimeWakeup: "PostgreSQL polling remains
\* authoritative").
EventsArrive ==
    /\ \A i \in 1 .. MaxEvents :
           i <= Len(log) /\ phone.pc = "follow" /\ phone.after < i
               ~> phone.pc # "follow" \/ Contains(phone.got, i)
    /\ status \in Terminal /\ phone.pc = "follow" ~> phone.pc # "follow"

\* A question of the run reaches the screen of the phone that follows the run
\* (HarmonyOS client design: interrupt.required, showInterruptCard).  It does not:
\* the event is named hitl.requested and the status WAITING_FOR_USER.
WaitingIsShown ==
    status = "WAITING_FOR_USER" /\ phone.pc = "follow"
        ~> status # "WAITING_FOR_USER" \/ phone.waiting \/ phone.error
=============================================================================
