-------------------------- MODULE RunEventsProofs ---------------------------
(***************************************************************************)
(* The event stream of a run proved correct for any page size, any number of *)
(* events and any number of broken connections; and, in its second part, the *)
(* processing of the files that a run reads, for any files, workers and       *)
(* deletes, attempts and crashes.                                             *)
(***************************************************************************)
EXTENDS RunEvents, FileTable, SequenceTheorems, TLAPS

File == INSTANCE FileProcessing

-----------------------------------------------------------------------------
(* The inductive invariant *)

\* What the phone has, what is on the wire and what the generator is about to send
\* are consecutive parts of the log, and the cursor is where the last one begins.
InTransit ==
    /\ \A i \in 1 .. Len(phone.got) : phone.got[i] = phone.after + i
    /\ stream.pc = "off" => wire = <<>>
    /\ phone.pc = "follow" => stream.pc # "off"
    /\ stream.pc # "off" =>
         /\ stream.cursor = phone.after + Len(phone.got) + Len(wire)
         /\ \A i \in 1 .. Len(wire) : wire[i] = phone.after + Len(phone.got) + i
         /\ \A i \in 1 .. Len(stream.pending) : stream.pending[i] = stream.cursor + i
         /\ stream.cursor + Len(stream.pending) <= Len(log)

\* A generator that has ended has seen the run's end, and so has the phone from
\* there on.
SeenTheEnd ==
    /\ stream.pc = "ended" => status \in Terminal
    /\ phone.pc \in {"ask", "refresh"} => status \in Terminal
    /\ phone.pc = "refresh" => phone.status = status
    /\ EndedMeansShown

EventsInv == TypeOK /\ InTransit /\ SeenTheEnd

-----------------------------------------------------------------------------
(* Initial state *)

LEMMA EventsInit == Init => EventsInv
<1> SUFFICES ASSUME Init PROVE EventsInv
  OBVIOUS
<1>1. TypeOK
  BY RunEventsAssumption
     DEF Init, TypeOK, RunStatus, EventType, Stream, NoStream, Phone
<1>2. InTransit /\ SeenTheEnd
  BY DEF Init, InTransit, SeenTheEnd, NoStream, EndedMeansShown
<1>3. QED
  BY <1>1, <1>2 DEF EventsInv

-----------------------------------------------------------------------------
(* The run *)

\* A transaction of the run adds to the log and never leaves a terminal status.
LEMMA CommitInv ==
    ASSUME EventsInv, NEW types \in Seq(EventType), NEW to \in RunStatus, NEW wakeups \in Nat,
           Commit(types, to, wakeups), status \in Terminal => to = status
    PROVE  EventsInv'
<1>1. /\ log' \in Seq(EventType) /\ Len(log') = Len(log) + Len(types)
      /\ Len(log) \in Nat /\ Len(types) \in Nat
  BY DEF EventsInv, TypeOK, Commit
<1>2. TypeOK'
  BY <1>1 DEF EventsInv, TypeOK, Commit
<1>3. InTransit'
  <2>1. stream.pc # "off" => stream.cursor + Len(stream.pending) <= Len(log')
    <3>1. stream.cursor \in Nat /\ Len(stream.pending) \in Nat
      BY DEF EventsInv, TypeOK, Stream
    <3>2. QED
      BY <1>1, <3>1 DEF EventsInv, InTransit
  <2>2. QED
    BY <2>1 DEF EventsInv, InTransit, Commit
<1>4. SeenTheEnd'
  BY DEF EventsInv, SeenTheEnd, EndedMeansShown, Commit
<1>5. QED
  BY <1>2, <1>3, <1>4 DEF EventsInv

LEMMA RunStepsInv ==
    ASSUME EventsInv, RunSteps
    PROVE  EventsInv'
<1>0. status \in RunStatus
  BY DEF EventsInv, TypeOK
<1>1. CASE Start
  <2>1. <<"run.started">> \in Seq(EventType) /\ "RUNNING" \in RunStatus
    BY DEF EventType, RunStatus
  <2>2. QED
    BY <1>1, <2>1, CommitInv DEF Start, Terminal
<1>2. CASE EmitEvent
  <2>1. <<"tool.completed">> \in Seq(EventType)
    BY DEF EventType
  <2>2. QED
    BY <1>0, <1>2, <2>1, CommitInv DEF EmitEvent
<1>3. CASE Wait
  <2>1. <<"hitl.requested", "run.waiting_for_user">> \in Seq(EventType) /\ "WAITING_FOR_USER" \in RunStatus
    BY DEF EventType, RunStatus
  <2>2. QED
    BY <1>3, <2>1, CommitInv DEF Wait, Terminal
<1>4. CASE Complete
  <2>1. <<"assistant.completed", "run.completed">> \in Seq(EventType) /\ "COMPLETED" \in RunStatus
    BY DEF EventType, RunStatus
  <2>2. QED
    BY <1>4, <2>1, CommitInv DEF Complete, Terminal
<1>5. CASE Fail
  <2>1. <<"run.failed">> \in Seq(EventType) /\ "FAILED" \in RunStatus
    BY DEF EventType, RunStatus
  <2>2. QED
    BY <1>5, <2>1, CommitInv DEF Fail, Terminal
<1>6. CASE Resume
  <2>1. <<"run.resumed">> \in Seq(EventType) /\ "QUEUED" \in RunStatus
    BY DEF EventType, RunStatus
  <2>2. QED
    BY <1>6, <2>1, CommitInv DEF Resume, Terminal
<1>7. CASE Cancel
  <2>1. <<"run.cancelled">> \in Seq(EventType) /\ "CANCELLED" \in RunStatus
    BY DEF EventType, RunStatus
  <2>2. QED
    BY <1>7, <2>1, CommitInv DEF Cancel
<1>8. CASE PublishWakeup
  <2>1. /\ stream' \in Stream /\ stream'.pc = stream.pc /\ stream'.cursor = stream.cursor
        /\ stream'.pending = stream.pending
    BY <1>8 DEF PublishWakeup, EventsInv, TypeOK, Stream
  <2>2. owed' \in Nat
    BY <1>8 DEF PublishWakeup, EventsInv, TypeOK
  <2>3. UNCHANGED <<status, log, wire, phone, breaks>>
    BY <1>8 DEF PublishWakeup
  <2>4. QED
    BY <2>1, <2>2, <2>3 DEF EventsInv, TypeOK, InTransit, SeenTheEnd, EndedMeansShown
<1>9. CASE LoseWakeup
  <2>1. owed' \in Nat
    BY <1>9 DEF LoseWakeup, EventsInv, TypeOK
  <2>2. QED
    BY <1>9, <2>1 DEF LoseWakeup, EventsInv, TypeOK, InTransit, SeenTheEnd, EndedMeansShown
<1>10. QED
  BY <1>1, <1>2, <1>3, <1>4, <1>5, <1>6, <1>7, <1>8, <1>9 DEF RunSteps

-----------------------------------------------------------------------------
(* The generator *)

\* list_events returns what follows the cursor, and no more than there is.
LEMMA ListEventsPage ==
    ASSUME NEW after \in Nat, after <= Len(log), Len(log) \in Nat, Len(log) <= MaxEvents
    PROVE  /\ ListEvents(after) \in Seq(1 .. MaxEvents)
           /\ \A i \in 1 .. Len(ListEvents(after)) : ListEvents(after)[i] = after + i
           /\ after + Len(ListEvents(after)) <= Len(log)
<1> DEFINE n == Len(log) - after
           m == IF n > PageLimit THEN PageLimit ELSE n
           page == [i \in 1 .. m |-> after + i]
<1>1. ListEvents(after) = page
  BY DEF ListEvents
<1>2. m \in Nat /\ after + m <= Len(log) /\ MaxEvents \in Nat
  BY RunEventsAssumption
<1> HIDE DEF m
<1>3. \A i \in 1 .. m : after + i \in 1 .. MaxEvents
  BY <1>2
<1>4. page \in Seq(1 .. MaxEvents) /\ Len(page) = m
  BY <1>2, <1>3
<1>5. \A i \in 1 .. m : page[i] = after + i
  OBVIOUS
<1> HIDE DEF page
<1>6. QED
  BY <1>1, <1>2, <1>4, <1>5

\* What taking the first element off a sequence leaves.
LEMMA TakeFirst ==
    ASSUME NEW S, NEW s \in Seq(S), s # <<>>
    PROVE  /\ Head(s) \in S /\ Head(s) = s[1]
           /\ Tail(s) \in Seq(S) /\ Len(Tail(s)) = Len(s) - 1
           /\ \A i \in 1 .. Len(Tail(s)) : Tail(s)[i] = s[i + 1]
           /\ Len(s) \in Nat /\ Len(s) > 0
<1>1. Len(s) \in Nat /\ Len(s) > 0
  BY EmptySeq
<1>2. Head(s) = s[1]
  OBVIOUS
<1>3. QED
  BY <1>1, <1>2, HeadTailProperties

LEMMA StreamStepsInv ==
    ASSUME EventsInv, StreamSteps
    PROVE  EventsInv'
<1>0. /\ TypeOK /\ InTransit /\ SeenTheEnd
      /\ stream \in Stream /\ Len(log) \in Nat /\ stream.cursor \in Nat
      /\ Len(wire) \in Nat /\ Len(stream.pending) \in Nat
      /\ phone.after \in Nat /\ Len(phone.got) \in Nat
  BY DEF EventsInv, TypeOK, Stream, Phone
\* Most steps change neither what is sent nor the place it is sent from.
<1>1. ASSUME UNCHANGED <<runVars, wire, phone, breaks>>, stream' \in Stream,
             stream.pc # "off", stream'.pc # "off",
             stream'.cursor = stream.cursor, stream'.pending = stream.pending,
             stream'.pc = "ended" => status \in Terminal
      PROVE  EventsInv'
  <2>1. TypeOK'
    BY <1>0, <1>1 DEF TypeOK, runVars
  <2>2. InTransit'
    BY <1>0, <1>1 DEF InTransit, runVars
  <2>3. SeenTheEnd'
    BY <1>0, <1>1 DEF SeenTheEnd, EndedMeansShown, runVars
  <2>4. QED
    BY <2>1, <2>2, <2>3 DEF EventsInv
<1>2. CASE Subscribe
  <2>1. UNCHANGED <<runVars, wire, phone, breaks>>
    BY <1>2 DEF Subscribe
  <2>2. PICK ok \in BOOLEAN :
            stream' = [stream EXCEPT !.pc = "replay", !.subscribed = ok, !.bells = 0]
    BY <1>2 DEF Subscribe
  <2>3. /\ stream' \in Stream /\ stream'.pc = "replay" /\ stream'.cursor = stream.cursor
        /\ stream'.pending = stream.pending /\ stream.pc = "subscribe"
    BY <1>0, <1>2, <2>2 DEF Stream, Subscribe
  <2>4. QED
    BY <1>1, <2>1, <2>3
<1>3. CASE Read
  <2> DEFINE page == ListEvents(stream.cursor)
  <2>0. stream.pc \in {"replay", "read"} /\ UNCHANGED <<runVars, wire, phone, breaks>>
    BY <1>3 DEF Read
  <2>1. stream.cursor <= Len(log) /\ Len(log) <= MaxEvents
    BY <1>0, <2>0 DEF InTransit, TypeOK
  <2>2. /\ page \in Seq(1 .. MaxEvents)
        /\ \A i \in 1 .. Len(page) : page[i] = stream.cursor + i
        /\ stream.cursor + Len(page) <= Len(log)
    BY <1>0, <2>1, ListEventsPage
  <2>3. stream' = [stream EXCEPT !.pc = "send", !.pending = page]
    BY <1>3 DEF Read
  <2> HIDE DEF page
  <2>4. /\ stream' \in Stream /\ stream'.pc = "send" /\ stream'.cursor = stream.cursor
        /\ stream'.pending = page
    BY <1>0, <2>2, <2>3 DEF Stream
  <2>5. TypeOK'
    BY <1>0, <2>0, <2>4 DEF TypeOK, runVars
  <2>6. InTransit'
    BY <1>0, <2>0, <2>2, <2>4 DEF InTransit, runVars
  <2>7. SeenTheEnd'
    BY <1>0, <2>0, <2>4 DEF SeenTheEnd, EndedMeansShown, runVars
  <2>8. QED
    BY <2>5, <2>6, <2>7 DEF EventsInv
<1>4. CASE Send
  <2> DEFINE h == Head(stream.pending)
             t == Tail(stream.pending)
             w == Append(wire, h)
  <2>0. /\ stream.pc = "send" /\ stream.pending # <<>>
        /\ wire' = w
        /\ stream' = [stream EXCEPT !.cursor = h, !.pending = t]
        /\ UNCHANGED <<runVars, phone, breaks>>
    BY <1>4 DEF Send
  <2>1. stream.pending \in Seq(1 .. MaxEvents) /\ wire \in Seq(1 .. MaxEvents)
    BY <1>0 DEF TypeOK, Stream
  <2>2. /\ h \in 1 .. MaxEvents /\ h = stream.pending[1]
        /\ t \in Seq(1 .. MaxEvents) /\ Len(t) = Len(stream.pending) - 1
        /\ \A i \in 1 .. Len(t) : t[i] = stream.pending[i + 1]
        /\ Len(stream.pending) > 0
    BY <2>0, <2>1, TakeFirst
  <2>3. /\ w \in Seq(1 .. MaxEvents) /\ Len(w) = Len(wire) + 1
        /\ w[Len(wire) + 1] = h
        /\ \A i \in 1 .. Len(wire) : w[i] = wire[i]
    BY <2>1, <2>2, AppendProperties
  <2> HIDE DEF h, t, w
  <2>4. /\ stream.cursor = phone.after + Len(phone.got) + Len(wire)
        /\ \A i \in 1 .. Len(wire) : wire[i] = phone.after + Len(phone.got) + i
        /\ \A i \in 1 .. Len(stream.pending) : stream.pending[i] = stream.cursor + i
        /\ stream.cursor + Len(stream.pending) <= Len(log)
    BY <1>0, <2>0 DEF InTransit
  <2>5. h = stream.cursor + 1
    BY <1>0, <2>2, <2>4
  <2>12. /\ stream.cursor = phone.after + Len(phone.got) + Len(wire)
         /\ Len(w) = Len(wire) + 1 /\ Len(wire) \in Nat /\ stream.cursor \in Nat
         /\ phone.after \in Nat /\ Len(phone.got) \in Nat
    BY <1>0, <2>3, <2>4
  <2>6. /\ stream' \in Stream /\ stream'.pc = "send" /\ stream'.cursor = h
        /\ stream'.pending = t
    <3>1. h \in 0 .. MaxEvents
      BY <2>2, RunEventsAssumption
    <3>2. QED
      BY <1>0, <2>0, <2>2, <3>1 DEF Stream
  <2>7. TypeOK'
    BY <1>0, <2>0, <2>3, <2>6 DEF TypeOK, runVars
  <2>8. /\ h = phone.after + Len(phone.got) + Len(w)
        /\ \A i \in 1 .. Len(w) : w[i] = phone.after + Len(phone.got) + i
    <3>1. ASSUME NEW i \in 1 .. Len(w) PROVE w[i] = phone.after + Len(phone.got) + i
      <4>1. CASE i = Len(wire) + 1
        <5>1. w[i] = h
          BY <2>3, <4>1
        <5>2. h = phone.after + Len(phone.got) + (Len(wire) + 1)
          BY <2>5, <2>12
        <5>3. QED
          BY <4>1, <5>1, <5>2
      <4>2. CASE i \in 1 .. Len(wire)
        BY <2>3, <2>4, <4>2
      <4>3. QED
        BY <1>0, <2>3, <4>1, <4>2
    <3>2. h = phone.after + Len(phone.got) + Len(w)
      BY <2>5, <2>12
    <3>3. QED
      BY <3>1, <3>2
  <2>9. /\ \A i \in 1 .. Len(t) : t[i] = h + i
        /\ h + Len(t) <= Len(log)
    <3>1. ASSUME NEW i \in 1 .. Len(t) PROVE t[i] = h + i
      <4>1. i + 1 \in 1 .. Len(stream.pending) /\ i \in Int
        BY <1>0, <2>2
      <4>2. t[i] = stream.cursor + (i + 1)
        BY <2>2, <2>4, <4>1
      <4>3. stream.cursor \in Nat
        BY <1>0
      <4>4. QED
        BY <2>5, <4>1, <4>2, <4>3
    <3>2. /\ stream.cursor \in Nat /\ Len(stream.pending) \in Nat /\ Len(log) \in Nat
          /\ Len(t) \in Nat
      BY <1>0, <2>2
    <3>3. h + Len(t) <= Len(log)
      BY <2>2, <2>4, <2>5, <3>2
    <3>4. QED
      BY <3>1, <3>3
  <2>10. InTransit'
    BY <1>0, <2>0, <2>6, <2>8, <2>9 DEF InTransit, runVars
  <2>11. SeenTheEnd'
    BY <1>0, <2>0, <2>6 DEF SeenTheEnd, EndedMeansShown, runVars
  <2>13. QED
    BY <2>7, <2>10, <2>11 DEF EventsInv
<1>5. CASE CheckRun
  <2>1. UNCHANGED <<runVars, wire, phone, breaks>> /\ stream.pc = "send"
    BY <1>5 DEF CheckRun
  <2>2. /\ stream' \in Stream /\ stream'.pc \in {"ended", "wait"}
        /\ stream'.pc = "ended" => status \in Terminal
        /\ stream'.cursor = stream.cursor /\ stream'.pending = stream.pending
    BY <1>0, <1>5 DEF Stream, CheckRun, MayEnd
  <2>3. QED
    BY <1>1, <2>1, <2>2
<1>6. CASE WakeUp
  <2>1. UNCHANGED <<runVars, wire, phone, breaks>> /\ stream.pc = "wait"
    BY <1>6 DEF WakeUp
  <2>2. stream.bells \in Nat /\ stream.bells > 0
    BY <1>0, <1>6 DEF WakeUp, Stream
  <2>3. stream.bells - 1 \in Nat
    BY <2>2
  <2>4. stream' = [stream EXCEPT !.pc = "read", !.bells = stream.bells - 1]
    BY <1>6 DEF WakeUp
  <2>5. /\ stream' \in Stream /\ stream'.pc = "read"
        /\ stream'.cursor = stream.cursor /\ stream'.pending = stream.pending
    BY <1>0, <2>3, <2>4 DEF Stream
  <2>6. QED
    BY <1>1, <2>1, <2>5
<1>7. CASE Timeout
  <2>1. UNCHANGED <<runVars, wire, phone, breaks>> /\ stream.pc = "wait"
    BY <1>7 DEF Timeout
  <2>2. /\ stream' \in Stream /\ stream'.pc = "read"
        /\ stream'.cursor = stream.cursor /\ stream'.pending = stream.pending
    BY <1>0, <1>7 DEF Stream, Timeout
  <2>3. QED
    BY <1>1, <2>1, <2>2
<1>8. QED
  BY <1>2, <1>3, <1>4, <1>5, <1>6, <1>7 DEF StreamSteps

-----------------------------------------------------------------------------
(* The phone *)

LEMMA PhoneStepsInv ==
    ASSUME EventsInv, PhoneSteps
    PROVE  EventsInv'
<1>0. /\ TypeOK /\ InTransit /\ SeenTheEnd /\ status \in RunStatus
      /\ phone \in Phone /\ Len(log) \in Nat /\ stream.cursor \in Nat
      /\ Len(wire) \in Nat /\ Len(stream.pending) \in Nat
      /\ phone.after \in Nat /\ Len(phone.got) \in Nat
      /\ wire \in Seq(1 .. MaxEvents) /\ phone.got \in Seq(1 .. MaxEvents)
  BY DEF EventsInv, TypeOK, Stream, Phone
<1>1. CASE Receive
  <2> DEFINE h == Head(wire)
             t == Tail(wire)
             g == Append(phone.got, h)
  <2>0. /\ phone.pc = "follow" /\ wire # <<>> /\ wire' = t
        /\ UNCHANGED <<runVars, stream, breaks>>
    BY <1>1 DEF Receive
  <2>1. /\ h \in 1 .. MaxEvents /\ h = wire[1]
        /\ t \in Seq(1 .. MaxEvents) /\ Len(t) = Len(wire) - 1
        /\ \A i \in 1 .. Len(t) : t[i] = wire[i + 1]
        /\ Len(wire) > 0
    BY <1>0, <2>0, TakeFirst
  <2>2. /\ g \in Seq(1 .. MaxEvents) /\ Len(g) = Len(phone.got) + 1
        /\ g[Len(phone.got) + 1] = h
        /\ \A i \in 1 .. Len(phone.got) : g[i] = phone.got[i]
    BY <1>0, <2>1, AppendProperties
  <2>3. /\ stream.pc # "off" /\ h = phone.after + Len(phone.got) + 1
        /\ h <= Len(log)
    BY <1>0, <2>0, <2>1 DEF InTransit
  <2>4. log[h] \in EventType
    BY <1>0, <2>1, <2>3 DEF TypeOK
  <2>5. phone' = [phone EXCEPT !.got = g]
    BY <1>0, <1>1, <2>4 DEF Receive, EventType, Phone
  <2> HIDE DEF h, t, g
  <2>6. /\ phone' \in Phone /\ phone'.got = g /\ phone'.pc = "follow"
        /\ phone'.after = phone.after
    BY <1>0, <2>0, <2>2, <2>5 DEF Phone
  <2>7. TypeOK'
    BY <1>0, <2>0, <2>1, <2>6 DEF TypeOK, runVars
  <2>8. \A i \in 1 .. Len(g) : g[i] = phone.after + i
    <3>1. \A i \in 1 .. Len(phone.got) : phone.got[i] = phone.after + i
      BY <1>0 DEF InTransit
    <3>2. ASSUME NEW i \in 1 .. Len(g) PROVE g[i] = phone.after + i
      <4>1. CASE i = Len(phone.got) + 1
        <5>1. phone.after \in Nat /\ Len(phone.got) \in Nat
          BY <1>0
        <5>2. g[i] = h
          BY <2>2, <4>1
        <5>3. h = phone.after + (Len(phone.got) + 1)
          BY <2>3, <5>1
        <5>4. QED
          BY <4>1, <5>2, <5>3
      <4>2. CASE i \in 1 .. Len(phone.got)
        BY <2>2, <3>1, <4>2
      <4>3. QED
        BY <1>0, <2>2, <4>1, <4>2
    <3>3. QED
      BY <3>2
  <2>9. /\ stream.cursor = phone.after + Len(g) + Len(t)
        /\ \A i \in 1 .. Len(t) : t[i] = phone.after + Len(g) + i
    <3>1. /\ stream.cursor = phone.after + Len(phone.got) + Len(wire)
          /\ \A i \in 1 .. Len(wire) : wire[i] = phone.after + Len(phone.got) + i
      BY <1>0, <2>3 DEF InTransit
    <3>2. ASSUME NEW i \in 1 .. Len(t) PROVE t[i] = phone.after + Len(g) + i
      <4>1. i + 1 \in 1 .. Len(wire) /\ i \in Int
        BY <1>0, <2>1
      <4>2. t[i] = phone.after + Len(phone.got) + (i + 1)
        BY <2>1, <3>1, <4>1
      <4>3. phone.after \in Nat /\ Len(phone.got) \in Nat /\ Len(g) = Len(phone.got) + 1
        BY <1>0, <2>2
      <4>4. phone.after + Len(phone.got) + (i + 1) = phone.after + Len(g) + i
        BY <4>1, <4>3
      <4>5. QED
        BY <4>2, <4>4
    <3>3. /\ phone.after \in Nat /\ Len(phone.got) \in Nat /\ Len(wire) \in Nat
          /\ Len(g) = Len(phone.got) + 1 /\ Len(t) = Len(wire) - 1
      BY <1>0, <2>1, <2>2
    <3>4. phone.after + Len(phone.got) + Len(wire) = phone.after + Len(g) + Len(t)
      BY <3>3
    <3>5. QED
      BY <3>1, <3>2, <3>4
  <2>10. InTransit'
    BY <1>0, <2>0, <2>3, <2>6, <2>8, <2>9 DEF InTransit, runVars
  <2>11. SeenTheEnd'
    BY <1>0, <2>0, <2>6 DEF SeenTheEnd, EndedMeansShown, runVars
  <2>12. QED
    BY <2>7, <2>10, <2>11 DEF EventsInv
\* The others leave what has come, and what is coming, alone.
<1>2. ASSUME UNCHANGED <<runVars, stream, wire, breaks>>, phone' \in Phone,
             phone'.after = phone.after, phone'.got = phone.got, phone'.pc # "follow",
             SeenTheEnd'
      PROVE  EventsInv'
  <2>1. TypeOK'
    BY <1>0, <1>2 DEF TypeOK, runVars
  <2>2. InTransit'
    BY <1>0, <1>2 DEF InTransit, runVars
  <2>3. QED
    BY <1>2, <2>1, <2>2 DEF EventsInv
<1>3. CASE StreamEnds
  <2>1. /\ UNCHANGED <<runVars, stream, wire, breaks>> /\ stream.pc = "ended"
        /\ phone' \in Phone /\ phone'.pc = "ask"
        /\ phone'.after = phone.after /\ phone'.got = phone.got
    BY <1>0, <1>3 DEF StreamEnds, Phone
  <2>2. SeenTheEnd'
    BY <1>0, <2>1 DEF SeenTheEnd, EndedMeansShown, runVars
  <2>3. QED
    BY <1>2, <2>1, <2>2
<1>4. CASE GetRun
  <2>1. /\ UNCHANGED <<runVars, stream, wire, breaks>> /\ phone.pc = "ask"
        /\ phone' \in Phone /\ phone'.pc = "refresh" /\ phone'.status = status
        /\ phone'.after = phone.after /\ phone'.got = phone.got
    BY <1>0, <1>4 DEF GetRun, Phone
  <2>2. SeenTheEnd'
    BY <1>0, <2>1 DEF SeenTheEnd, EndedMeansShown, runVars
  <2>3. QED
    BY <1>2, <2>1, <2>2
<1>5. CASE RefreshMessages
  <2>1. /\ UNCHANGED <<runVars, stream, wire, breaks>> /\ phone.pc = "refresh"
        /\ phone' \in Phone /\ phone'.pc = "idle" /\ phone'.status = phone.status
        /\ phone'.after = phone.after /\ phone'.got = phone.got
        /\ phone'.replied <=> status = "COMPLETED"
    BY <1>0, <1>5 DEF RefreshMessages, Phone
  <2>2. SeenTheEnd'
    BY <1>0, <2>1 DEF SeenTheEnd, EndedMeansShown, runVars
  <2>3. QED
    BY <1>2, <2>1, <2>2
<1>6. QED
  BY <1>1, <1>3, <1>4, <1>5 DEF PhoneSteps

LEMMA ConnectInv ==
    ASSUME EventsInv, NEW after \in Nat, after <= Len(log), Connect(after)
    PROVE  EventsInv'
<1>0. /\ TypeOK /\ InTransit /\ SeenTheEnd /\ phone \in Phone
      /\ Len(log) \in Nat /\ Len(log) <= MaxEvents /\ MaxEvents \in Nat
  BY RunEventsAssumption DEF EventsInv, TypeOK
<1>1. UNCHANGED <<runVars, breaks>> /\ wire' = <<>>
  BY DEF Connect
<1>2. after \in 0 .. MaxEvents /\ <<>> \in Seq(1 .. MaxEvents) /\ Len(<<>>) = 0
  BY <1>0, EmptySeq
<1>3. /\ phone' \in Phone /\ phone'.pc = "follow" /\ phone'.after = after
      /\ phone'.got = <<>>
  <2> DEFINE nil == <<>>
  <2>1. phone' = [phone EXCEPT !.pc = "follow", !.after = after, !.got = nil, !.error = FALSE]
    BY DEF Connect
  <2>2. nil \in Seq(1 .. MaxEvents)
    BY <1>2
  <2> HIDE DEF nil
  <2>3. /\ phone' \in Phone /\ phone'.pc = "follow" /\ phone'.after = after
        /\ phone'.got = nil
    BY <1>0, <1>2, <2>1, <2>2 DEF Phone
  <2>4. QED
    BY <2>3 DEF nil
<1>4. /\ stream' \in Stream /\ stream'.pc = "subscribe" /\ stream'.cursor = after
      /\ stream'.pending = <<>>
  BY <1>0, <1>2 DEF Connect, NoStream, Stream
<1>5. TypeOK'
  BY <1>0, <1>1, <1>2, <1>3, <1>4 DEF TypeOK, runVars
<1>6. InTransit'
  BY <1>0, <1>1, <1>2, <1>3, <1>4 DEF InTransit, runVars
<1>7. SeenTheEnd'
  BY <1>0, <1>1, <1>3, <1>4 DEF SeenTheEnd, EndedMeansShown, runVars
<1>8. QED
  BY <1>5, <1>6, <1>7 DEF EventsInv

LEMMA BreakInv ==
    ASSUME EventsInv, Break
    PROVE  EventsInv'
<1>0. /\ TypeOK /\ InTransit /\ SeenTheEnd /\ phone \in Phone /\ breaks \in 0 .. MaxBreaks
      /\ MaxBreaks \in Nat /\ MaxEvents \in Nat
  BY RunEventsAssumption DEF EventsInv, TypeOK
<1>1. UNCHANGED runVars /\ wire' = <<>> /\ stream' = NoStream /\ breaks' \in 0 .. MaxBreaks
  BY <1>0 DEF Break
<1>2. /\ phone' \in Phone /\ phone'.pc = "idle" /\ phone'.error
      /\ phone'.after = phone.after /\ phone'.got = phone.got
  BY <1>0 DEF Break, Phone
<1>3. NoStream \in Stream /\ NoStream.pc = "off"
  BY <1>0 DEF NoStream, Stream
<1>4. TypeOK'
  BY <1>0, <1>1, <1>2, <1>3 DEF TypeOK, runVars
<1>5. InTransit'
  BY <1>0, <1>1, <1>2, <1>3 DEF InTransit
<1>6. SeenTheEnd'
  BY <1>0, <1>1, <1>2, <1>3 DEF SeenTheEnd, EndedMeansShown
<1>7. QED
  BY <1>4, <1>5, <1>6 DEF EventsInv

-----------------------------------------------------------------------------
(* The theorems *)

LEMMA EventsNext == EventsInv /\ [Next]_vars => EventsInv'
<1> SUFFICES ASSUME EventsInv, [Next]_vars PROVE EventsInv'
  OBVIOUS
<1>0. Len(log) \in Nat
  BY DEF EventsInv, TypeOK
<1>1. CASE SendMessage
  BY <1>0, <1>1, ConnectInv DEF SendMessage
<1>2. CASE Retry
  BY <1>0, <1>2, ConnectInv DEF Retry
<1>3. CASE UNCHANGED vars
  BY <1>3 DEF EventsInv, TypeOK, InTransit, SeenTheEnd, EndedMeansShown, vars
<1>4. QED
  BY <1>1, <1>2, <1>3, RunStepsInv, StreamStepsInv, PhoneStepsInv, BreakInv DEF Next

\* The log, the wire, the generator and the phone fit together in every reachable
\* state (stream_run_events, ChatViewModel.follow).
LEMMA EventsInvariant == Spec => []EventsInv
<1>1. QED
  BY EventsInit, EventsNext, PTL DEF Spec

\* For every page size, every length of the log and every number of lost connections
\* the run's rows, the generator of GET /runs/{id}/events and the ChatViewModel stay
\* within their types; cursors and Last-Event-IDs never point past the log's bound.
THEOREM RunEventsTypeCorrect == Spec => []TypeOK
<1>1. EventsInv => TypeOK
  BY DEF EventsInv
<1>2. QED
  BY <1>1, EventsInvariant, PTL

\* Whatever stream_run_events interleaves with commits, wake-ups that are lost and
\* connections that break, a connection brings the events after its Last-Event-ID
\* without a gap and without a repetition.
THEOREM ConnectionsBringAll == Spec => []NoGapNoRepeat
<1>1. EventsInv => NoGapNoRepeat
  BY DEF EventsInv, InTransit, NoGapNoRepeat
<1>2. QED
  BY <1>1, EventsInvariant, PTL

\* A follow that ends without an error leaves the run's final status, and the reply
\* of a completed one, on the screen (ChatViewModel.follow), although the generator
\* reads the status after the events.
THEOREM EndsAreShown == Spec => []EndedMeansShown
<1>1. EventsInv => EndedMeansShown
  BY DEF EventsInv, SeenTheEnd
<1>2. QED
  BY <1>1, EventsInvariant, PTL

-----------------------------------------------------------------------------
(* The files whose contents the runs read: FileProcessing, for any files,     *)
(* workers, deletes, attempts and crashes.  A result is published by the       *)
(* worker that claimed the source last, and a processed file can be read.      *)

\* A source's row, its mirror, the upload under way and the purge job tell one story:
\* rows come with the end of the upload, a purge follows a deletion, and the chunks, the
\* text and the segments come with READY.
StoryOK(row, mirror, key, job) ==
    /\ key # None => row = File!NoSource
    /\ job # "NONE" => row.deleted
    /\ ~row.deleted /\ row.status # "READY" => row.chunks = 0 /\ ~row.embedded
    /\ ~row.deleted /\ row.status = "READY" =>
          row.text /\ row.chunks = 1 /\ mirror.active = 1
          /\ mirror.segments = File!Segments(row.embedded)

\* A worker that still owns the source it works on made the source's last attempt.
ClaimOK(w, rec, sources) ==
    rec.pc # "idle" =>
        /\ rec.file \in Files
        /\ sources[rec.file].status = "PENDING" /\ sources[rec.file].owner = w =>
              rec.attempt = sources[rec.file].attempts

\* A delete has loaded a row that exists.
LoadedOK(rec, sources) == rec.file # None => sources[rec.file].status # "NONE"

FileInv ==
    /\ File!TypeOK
    /\ \A f \in Files : StoryOK(source[f], file[f], uploading[f], purge[f])
    /\ \A w \in Workers : ClaimOK(w, at[w], source)
    /\ \A x \in Deleters : LoadedOK(deleting[x], source)

\* The tables of FileProcessing.
LEMMA FileTypes ==
    ASSUME FileInv
    PROVE  /\ source \in [Files -> File!SourceRow] /\ file \in [Files -> File!FileRow]
           /\ purge \in [Files -> {"NONE", "READY", "COMPLETED"}]
           /\ uploading \in [Files -> Keys \cup {None}]
           /\ at \in [Workers -> File!Worker] /\ deleting \in [Deleters -> File!Delete]
           /\ File!None = None
  BY DEF FileInv, File!TypeOK, File!None, None

\* What a step does to the source f: its row,
SourceMoves(f, row) ==
    /\ row \in File!SourceRow
    /\ source' = [source EXCEPT ![f] = row]
    /\ source[f].status # "NONE" => row.status # "NONE"

\* its mirror, purge job and upload,
MirrorsMove(f) ==
    /\ file' \in [Files -> File!FileRow]
    /\ purge' \in [Files -> {"NONE", "READY", "COMPLETED"}]
    /\ uploading' \in [Files -> Keys \cup {None}]
    /\ \A h \in Files : h # f => /\ file'[h] = file[h] /\ purge'[h] = purge[h]
                                 /\ uploading'[h] = uploading[h]

\* the workers, of which none is given a source by a change of the row alone,
RowIsCalm(f, row) ==
    row.status = "PENDING" => /\ source[f].status = "PENDING"
                              /\ row.owner \in {source[f].owner, None}
                              /\ row.attempts = source[f].attempts

WorkersMove(f, row) ==
    /\ at' \in [Workers -> File!Worker]
    /\ \A w \in Workers : \/ at'[w] = at[w] /\ (row.owner = w => RowIsCalm(f, row))
                          \/ ClaimOK(w, at'[w], source')

\* and everything else.
RestMoves ==
    /\ deleting' \in [Deleters -> File!Delete]
    /\ \A x \in Deleters : deleting'[x] = deleting[x] \/ LoadedOK(deleting'[x], source')
    /\ objects' \subseteq Files /\ purging' \in Files \cup {None}
    /\ scan' \in [on: BOOLEAN, known: SUBSET Files]
    /\ crashes' \in 0 .. MaxCrashes /\ failed' \subseteq Files

LEMMA FileStep ==
    ASSUME FileInv, NEW f \in Files, NEW row,
           SourceMoves(f, row), MirrorsMove(f), WorkersMove(f, row), RestMoves,
           StoryOK(row, file'[f], uploading'[f], purge'[f])
    PROVE  FileInv'
<1>1. /\ source \in [Files -> File!SourceRow] /\ File!None = None
      /\ source'[f] = row /\ \A h \in Files : h # f => source'[h] = source[h]
  BY FileTypes DEF SourceMoves
<1>2. source' \in [Files -> File!SourceRow]
  BY <1>1 DEF SourceMoves
<1>3. File!TypeOK'
  BY <1>1, <1>2 DEF File!TypeOK, File!None, None, MirrorsMove, WorkersMove, RestMoves
<1>4. \A h \in Files : StoryOK(source'[h], file'[h], uploading'[h], purge'[h])
  BY <1>1 DEF FileInv, MirrorsMove
<1>5. ASSUME NEW w \in Workers
      PROVE  ClaimOK(w, at'[w], source')
  <2>1. ClaimOK(w, at[w], source) /\ w # None
    BY FileTableAssumption DEF FileInv
  <2>2. CASE ClaimOK(w, at'[w], source')
    BY <2>2
  <2>3. CASE at'[w] = at[w] /\ (row.owner = w => RowIsCalm(f, row))
    <3>1. CASE at[w].file = f
      BY <1>1, <2>1, <2>3, <3>1 DEF ClaimOK, RowIsCalm
    <3>2. CASE at[w].file # f
      BY <1>1, <2>1, <2>3, <3>2 DEF ClaimOK
    <3> QED BY <3>1, <3>2
  <2> QED BY <2>2, <2>3 DEF WorkersMove
<1>6. ASSUME NEW x \in Deleters
      PROVE  LoadedOK(deleting'[x], source')
  <2>1. LoadedOK(deleting[x], source) /\ deleting[x].file \in Files \cup {None}
    BY FileTypes DEF FileInv, File!Delete
  <2>2. CASE deleting'[x] = deleting[x]
    BY <1>1, <2>1, <2>2 DEF LoadedOK, SourceMoves
  <2> QED BY <2>2 DEF RestMoves
<1>7. QED
  BY <1>3, <1>4, <1>5, <1>6 DEF FileInv

\* Rows that stay move as well, and so do all the other parts.
LEMMA SourceStays ==
    ASSUME FileInv, NEW f \in Files, source' = source
    PROVE  SourceMoves(f, source[f]) /\ RowIsCalm(f, source[f])
  BY FileTypes DEF SourceMoves, RowIsCalm

LEMMA MirrorsStay ==
    ASSUME FileInv, NEW f \in Files, UNCHANGED <<file, purge, uploading>>
    PROVE  MirrorsMove(f)
  BY FileTypes DEF MirrorsMove

LEMMA RestStays ==
    ASSUME FileInv, UNCHANGED <<objects, deleting, purging, scan, failed>>,
           crashes' \in 0 .. MaxCrashes
    PROVE  RestMoves
  BY FileTypes DEF RestMoves, FileInv, File!TypeOK

LEMMA WorkersStay ==
    ASSUME FileInv, NEW f \in Files, NEW row, RowIsCalm(f, row), at' = at
    PROVE  WorkersMove(f, row)
  BY FileTypes DEF WorkersMove

\* A worker lets its source go.
LEMMA WorkerIdles ==
    ASSUME FileInv, NEW f \in Files, NEW row, RowIsCalm(f, row), NEW w \in Workers,
           at' = [at EXCEPT ![w] = File!Idle]
    PROVE  WorkersMove(f, row)
<1>1. at \in [Workers -> File!Worker] /\ File!None = None
  BY FileTypes
<1>2. File!Idle \in File!Worker /\ File!Idle.pc = "idle"
  BY <1>1, FileTableAssumption DEF File!Idle, File!Worker
<1>3. /\ at' \in [Workers -> File!Worker] /\ at'[w] = File!Idle
      /\ \A v \in Workers : v # w => at'[v] = at[v]
  BY <1>1, <1>2
<1>4. ClaimOK(w, at'[w], source')
  BY <1>2, <1>3 DEF ClaimOK
<1>5. QED
  BY <1>3, <1>4 DEF WorkersMove

\* What a worker has in hand.
LEMMA InHand ==
    ASSUME FileInv, NEW w \in Workers, at[w].pc # "idle"
    PROVE  at[w].file \in Files
  BY DEF FileInv, ClaimOK

LEMMA CountsOK ==
    ASSUME FileInv
    PROVE  /\ crashes \in 0 .. MaxCrashes /\ MaxCrashes \in Nat
           /\ File!Crash => crashes' \in 0 .. MaxCrashes
  BY FileTableAssumption DEF FileInv, File!TypeOK, File!Crash

LEMMA FileInit == File!Init => FileInv
<1> SUFFICES ASSUME File!Init PROVE FileInv
  OBVIOUS
<1>1. /\ source = [f \in Files |-> File!NoSource] /\ file = [f \in Files |-> File!NoFile]
      /\ purge = [f \in Files |-> "NONE"] /\ uploading = [f \in Files |-> None]
      /\ at = [w \in Workers |-> File!Idle] /\ deleting = [x \in Deleters |-> File!NoDelete]
      /\ File!None = None
  BY DEF File!Init, File!None, None
<1>2. /\ File!NoSource \in File!SourceRow /\ File!NoFile \in File!FileRow
      /\ File!Idle \in File!Worker /\ File!NoDelete \in File!Delete
      /\ ~File!NoSource.deleted /\ File!NoSource.status = "NONE" /\ File!NoSource.chunks = 0
      /\ ~File!NoSource.embedded
      /\ File!Idle.pc = "idle" /\ File!NoDelete.file = None
  BY <1>1, FileTableAssumption
     DEF File!NoSource, File!SourceRow, File!NoFile, File!FileRow, File!Idle, File!Worker,
         File!NoDelete, File!Delete
<1>3. File!TypeOK
  BY <1>1, <1>2, FileTableAssumption DEF File!Init, File!TypeOK, File!NoScan
<1>4. QED
  BY <1>1, <1>2, <1>3 DEF FileInv, StoryOK, ClaimOK, LoadedOK

\* Steps of an upload.
LEMMA UploadingStep ==
    ASSUME FileInv, NEW f \in Files, NEW key \in Keys \cup {None},
           key # None => source[f] = File!NoSource,
           uploading' = [uploading EXCEPT ![f] = key],
           UNCHANGED <<source, file, purge, at, deleting, purging, scan, failed>>,
           objects' \subseteq Files, crashes' \in 0 .. MaxCrashes
    PROVE  FileInv'
<1>1. SourceMoves(f, source[f]) /\ RowIsCalm(f, source[f])
  BY SourceStays
<1>2. WorkersMove(f, source[f])
  BY <1>1, WorkersStay
<1>3. MirrorsMove(f) /\ uploading'[f] = key
  BY FileTypes DEF MirrorsMove
<1>4. StoryOK(source[f], file'[f], uploading'[f], purge'[f])
  BY <1>3 DEF FileInv, StoryOK
<1>5. RestMoves
  BY FileTypes DEF FileInv, File!TypeOK, RestMoves
<1>6. QED
  BY <1>1, <1>2, <1>3, <1>4, <1>5, FileStep

LEMMA UploadInv ==
    ASSUME FileInv, NEW f \in Files,
           \/ \E key \in Keys : File!StoreObject(f, key)
           \/ File!AbortUpload(f) \/ File!CrashUpload(f)
    PROVE  FileInv'
<1>1. File!None = None /\ objects \subseteq Files /\ crashes \in 0 .. MaxCrashes /\ MaxCrashes \in Nat
  BY FileTypes, FileTableAssumption DEF FileInv, File!TypeOK
<1>2. ASSUME NEW key \in Keys, File!StoreObject(f, key) PROVE FileInv'
  <2>1. /\ source[f] = File!NoSource /\ uploading' = [uploading EXCEPT ![f] = key]
        /\ UNCHANGED <<source, file, purge, at, deleting, purging, scan, crashes, failed>>
        /\ objects' = objects \cup {f}
    BY <1>2 DEF File!StoreObject
  <2>2. QED
    BY <1>1, <2>1, UploadingStep
<1>3. ASSUME File!AbortUpload(f) \/ File!CrashUpload(f) PROVE FileInv'
  <2>1. /\ uploading' = [uploading EXCEPT ![f] = None]
        /\ UNCHANGED <<source, file, purge, at, deleting, purging, scan, failed>>
        /\ objects' \subseteq Files /\ crashes' \in 0 .. MaxCrashes
    BY <1>1, <1>3 DEF File!AbortUpload, File!CrashUpload, File!Crash
  <2>2. QED
    BY <2>1, UploadingStep
<1>4. QED
  BY <1>2, <1>3

LEMMA CommitUploadInv ==
    ASSUME FileInv, NEW f \in Files, NEW processable \in BOOLEAN,
           File!CommitUpload(f, processable)
    PROVE  FileInv'
<1> DEFINE row == File!Uploaded(uploading[f], processable)
<1>1. /\ uploading \in [Files -> Keys \cup {None}] /\ file \in [Files -> File!FileRow]
      /\ File!None = None
  BY FileTypes
<1>2. /\ uploading[f] # None /\ source' = [source EXCEPT ![f] = row]
      /\ file' = [file EXCEPT ![f].status = "ACTIVE"]
      /\ uploading' = [uploading EXCEPT ![f] = None]
      /\ UNCHANGED <<objects, purge, at, deleting, purging, scan, crashes, failed>>
  BY <1>1 DEF File!CommitUpload
<1>3. /\ row \in File!SourceRow /\ row.status \in {"PENDING", "FAILED"} /\ row.chunks = 0
      /\ ~row.embedded
      /\ row.owner = None /\ ~row.deleted
  <2>1. uploading[f] \in Keys /\ 0 \in 0 .. MaxAttempts
    BY <1>1, <1>2, FileTableAssumption
  <2>2. CASE processable
    BY <1>1, <2>1, <2>2 DEF File!Uploaded, File!NoSource, File!SourceRow
  <2>3. CASE ~processable
    BY <1>1, <2>1, <2>3 DEF File!Uploaded, File!NoSource, File!SourceRow
  <2> QED BY <2>2, <2>3
<1> HIDE DEF row
<1>4. source[f] = File!NoSource /\ purge[f] = "NONE"
  <2>1. StoryOK(source[f], file[f], uploading[f], purge[f])
    BY DEF FileInv
  <2>2. source[f] = File!NoSource
    BY <1>2, <2>1 DEF StoryOK
  <2>3. ~File!NoSource.deleted
    BY DEF File!NoSource
  <2>4. QED
    BY <2>1, <2>2, <2>3 DEF StoryOK
<1>5. SourceMoves(f, row)
  BY <1>2, <1>3 DEF SourceMoves
<1>6. MirrorsMove(f) /\ uploading'[f] = None
  <2>1. /\ file' \in [Files -> File!FileRow] /\ \A h \in Files : h # f => file'[h] = file[h]
    BY <1>1, <1>2 DEF File!FileRow
  <2>2. QED
    BY <1>1, <1>2, <2>1, FileTypes DEF MirrorsMove
<1>7. StoryOK(row, file'[f], uploading'[f], purge'[f])
  BY <1>2, <1>3, <1>4, <1>6 DEF StoryOK
<1>8. WorkersMove(f, row)
  BY <1>2, <1>3, FileTypes, FileTableAssumption DEF WorkersMove
<1>9. RestMoves
  BY <1>2, CountsOK, RestStays
<1>10. QED
  BY <1>5, <1>6, <1>7, <1>8, <1>9, FileStep

\* A worker claims a source, and with the claim every earlier one of it is over.
LEMMA ClaimProcessingInv ==
    ASSUME FileInv, NEW w \in Workers, NEW f \in Files, File!ClaimProcessing(w, f)
    PROVE  FileInv'
<1> DEFINE row == File!Claimed(source[f], w)
           rec == [pc |-> "claimed", file |-> f, attempt |-> row.attempts]
<1>1. source \in [Files -> File!SourceRow] /\ at \in [Workers -> File!Worker]
  BY FileTypes
<1>2. /\ File!ClaimableSource(source[f])
      /\ source' = [source EXCEPT ![f] = row]
      /\ at' = [at EXCEPT ![w] = [pc |-> "claimed", file |-> f, attempt |-> source'[f].attempts]]
      /\ UNCHANGED <<file, objects, purge, uploading, deleting, purging, scan, crashes, failed>>
  BY DEF File!ClaimProcessing
<1>3. /\ ~source[f].deleted /\ source[f].attempts < MaxAttempts
      /\ source[f].status \in {"PENDING", "FAILED"} /\ source[f] \in File!SourceRow
  BY <1>1, <1>2 DEF File!ClaimableSource
<1>4. source[f].attempts + 1 \in 0 .. MaxAttempts
  BY <1>3, FileTableAssumption DEF File!SourceRow
<1>5. /\ row \in File!SourceRow /\ row.status = "PENDING" /\ row.owner = w
      /\ row.deleted = source[f].deleted /\ row.chunks = source[f].chunks
      /\ row.embedded = source[f].embedded
      /\ row.attempts \in 0 .. MaxAttempts
  BY <1>3, <1>4 DEF File!SourceRow, File!Claimed
<1> HIDE DEF row
<1>6. source'[f] = row /\ at' = [at EXCEPT ![w] = rec]
  BY <1>1, <1>2
<1>7. /\ rec \in File!Worker /\ rec.file = f /\ rec.attempt = row.attempts
  BY <1>5 DEF File!Worker
<1> HIDE DEF rec
<1>8. SourceMoves(f, row)
  BY <1>2, <1>5 DEF SourceMoves
<1>9. StoryOK(row, file'[f], uploading'[f], purge'[f])
  <2>1. StoryOK(source[f], file[f], uploading[f], purge[f]) /\ source[f] # File!NoSource
    BY <1>3 DEF FileInv, File!NoSource
  <2>2. QED
    BY <1>2, <1>3, <1>5, <2>1 DEF StoryOK
<1>10. WorkersMove(f, row)
  <2>1. /\ at'[w] = rec /\ \A v \in Workers : v # w => at'[v] = at[v]
        /\ at' \in [Workers -> File!Worker]
    BY <1>1, <1>6, <1>7
  <2>2. ClaimOK(w, at'[w], source')
    BY <1>6, <1>7, <2>1 DEF ClaimOK
  <2>3. QED
    BY <1>5, <2>1, <2>2 DEF WorkersMove
<1>11. MirrorsMove(f) /\ RestMoves
  BY <1>2, MirrorsStay, RestStays, CountsOK
<1>12. QED
  BY <1>8, <1>9, <1>10, <1>11, FileStep

\* A step that leaves the mirror, the purge job and the uploads, and gives its source to
\* nobody.
LEMMA SourceStep ==
    ASSUME FileInv, NEW f \in Files, NEW row,
           SourceMoves(f, row), RowIsCalm(f, row),
           StoryOK(row, file[f], uploading[f], purge[f]),
           at' = at \/ \E w \in Workers : at' = [at EXCEPT ![w] = File!Idle],
           UNCHANGED <<file, purge, uploading>>, RestMoves
    PROVE  FileInv'
<1>1. WorkersMove(f, row)
  BY WorkersStay, WorkerIdles
<1>2. MirrorsMove(f) /\ StoryOK(row, file'[f], uploading'[f], purge'[f])
  BY MirrorsStay
<1>3. QED
  BY <1>1, <1>2, FileStep

\* The lease of a source changes.
LEMMA LeaseStep ==
    ASSUME FileInv, NEW f \in Files, NEW leased \in BOOLEAN,
           source[f] # File!NoSource,
           source' = [source EXCEPT ![f].leased = leased],
           UNCHANGED <<file, objects, purge, uploading, at, deleting, purging, scan,
                       crashes, failed>>
    PROVE  FileInv'
<1> DEFINE row == [source[f] EXCEPT !.leased = leased]
<1>1. source \in [Files -> File!SourceRow]
  BY FileTypes
<1>2. source' = [source EXCEPT ![f] = row]
  BY <1>1
<1>3. /\ row \in File!SourceRow /\ row.status = source[f].status /\ row.owner = source[f].owner
      /\ row.attempts = source[f].attempts /\ row.deleted = source[f].deleted
      /\ row.chunks = source[f].chunks /\ row.text = source[f].text
      /\ row.embedded = source[f].embedded
  BY <1>1 DEF File!SourceRow
<1> HIDE DEF row
<1>4. StoryOK(row, file[f], uploading[f], purge[f])
  BY <1>3 DEF FileInv, StoryOK
<1>5. SourceMoves(f, row) /\ RowIsCalm(f, row)
  BY <1>2, <1>3 DEF SourceMoves, RowIsCalm
<1>6. RestMoves
  BY RestStays, CountsOK
<1>7. QED
  BY <1>4, <1>5, <1>6, SourceStep

LEMMA ExpireLeaseInv ==
    ASSUME FileInv, NEW f \in Files, File!ExpireLease(f)
    PROVE  FileInv'
<1>1. source[f] # File!NoSource
  BY DEF File!ExpireLease, File!NoSource
<1>2. QED
  BY <1>1, LeaseStep DEF File!ExpireLease

LEMMA HeartbeatInv ==
    ASSUME FileInv, NEW w \in Workers, File!Heartbeat(w)
    PROVE  FileInv'
<1> DEFINE f == at[w].file
<1>1. f \in Files
  BY InHand DEF File!Heartbeat
<1>2. UNCHANGED <<file, objects, purge, uploading, deleting, purging, scan, crashes, failed>>
  BY DEF File!Heartbeat
<1>3. CASE File!Holds(w, f)
  <2>1. source[f] # File!NoSource
    BY <1>3 DEF File!Holds, File!NoSource
  <2>2. source' = [source EXCEPT ![f].leased = TRUE] /\ at' = at
    BY <1>3 DEF File!Heartbeat
  <2> HIDE DEF f
  <2>3. QED
    BY <1>1, <1>2, <2>1, <2>2, LeaseStep
<1>4. CASE ~File!Holds(w, f)
  <2>1. source' = source /\ at' = [at EXCEPT ![w] = File!Idle]
    BY <1>4 DEF File!Heartbeat
  <2> HIDE DEF f
  <2>2. SourceMoves(f, source[f]) /\ RowIsCalm(f, source[f])
    BY <1>1, <2>1, SourceStays
  <2>3. StoryOK(source[f], file[f], uploading[f], purge[f]) /\ RestMoves
    BY <1>1, <1>2, RestStays, CountsOK DEF FileInv
  <2>4. QED
    BY <1>1, <1>2, <2>1, <2>2, <2>3, SourceStep
<1>5. QED
  BY <1>3, <1>4

\* Extraction touches no row: the worker goes on with its claim.
LEMMA ExtractInv ==
    ASSUME FileInv, NEW w \in Workers, File!Extract(w)
    PROVE  FileInv'
<1> DEFINE f == at[w].file
<1>1. f \in Files
  BY InHand DEF File!Extract
<1>2. /\ at' = [at EXCEPT ![w].pc = "parsed"] /\ at[w].pc = "claimed"
      /\ UNCHANGED <<source, file, objects, purge, uploading, deleting, purging, scan,
                     crashes, failed>>
  BY DEF File!Extract
<1>3. /\ at' \in [Workers -> File!Worker] /\ \A v \in Workers : v # w => at'[v] = at[v]
      /\ at'[w].file = at[w].file /\ at'[w].attempt = at[w].attempt
  BY <1>2, FileTypes DEF File!Worker
<1>4. ClaimOK(w, at'[w], source')
  BY <1>2, <1>3 DEF FileInv, ClaimOK
<1> HIDE DEF f
<1>5. SourceMoves(f, source[f]) /\ RowIsCalm(f, source[f])
  BY <1>1, <1>2, SourceStays
<1>6. WorkersMove(f, source[f])
  BY <1>3, <1>4, <1>5 DEF WorkersMove
<1>7. MirrorsMove(f) /\ RestMoves /\ StoryOK(source[f], file'[f], uploading'[f], purge'[f])
  BY <1>1, <1>2, MirrorsStay, RestStays, CountsOK DEF FileInv
<1>8. QED
  BY <1>1, <1>5, <1>6, <1>7, FileStep

\* The result is stored with its chunks and its generation.
LEMMA CompleteProcessingInv ==
    ASSUME FileInv, NEW w \in Workers, File!CompleteProcessing(w)
    PROVE  FileInv'
<1> DEFINE f == at[w].file
<1>1. f \in Files
  BY InHand DEF File!CompleteProcessing
<1>2. /\ at' = [at EXCEPT ![w] = File!Idle]
      /\ UNCHANGED <<objects, purge, uploading, deleting, purging, scan, crashes, failed>>
  BY DEF File!CompleteProcessing
<1>3. RestMoves
  BY <1>2, RestStays, CountsOK
<1>4. CASE ~File!Holds(w, f)
  <2>1. UNCHANGED <<source, file>>
    BY <1>4 DEF File!CompleteProcessing
  <2> HIDE DEF f
  <2>2. SourceMoves(f, source[f]) /\ RowIsCalm(f, source[f])
    BY <1>1, <2>1, SourceStays
  <2>3. StoryOK(source[f], file[f], uploading[f], purge[f])
    BY <1>1 DEF FileInv
  <2>4. QED
    BY <1>1, <1>2, <1>3, <2>1, <2>2, <2>3, SourceStep
<1>5. CASE File!Holds(w, f)
  <2>0. PICK embedded \in BOOLEAN :
           /\ source' = [source EXCEPT ![f] = File!Completed(@, embedded)]
           /\ file' = [file EXCEPT ![f] = File!WithNewGeneration(@, embedded)]
    BY <1>5 DEF File!CompleteProcessing
  <2> DEFINE row == File!Completed(source[f], embedded)
             mirror == File!WithNewGeneration(file[f], embedded)
  <2>1. /\ source' = [source EXCEPT ![f] = row] /\ file' = [file EXCEPT ![f] = mirror]
        /\ source[f].status = "PENDING"
    BY <1>1, <1>5, <2>0, FileTypes DEF File!Holds
  <2> HIDE DEF f
  <2>2. /\ source[f] \in File!SourceRow /\ file[f] \in File!FileRow /\ File!None = None
        /\ source[f].chunks + 1 \in Nat
    BY <1>1, FileTypes DEF File!SourceRow
  <2>3. /\ row \in File!SourceRow /\ row.status = "READY" /\ row.text
        /\ row.chunks = source[f].chunks + 1 /\ row.deleted = source[f].deleted
        /\ row.embedded = (source[f].embedded \/ embedded)
    <3>1. row \in File!SourceRow
      BY <2>2 DEF File!SourceRow, File!Completed
    <3>2. /\ row.status = "READY" /\ row.text
          /\ row.chunks = source[f].chunks + 1 /\ row.deleted = source[f].deleted
          /\ row.embedded = (source[f].embedded \/ embedded)
      BY <2>2 DEF File!SourceRow, File!Completed
    <3>3. QED
      BY <3>1, <3>2
  <2>4. mirror \in File!FileRow /\ mirror.active = 1
        /\ mirror.segments = File!Segments(embedded)
    BY <2>2 DEF File!FileRow, File!WithNewGeneration, File!Segments
  <2> HIDE DEF row, mirror
  <2>5. SourceMoves(f, row) /\ RowIsCalm(f, row)
    BY <2>1, <2>3 DEF SourceMoves, RowIsCalm
  <2>6. MirrorsMove(f) /\ file'[f] = mirror
    BY <1>1, <1>2, <2>1, <2>4, FileTypes DEF MirrorsMove
  <2>7. StoryOK(row, file'[f], uploading'[f], purge'[f])
    <3>1. StoryOK(source[f], file[f], uploading[f], purge[f]) /\ source[f] # File!NoSource
      BY <1>1, <2>1 DEF FileInv, File!NoSource
    <3>2. QED
      BY <1>2, <2>1, <2>3, <2>4, <2>6, <3>1 DEF StoryOK
  <2>8. WorkersMove(f, row)
    BY <1>1, <1>2, <2>5, WorkerIdles
  <2>9. QED
    BY <1>1, <1>3, <2>5, <2>6, <2>7, <2>8, FileStep
<1>6. QED
  BY <1>4, <1>5

LEMMA FailProcessingInv ==
    ASSUME FileInv, NEW w \in Workers, NEW parse \in BOOLEAN, File!FailProcessing(w, parse)
    PROVE  FileInv'
<1> DEFINE f == at[w].file
<1>1. f \in Files
  BY InHand DEF File!FailProcessing
<1>2. /\ at' = [at EXCEPT ![w] = File!Idle]
      /\ UNCHANGED <<file, objects, purge, uploading, deleting, purging, scan, crashes, failed>>
  BY DEF File!FailProcessing
<1>3. RestMoves
  BY <1>2, RestStays, CountsOK
<1>4. CASE ~File!Holds(w, f)
  <2>1. source' = source
    BY <1>4 DEF File!FailProcessing
  <2> HIDE DEF f
  <2>2. SourceMoves(f, source[f]) /\ RowIsCalm(f, source[f])
    BY <1>1, <2>1, SourceStays
  <2>3. StoryOK(source[f], file[f], uploading[f], purge[f])
    BY <1>1 DEF FileInv
  <2>4. QED
    BY <1>1, <1>2, <1>3, <2>2, <2>3, SourceStep
<1>5. CASE File!Holds(w, f)
  <2> DEFINE retry == ~parse /\ at[w].attempt < MaxAttempts
             row == [source[f] EXCEPT !.status = "FAILED", !.owner = None, !.leased = FALSE,
                                      !.retry = retry]
  <2>1. source' = [source EXCEPT ![f] = row] /\ source[f].status = "PENDING"
    BY <1>5, FileTypes DEF File!FailProcessing, File!Holds
  <2> HIDE DEF f
  <2>2. source[f] \in File!SourceRow /\ File!None = None /\ retry \in BOOLEAN
    BY <1>1, FileTypes
  <2> HIDE DEF retry
  <2>3. /\ row \in File!SourceRow /\ row.status = "FAILED"
        /\ row.chunks = source[f].chunks /\ row.deleted = source[f].deleted
        /\ row.embedded = source[f].embedded
    BY <2>2 DEF File!SourceRow
  <2> HIDE DEF row
  <2>4. SourceMoves(f, row) /\ RowIsCalm(f, row)
    BY <2>1, <2>3 DEF SourceMoves, RowIsCalm
  <2>5. StoryOK(row, file[f], uploading[f], purge[f])
    <3>1. StoryOK(source[f], file[f], uploading[f], purge[f]) /\ source[f] # File!NoSource
      BY <1>1, <2>1 DEF FileInv, File!NoSource
    <3>2. QED
      BY <2>1, <2>3, <3>1 DEF StoryOK
  <2>6. QED
    BY <1>1, <1>2, <1>3, <2>4, <2>5, SourceStep
<1>6. QED
  BY <1>4, <1>5

\* The claim of a worker that died belongs to nobody.
LEMMA CrashWorkerInv ==
    ASSUME FileInv, NEW w \in Workers, File!CrashWorker(w)
    PROVE  FileInv'
<1> DEFINE f == at[w].file
<1>1. f \in Files
  BY InHand DEF File!CrashWorker
<1>2. /\ at' = [at EXCEPT ![w] = File!Idle]
      /\ source' = [source EXCEPT ![f].owner = IF @ = w THEN None ELSE @]
      /\ UNCHANGED <<file, objects, purge, uploading, deleting, purging, scan, failed>>
      /\ crashes' \in 0 .. MaxCrashes
  BY CountsOK DEF File!CrashWorker, File!None, None
<1> HIDE DEF f
<1>3. RestMoves
  BY <1>2, RestStays
<1>4. /\ source \in [Files -> File!SourceRow] /\ source[f] \in File!SourceRow
      /\ File!None = None /\ StoryOK(source[f], file[f], uploading[f], purge[f])
  BY <1>1, FileTypes DEF FileInv
<1>5. CASE source[f].owner # w
  <2>1. source' = source
    BY <1>1, <1>2, <1>4, <1>5 DEF File!SourceRow
  <2>2. SourceMoves(f, source[f]) /\ RowIsCalm(f, source[f])
    BY <1>1, <2>1, SourceStays
  <2>3. QED
    BY <1>1, <1>2, <1>3, <1>4, <2>2, SourceStep
<1>6. CASE source[f].owner = w
  <2> DEFINE row == [source[f] EXCEPT !.owner = None]
  <2>1. source' = [source EXCEPT ![f] = row]
    BY <1>2, <1>4, <1>6
  <2>2. /\ row \in File!SourceRow /\ row.status = source[f].status /\ row.owner = None
        /\ row.attempts = source[f].attempts /\ row.deleted = source[f].deleted
        /\ row.chunks = source[f].chunks /\ row.text = source[f].text
        /\ row.embedded = source[f].embedded
    BY <1>4 DEF File!SourceRow
  <2> HIDE DEF row
  <2>3. SourceMoves(f, row) /\ RowIsCalm(f, row)
    BY <2>1, <2>2 DEF SourceMoves, RowIsCalm
  <2>4. source[f] # File!NoSource
    BY <1>4, <1>6, FileTableAssumption DEF File!NoSource
  <2>5. StoryOK(row, file[f], uploading[f], purge[f])
    BY <1>4, <2>2, <2>4 DEF StoryOK
  <2>6. QED
    BY <1>1, <1>2, <1>3, <2>3, <2>5, SourceStep
<1>7. QED
  BY <1>5, <1>6

\* A delete loads a row, and the row is there from then on.
LEMMA LoadForDeleteInv ==
    ASSUME FileInv, NEW x \in Deleters, NEW f \in Files, File!LoadForDelete(x, f)
    PROVE  FileInv'
<1> DEFINE rec == [file |-> f, text |-> source[f].text, status |-> source[f].status]
<1>1. /\ source[f].status # "NONE" /\ deleting' = [deleting EXCEPT ![x] = rec]
      /\ UNCHANGED <<source, file, objects, purge, uploading, at, purging, scan, crashes, failed>>
  BY DEF File!LoadForDelete
<1>2. rec \in File!Delete /\ rec.file = f
  BY <1>1, FileTypes DEF File!Delete, File!SourceRow
<1> HIDE DEF rec
<1>3. /\ deleting' \in [Deleters -> File!Delete] /\ deleting'[x] = rec
      /\ \A y \in Deleters : y # x => deleting'[y] = deleting[y]
  BY <1>1, <1>2, FileTypes
<1>4. LoadedOK(deleting'[x], source')
  BY <1>1, <1>2, <1>3 DEF LoadedOK
<1>5. RestMoves
  BY <1>1, <1>3, <1>4, FileTypes DEF FileInv, File!TypeOK, RestMoves
<1>6. SourceMoves(f, source[f]) /\ RowIsCalm(f, source[f])
  BY <1>1, SourceStays
<1>7. StoryOK(source[f], file[f], uploading[f], purge[f])
  BY DEF FileInv
<1>8. QED
  BY <1>1, <1>5, <1>6, <1>7, SourceStep

\* A delete writes the row by its key: its claim is lost with the status, unless the
\* status was FAILED when the row was loaded.
LEMMA DeleteFileInv ==
    ASSUME FileInv, NEW x \in Deleters, File!DeleteFile(x)
    PROVE  FileInv'
<1> DEFINE f == deleting[x].file
           loaded == deleting[x]
           row == File!MarkedDeleted(source[f], loaded)
<1>1. /\ f # None /\ source' = [source EXCEPT ![f] = row]
      /\ file' = [file EXCEPT ![f].status = "DELETED", ![f].segments = "none"]
      /\ purge' = [purge EXCEPT ![f] = IF @ = "NONE" THEN "READY" ELSE @]
      /\ deleting' = [deleting EXCEPT ![x] = File!NoDelete]
      /\ UNCHANGED <<objects, uploading, at, purging, scan, crashes, failed>>
  BY FileTypes DEF File!DeleteFile
<1>2. loaded \in File!Delete /\ LoadedOK(loaded, source)
  BY FileTypes DEF FileInv
<1>3. f \in Files /\ source[f].status # "NONE"
  BY <1>1, <1>2, FileTypes DEF File!Delete, LoadedOK
<1>4. /\ source[f] \in File!SourceRow /\ file[f] \in File!FileRow
      /\ purge[f] \in {"NONE", "READY", "COMPLETED"}
      /\ StoryOK(source[f], file[f], uploading[f], purge[f])
  BY <1>3, FileTypes DEF FileInv
<1> HIDE DEF f, loaded
<1>5. /\ row \in File!SourceRow /\ row.deleted /\ row.owner = source[f].owner
      /\ row.attempts = source[f].attempts /\ row.status \in {source[f].status, "FAILED"}
  <2>1. CASE loaded.status = "FAILED"
    BY <1>4, <2>1 DEF File!MarkedDeleted, File!SourceRow
  <2>2. CASE loaded.status # "FAILED"
    BY <1>4, <2>2 DEF File!MarkedDeleted, File!SourceRow
  <2> QED BY <2>1, <2>2
<1> HIDE DEF row
<1>6. SourceMoves(f, row) /\ RowIsCalm(f, row)
  BY <1>1, <1>3, <1>5 DEF SourceMoves, RowIsCalm
<1>7. MirrorsMove(f)
  <2>1. /\ file' \in [Files -> File!FileRow] /\ \A h \in Files : h # f => file'[h] = file[h]
    <3> DEFINE mirror == [file[f] EXCEPT !.status = "DELETED", !.segments = "none"]
    <3>1. mirror \in File!FileRow
      BY <1>4 DEF File!FileRow
    <3>2. file' = [file EXCEPT ![f] = mirror]
      BY <1>1, <1>3, FileTypes
    <3> HIDE DEF mirror
    <3>3. QED
      BY <3>1, <3>2, FileTypes
  <2>2. /\ purge' \in [Files -> {"NONE", "READY", "COMPLETED"}]
        /\ \A h \in Files : h # f => purge'[h] = purge[h]
    BY <1>1, <1>3, FileTypes
  <2>3. QED
    BY <1>1, <2>1, <2>2, FileTypes DEF MirrorsMove
<1>8. StoryOK(row, file'[f], uploading'[f], purge'[f])
  <2>1. uploading'[f] = None
    <3>1. source[f] # File!NoSource
      BY <1>3 DEF File!NoSource
    <3>2. QED
      BY <1>1, <1>4, <3>1 DEF StoryOK
  <2>2. QED
    BY <1>5, <2>1 DEF StoryOK
<1>9. WorkersMove(f, row)
  BY <1>1, <1>3, <1>6, WorkersStay
<1>10. RestMoves
  <2>1. /\ File!NoDelete \in File!Delete /\ File!NoDelete.file = None
    BY FileTypes DEF File!NoDelete, File!Delete
  <2>2. /\ deleting' \in [Deleters -> File!Delete] /\ deleting'[x] = File!NoDelete
        /\ \A y \in Deleters : y # x => deleting'[y] = deleting[y]
    BY <1>1, <2>1, FileTypes
  <2>3. LoadedOK(deleting'[x], source')
    BY <2>1, <2>2 DEF LoadedOK
  <2>4. QED
    BY <1>1, <2>2, <2>3, FileTypes DEF FileInv, File!TypeOK, RestMoves
<1>11. QED
  BY <1>3, <1>6, <1>7, <1>8, <1>9, <1>10, FileStep

\* A purge is of a file that is deleted.
LEMMA PurgeInv ==
    ASSUME FileInv, NEW f \in Files, File!Purge(f)
    PROVE  FileInv'
<1>1. /\ purge[f] = "READY" /\ purge' = [purge EXCEPT ![f] = "COMPLETED"] /\ purging' = f
      /\ file' = [file EXCEPT ![f].purged = TRUE, ![f].segments = "none"]
      /\ UNCHANGED <<source, objects, uploading, at, deleting, scan, crashes, failed>>
  BY DEF File!Purge
<1>2. SourceMoves(f, source[f]) /\ RowIsCalm(f, source[f])
  BY <1>1, SourceStays
<1>3. MirrorsMove(f)
  <2>1. /\ file' \in [Files -> File!FileRow] /\ \A h \in Files : h # f => file'[h] = file[h]
    <3> DEFINE mirror == [file[f] EXCEPT !.purged = TRUE, !.segments = "none"]
    <3>1. mirror \in File!FileRow
      BY FileTypes DEF File!FileRow
    <3>2. file' = [file EXCEPT ![f] = mirror]
      BY <1>1, FileTypes
    <3> HIDE DEF mirror
    <3>3. QED
      BY <3>1, <3>2, FileTypes
  <2>2. QED
    BY <1>1, <2>1, FileTypes DEF MirrorsMove
<1>4. StoryOK(source[f], file'[f], uploading'[f], purge'[f])
  BY <1>1 DEF FileInv, StoryOK
<1>5. WorkersMove(f, source[f])
  BY <1>1, <1>2, WorkersStay
<1>6. RestMoves
  BY <1>1, FileTypes DEF FileInv, File!TypeOK, RestMoves
<1>7. QED
  BY <1>2, <1>3, <1>4, <1>5, <1>6, FileStep

\* The object store and the scan touch no row.
LEMMA ObjectsInv ==
    ASSUME FileInv,
           File!DeleteObject \/ File!DeleteObjectFails \/ File!BeginScan \/ File!EndScan
    PROVE  FileInv'
<1>1. /\ UNCHANGED <<source, file, purge, uploading, at, deleting, crashes>>
      /\ objects' \subseteq Files /\ failed' \subseteq Files /\ purging' \in Files \cup {None}
  BY FileTypes
     DEF FileInv, File!TypeOK, File!DeleteObject, File!DeleteObjectFails, File!BeginScan,
         File!EndScan
<1>2. scan' \in [on: BOOLEAN, known: SUBSET Files]
  <2>1. CASE File!BeginScan
    <3>1. File!StorageKeys \subseteq Files /\ scan' = [on |-> TRUE, known |-> File!StorageKeys]
      BY <2>1 DEF File!BeginScan, File!StorageKeys
    <3> QED BY <3>1
  <2>2. CASE File!EndScan
    BY <2>2 DEF File!EndScan, File!NoScan
  <2>3. CASE File!DeleteObject \/ File!DeleteObjectFails
    BY <2>3 DEF FileInv, File!TypeOK, File!DeleteObject, File!DeleteObjectFails
  <2> QED BY <2>1, <2>2, <2>3
<1>3. File!TypeOK'
  BY <1>1, <1>2, FileTypes DEF FileInv, File!TypeOK
<1>4. QED
  BY <1>1, <1>3 DEF FileInv

LEMMA FileNext == FileInv /\ [File!Next]_(File!fileVars) => FileInv'
<1> SUFFICES ASSUME FileInv, [File!Next]_(File!fileVars) PROVE FileInv'
  OBVIOUS
<1>1. CASE UNCHANGED File!fileVars
  BY <1>1 DEF FileInv, File!TypeOK, File!fileVars
<1>2. ASSUME NEW f \in Files, File!UploadStep(f) PROVE FileInv'
  BY <1>2, UploadInv, CommitUploadInv DEF File!UploadStep
<1>3. ASSUME NEW w \in Workers,
             \/ \E f \in Files : File!ClaimProcessing(w, f)
             \/ File!Heartbeat(w) \/ File!Extract(w) \/ File!CompleteProcessing(w)
             \/ \E parse \in BOOLEAN : File!FailProcessing(w, parse)
             \/ File!CrashWorker(w)
      PROVE  FileInv'
  BY <1>3, ClaimProcessingInv, HeartbeatInv, ExtractInv, CompleteProcessingInv,
     FailProcessingInv, CrashWorkerInv
<1>4. ASSUME NEW f \in Files, File!ExpireLease(f) \/ File!Purge(f) PROVE FileInv'
  BY <1>4, ExpireLeaseInv, PurgeInv
<1>5. ASSUME NEW x \in Deleters,
             (\E f \in Files : File!LoadForDelete(x, f)) \/ File!DeleteFile(x)
      PROVE  FileInv'
  BY <1>5, LoadForDeleteInv, DeleteFileInv
<1>6. QED
  BY <1>1, <1>2, <1>3, <1>4, <1>5, ObjectsInv DEF File!Next

LEMMA FileAlways == File!Spec => []FileInv
  BY FileInit, FileNext, PTL DEF File!Spec

\* Every row of sources and files, every purge job and all that the workers and the
\* deletes of FileProcessing have in hand keep their types.
THEOREM FileTypeCorrect == File!Spec => []File!TypeOK
<1>1. FileInv => File!TypeOK
  BY DEF FileInv
<1>2. QED
  BY <1>1, FileAlways, PTL

\* ReadyIsReadable: whoever finds a source READY and not deleted finds its text, its chunks
\* once, and the segments of an active generation or, when the embeddings failed and it asks
\* by one, the legacy chunks: whatever the attempts, the workers that died and the deletes
\* that were under way.
THEOREM ProcessedFilesAreReadable == File!Spec => []ReadyIsReadable
<1>1. FileInv => ReadyIsReadable
  <2> SUFFICES ASSUME FileInv, NEW f \in Files, source[f].status = "READY", ~source[f].deleted
               PROVE  /\ source[f].text /\ source[f].chunks = 1
                      /\ \A query \in Queries :
                            ContextChunks(f, query) =
                               IF query = "embedding" /\ ~source[f].embedded
                               THEN "chunks" ELSE "segments"
    BY DEF ReadyIsReadable
  <2>1. StoryOK(source[f], file[f], uploading[f], purge[f])
    BY DEF FileInv
  <2>2. /\ source[f].text /\ source[f].chunks = 1 /\ file[f].active = 1
        /\ file[f].segments = IF source[f].embedded THEN "embedded" ELSE "plain"
    BY <2>1 DEF StoryOK, File!Segments
  <2>3. \A query \in Queries : AnsweredBySegments(file[f], query) <=>
                                   (query # "embedding" \/ source[f].embedded)
    BY <2>2 DEF AnsweredBySegments
  <2>4. QED
    BY <2>2, <2>3 DEF ContextChunks
<1>2. QED
  BY <1>1, FileAlways, PTL

\* A step in which the result of a source appears is that of the worker whose claim was
\* the source's last.
LEMMA PublishedStep ==
    ASSUME FileInv, [File!Next]_(File!fileVars), NEW f \in Files,
           source[f].status = "PENDING", source'[f].status = "READY"
    PROVE  \E w \in Workers :
              /\ at[w].pc = "parsed" /\ at'[w].pc = "idle"
              /\ at[w].file = f /\ at[w].attempt = source[f].attempts
<1>0. source \in [Files -> File!SourceRow] /\ File!None = None
  BY FileTypes
<1>1. ASSUME NEW w \in Workers, File!CompleteProcessing(w)
      PROVE  /\ at[w].pc = "parsed" /\ at'[w].pc = "idle"
             /\ at[w].file = f /\ at[w].attempt = source[f].attempts
  <2>1. File!Holds(w, at[w].file) /\ at[w].file = f
    <3> DEFINE g == at[w].file
    <3>1. \/ source' = source
          \/ File!Holds(w, g) /\ \E row : source' = [source EXCEPT ![g] = row]
      BY <1>1 DEF File!CompleteProcessing
    <3> HIDE DEF g
    <3>2. File!Holds(w, g) /\ g = f
      BY <1>0, <3>1
    <3>3. QED
      BY <3>2 DEF g
  <2>2. at[w].pc = "parsed" /\ at' = [at EXCEPT ![w] = File!Idle] /\ ClaimOK(w, at[w], source)
    BY <1>1 DEF File!CompleteProcessing, FileInv
  <2>3. at'[w].pc = "idle"
    BY <2>2, FileTypes DEF File!Idle
  <2>4. QED
    BY <2>1, <2>2, <2>3 DEF ClaimOK, File!Holds
<1>2. CASE source' = source
  BY <1>2
<1>3. ASSUME NEW g \in Files, NEW row, source' = [source EXCEPT ![g] = row],
             row.status = "READY" => row.status = source[g].status
      PROVE  FALSE
  BY <1>0, <1>3
<1>4. ASSUME NEW g \in Files, NEW processable \in BOOLEAN, File!CommitUpload(g, processable)
      PROVE  FALSE
  <2> DEFINE row == File!Uploaded(uploading[g], processable)
  <2>1. source' = [source EXCEPT ![g] = row]
    BY <1>4 DEF File!CommitUpload
  <2>2. row.status # "READY"
    BY DEF File!Uploaded, File!NoSource
  <2> HIDE DEF row
  <2>3. QED
    BY <1>3, <2>1, <2>2
<1>5. ASSUME NEW w \in Workers, NEW g \in Files, File!ClaimProcessing(w, g)
      PROVE  FALSE
  <2> DEFINE row == File!Claimed(source[g], w)
  <2>1. source' = [source EXCEPT ![g] = row]
    BY <1>5 DEF File!ClaimProcessing
  <2>2. row.status # "READY"
    BY <1>0 DEF File!Claimed, File!SourceRow
  <2> HIDE DEF row
  <2>3. QED
    BY <1>3, <2>1, <2>2
<1>6. ASSUME NEW w \in Workers, NEW parse \in BOOLEAN, File!FailProcessing(w, parse)
      PROVE  FALSE
  <2> DEFINE g == at[w].file
             retry == ~parse /\ at[w].attempt < MaxAttempts
             row == [source[g] EXCEPT !.status = "FAILED", !.owner = None, !.leased = FALSE,
                                      !.retry = retry]
  <2>1. g \in Files
    BY <1>6, InHand DEF File!FailProcessing
  <2>2. source' = IF File!Holds(w, g) THEN [source EXCEPT ![g] = row] ELSE source
    BY <1>0, <1>6 DEF File!FailProcessing
  <2> HIDE DEF g
  <2>3. row.status # "READY"
    BY <1>0, <2>1 DEF File!SourceRow
  <2> HIDE DEF row
  <2>4. QED
    BY <1>2, <1>3, <2>1, <2>2, <2>3
<1>7. ASSUME NEW w \in Workers, File!CrashWorker(w) \/ File!Heartbeat(w) \/ File!Extract(w)
      PROVE  FALSE
  <2> DEFINE g == at[w].file
  <2>1. g \in Files
    BY <1>7, InHand DEF File!CrashWorker, File!Heartbeat, File!Extract
  <2>2. \/ source' = source
        \/ source' = [source EXCEPT ![g].leased = TRUE]
        \/ source' = [source EXCEPT ![g].owner = IF @ = w THEN File!None ELSE @]
    BY <1>7 DEF File!CrashWorker, File!Heartbeat, File!Extract
  <2> HIDE DEF g
  <2>3. source'[f].status = source[f].status
    BY <1>0, <2>1, <2>2 DEF File!SourceRow
  <2>4. QED
    BY <2>3
<1>8. ASSUME NEW g \in Files, File!ExpireLease(g)
      PROVE  FALSE
  BY <1>0, <1>8 DEF File!ExpireLease, File!SourceRow
<1>9. ASSUME NEW x \in Deleters, File!DeleteFile(x)
      PROVE  FALSE
  <2> DEFINE g == deleting[x].file
             row == File!MarkedDeleted(source[g], deleting[x])
  <2>1. g \in Files /\ source' = [source EXCEPT ![g] = row]
    BY <1>9, FileTypes DEF File!DeleteFile, File!Delete
  <2>2. row.status \in {source[g].status, "FAILED"}
    <3>1. source[g] \in File!SourceRow
      BY <1>0, <2>1
    <3> HIDE DEF g
    <3>2. CASE deleting[x].status = "FAILED"
      BY <3>1, <3>2 DEF File!MarkedDeleted, File!SourceRow
    <3>3. CASE deleting[x].status # "FAILED"
      BY <3>1, <3>3 DEF File!MarkedDeleted, File!SourceRow
    <3> QED BY <3>2, <3>3
  <2> HIDE DEF g, row
  <2>3. QED
    BY <1>3, <2>1, <2>2
<1>10. ASSUME source' # source
       PROVE  \/ \E w \in Workers :
                    \/ File!CompleteProcessing(w)
                    \/ \E g \in Files : File!ClaimProcessing(w, g)
                    \/ \E parse \in BOOLEAN : File!FailProcessing(w, parse)
                    \/ File!CrashWorker(w) \/ File!Heartbeat(w) \/ File!Extract(w)
              \/ \E g \in Files : \/ File!ExpireLease(g)
                                  \/ \E processable \in BOOLEAN : File!CommitUpload(g, processable)
              \/ \E x \in Deleters : File!DeleteFile(x)
  BY <1>10
     DEF File!Next, File!fileVars, File!UploadStep, File!StoreObject, File!AbortUpload,
         File!CrashUpload, File!LoadForDelete, File!Purge, File!DeleteObject,
         File!DeleteObjectFails, File!BeginScan, File!EndScan
<1>11. QED
  BY <1>1, <1>2, <1>4, <1>5, <1>6, <1>7, <1>8, <1>9, <1>10

\* PublishedByClaimant: complete_processing compares the owner and not the lease, and yet
\* the worker whose step publishes the result of a source made its last attempt: a result
\* is never that of an attempt that another claim has followed.
THEOREM ResultsByClaimant == File!Spec => PublishedByClaimant
<1> DEFINE P == \A f \in Files :
                    source[f].status = "PENDING" /\ source'[f].status = "READY" =>
                        \E w \in Workers :
                            /\ at[w].pc = "parsed" /\ at'[w].pc = "idle"
                            /\ at[w].file = f /\ at[w].attempt = source[f].attempts
<1>1. FileInv /\ [File!Next]_(File!fileVars) => [P]_fileVars
  BY PublishedStep DEF fileVars, File!fileVars
<1>2. QED
  BY <1>1, FileAlways, PTL DEF File!Spec, PublishedByClaimant, fileVars, File!fileVars
=============================================================================
