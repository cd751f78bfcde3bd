---------------------------- MODULE ExecutiveGraph ----------------------------
(***************************************************************************)
(* The Executive Graph of one run (agent/graph.py): the model decides, the *)
(* policy judges the tool calls, the user confirms, the tools run through  *)
(* the ledger, and LangGraph writes a checkpoint after every node.  The    *)
(* process may die anywhere, or lose its lease and go on: the next worker  *)
(* takes the run and invokes the graph again, with the input or with the   *)
(* user's last answer, while its predecessor still runs on a copy of its   *)
(* own and writes checkpoints that nothing fences.                         *)
(***************************************************************************)
EXTENDS GraphState

counters == <<lost, invocations, crashes, overlaps>>
vars == <<g, asking, mem, runRow, ledger, executed, confirmed, found, counters>>

IsSearch(call) == call.tool = "search_web"

\* The action id is a digest of the number of results, the place in a batch (0:
\* not a batch) and the tool's name.
ActionId(index, place, call) == <<index, place, call.tool>>

Nodes == {"start", "executive", "respond", "ask_user", "policy", "parallel_policy",
          "confirmation", "execute", "parallel_execute", "done"}
ActionIds == Nat \X Nat \X Tools
Step == [id: ActionIds, call: Calls]
Checkpoint ==
    [node: Nodes, decision: Seq(Calls), pending: Seq(Step),
     results: Nat, searches: Nat, urls: BOOLEAN, decisions: Nat, calls: Nat,
     prefetched: BOOLEAN]
Execution ==
    [call: Calls, by: Nat, state: {"IN_PROGRESS", "DONE"}, url: BOOLEAN]

\* An answer and the sensitive step it was asked for ({}: a question of another kind).
Answer == [answer: {"none", "confirm", "other"}, to: SUBSET Step]
NoAnswer == [answer |-> "none", to |-> {}]

\* How far the node's calls are.
Progress == {"untried", "claiming", "running", "saving", "result", "raised"}
Invocation ==
    [alive: BOOLEAN, n: Nat, st: Checkpoint, newest: BOOLEAN, given: Answer,
     got: Seq(Progress)]
Run ==
    [status: {"open", "waiting", "answered", "over"}, holder: SUBSET AgentWorkers,
     question: SUBSET Step, payload: Answer]

TypeOK ==
    /\ g \in Checkpoint /\ asking \in BOOLEAN
    /\ mem \in [AgentWorkers -> Invocation]
    /\ \A w \in AgentWorkers : DOMAIN mem[w].got = DOMAIN mem[w].st.pending
    /\ runRow \in Run
    /\ DOMAIN ledger \subseteq ActionIds
    /\ \A id \in DOMAIN ledger : ledger[id] \in Execution
    /\ executed \subseteq [id: ActionIds, call: Calls, by: Nat]
    /\ confirmed \subseteq [id: ActionIds, call: Calls, by: Nat, asked: BOOLEAN]
    /\ found \in BOOLEAN
    /\ lost \in Nat /\ invocations \in Nat /\ crashes \in Nat /\ overlaps \in Nat

Blank == [node |-> "start", decision |-> <<>>, pending |-> <<>>, results |-> 0,
          searches |-> 0, urls |-> FALSE, decisions |-> 0, calls |-> 0,
          prefetched |-> FALSE]

Idle == [alive |-> FALSE, n |-> 0, st |-> Blank, newest |-> FALSE, given |-> NoAnswer,
         got |-> <<>>]

Init ==
    /\ g = Blank /\ asking = FALSE
    /\ mem = [w \in AgentWorkers |-> Idle]
    /\ runRow = [status |-> "open", holder |-> {}, question |-> {}, payload |-> NoAnswer]
    /\ ledger = [id \in {} |-> <<>>]
    /\ executed = {} /\ confirmed = {} /\ found = FALSE
    /\ lost = 0 /\ invocations = 0 /\ crashes = 0 /\ overlaps = 0

History == <<ledger, executed, confirmed, found>>

-----------------------------------------------------------------------------
(* Checkpoints, and the ends of an invocation *)

\* LangGraph writes checkpoint s for worker w, as the newest of the thread: whatever
\* other workers go on with is not the newest any more.
Writes(w, s, invocation) ==
    /\ g' = s /\ asking' = FALSE
    /\ mem' = [v \in AgentWorkers |-> IF v = w THEN invocation
                                 ELSE [mem[v] EXCEPT !.newest = FALSE]]

\* Worker w's invocation at checkpoint s, with the resume value given.
Running(n, s, given) ==
    [alive |-> TRUE, n |-> n, st |-> s, newest |-> TRUE, given |-> given,
     got |-> [i \in DOMAIN s.pending |-> "untried"]]

\* A node ends; only the first node of an invocation sees the resume value.
Advance(w, next) == Writes(w, next, Running(mem[w].n, next, NoAnswer))

\* The calls of the node that have come to their handler, or that have failed.
Ran(w) == {i \in DOMAIN mem[w].got : mem[w].got[i] \notin {"untried", "claiming"}}

EndsInvocation(w) == mem' = [mem EXCEPT ![w] = Idle]

\* What the worker does to the run after the graph is fenced: it counts only as
\* long as the worker holds the run, otherwise the exception ends run_once.
IfHolder(w, row) == runRow' = IF w \in runRow.holder THEN row ELSE runRow

Closed == [runRow EXCEPT !.status = "over", !.holder = {}]

\* An exception of a node: the worker fails the run.  No checkpoint is written.
Raise(w) == EndsInvocation(w) /\ IfHolder(w, Closed) /\ UNCHANGED <<g, asking>>

\* Back to the model, which decides anew; what was pending is not looked at again.
ToModel(s) == [s EXCEPT !.node = "executive", !.decision = <<>>, !.pending = <<>>,
                        !.prefetched = FALSE]

\* The results of a step that ran no tool; of a search even this one is counted.
Refused(s, call) ==
    [ToModel(s) EXCEPT !.results = @ + 1,
              !.searches = @ + (IF IsSearch(call) THEN 1 ELSE 0)]

\* The sensitive step an interrupt at s asks about.
Question(s) == IF s.node = "confirmation" THEN {s.pending[1]} ELSE {}

Waiting(question) ==
    [runRow EXCEPT !.status = "waiting", !.holder = {}, !.question = question]

-----------------------------------------------------------------------------
(* The worker's invocations *)

\* Faulty: the input carries the counters too.
RestartedFromZero(s) ==
    [ToModel(s) EXCEPT !.results = 0, !.searches = 0, !.urls = FALSE, !.calls = 0]

\* ainvoke(initial): LangGraph starts from START with the input's values; the
\* counters are not among them and stay what the checkpoint says.
Restarted(s) == [ToModel(s) EXCEPT !.results = 0, !.searches = 0, !.urls = FALSE]

\* claim_run: a run is taken when nobody holds it or its lease has run out, which the
\* death of its worker leads to, or a worker that is late with its heartbeats.
Takes(w) ==
    /\ runRow.status \in {"open", "answered"} /\ ~mem[w].alive
    /\ overlaps' = overlaps + (IF \E v \in runRow.holder : mem[v].alive THEN 1 ELSE 0)
    /\ overlaps' <= MaxOverlaps

HeldBy(w) == [runRow EXCEPT !.status = "open", !.holder = {w}]

Invoke(w) ==
    /\ Takes(w) /\ ~asking /\ g.node # "done"
    /\ runRow.payload = NoAnswer
    /\ Writes(w, Restarted(g), Running(invocations + 1, Restarted(g), NoAnswer))
    /\ runRow' = HeldBy(w)
    /\ invocations' = invocations + 1
    /\ UNCHANGED <<History, lost, crashes>>

\* A run with an answer is invoked with Command(resume=payload), which goes on
\* from the newest checkpoint's next node.  A worker with a checkpoint inspector
\* asks again first, even when the answer is new (AgentRuntime!AnsweredOnce).
Continue(w) ==
    /\ Takes(w) /\ (asking => runRow.status = "answered") /\ g.node # "done"
    /\ runRow.payload # NoAnswer
    /\ mem' = [mem EXCEPT ![w] = Running(invocations + 1, g, runRow.payload)]
    /\ runRow' = HeldBy(w)
    /\ invocations' = invocations + 1
    /\ UNCHANGED <<g, asking, History, lost, crashes>>

\* The worker looks at the checkpoint first: a pending interrupt is put to the user
\* (again), a response is made the run's.
Inspect(w) ==
    /\ Takes(w)
    /\ \/ runRow.status = "open" /\ asking /\ runRow' = Waiting(Question(g))
       \/ g.node = "done" /\ runRow' = Closed
    /\ UNCHANGED <<g, asking, mem, History, lost, invocations, crashes>>

\* The user answers the question of a waiting run.
UserAnswers(response) ==
    /\ runRow.status = "waiting"
    /\ runRow' = [runRow EXCEPT !.status = "answered", !.question = {},
                          !.payload = [answer |-> response, to |-> runRow.question]]
    /\ UNCHANGED <<g, asking, mem, History, counters>>

Crash(w) ==
    /\ mem[w].alive /\ crashes < MaxCrashes
    /\ EndsInvocation(w)
    /\ crashes' = crashes + 1
    /\ lost' = lost + Cardinality(Ran(w))
    /\ UNCHANGED <<g, asking, runRow, History, invocations, overlaps>>

At(w, node) == mem[w].alive /\ mem[w].st.node = node

-----------------------------------------------------------------------------
(* The nodes *)

\* executive: the context is assembled anew and the model decides, within the
\* decision budget.
Decide(w, route, calls) ==
    /\ At(w, "executive") /\ mem[w].st.decisions < MaxDecisions
    /\ \E deadline \in BOOLEAN :
         Advance(w, [mem[w].st EXCEPT !.node = route, !.decision = calls,
                                      !.decisions = @ + 1, !.prefetched = deadline])
    /\ UNCHANGED <<runRow, History, counters>>

\* Over the decision or the token budget, or the gateway fails.
DecideFails(w) ==
    /\ At(w, "executive")
    /\ Raise(w)
    /\ UNCHANGED <<History, counters>>

\* The response is checkpointed; it is the run's when the worker still holds it.
Respond(w) ==
    /\ At(w, "respond")
    /\ Writes(w, [mem[w].st EXCEPT !.node = "done"], Idle)
    /\ IfHolder(w, Closed)
    /\ UNCHANGED <<History, counters>>

\* interrupt(): without a resume value it is recorded with the worker's checkpoint and
\* the invocation returns to the worker, which makes the run wait for its user.
Interrupt(w) ==
    /\ At(w, "ask_user") \/ At(w, "confirmation")
    /\ mem[w].given = NoAnswer
    /\ asking' = (asking \/ mem[w].newest)
    /\ EndsInvocation(w)
    /\ IfHolder(w, Waiting(Question(mem[w].st)))
    /\ UNCHANGED <<g, History, counters>>

AskUser(w) ==
    /\ At(w, "ask_user") /\ mem[w].given # NoAnswer
    /\ Advance(w, ToModel(mem[w].st))
    /\ UNCHANGED <<runRow, History, counters>>

HasEvidence(s, call) == call.source \/ (call.cites /\ s.urls)

\* Faulty: the irreversible tools are forgotten.
NeedsConfirmationIfSensitive(tool) == Risk(tool) = "SENSITIVE_WRITE"

NeedsConfirmation(tool) == Risk(tool) \in {"SENSITIVE_WRITE", "IRREVERSIBLE"}

\* ToolPolicy.evaluate
Evaluate(s, call) ==
    IF IsSearch(call) THEN
        IF s.searches >= MaxSearches THEN "DENY" ELSE "ALLOW"
    ELSE IF call.tool = "thing_date_set" /\ call.confirmed /\ call.is_primary
            /\ ~HasEvidence(s, call) THEN "REQUIRE_MORE_CONTEXT"
    ELSE IF call.tool = "thing_date_set" /\ call.confirmed /\ HasEvidence(s, call)
            /\ ~(call.is_primary /\ s.prefetched) THEN "ALLOW"
    ELSE IF NeedsConfirmation(call.tool) THEN "REQUIRE_CONFIRMATION"
    ELSE "ALLOW"

\* What the policy makes of the first call of the decision.
Judged(s) ==
    LET call == s.decision[1]
        verdict == Evaluate(s, call)
    IN  IF verdict \in {"DENY", "REQUIRE_MORE_CONTEXT"} THEN Refused(s, call)
        ELSE [s EXCEPT !.pending = <<[id |-> ActionId(s.results, 0, call), call |-> call]>>,
                       !.node = IF verdict = "ALLOW" THEN "execute" ELSE "confirmation"]

Policy(w) ==
    /\ At(w, "policy")
    /\ Advance(w, Judged(mem[w].st))
    /\ UNCHANGED <<runRow, History, counters>>

Confirmation(w) ==
    LET s == mem[w].st
        a == s.pending[1]
        yes == mem[w].given.answer = "confirm"
    IN  /\ At(w, "confirmation") /\ mem[w].given # NoAnswer
        /\ Advance(w, IF yes THEN [s EXCEPT !.node = "execute"] ELSE Refused(s, a.call))
        /\ confirmed' = confirmed \cup
                            (IF yes THEN {[id |-> a.id, call |-> a.call, by |-> mem[w].n,
                                           asked |-> mem[w].given.to = {a}]}
                                    ELSE {})
        /\ UNCHANGED <<runRow, ledger, executed, found, counters>>

\* Where a call of the batch occurs for the first time.
FirstAt(calls) == {i \in DOMAIN calls : \A j \in 1..(i - 1) : calls[j] # calls[i]}

Position(first, n) == CHOOSE i \in first : Cardinality({j \in first : j <= i}) = n

\* The calls of the batch, each once, in the order of their first occurrences.
Unique(calls) ==
    LET first == FirstAt(calls)
    IN  [n \in 1..Cardinality(first) |-> calls[Position(first, n)]]

Searches(calls) == Cardinality({i \in DOMAIN calls : IsSearch(calls[i])})

\* validate_parallel_batch
ValidBatch(s, calls) ==
    /\ Len(calls) \in 1..ParallelReadMax
    /\ s.calls + Len(calls) <= MaxToolCalls
    /\ \A i \in DOMAIN calls : Risk(calls[i].tool) = "READ"
    /\ Searches(Unique(calls)) <= 2
    /\ s.searches + Searches(Unique(calls)) <= MaxSearches

\* A batch that is refused leaves one result; of a valid one the policy, reading
\* the same counters, allows every call.
JudgedBatch(s) ==
    LET unique == Unique(s.decision) IN
    IF ValidBatch(s, s.decision)
    THEN [s EXCEPT !.node = "parallel_execute",
                   !.pending = [i \in DOMAIN unique |->
                                  [id |-> ActionId(s.results, i, unique[i]), call |-> unique[i]]]]
    ELSE [ToModel(s) EXCEPT !.results = @ + 1]

ParallelPolicy(w) ==
    /\ At(w, "parallel_policy")
    /\ Advance(w, JudgedBatch(mem[w].st))
    /\ UNCHANGED <<runRow, History, counters>>

-----------------------------------------------------------------------------
(* Execution *)

Executing(w) == At(w, "execute") \/ At(w, "parallel_execute")

WithinToolBudget(s) == s.calls + Len(s.pending) <= MaxToolCalls

OverToolBudget(w) ==
    /\ Executing(w) /\ ~WithinToolBudget(mem[w].st)
    /\ Raise(w)
    /\ UNCHANGED <<History, counters>>

\* Call i of the node's is at one of these places; got says what becomes of it.
AtCall(w, i, place) == Executing(w) /\ mem[w].got[i] = place

Got(w, i, place) == mem' = [mem EXCEPT ![w].got[i] = place]

\* The transactions of claim and complete begin by reading who holds the run.
Checks(w, i, place) ==
    /\ Got(w, i, IF w \in runRow.holder THEN place ELSE "raised")
    /\ UNCHANGED <<g, asking, runRow, History, counters>>

BeginClaim(w, i) ==
    /\ AtCall(w, i, "untried") /\ WithinToolBudget(mem[w].st)
    /\ Checks(w, i, "claiming")

\* Faulty: the arguments' hash is not compared.
SameTool(row, call) == row.call.tool = call.tool

\* Tool and arguments' hash are those of the execution recorded under the id.
SameAction(row, call) == row.call = call

Row(w, a) == [call |-> a.call, by |-> mem[w].n, state |-> "IN_PROGRESS", url |-> FALSE]

\* The ledger takes the action (a new one, or one whose lease has expired) and
\* the handler runs.
Start(w, i) ==
    LET a == mem[w].st.pending[i] IN
    /\ AtCall(w, i, "claiming")
    /\ a.id \in DOMAIN ledger =>
         SameAction(ledger[a.id], a.call) /\ ledger[a.id].state = "IN_PROGRESS"
    /\ ledger' = [id \in DOMAIN ledger \cup {a.id} |->
                    IF id = a.id THEN Row(w, a) ELSE ledger[id]]
    /\ executed' = executed \cup {[id |-> a.id, call |-> a.call, by |-> mem[w].n]}
    /\ Got(w, i, "running")
    /\ UNCHANGED <<g, asking, runRow, confirmed, found, counters>>

\* The receipt of an earlier execution stands in for the call.
Cached(w, i) ==
    LET a == mem[w].st.pending[i] IN
    /\ AtCall(w, i, "claiming") /\ a.id \in DOMAIN ledger
    /\ SameAction(ledger[a.id], a.call) /\ ledger[a.id].state = "DONE"
    /\ Got(w, i, "result")
    /\ UNCHANGED <<g, asking, runRow, History, counters>>

BeginFinish(w, i) == AtCall(w, i, "running") /\ Checks(w, i, "saving")

\* The result is recorded in the ledger, under the token of this claim.
Finish(w, i, url) ==
    LET a == mem[w].st.pending[i] IN
    /\ AtCall(w, i, "saving")
    /\ ledger[a.id].by = mem[w].n /\ ledger[a.id].state = "IN_PROGRESS"
    /\ url => IsSearch(a.call)
    /\ ledger' = [ledger EXCEPT ![a.id] = [@ EXCEPT !.state = "DONE", !.url = url]]
    /\ found' = (found \/ url)
    /\ Got(w, i, "result")
    /\ UNCHANGED <<g, asking, runRow, executed, confirmed, counters>>

\* The action is another worker's still, its id stands for another call, its token
\* is another's by now; or the handler or the ledger raises and the execution stays open.
Throw(w, i) ==
    /\ \E place \in {"claiming", "running", "saving"} : AtCall(w, i, place)
    /\ Got(w, i, "raised")
    /\ UNCHANGED <<g, asking, runRow, History, counters>>

AllGot(w) ==
    /\ Executing(w) /\ WithinToolBudget(mem[w].st)
    /\ \A i \in DOMAIN mem[w].got : mem[w].got[i] \in {"result", "raised"}

\* The node's result: one entry per call and, for a batch, one more that names
\* its tools, so that a search of a batch is counted twice.
WithResults(s, got) ==
    LET calls == [i \in DOMAIN s.pending |-> s.pending[i].call]
        batch == s.node = "parallel_execute"
    IN [ToModel(s) EXCEPT
                 !.results = @ + Len(calls) + (IF batch THEN 1 ELSE 0),
                 !.searches = @ + Searches(calls) * (IF batch THEN 2 ELSE 1),
                 !.urls = @ \/ \E i \in DOMAIN calls :
                                 got[i] = "result" /\ ledger[s.pending[i].id].url,
                 !.calls = @ + Len(calls)]

\* execute lets an exception out; parallel_execute makes it a failed result.
Collect(w) ==
    /\ AllGot(w)
    /\ IF mem[w].st.node = "execute" /\ mem[w].got[1] = "raised"
       THEN Raise(w)
       ELSE Advance(w, WithResults(mem[w].st, mem[w].got)) /\ UNCHANGED runRow
    /\ UNCHANGED <<History, counters>>

-----------------------------------------------------------------------------
NodeStep(w) ==
    \/ DecideFails(w) \/ Respond(w) \/ Interrupt(w) \/ AskUser(w)
    \/ \E route \in {"respond", "ask_user"} : Decide(w, route, <<>>)
    \/ \E call \in Calls : Decide(w, "policy", <<call>>)
    \/ \E calls \in Batches : Decide(w, "parallel_policy", calls)
    \/ Policy(w) \/ Confirmation(w) \/ ParallelPolicy(w)
    \/ OverToolBudget(w) \/ Collect(w)

CallStep(w, i) ==
    \/ BeginClaim(w, i) \/ Start(w, i) \/ Cached(w, i) \/ BeginFinish(w, i) \/ Throw(w, i)
    \/ \E url \in BOOLEAN : Finish(w, i, url)

Next ==
    \/ \E w \in AgentWorkers :
         \/ Invoke(w) \/ Continue(w) \/ Inspect(w) \/ Crash(w)
         \/ NodeStep(w)
         \/ \E i \in DOMAIN mem[w].st.pending : CallStep(w, i)
    \/ \E response \in {"confirm", "other"} : UserAnswers(response)

Spec == Init /\ [][Next]_vars

-----------------------------------------------------------------------------
(* Properties *)

\* Runtime design, section 15: after a checkpoint a crash must go on with the
\* checkpointed action, recovery does not make the model think again.  The model
\* is asked again only when the accepted step has left its result.
AcceptedStepContinues ==
    [][g.node \in {"policy", "parallel_policy", "confirmation", "execute", "parallel_execute"}
       /\ g'.node = "executive"
         => g'.results > g.results]_vars
=============================================================================
