----------------------------- MODULE GraphState -----------------------------
(***************************************************************************)
(* What the Executive Graph of one run remembers, in its checkpoint, in the   *)
(* processes that run it and in the ledger, and what must hold of it.  The   *)
(* steps are in ExecutiveGraph.                                              *)
(***************************************************************************)
EXTENDS Integers, Sequences, FiniteSets

CONSTANTS
    AgentWorkers,
    Calls,              \* tool calls the model may propose
    Batches,            \* sequences of calls it may propose at once
    MaxDecisions,       \* budget max_model_steps
    MaxToolCalls,       \* budget max_tool_actions
    MaxSearches,        \* budget max_search_queries
    ParallelReadMax,    \* parallel_read_max
    MaxCrashes,         \* bound: process deaths
    MaxOverlaps         \* bound: takeovers of a run whose worker still lives

Tools == {"search_web", "state_get_overview", "thing_create", "thing_date_set",
          "thing_delete"}

\* A call: the tool, its arguments up to what the policy reads of them, and arg
\* for all the rest.
CallType ==
    [tool: Tools, arg: Nat, confirmed: BOOLEAN, is_primary: BOOLEAN,
     source: BOOLEAN, cites: BOOLEAN]

ASSUME CallsAssumption ==
    /\ Calls \subseteq CallType
    /\ Batches \subseteq Seq(Calls)
    /\ {MaxDecisions, MaxToolCalls, MaxSearches, ParallelReadMax, MaxCrashes, MaxOverlaps}
         \subseteq Nat

VARIABLES
    g,          \* newest checkpoint: GraphState and the next node
    asking,     \* an interrupt is pending at the newest checkpoint
    mem,        \* the invocation of each worker: its own copy of the GraphState,
                \* whether that is the newest, the resume value, results so far
    runRow,     \* the row of the run: status, holder, question, resume_payload
    ledger,     \* tool executions by action id
    executed,   \* history: calls whose handler ran, with action id and invocation
    confirmed,  \* history: calls confirmed, by which invocation, and whether the
                \* user was asked about them
    found,      \* history: a search of this run returned the cited URL
    lost,       \* history: handlers that ran in a node whose checkpoint a crash lost
    invocations, crashes, overlaps

Risk(tool) ==
    CASE tool \in {"search_web", "state_get_overview"} -> "READ"
      [] tool = "thing_create" -> "REVERSIBLE_WRITE"
      [] tool = "thing_date_set" -> "SENSITIVE_WRITE"
      [] tool = "thing_delete" -> "IRREVERSIBLE"

-----------------------------------------------------------------------------
(* Properties *)

\* An action id stands for one call.  A restart numbers its actions from 0
\* again, so the ids of the first attempt come back with what the model decides
\* now, while another worker may still be at the first attempt; no handler may
\* then run under the id of another call.
OneCallPerAction ==
    \A e, f \in executed : e.id = f.id => e.call = f.call

\* A sensitive call reaches its handler after this very call was confirmed under
\* this very action id or, a confirmed deadline, with a source or a URL that a
\* search of the run has returned.  An invocation takes one confirmation from the
\* answer it is given.  That answer is the one to the question of this action, with
\* two exceptions: after a crash the last answer goes with the next invocation, and
\* a confirmation not yet put takes it, once for each crash; and once a live worker
\* has been taken over, its late checkpoints may change what an answer reaches.
SensitiveIsConfirmed ==
    /\ \A e \in executed :
         \/ Risk(e.call.tool) \in {"READ", "REVERSIBLE_WRITE"}
         \/ \E c \in confirmed : c.id = e.id /\ c.call = e.call
         \/ e.call.confirmed /\ (e.call.source \/ (e.call.cites /\ found))
    /\ \A c, d \in confirmed : c.by = d.by => c = d
    /\ overlaps = 0 => Cardinality({c \in confirmed : ~c.asked}) <= crashes

\* The checkpoint's counters never pass the budgets, and no invocation runs more
\* handlers than the tool budget, whoever else is at work.  As long as no live
\* worker has been taken over, the budget bounds the run over all its restarts: the
\* handlers that ran exceed it only by those whose node a crash kept from its
\* checkpoint.  (A worker that was taken over writes its older counters over its
\* successor's, so after that the budget is kept by each invocation only.)
BudgetsKept ==
    /\ g.decisions <= MaxDecisions
    /\ g.calls <= MaxToolCalls
    /\ \A n \in 1..invocations : Cardinality({e \in executed : e.by = n}) <= MaxToolCalls
    /\ overlaps = 0 => Cardinality(executed) <= MaxToolCalls + lost
=============================================================================
