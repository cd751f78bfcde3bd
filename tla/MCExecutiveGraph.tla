--------------------------- MODULE MCExecutiveGraph ---------------------------
(* Instances of ExecutiveGraph for TLC. *)
EXTENDS ExecutiveGraph, SequencesExt

CONSTANTS w1, w2

Call(tool, arg, sure, source, cites) ==
    [tool |-> tool, arg |-> arg, confirmed |-> sure, is_primary |-> TRUE,
     source |-> source, cites |-> cites]

Search == Call("search_web", 1, FALSE, FALSE, FALSE)
Read == Call("state_get_overview", 1, FALSE, FALSE, FALSE)
Create == Call("thing_create", 1, FALSE, FALSE, FALSE)
Delete(arg) == Call("thing_delete", arg, FALSE, FALSE, FALSE)

\* One worker after the other: a search, a read, two writes that differ in their arguments
\* only, two sensitive calls that do, and deadlines with and without evidence.
ManyCalls ==
    {Search, Read, Delete(1), Delete(2), Create, Call("thing_create", 2, FALSE, FALSE, FALSE),
     Call("thing_date_set", 1, TRUE, FALSE, TRUE),
     Call("thing_date_set", 1, TRUE, TRUE, FALSE)}

\* A good batch, one with a repeated call, one that writes, one too large.
ManyBatches ==
    {<<Search, Read>>, <<Read, Read>>, <<Read, Delete(1)>>, <<Search, Read, Read>>}

\* Two workers at once are followed through three invocations
\* (or two and a crash) and two handlers, with these calls.
FewCalls == {Read, Delete(1), Delete(2)}

FewAtOnce ==
    overlaps > 0 =>
        /\ invocations + crashes <= 3
        /\ \A e \in executed : e.call \in FewCalls
        /\ Cardinality(executed) <= 2
        /\ \A w \in AgentWorkers :
             /\ ~mem[w].st.prefetched
             /\ ToSet(mem[w].st.decision) \subseteq FewCalls
             /\ \A i \in DOMAIN mem[w].st.pending : mem[w].st.pending[i].call \in FewCalls

AnyWorker == Permutations({w1, w2})

\* Unique returns what the loop of validate_parallel_batch collects: it goes through the
\* calls and appends those it has not seen yet.
ASSUME UniqueIsTheLoop ==
    \A calls \in UNION {[1..n -> 1..3] : n \in 0..5} :
        Unique(calls) = FoldLeft(LAMBDA kept, c : IF Contains(kept, c) THEN kept
                                                  ELSE Append(kept, c), <<>>, calls)
=============================================================================
