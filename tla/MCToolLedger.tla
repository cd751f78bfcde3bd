---------------------------- MODULE MCToolLedger ----------------------------
(***************************************************************************)
(* Small instances of ToolLedger: one action of each kind, any two of which  *)
(* are used (actions meet only in the workers that take them up).            *)
(***************************************************************************)
EXTENDS ToolLedger, FiniteSets, TLC

CONSTANTS w1, w2, a1, a2, a3, a4

KindOf == a1 :> "atomic" @@ a2 :> "external" @@ a3 :> "noting" @@ a4 :> "keyed"
TwoActionsUsed == Cardinality({a \in Actions : exec[a].status # "ABSENT"}) <= 2
Symmetry == Permutations({w1, w2})
=============================================================================
