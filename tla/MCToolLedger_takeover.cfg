\* Two workers take the run over from each other in the middle of a mutation (one that commits
\* with its receipt, one that commits before it), an external call and a read that records what
\* it saw, and a user cancels.
SPECIFICATION Spec
CONSTANTS
    w1 = w1  w2 = w2  a1 = a1  a2 = a2  a3 = a3  a4 = a4
    RunLease = 1
    Workers = {w1, w2}
    Actions = {a1, a2, a3, a4}
    Kind <- KindOf
    ToolLease = 1
    MaxClaims = 2
CONSTRAINT TwoActionsUsed
SYMMETRY Symmetry
INVARIANTS AtMostOnce ReceiptIsTrue
