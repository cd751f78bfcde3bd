\* A tool is claimed between the two transactions of a cancellation.
SPECIFICATION Spec
CONSTANTS
    w1 = w1  w2 = w2  a1 = a1  a2 = a2  a3 = a3  a4 = a4
    RunLease = 1
    Workers = {w1, w2}
    Actions = {a1, a2, a3, a4}
    Kind <- KindOf
    ToolLease = 1
    MaxClaims = 2
PROPERTIES CancelWaitsForTools
