SPECIFICATION Spec
CONSTANTS
    MemoryIds = {m1, m2, m3}
    Contents = {c1, c2}
    ProfileKeys = {p1}
    ProfileKey <- OneKey
    Runs = {r1}
    Workers = {w1, w2}
    Clients = {u1}
    MaxCandidates = 1
    MaxClaims = 2
    MaxRequests = 2
SYMMETRY Symmetry
CHECK_DEADLOCK FALSE
INVARIANTS
    OneActiveProfile
    FormedOnce
PROPERTIES
    ForgottenIsFinal
