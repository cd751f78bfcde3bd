SPECIFICATION Spec
CONSTANTS
    Things = {t1, t2, t3}
    Existing = {t1, t2}
    Tasks = {k1}
    Dates = {d1, d2}
    Entries = {e1}
    Blockers = {b1}
    Kinds = {K1}
    Values = {v1, v2}
    Clients = {c1, c2}
    MaxRequests = 3
SYMMETRY Symmetry
CHECK_DEADLOCK FALSE
INVARIANTS
    EveryVersionAudited
    DeadlineHasDate
