SPECIFICATION Spec
CONSTANTS
    Things = {t1, t2}
    Existing = {t1, t2}
    Tasks = {}
    Dates = {}
    Entries = {}
    Blockers = {}
    Kinds = {K1}
    Values = {v1}
    Clients = {c1, c2}
    MaxRequests = 2
SYMMETRY Symmetry
CHECK_DEADLOCK FALSE
INVARIANT
    RedirectsResolve
