SPECIFICATION Spec
CHECK_DEADLOCK FALSE
SYMMETRY AnyWorker
CONSTRAINT FewAtOnce
CONSTANTS
    w1 = w1
    w2 = w2
    AgentWorkers = {w1, w2}
    Calls <- ManyCalls
    Batches <- ManyBatches
    MaxDecisions = 2
    MaxToolCalls = 2
    MaxSearches = 2
    ParallelReadMax = 2
    MaxCrashes = 2
    MaxOverlaps = 1
INVARIANTS OneCallPerAction SensitiveIsConfirmed BudgetsKept
