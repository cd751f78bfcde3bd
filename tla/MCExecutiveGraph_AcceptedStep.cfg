SPECIFICATION Spec
CHECK_DEADLOCK FALSE
CONSTANTS
    w1 = w1
    w2 = w2
    AgentWorkers = {w1, w2}
    Calls <- ManyCalls
    Batches <- ManyBatches
    MaxDecisions = 3
    MaxToolCalls = 2
    MaxSearches = 2
    ParallelReadMax = 2
    MaxCrashes = 1
    MaxOverlaps = 0
PROPERTY AcceptedStepContinues
