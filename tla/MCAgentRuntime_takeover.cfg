\* Two processes and one run: it is taken over, resumed and cancelled at every
\* point, under the fairness of scanners, clock and executions.
SPECIFICATION FairSpec
CONSTANTS
    r1 = r1  w1 = w1  w2 = w2
    Nobody = Nobody
    MaxAttempts = 2
    LeaseTicks = 1
    Lag = 0
    RunLease = 2
    Runs = {r1}
    Workers = {w1, w2}
    BatchSize = 1
    MaxQuestions = 2
INVARIANTS WaitingIsAnswerable JobFollowsRun NotStranded
PROPERTIES MovedByHolder ImplementsLifecycle RunsGetAnywhere
