\* A job uses up its deliveries while its run is RUNNING.
SPECIFICATION Spec
CONSTANTS
    r1 = r1  w1 = w1  w2 = w2
    Nobody = Nobody
    MaxAttempts = 2
    LeaseTicks = 1
    Lag = 0
    RunLease = 1
    Runs = {r1}
    Workers = {w1, w2}
    BatchSize = 1
    MaxQuestions = 2
INVARIANTS ExhaustionFailsRun
