\* One notification to two endpoints, two push workers that die or overtake each other.
SPECIFICATION FairSpec
CONSTANTS
    i1 = i1  e1 = e1  e2 = e2  w1 = w1  w2 = w2
    Nobody = Nobody
    MaxAttempts = 2
    LeaseTicks = 1
    Lag = 0
    Intents = {i1}
    Endpoints = {e1, e2}
    Workers = {w1, w2}
    MaxSwitches = 2
INVARIANTS AcceptedIsTrue SubmissionsBounded
PROPERTIES EveryPushEnds
