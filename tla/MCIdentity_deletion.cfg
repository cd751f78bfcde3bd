SPECIFICATION FairSpec
CONSTANTS
    Subjects = {s1, s2}
    Devices = {d1}
    Handlers = {h1, h2}
    None = None
    MaxSessions = 2
CHECK_DEADLOCK FALSE
INVARIANT EndpointFollowsOwner
PROPERTIES DeletionIsFinal EveryDeletionRuns
