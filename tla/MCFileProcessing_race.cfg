SPECIFICATION FairSpec
CONSTANTS
    Files = {f1, f2}
    Keys = {k1}
    Workers = {w1, w2}
    Deleters = {x1, x2}
    MaxAttempts = 2
    MaxCrashes = 2
    PurgeFaults = 1
INVARIANTS
    ReadyIsReadable
PROPERTIES
    PublishedByClaimant
    EverySourceSettles
    ObjectsGo
