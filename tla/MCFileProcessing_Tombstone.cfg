SPECIFICATION Spec
CONSTANTS
    Files = {f1}
    Keys = {k1}
    Workers = {w1, w2}
    Deleters = {x1}
    MaxAttempts = 2
    MaxCrashes = 1
    PurgeFaults = 1
INVARIANT
    TombstoneKeepsNothing
