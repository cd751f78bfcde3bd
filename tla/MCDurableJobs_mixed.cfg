\* A scanner that claims both jobs at once, an executor that may release for a
\* retry and a transactional worker; users resume and cancel.
SPECIFICATION FairSpec
CONSTANTS
    j1 = j1  j2 = j2  s1 = s1  e1 = e1  t1 = t1
    Nobody = Nobody
    MaxAttempts = 2
    LeaseTicks = 1
    Lag = 0
    Jobs = {j1, j2}
    Workers = {s1, e1, t1}
    Kinds = {"ANY"}
    KindOf <- MixedKindOf
    Serves <- MixedServes
    Role <- MixedRole
    BatchSize = 2
    RetryDelay = 1
    MaxResumes = 1
INVARIANTS TypeOK TokenUnique
PROPERTIES EveryJobSettles LeaseRespected SettledByHolder ClosedIsFinal ExhaustedAfterDeliveries
