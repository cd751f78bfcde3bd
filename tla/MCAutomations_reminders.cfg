\* One automation of any type that belongs to a task, two occurrence workers that
\* fail at any point, a user who pauses, resumes and cancels.
SPECIFICATION FairSpec
CONSTANTS
    a1 = a1  w1 = w1  w2 = w2
    Nobody = Nobody
    MaxAttempts = 2
    LeaseTicks = 2
    Lag = 1
    Autos = {a1}
    Tasked = {a1}
    Workers = {w1, w2}
    MaxSlots = 1
    MaxChanges = 3
    RetryDelay = 1
INVARIANTS OccurrenceMatchesJob SucceededIsDurable
PROPERTIES EndedStaysEnded EveryReminderEnds
