SPECIFICATION FairSpec
CONSTANTS
    PageLimit = 2
    MaxEvents = 5
    MaxBreaks = 1
CHECK_DEADLOCK FALSE
INVARIANTS NoGapNoRepeat EndedMeansShown
PROPERTY EventsArrive
