SPECIFICATION FairSpec
CONSTANTS
    PageLimit = 2
    MaxEvents = 4
    MaxBreaks = 0
CHECK_DEADLOCK FALSE
PROPERTY WaitingIsShown
