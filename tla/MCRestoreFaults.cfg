SPECIFICATION FairSpec
CONSTANTS
    None = None
    MaxRestores = 3
    MaxFaults = 4
    DoubtfulMarker = TRUE
INVARIANT JournalIsLast
PROPERTY ServesAgain
CHECK_DEADLOCK FALSE
