SPECIFICATION Spec
CONSTANTS
    None = None
    MaxRestores = 3
    MaxFaults = 4
    DoubtfulMarker = FALSE
INVARIANTS
    RestoreTypeOK
    WholePair
    OriginalIsKept
    RecordIsSettled
PROPERTY CompletedStays
CHECK_DEADLOCK FALSE
