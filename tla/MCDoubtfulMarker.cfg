SPECIFICATION Spec
CONSTANTS
    None = None
    MaxRestores = 3
    MaxFaults = 4
    DoubtfulMarker = TRUE
INVARIANT WholePair
CHECK_DEADLOCK FALSE
