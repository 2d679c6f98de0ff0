SPECIFICATION Spec
CONSTANTS
    p1 = p1
    p2 = p2
    None = None
    Tab = {p1, p2}
    Scenarios <- Edits
    Scopes <- FullScope
PROPERTY NoEditLost
CHECK_DEADLOCK FALSE
