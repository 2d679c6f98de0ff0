SPECIFICATION Spec
CONSTANTS
    p1 = p1
    p2 = p2
    None = None
    Tab = {p1, p2}
    Scenarios <- Each
    Scopes <- BothScopes
INVARIANTS
    TabIsTold
    SessionIsWhole
    NeverLocksItselfOut
    ResourcesOfSession
PROPERTIES
    NoBlindOverwrite
    NoSelfConflict
    GistGuard
CHECK_DEADLOCK FALSE
