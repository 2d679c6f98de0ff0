SPECIFICATION RecoverySpec
CONSTANTS
    Account = {acct}
    ProfileId = {p1, p2}
    p1 = p1
    p2 = p2
    Body = {b1, b2}
    b1 = b1
    b2 = b2
    None = None
    Device = {d1}
    InitialPid <- MCInitialPid
    Seeded <- NothingSeeded
    AuthScope = {"full"}
    MaxId = 3
    MaxRev = 1
    MaxGen = 2
    MaxVersion = 2
    MaxSerial = 0
    MaxFaults = 0
    Slots = {1}
    MaxRestores = 1
    MaxLosses = 1
INVARIANT NoLostUpdate
PROPERTIES
    FrozenIsKept
    FrozenIsSilent
CHECK_DEADLOCK FALSE
SYMMETRY BodySymmetry
