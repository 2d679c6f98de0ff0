SPECIFICATION Spec
CONSTANTS
    Account = {acct}
    ProfileId = {p1, p2}
    p1 = p1
    p2 = p2
    Body = {b1, b2}
    b1 = b1
    b2 = b2
    None = None
    Device = {d1, d2}
    InitialPid <- MCInitialPid
    Seeded <- NothingSeeded
    AuthScope = {"full"}
    MaxId = 3
    MaxRev = 1
    MaxGen = 2
    MaxVersion = 0
    MaxSerial = 0
    MaxFaults = 0
    Slots = {1}
CHECK_DEADLOCK FALSE
INVARIANT ScopeFollowsProfile
