SPECIFICATION FairSpec
CONSTANTS
    Account = {acct}
    ProfileId = {p1, p2}
    p1 = p1
    p2 = p2
    Body = {b1, b2}
    b1 = b1
    b2 = b2
    None = None
    Device = {d1}
    InitialPid <- MCInitialPid
    Seeded <- NothingSeeded
    AuthScope = {"full"}
    MaxId = 2
    MaxRev = 2
    MaxGen = 1
    MaxVersion = 2
    MaxSerial = 1
    MaxFaults = 1
    Slots = {1, 2}
INVARIANTS
    TypeOK
    BaseIsHistory
    NeverRefused
PROPERTY EventuallySettled
CHECK_DEADLOCK FALSE
