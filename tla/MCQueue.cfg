SPECIFICATION Spec
CONSTANTS
    Account = {a1, a2}
    ProfileId = {p1, p2}
    p1 = p1
    p2 = p2
    Body = {b1, b2}
    b1 = b1
    b2 = b2
    None = None
    Device = {d1}
    InitialPid <- MCInitialPid
    Seeded <- OneSeeded
    AuthScope = {"full", "migration_read"}
    MaxId = 3
    MaxRev = 2
    MaxGen = 2
    MaxVersion = 0
    MaxSerial = 0
    MaxFaults = 1
    Slots = {1}
CHECK_DEADLOCK FALSE
INVARIANT QueueIsOwn
