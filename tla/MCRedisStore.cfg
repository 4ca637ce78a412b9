SPECIFICATION Spec
CONSTANTS
    c1 = c1
    c2 = c2
    oldKey = oldKey
    newKey = newKey
    Ids = {s1}
    Payloads = {p1}
    Callers = {c1, c2}
    Keys <- KeysInRotation
    Primary <- PrimaryInRotation
    MaxVersion = 2
    MaxFence = 2
    MaxToken = 4
    Horizon = 2
    LeaseTTL = 1
    Deadlines = {1, 2}
    NoSession = NoSession
    NoLease = NoLease
    NoHandle = NoHandle
    Idle = Idle
INVARIANTS
    TypeOK
    NotForgottenEarly
PROPERTIES
    HandlesLostForGood
    UnreadableIsKept
    ImplementsContract
CHECK_DEADLOCK FALSE
