SPECIFICATION Spec
CONSTANTS
    Sid = Sid
    Resolvers = {r1, r2}
    LocalLogouts = {}
    CentralLogouts = {}
    GlobalLogouts = {}
    MaxVersion = 5
    MaxFence = 3
    Horizon = 7
    NoSession = NoSession
    NoLease = NoLease
    MaxToken = 3
    LeaseTTL = 2
    IdleTTL = 3
    AbsoluteTTL = 4
    RefreshBefore = 1
    Lifetimes = {1, 2}
    MaxTouch = 2
    MaxPurge = 2
    Remote = FALSE
    LastArrival = 3
PROPERTIES
    LeaseProtectsCommit
CHECK_DEADLOCK FALSE
