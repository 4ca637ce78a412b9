SPECIFICATION Spec
CONSTANTS
    Sid = Sid
    Resolvers = {r1, r2}
    LocalLogouts = {l1}
    CentralLogouts = {c1}
    GlobalLogouts = {g1}
    MaxVersion = 4
    MaxFence = 3
    Horizon = 3
    NoSession = NoSession
    NoLease = NoLease
    MaxToken = 2
    LeaseTTL = 1
    IdleTTL = 2
    AbsoluteTTL = 3
    RefreshBefore = 1
    Lifetimes = {2}
    MaxTouch = 2
    MaxPurge = 2
    Remote = TRUE
    LastArrival = 1
SYMMETRY Symmetry
INVARIANTS
    LogoutIsFinal
CHECK_DEADLOCK FALSE
