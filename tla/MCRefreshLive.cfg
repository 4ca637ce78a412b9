SPECIFICATION FairSpec
CONSTANTS
    Sid = Sid
    Resolvers = {r1, r2}
    LocalLogouts = {l1}
    CentralLogouts = {}
    GlobalLogouts = {}
    MaxVersion = 5
    MaxFence = 3
    Horizon = 3
    NoSession = NoSession
    NoLease = NoLease
    MaxToken = 3
    LeaseTTL = 1
    IdleTTL = 3
    AbsoluteTTL = 4
    RefreshBefore = 1
    Lifetimes = {2}
    MaxTouch = 2
    MaxPurge = 2
    Remote = TRUE
    LastArrival = 1
PROPERTIES
    EveryRequestIsAnswered
CHECK_DEADLOCK FALSE
