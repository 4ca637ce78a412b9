SPECIFICATION Spec
CONSTANTS
    Sid = Sid
    Resolvers = {r1, r2, r3}
    LocalLogouts = {}
    CentralLogouts = {}
    GlobalLogouts = {}
    MaxVersion = 4
    MaxFence = 2
    Horizon = 4
    NoSession = NoSession
    NoLease = NoLease
    MaxToken = 3
    LeaseTTL = 1
    IdleTTL = 3
    AbsoluteTTL = 4
    RefreshBefore = 1
    Lifetimes = {2}
    MaxTouch = 2
    MaxPurge = 2
    Remote = TRUE
    LastArrival = 1
SYMMETRY Symmetry
INVARIANTS
    TypeOK
    AnswersAreCommitted
    NoLeaseLeaked
PROPERTIES
    NoResurrection
    TokensNeverGoBack
    IdleSlidesWithinLifetime
    PurgeSparesTheLiving
    WaitOutlastsLease
CHECK_DEADLOCK FALSE
