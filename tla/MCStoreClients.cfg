SPECIFICATION Spec
CONSTANTS
    Ids = {s1, s2}
    Payloads = {p1}
    MaxVersion = 2
    MaxFence = 2
    Horizon = 3
    NoSession = NoSession
    NoLease = NoLease
    Callers = {c1, c2}
    Idle = Idle
    LeaseTTL = 1
    Deadlines = {2, 4}
SYMMETRY Symmetry
INVARIANTS
    TypeOK
    LeaseGuardsSession
    HandlesMatch
PROPERTIES
    HandlesLostForGood
    ImplementsContract
CHECK_DEADLOCK FALSE
