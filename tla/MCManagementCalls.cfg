SPECIFICATION Spec
CONSTANTS
    Managers = {m1, m2}
    Keys = {k1}
    MaxCalls = 2
    MaxSends = 2
INVARIANTS
    TypeOK
    OutcomeIsTrue
CHECK_DEADLOCK FALSE
