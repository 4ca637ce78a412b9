SPECIFICATION Spec
CONSTANTS
    Browsers = {b1, b2}
    Logins = {l1, l2}
    Callbacks = {c1, c2}
    Codes = {k1, k2}
    None = None
    NoFlow = NoFlow
    Horizon = 2
    FlowTTL = 1
SYMMETRY Symmetry
INVARIANTS
    TypeOK
    OneSessionPerLogin
    CodeExchangedOnce
    SessionFromOwnLogin
CHECK_DEADLOCK FALSE
