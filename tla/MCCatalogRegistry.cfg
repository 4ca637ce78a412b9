SPECIFICATION FairSpec
CONSTANTS
    Routes = {r1, r2}
    Callers = {c1}
    Loop = Loop
    MaxAttempts = 3
    MaxCatalog = 2
    Newer = {newer}
INVARIANTS
    TypeOK
    ReadyIsAccepted
PROPERTIES
    SupersededIsNoticed
    LostLoopEnds
