SPECIFICATION FairSpec
CONSTANTS
    Routes = {r1, r2}
    MaxChain = 3
    MaxToken = 2
INVARIANTS
    TypeOK
    HandlerIsAuthorized
    NoFallback
    AnswerTellsDecision
PROPERTIES
    RequestIsAnswered
CHECK_DEADLOCK FALSE
