SPECIFICATION FairSpec
CONSTANTS
    Keys = {k1, k2}
    FirstKeys = {k1}
    Verifiers = {v1, v2}
    Interval = 1
PROPERTIES
    
    OnlyOwnCancellation
    KeyInForceIsKept
    EveryVerificationEnds
    KeyGetsKnown
