SPECIFICATION ClientSpec
CONSTANTS
    Call = {1, 2}
    Searcher = {2}
    MaxRetries = 1
    Doublings = 2
    Hour = 2
    KeyRest = 1
    Pauses = {2, 9}
    MaxRest = 3
INVARIANTS RefusedOnce RestNeedsAFault
PROPERTIES RestEnds
