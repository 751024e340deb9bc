\* A second request on a kept-alive connection.
CONSTANTS
    TokenWord <- MCTokenWord
    TargetWord <- MCTargetWord
    ControlWord <- MCControlWord
    LowerOf <- MCLowerOf
    Clients <- MCTwoRequests
    Max = 3
    Chunk = 2
    Https = FALSE
SPECIFICATION Spec
INVARIANTS
    ActiveReadTimeout
\* A connection ends.
CHECK_DEADLOCK FALSE
