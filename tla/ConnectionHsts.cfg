\* Error responses over HTTPS.
CONSTANTS
    TokenWord <- MCTokenWord
    TargetWord <- MCTargetWord
    ControlWord <- MCControlWord
    LowerOf <- MCLowerOf
    Clients <- MCOneRequest
    Max = 3
    Chunk = 2
    Https = TRUE
SPECIFICATION Spec
INVARIANTS
    HttpsResponsesHaveHsts
\* A connection ends.
CHECK_DEADLOCK FALSE
