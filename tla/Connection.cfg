\* Clients that wait for each response and clients that do not, with three
\* requests at any pace, and one request written in every way, over HTTPS.
CONSTANTS
    TokenWord <- MCTokenWord
    TargetWord <- MCTargetWord
    ControlWord <- MCControlWord
    LowerOf <- MCLowerOf
    Clients <- MCClients
    Max = 3
    Chunk = 2
    Https = TRUE
SPECIFICATION FairSpec
INVARIANTS
    BufferBounded
    AnswersItsRequest
    NoTimeoutResponseWhenIdle
    LoggedThenSent
    LastResponse
    AnswersInOrder
PROPERTIES
    ConnectionEnds
\* A connection ends.
CHECK_DEADLOCK FALSE
