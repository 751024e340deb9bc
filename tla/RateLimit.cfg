\* Two threads, two rules, and a clock that moves by just under a second or by
\* two; files of every kind, with an int of 8 bits and windows of up to 100 s.
CONSTANTS
    IntBits = 8
    WindowMax = 100
    LowerName <- MCLowerName
    Thread = {t1, t2}
    Request <- MCRequest
    Configs <- MCConfigs
    TicksPerSecond = 2000
    Jumps = {1999, 4000}
    Horizon = 8000
SPECIFICATION Spec
INVARIANTS
    RateBound
PROPERTIES
    ConfigMeansWhatItSays
    RefillsMoveForward
    RetryAlmostSuffices
\* A file that is refused ends the module.
CHECK_DEADLOCK FALSE
