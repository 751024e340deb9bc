\* The chain of modules.d, in variations; the clock stands at 2
\* and a long long has 8 bits.
CONSTANTS
    Order <- MCOrder
    LowerCase <- MCLowerCase
    Digits <- MCDigits
    Numeral <- MCNumeral
    Decoded <- MCDecoded
    LongBits = 8
    Now = 2
    Configs <- MCConfigs
    Requests <- MCRequests
SPECIFICATION Spec
INVARIANTS
    GuardsHold
    CrossOriginReadable
    PreflightNeedsNoCredentials
    RouterFindsRoute
\* A start with an invalid line, and the request, end.
CHECK_DEADLOCK FALSE
