\* Every word in every place, and up to three options with values.
CONSTANTS
    CommandLines <- MCCommandLines
    Numeral <- MCNumeral
    NumberOf <- MCNumberOf
    Dashed <- MCDashed
    Address <- MCAddress
    Worlds <- MCWorlds
    SizeBits = 10
    MaxThreads = 5
    None = None
SPECIFICATION FairSpec
INVARIANTS
    CommandLineDecides
    ServesAsAsked
    NothingUsedAfterFree
PROPERTIES
    StartDecides
\* The process ends.
CHECK_DEADLOCK FALSE
