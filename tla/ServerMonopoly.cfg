\* As many workers as connections allowed per address.
CONSTANTS
    c1 = c1
    c2 = c2
    c3 = c3
    c4 = c4
    c5 = c5
    a1 = a1
    a2 = a2
    Socket <- MCSocket
    PeerOf <- MCPeerOf
    Addr = {a1, a2}
    Unknown = Unknown
    Worker = {w1, w2}
    Capacity = 1
    Limit = 2
    None = None
SPECIFICATION Spec
INVARIANTS
    NoMonopoly
\* The process ends after a fatal accept() error.
CHECK_DEADLOCK FALSE
