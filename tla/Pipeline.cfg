\* Two threads share two modules that return everything a module can return.
CONSTANTS
    Thread = {t1, t2}
    ConfFile = {3, 7}
    Shape <- AllShapes
    MaxRequests = 1
    None = None
SPECIFICATION FairSpec
INVARIANTS
    RepliesAreOwn
    FirstDecides
    CallsOnlyLive
    NothingLeftLoaded
PROPERTIES
    RequestIsAnswered
\* The process ends.
CHECK_DEADLOCK FALSE
