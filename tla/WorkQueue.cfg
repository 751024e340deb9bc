\* Two producers that block or not, two workers, a queue that fills up.
CONSTANTS
    Socket = {s1, s2, s3}
    Producer = {p1, p2}
    Worker = {w1, w2}
    Capacity = 1
    None = None
SPECIFICATION FairSpec
INVARIANTS
    WorkersNotForgotten
    ProducersNotForgotten
    LeavesNothingBehind
PROPERTIES
    ImplementsHandoff
    ImplementsHandoffFairness
    ShutdownCompletes
    BlockedPushReturns
\* A pool that has been joined or aborted does nothing more.
CHECK_DEADLOCK FALSE
