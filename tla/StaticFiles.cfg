\* Files around a limit of two bytes; others change up to two nodes.
CONSTANTS
    Paths <- MCPaths
    Root <- MCRoot
    Trees <- MCTrees
    NewNodes <- MCNewNodes
    Targets <- MCTargets
    MaxFile = 2
    MaxLinks = 2
    MaxChanges = 2
SPECIFICATION Spec
INVARIANTS
    FramingHolds
    QuietAnswer
\* A request ends.
CHECK_DEADLOCK FALSE
