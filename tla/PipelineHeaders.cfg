\* One request through two modules is enough for a later module.
CONSTANTS
    Thread = {t1}
    ConfFile = {3, 7}
    Shape <- UsualShapes
    MaxRequests = 1
    None = None
SPECIFICATION Spec
INVARIANTS
    LaterModulesSeeHeaders
\* The process ends.
CHECK_DEADLOCK FALSE
