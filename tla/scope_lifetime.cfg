SPECIFICATION Spec
\* one tick is 30 seconds: a lifetime of 900, and commands of 120 for S3
CONSTANTS
    Callers = {c1}
    Entries = 1
    Lifetime = 30
    MaxLock = 8
    MaxPublish = 4
    MaxCommand = 4
    Rotations = FALSE
    Faults = FALSE
INVARIANTS KeysStayLoaded
\* the scope is closed once
CHECK_DEADLOCK FALSE
