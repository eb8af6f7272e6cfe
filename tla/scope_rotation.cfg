SPECIFICATION Spec
CONSTANTS
    Callers = {c1}
    Entries = 1
    Lifetime = 2
    MaxLock = 0
    MaxPublish = 0
    MaxCommand = 0
    Rotations = TRUE
    Faults = FALSE
INVARIANTS RotationSparesScope
\* the scope is closed once
CHECK_DEADLOCK FALSE
