SPECIFICATION FairSpec
CONSTANTS
    Callers = {c1, c2}
    Entries = 2
    Lifetime = 2
    MaxLock = 1
    MaxPublish = 1
    MaxCommand = 1
    Rotations = TRUE
    Faults = TRUE
INVARIANTS LeavesAfterCleanup AgentReaped QuietEndUnlocks RenewedInTime
PROPERTIES CloseReturns
\* the scope is closed once
CHECK_DEADLOCK FALSE
