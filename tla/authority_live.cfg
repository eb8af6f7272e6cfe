SPECIFICATION FairSpec
CONSTANTS
    Sessions = {s1, s2, s3}
    Passphrases = {p1, p2}
    Hosts = {h1}
    None = None
    Ops = {"create", "rotate", "delete", "load", "inspect"}
    Generations = FALSE
    Faults = FALSE

INVARIANTS FailedRotationChangesNothing
PROPERTIES LockFreed
\* sessions run once and then stop
CHECK_DEADLOCK FALSE
