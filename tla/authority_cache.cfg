SPECIFICATION Spec
CONSTANTS
    Sessions = {s1, s2}
    Passphrases = {p1}
    Hosts = {h1}
    None = None
    Ops = {"create", "delete"}
    Generations = FALSE
    Faults = FALSE
INVARIANTS CacheRemovedAfterDelete
\* sessions run once and then stop
CHECK_DEADLOCK FALSE
