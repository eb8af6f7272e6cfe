SPECIFICATION Spec
CONSTANTS
    Sessions = {s1, s2, s3}
    Passphrases = {p1, p2}
    Hosts = {h1}
    None = None
    Ops = {"create", "rotate", "recover", "delete", "load", "inspect"}
    Faults = TRUE
    Disappears = TRUE
SYMMETRY Symmetry
INVARIANTS HolderUndisturbed CacheGoneAfterDelete
PROPERTIES IdentitySpec
\* sessions run once and then stop
CHECK_DEADLOCK FALSE
