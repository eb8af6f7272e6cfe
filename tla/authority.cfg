SPECIFICATION Spec
CONSTANTS
    Sessions = {s1, s2, s3}
    Passphrases = {p1, p2}
    Hosts = {h1}
    None = None
    Ops = {"create", "rotate", "recover", "delete", "load", "inspect"}
    Generations = TRUE
    Faults = TRUE
SYMMETRY Symmetry
INVARIANTS TypeOK OneIdentity DestroyedForGood
PROPERTIES LockFencing BundleLineage IdentitySpec
\* sessions run once and then stop
CHECK_DEADLOCK FALSE
