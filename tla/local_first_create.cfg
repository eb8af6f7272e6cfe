SPECIFICATION Spec
CONSTANTS
    Sessions = {s1, s2}
    Passphrases = {p1, p2}
    Hosts = {h1}
    None = None
    Ops = {"create"}
    Faults = FALSE
    Disappears = FALSE
SYMMETRY Symmetry
INVARIANTS RefusedOnlyAfterDisappearance
\* sessions run once and then stop
CHECK_DEADLOCK FALSE
