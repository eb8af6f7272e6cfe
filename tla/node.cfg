SPECIFICATION Spec
CONSTANTS
    Runs = {r1, r2, r3}
    Units = {u1, u2}
    Dirs = {d1, d2, d3}
    None = None
    Torn = Torn
    Faults = TRUE
SYMMETRY Symmetry
INVARIANTS SerialMachineKeepsUnit NoneMeansUntouched DestroyedIsGone NoReadyOrphan
PROPERTIES DestroyNeedsConsent
\* runs are made once and then stop
CHECK_DEADLOCK FALSE
