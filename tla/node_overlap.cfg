SPECIFICATION Spec
CONSTANTS
    Runs = {r1, r2}
    Units = {u1, u2}
    Dirs = {d1, d2}
    None = None
    Torn = Torn
    Faults = FALSE
INVARIANTS ForeignMachineUntouched
\* runs are made once and then stop
CHECK_DEADLOCK FALSE
