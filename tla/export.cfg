SPECIFICATION Spec
CONSTANTS
    Exporters = {e1, e2, e3}
    References = {ra, rb}
    None = None
    Foreign = Foreign
    MaxRotations = 2
SYMMETRY Symmetry
INVARIANTS CiphertextJournaled InstalledIsCurrent
PROPERTIES OnlyOwnerChanges CiphertextAdvances
\* exporters run once and then stop
CHECK_DEADLOCK FALSE
