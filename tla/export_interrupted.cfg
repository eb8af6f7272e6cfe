SPECIFICATION Spec
CONSTANTS
    Exporters = {e1, e2}
    References = {ra}
    None = None
    Foreign = Foreign
    MaxRotations = 1
SYMMETRY Symmetry
INVARIANTS AlwaysVerifiable
\* exporters run once and then stop
CHECK_DEADLOCK FALSE
