SPECIFICATION Spec
INVARIANTS TimeoutTerminates
\* the run ends with its answer
CHECK_DEADLOCK FALSE
