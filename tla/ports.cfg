SPECIFICATION Spec
INVARIANTS PortsAgree AbsentWasMissing AnsweredMeansStopped CredentialsGone
PROPERTIES EveryRunEnds
\* the run ends with its answer
CHECK_DEADLOCK FALSE
