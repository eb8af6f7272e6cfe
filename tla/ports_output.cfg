SPECIFICATION Spec
PROPERTIES EveryRunAnswers
\* the run ends with its answer
CHECK_DEADLOCK FALSE
