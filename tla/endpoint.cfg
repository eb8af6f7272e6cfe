SPECIFICATION EndpointFairSpec
CONSTANTS
    Agents = {a1, a2, a3}
    Nodes = {n1, n2, n3}
    None = None
INVARIANTS AssignedHolds
PROPERTIES AgentSucceeds
\* agents run once and then stop
CHECK_DEADLOCK FALSE
