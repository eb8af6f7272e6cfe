SPECIFICATION Spec
CONSTANTS
    Inputs <- Instance
    Recipe <- Packaged
    AzureRules = 3
INVARIANTS PortsAgree StageExists RulesExact RolesPlanAgree NodeBoundToShared ReferencesResolve
\* a call is answered and the system stops
CHECK_DEADLOCK FALSE
