SPECIFICATION Spec
CONSTANTS
    Consumers = {node}
    Registrations = {key}
    Other = other
    Tenant = tenant
    None = None
    Providers = {"digitalocean"}
    PageSize = 2
    MaxPages = 2
    MaxMade = 4
    MaxChanges = 2
INVARIANTS InventoryComplete
\* the verification answers once and then stops
CHECK_DEADLOCK FALSE
