SPECIFICATION Spec
CONSTANTS
    Consumers = {node}
    Registrations = {key}
    Other = other
    Tenant = tenant
    None = None
    Providers = {"digitalocean", "hcloud", "vultr", "google", "aws"}
    PageSize = 2
    MaxPages = 2
    MaxMade = 4
    MaxChanges = 2
INVARIANTS RecordedStateRefuses AttestationCovers
\* the verification answers once and then stops
CHECK_DEADLOCK FALSE
