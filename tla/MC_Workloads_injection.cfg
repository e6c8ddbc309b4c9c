CONSTANTS
    Files <- IdentityOnly
    MaxRuns = 2
    MaxFaults = 0
SPECIFICATION Spec
INVARIANT KeycloakKeepsItsSidecar
CHECK_DEADLOCK FALSE
