SPECIFICATION Spec
CONSTANTS
    MaxGen = 1
INVARIANTS
    FailedInstallKeepsKeys
