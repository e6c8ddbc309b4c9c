CONSTANTS
    Files <- AllFiles
    MaxRuns = 2
    MaxFaults = 1
SPECIFICATION Spec
INVARIANTS
    TypeOK
    DependencyOrder
    QuietRunIsComplete
    SuccessMeansEssentials
    GrafanaKeepsItsSources
    NodesGetFreshToken
    AskedIsTried
PROPERTY PlanSpec
CHECK_DEADLOCK FALSE
