SPECIFICATION FairSpec
CONSTANTS
    Nodes = {n1, n2}
    Prompt = TRUE
    MaxRuns = 3
INVARIANTS
    TypeOK
    ServerCanStart
    QuietPatchIsInForce
    RefreshedNodesHaveTokens
    RestartsAreBounded
PROPERTIES
    RunEnds
    ServerReturns
CHECK_DEADLOCK FALSE
