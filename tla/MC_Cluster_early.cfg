CONSTANTS
    ControlPlane = ControlPlane
    Workers = {node01, node02}
    Starter = node02
    Commands = {}
    Committed = FALSE
    MaxRuns = 3
    MaxClusters = 1
SPECIFICATION Spec
PROPERTY WorkloadsMeetAllNodes
CHECK_DEADLOCK FALSE
