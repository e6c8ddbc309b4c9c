CONSTANTS
    ControlPlane = ControlPlane
    Workers = {node02}
    Starter = node02
    Commands = {"up", "common", "role"}
    Committed = TRUE
    MaxRuns = 4
    MaxClusters = 2
SPECIFICATION FairSpec
INVARIANTS
    TypeOK
    JoinCommandIsCurrent
    DownloadsHaveDNS
    NodesArePrepared
PROPERTIES
    JoinedOrBlank
    ProvisionEnds
CHECK_DEADLOCK FALSE
