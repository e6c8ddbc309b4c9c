SPECIFICATION FairSpec
CONSTANTS
    Procs = {p1, p2}
    Users <- OneUser
    Parts <- MCParts
    Suffix = "binding"
    Roles <- MCRoles
    Groups <- MCGroups
    Namespaces <- MCNamespaces
    Configs <- BothOrRole
    Foreign <- MCForeign
    Exclusive = FALSE
    MaxKeys = 2
    Cluster = Cluster
    None = None
    Ns = Ns
    Team = Team
INVARIANTS
    TypeOK
    CreatedUserIsGranted
    CreatedKubeconfigIsUsable
    DeletedUserHasNoAccess
    DeletedUserHasNoCredential
    FailedCreateLeavesNoCredential
PROPERTIES
    DeleteOnlyOwnBindings
    CommandsTerminate
