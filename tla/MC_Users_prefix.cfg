SPECIFICATION Spec
CONSTANTS
    Procs = {p1}
    Users <- PrefixUsers
    Parts <- MCParts
    Suffix = "binding"
    Roles <- MCRoles
    Groups <- MCGroups
    Namespaces <- MCNamespaces
    Configs <- ClusterOnly
    Foreign <- MCForeign
    Exclusive = TRUE
    MaxKeys = 2
    Cluster = Cluster
    None = None
    Ns = Ns
    Team = Team
PROPERTIES
    DeleteOnlyOwnBindings
