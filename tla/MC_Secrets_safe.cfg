SPECIFICATION Spec
SYMMETRY Symmetry
CONSTANTS
    Procs = {p1, p2}
    Keys <- MCKeys
    Generated <- MCGenerated
    Defaulted <- MCDefaulted
    InConfig <- MCNone
    KeycloakKeys <- MCKeycloakKeys
    AdminKey = "admin_password"
    ClientKey = "client_secret"
    MaxCommands = 3
INVARIANTS
    TypeOK
    InstalledKeycloakMatchesVault
PROPERTIES
    InstallersKeepSecrets
    SetKeepsOtherKeys
CHECK_DEADLOCK FALSE
