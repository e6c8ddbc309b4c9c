SPECIFICATION Spec
CONSTANTS
    Procs = {p1}
    Keys <- MCKeys
    Generated <- MCGenerated
    Defaulted <- MCDefaulted
    InConfig <- MCNone
    KeycloakKeys <- MCKeycloakKeys
    AdminKey = "admin_password"
    ClientKey = "client_secret"
    MaxCommands = 2
PROPERTIES
    ReinstallKeepsOperatorKeys
CHECK_DEADLOCK FALSE
