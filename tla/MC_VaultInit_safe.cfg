SPECIFICATION FairSpec
CONSTANTS
    MaxGen = 3
INVARIANTS
    TypeOK
    InstalledKeysAreSaved
    QuietInstallIsComplete
PROPERTIES
    UnsealedMeansOpen
    StorageKeepsItsKeys
    CommandsEnd
