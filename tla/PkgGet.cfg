CONSTANTS
    None = None
    Args <- MCArgs
    VersionChars <- MCVersionChars
    Catalog <- MCCatalog
    MaxItems = 2
    MaxCommands = 2
    MaxFaults = 1
    MaxCrashes = 1

SPECIFICATION Spec

INVARIANTS
    TypeOK
    NoSilentLoss
    OthersUntouched

PROPERTIES
    OkMeansAllPresent
