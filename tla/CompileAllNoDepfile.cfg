CONSTANTS
    a = a
    b = b
    h = h
    c1 = c1
    c2 = c2
    None = None
    TUOrder <- MCTUOrder
    Headers <- MCHeaders
    Commands <- MCCommands
    DepsModes <- MCGnuOnly
    NJobs = 2
    MaxEdits = 2
    MaxBuilds = 3
    MaxCrashes = 0
    EditsDuringBuild = FALSE
    DepfileMayBeMissing = TRUE

SPECIFICATION Spec

PROPERTY UpToDateAfterSuccess
