CONSTANTS
    q1 = q1
    q2 = q2
    q3 = q3
    p1 = p1
    p2 = p2
    p0 = p0
    n1 = n1
    n2 = n2
    None = None
    Procs <- MCProcs
    Pkgs <- MCPkgs
    Invalid <- MCInvalid
    RepoNames <- MCRepoNames
    IfExists <- MCAllModes
    ImportKinds <- MCBothKinds
    RemoveConcurrently = FALSE
    MaxCommands = 4
    MaxFaults = 1
    MaxCrashes = 1

SPECIFICATION Spec

SYMMETRY MCSymmetry

INVARIANTS
    TypeOK
    RowsHaveFiles
    NamelessOnlyAfterKill
    StrayArchivesExplained
    StagingReleased
