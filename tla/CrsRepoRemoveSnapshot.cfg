CONSTANTS
    q1 = q1
    q2 = q2
    q3 = q3
    p1 = p1
    p2 = p2
    p0 = p0
    n1 = n1
    n2 = n2
    None = None
    Procs <- MCOneProc
    Pkgs <- MCPkgs
    Invalid <- MCInvalid
    RepoNames <- MCRepoNames
    IfExists <- MCNoReplace
    ImportKinds <- MCTargz
    RemoveConcurrently = FALSE
    MaxCommands = 5
    MaxFaults = 0
    MaxCrashes = 0

SPECIFICATION Spec

INVARIANT SnapshotPackagesAvailable
