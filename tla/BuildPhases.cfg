CONSTANTS
    NTUs = 2
    NLibs = 2
    NExes = 2

SPECIFICATION Spec

INVARIANT BuildOkMeansAllBuilt
