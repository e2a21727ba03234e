CONSTANTS
    NItems <- MCNItems
    NJobs <- MCNJobs
    HWConcurrency <- MCHWConcurrency
    NoOne = NoOne

SPECIFICATION Spec

INVARIANTS
    TypeOK

PROPERTIES
    ImplementsParallelFor
    Terminates
