\* The longest request that fits fills the buffer.
CONSTANTS
    LineMax = 8
    Requests <- MCRequests
    MaxFaults = 2
SPECIFICATION FairSpec
INVARIANTS
    TypeOK
    IdleMeansClean
PROPERTIES
    IntactDispatch
    Recovers
