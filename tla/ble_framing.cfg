\* The longest request that fits fills the buffer; the queue is the real one.
CONSTANTS
    LineMax = 8
    QueueLen = 2
    Requests <- MCRequests
    MaxFaults = 2
SPECIFICATION FairSpec
INVARIANTS
    TypeOK
    IdleMeansClean
PROPERTIES
    IntactDispatch
    Recovers
