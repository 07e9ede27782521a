\* A ring of two lines and a half; the smallest MTU splits a line in two.
\* Four failed starts reach the cap of the backoff.
CONSTANTS
    RingLen = 5
    LineSegs = 2
    ChunkMax = 2
    QueueLen = 2
    Retries = 1
    MaxLines = 4
    MaxConns = 2
    MaxFaults = 4
SPECIFICATION FairSpec
INVARIANTS
    TypeOK
    WholeLines
PROPERTIES
    RingDrains
    Reconnectable
\* The bounds on connections and lines end every behaviour.
CHECK_DEADLOCK FALSE
