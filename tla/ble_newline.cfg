CONSTANTS
    LineMax = 8
    QueueLen = 2
    Requests <- MCRequests
    MaxFaults = 1
SPECIFICATION Spec
PROPERTY NewlineEndsDiscard
