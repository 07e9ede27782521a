SPECIFICATION Spec
CONSTANTS
    Ids = {1, 300}
    IndexLen = 1
    EnrollTicks = 2
    Kept = {0, 2, 12}
    Noise = {8, 85, 239}
    MaxFaults = 1
INVARIANTS TypeOK IntactAckHeard
PROPERTIES RefinesExchange SessionEnds
