\* Two actions and two enrolments can overlap; the user may reconnect once and
\* a response may be lost.  The system may stop: the user leaves.
CONSTANTS
    Actions = {refresh, save}
    MaxClicks = 3
    MaxConns = 2
    MaxLost = 1
    MaxPending = 3
SPECIFICATION FairSpec
INVARIANTS
    TypeOK
    PollingRestored
PROPERTIES
    PollingResumes
CHECK_DEADLOCK FALSE
