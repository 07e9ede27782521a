\* The list of get_fingers ends at 100 fingers or about 60 of two digits: with
\* finger 5 it just takes finger 100, and 61 makes it one too long.
CONSTANTS
    Threads = {serial, ble}
    Ids = {5, 61}
    Stored <- MCStored
    Requests <- MCRequests
    ReqId = 9999
SPECIFICATION Spec
INVARIANTS
    TypeOK
    OneResponse
    ListIsFaithful
    NameRoundTrip
SYMMETRY ThreadSymmetry
