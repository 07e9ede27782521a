\* Both RPC threads, the first finger and the last whose keys are its own.
CONSTANTS
    Threads = {serial, ble}
    Ids = {1, 16383}
    Values = {EMPTY, secret}
    Names = {EMPTY, label}
    EMPTY = EMPTY
SPECIFICATION Spec
INVARIANTS
    TypeOK
    OkMeansStored
PROPERTIES
    FingersAreIsolated
    EnterNeverOutlivesString
SYMMETRY ThreadSymmetry
