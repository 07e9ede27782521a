\* The string of finger 16385 has the key of the flag of finger 1.
CONSTANTS
    Threads = {serial}
    Ids = {1, 16385}
    Values = {EMPTY, secret}
    Names = {EMPTY, label}
    EMPTY = EMPTY
SPECIFICATION Spec
PROPERTY FingersAreIsolated
