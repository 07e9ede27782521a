\* One caller: it claims the slot again during the re-arm wait of its last
\* request.  No symmetry, which is not sound for liveness.
CONSTANTS
    Callers = {serial}
    Ids = {1}
SPECIFICATION FairSpec
PROPERTIES
    RequestCompletes
    TouchServed
