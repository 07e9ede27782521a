\* Two callers contend for the slot (say serial and BLE RPC); 300 lies beyond
\* the page of the index table.
CONSTANTS
    Callers = {serial, ble}
    Ids = {1, 300}
SPECIFICATION Spec
SYMMETRY CallerSymmetry
INVARIANTS
    TypeOK
    SlotHeldIffBusy
    RequestIntegrity
    VccdOnlyInSession
PROPERTIES
    ReadReported
    BitmapStableWhenIdle
    NoStrayIdentify
    RefinesSlot
