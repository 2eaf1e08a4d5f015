SPECIFICATION Spec
CONSTANTS
    Methods = {"GET", "POST"}
    Codes = {200, 404}
    Bodies <- MCBodies
    MsgLen = 10
    PageSize = 20
    Null = null
CHECK_DEADLOCK FALSE
INVARIANTS
    HookedWhole
PROPERTIES
    WellFramed
    Settled
