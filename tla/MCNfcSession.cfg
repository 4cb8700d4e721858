SPECIFICATION Spec
CONSTANTS
    MaxRequests = 2
    MaxGen = 4
    Apdus = {"queued", "extended", "short", "u2f"}
INVARIANTS
    ResponseOfLastRequest
PROPERTIES
    CancelledNotCommitted
    WaitsEnd
CHECK_DEADLOCK FALSE
