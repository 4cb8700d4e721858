SPECIFICATION Spec
CONSTANTS
    MaxRequests = 2
    MaxGen = 4
    Apdus = {"queued", "extended", "short", "u2f"}
INVARIANT
    AutoAcceptScoped
CHECK_DEADLOCK FALSE
