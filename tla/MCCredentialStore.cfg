SPECIFICATION StoreSpec
CONSTANTS
    MaxCred = 4
    Attr <- MCAttr
    Capacity = 3
    Stored <- MCStored
    Rp = "a"
    s1 = s1
    s2 = s2
    Session = {s1, s2}
    AutoAccept = FALSE
    MaxRequests = 3
    MaxDeletes = 1
    MaxFaults = 1
    MaxCrashes = 1
SYMMETRY SessionSymmetry
CHECK_DEADLOCK FALSE
INVARIANTS
    CredentialsKept
    ReplyTellsStore
    MaintenanceExcludes
PROPERTIES
    AssertedIsLive
    NextInOrder
