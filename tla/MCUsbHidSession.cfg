SPECIFICATION Spec
CONSTANTS
    c1 = c1
    c2 = c2
    c3 = c3
    c4 = c4
    Cid = {c1, c2, c3, c4}
    Broadcast = Broadcast
    NoCid = NoCid
    MaxChans = 3
    MaxLen = 3
    Timeout = 2
    MaxLock = 1
INVARIANTS
    ChannelsInUseKept
    AssembledInOrder
PROPERTIES
    NoForeignInterrupt
    AssemblyEnds
