SPECIFICATION Spec
CONSTANTS
    Pin = {p1, p2}
    NoPin = NoPin
    Rp = {rp1, rp2}
    NoRp = NoRp
    None = None
    Poison = Poison
    RetriesMax = 3
    BlockAt = 2
    TokenTimeout = 1
    HalfClock = 3
    ConsentRequired = TRUE
    MaxAge = 2
    MaxLost = 1
INVARIANTS
    GuessBudget
    ThrottleHolds
    EveryRecordLoads
    MemoryNeverLaxer
    TokenOfCurrentPin
    ConsentHonoured
    TokenLifetime
SYMMETRY Symmetry
