SPECIFICATION ObservedSpec
CONSTANTS
    Value = {v1, v2}
    None = None
    Torn = Torn
INVARIANTS
    TrueReplyReadsBack
PROPERTIES
    ImplementsRegister
    OutcomeListed
