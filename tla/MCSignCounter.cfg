SPECIFICATION Spec
CONSTANTS
    None = None
    Torn = Torn
    MaxCount = 11
    Window = 3
    LegacyCount = 1
    MaxFaults = 2
INVARIANTS
    CountsGrow
    CredentialSurvives
    DeletedStaysDeleted
    NeverLockedOut
