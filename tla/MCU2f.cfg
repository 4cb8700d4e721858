SPECIFICATION Spec
CONSTANTS
    None = None
    Torn = Torn
    MaxPairs = 2
    MaxKeys = 2
    MaxCount = 5
    Window = 2
    MaxFaults = 2
INVARIANTS
    CountsGrow
    PresencePerRequest
    CertificateMatches
    IdentityStable
