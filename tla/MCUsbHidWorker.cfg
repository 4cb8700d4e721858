SPECIFICATION Spec
CONSTANTS
    c1 = c1
    c2 = c2
    c3 = c3
    Cid = {c1, c2, c3}
    Broadcast = Broadcast
    NoCid = NoCid
    MaxChans = 3
    MaxLen = 1
    Timeout = 1
    MaxLock = 1
    Known <- MCKnown
    Reports <- MCReports
    MaxReports = 4
    MaxUnplugs = 1
    Leaving = {}
INVARIANTS
    CommitHasConsent
    FailureMeansNoCommit
    NoLateResponseAlone
