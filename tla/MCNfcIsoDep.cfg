SPECIFICATION LinkSpec
CONSTANTS
    MaxCmds = 4
    MaxLoss = 3
    MaxBlocks = 4
    DupLimit = 1
    Ways = {"iso", "repeat"}
    Bytes <- InPairs
CHECK_DEADLOCK FALSE
INVARIANTS
    ExecutedOnce
    MendedInOrder
PROPERTIES
    MendedCompletes
