SPECIFICATION FairSpec
CONSTANTS
    Filters = {"a"}
    BatchSize = 1
    MaxListSize = 2
    MaxRows = 0
    MaxConns = 4
    MaxRotations = 1
PROPERTY ErrorRecovers
CHECK_DEADLOCK FALSE
