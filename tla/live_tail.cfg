SPECIFICATION FairSpec
CONSTANTS
    Filters = {"a"}
    BatchSize = 1
    MaxListSize = 2
    MaxRows = 2
    MaxConns = 3
    MaxRotations = 1
INVARIANTS TypeOK OneConnection ShownLogsMatchFilter ShownInOrder ListenerFollowsConnection
PROPERTY StoredRowsAreShown
CHECK_DEADLOCK FALSE
