SPECIFICATION FairSpec
CONSTANTS
    Providers = {"opaque", "jwt"}
    RotationInterval = 1
    RotationDuration = 0
    LifetimeMax = 2
    MaxPerUser = 1
    Requests = {"r1", "r2"}
    Streams = {"s1"}
    Tabs = {"t1", "t2"}
    TabOf <- MCTabOf
    MaxPairs = 3
    MaxLogouts = 0
    MaxTime = 4
INVARIANTS TypeOK SessionNeverForks StoredPairIsFindable RotationKeepsLifetime
PROPERTIES RequestsSettle ImplementsChain
