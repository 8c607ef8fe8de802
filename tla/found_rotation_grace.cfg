SPECIFICATION Spec
CONSTANTS
    Providers = {"opaque"}
    RotationInterval = 2
    RotationDuration = 1
    LifetimeMax = 3
    MaxPerUser = 1
    Requests = {"r1", "r2"}
    Streams = {"s1"}
    Tabs = {"t1", "t2"}
    TabOf <- MCTabOf
    MaxPairs = 3
    MaxLogouts = 0
    MaxTime = 4
PROPERTY PreviousPairHonoured
