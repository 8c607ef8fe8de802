SPECIFICATION Spec
CONSTANTS
    s1 = s1
    s2 = s2
    Series = {s1}
    Identities = {"cpu high"}
    Grades = {"none", "recovery", "target"}
    Intervals = {1, 2}
    TaskHash = 0
    ResendDelay = 1
    ResolvedRetention = 2
    HoldDuration = 0
    AlertOnAbsent = FALSE
    NoDataAfter = 1
    StartTime = 1
    MaxGap = 2
    MaxTime = 6
INVARIANTS
    TypeOK
    FiringIsHeld
    ResolvedIsReleased
    HistoryTracksAlerts
PROPERTY
    ForgottenSoonExpires
