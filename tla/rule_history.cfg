SPECIFICATION Spec
CONSTANTS
    s1 = s1
    s2 = s2
    Series = {s1, s2}
    Identities = {"cpu high", "cpu critical"}
    Grades = {"none", "target"}
    Intervals = {1}
    TaskHash = 0
    ResendDelay = 1
    ResolvedRetention = 1
    HoldDuration = 0
    AlertOnAbsent = TRUE
    NoDataAfter = 2
    StartTime = 1
    MaxGap = 2
    MaxTime = 5
SYMMETRY Symmetry
INVARIANTS
    HistoryTracksAlerts
    NoDataStandsAlone
PROPERTY
    NoFalseResolution
