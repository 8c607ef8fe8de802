SPECIFICATION FairSpec
CONSTANTS
    Signals = {"metrics", "logs"}
    TimeSeries = TRUE
    MaxIds = 4
    MaxHistory = 3
INVARIANTS TypeOK StagedFollowsUrl RunStagesWhatIsShown TypeMatchesQuery IntervalIsExplicit PreviewIsCurrent
PROPERTIES EditsSurvive Settles
CHECK_DEADLOCK FALSE
