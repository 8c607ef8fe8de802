SPECIFICATION Spec
CONSTANTS
    NaN = NaN
    None = None
    critical = critical
    warning = warning
    Severities = {critical, warning}
    Values <- MCValues
    Targets = {1, 2}
    Units = {1, 2}
    Operators = {"eq", "neq", "gt", "lt"}
    MinPoints = {0, 2}
    MaxPoints = 3
SYMMETRY Symmetry
INVARIANTS
    AlertsAsStated
    ReportedValueMeetsTarget
    SeveritiesNest
