SPECIFICATION Spec
CONSTANTS
    NaN = NaN
    None = None
    critical = critical
    Severities = {critical}
    Values <- MCValues
    Targets = {1, 2}
    Units = {1, 2}
    Operators = {"eq", "neq", "gt", "gte", "lt", "lte"}
    MinPoints = {0}
    MaxPoints = 1
INVARIANT
    AlertsAsStated
