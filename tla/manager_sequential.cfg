SPECIFICATION Spec
CONSTANTS
    c1 = c1
    c2 = c2
    r1 = r1
    r2 = r2
    None = None
    Clients = {c1}
    RuleIds = {r1}
    Revisions = {1, 2}
    TaskIds = {1, 2, 3}
    Requests = {"create", "edit", "patch", "delete"}
    Faults = {"callback", "prepare", "commit"}
INVARIANTS
    TasksFollowStore
    ReportedRuleIsEvaluated
