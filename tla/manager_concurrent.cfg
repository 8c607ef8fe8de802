SPECIFICATION FairSpec
CONSTANTS
    c1 = c1
    c2 = c2
    r1 = r1
    r2 = r2
    None = None
    Clients = {c1, c2}
    RuleIds = {r1}
    Revisions = {1}
    TaskIds = {1, 2, 3, 4}
    Requests = {"create", "edit", "patch", "delete"}
    Faults = {"callback", "prepare", "commit"}
INVARIANTS
    TypeOK
    OneEvaluatorPerRule
    NoLeakedTask
PROPERTY
    RequestsEnd
