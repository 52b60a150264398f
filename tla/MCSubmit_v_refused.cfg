SPECIFICATION Spec
CONSTANTS
    r1 = r1
    r2 = r2
    t1 = t1
    t2 = t2
    u1 = u1
    n1 = n1
    n2 = n2
    None = None
    MaxChangedPaths = 1
    MaxKey = 3
    Request = {r1, r2}
    Url = {u1}
    Network = {n1, n2}
    Token = {t1, t2}
    Scenarios <- MCScenarios
    ObjectSets <- MCObjectSets
    InitRegistry <- MCRegistry
    DefaultPath = "p"
    DefaultNetwork = n2
    RequireRepoToken = FALSE
PROPERTY RefusedStartsNothing
CHECK_DEADLOCK FALSE
