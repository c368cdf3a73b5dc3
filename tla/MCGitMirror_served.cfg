SPECIFICATION Spec
CONSTANTS
    c1 = c1
    c2 = c2
    p1 = p1
    f1 = f1
    Clients <- OneClient
    Pods <- OnePod
    Foreign <- OneForeign
    Retries = 1
    MayCrash = FALSE
    MaxCalls = 2
INVARIANTS
    RequestServed
CHECK_DEADLOCK FALSE
