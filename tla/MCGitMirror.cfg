SPECIFICATION FairSpec
CONSTANTS
    c1 = c1
    c2 = c2
    p1 = p1
    f1 = f1
    Clients <- TwoClients
    Pods <- OnePod
    Foreign <- OneForeign
    Retries = 1
    MayCrash = TRUE
    MaxCalls = 2
INVARIANTS
    CalmRequestServed
    CalmConfirmationSpent
PROPERTIES
    UnseenCommitsSurvive
    RetriesEnd
CHECK_DEADLOCK FALSE
