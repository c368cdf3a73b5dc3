SPECIFICATION FairSpec
CONSTANTS
    Nothing = Nothing
    MaxActs = 2
    MaxLoads = 2
    Chats = {chat}
    Writers = {1}
    Retries = 1
    Chunks = 1
    MaxCaptures = 2
    MaxJobs = 2
    Convs = {c1, c2}
    MaxPasses = 3
    MaxStale = 2
    MaxClicks = 5
    Urls = {u1}
    Secrets = {s1}
    MaxPolls = 2
    Bundles = {b1, b2}
    MaxForeign = 1
    Values = {v1, v2}
    NoEntries = v1
    Version = v2
    Odd = Odd
    Garbled = Garbled
    Untyped = Untyped
    Broken = Broken
    Blank = Blank
    Samples <- SomeConfigs
    MaxTyped = 2
    Platforms = {claude, codex}
    MaxScans = 1
    MaxRequests = 2
    MaxMoves = 2
    Tokens = {k1, k2}
    Connections = {a1}
    Grants = {g1}
    MaxChanges = 3
INVARIANTS
    
    AddressIsOwn
    TakenOutStaysOut
    CalmPageAgrees
    CalmPageIsOfPlatform
    SucceededScanIsShown
    CalmListIsAccess
PROPERTIES
    CountedIsArchived
    CalmLossIsWarned
    
    CalmVerdictStays
    ImportEnds
CHECK_DEADLOCK FALSE
