SPECIFICATION Spec
CONSTANTS
    d = d
    f = f
    g = g
    r1 = r1
    r2 = r2
    Req <- MCReq
    Files <- MCFiles
    Dirs <- MCDirs
    Parents <- MCParents
    Rank <- MCRank
    Contents <- MCContents
    Quota = 3
    MaxRequests = 4
INVARIANTS
    QuotaRespected
CHECK_DEADLOCK FALSE
