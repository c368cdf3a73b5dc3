SPECIFICATION FeedSpec
CONSTANTS
    d = d
    f = f
    g = g
    r1 = r1
    r2 = r2
    Req <- TwoWriters
    Files <- MCFiles
    Dirs <- MCDirs
    Parents <- MCParents
    Rank <- MCRank
    Contents <- OneContent
    Quota = 0
    MaxRequests = 3
INVARIANTS
    QuietReplicaAgrees
PROPERTIES
    ReplicaNeverGoesBack
CHECK_DEADLOCK FALSE
