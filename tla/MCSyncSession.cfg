SPECIFICATION FairSpec
CONSTANTS
    r1 = r1
    r2 = r2
    right = right
    wrong = wrong
    NoPart = NoPart
    NoPreview = NoPreview
    Req <- MCReq
    Parts <- MCParts
    Chunks <- MCChunks
    Archive <- MCArchive
    MaxWrites = 1
    MaxCalls = 4
INVARIANTS
    JobClosedWithSession
    SucceededWasImported
PROPERTIES
    PartsKeepTheirBytes
    AbandonedIsReclaimed
CHECK_DEADLOCK FALSE
