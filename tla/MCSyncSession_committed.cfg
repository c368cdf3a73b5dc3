SPECIFICATION Spec
CONSTANTS
    r1 = r1
    r2 = r2
    right = right
    wrong = wrong
    NoPart = NoPart
    NoPreview = NoPreview
    Req <- MCReq
    Parts <- MCParts
    Chunks <- MCChunks
    Archive <- MCArchive
    MaxWrites = 1
    MaxCalls = 3
PROPERTIES
    CommittedStays
CHECK_DEADLOCK FALSE
