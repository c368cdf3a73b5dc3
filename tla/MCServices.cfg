SPECIFICATION FairServices
CONSTANTS
    h1 = h1
    h2 = h2
    good = good
    bad = bad
    NoCred = NoCred
    Contacts <- MCContacts
    Typed <- MCTyped
    Valid <- MCValid
    MaxContacts = 4
    MaxMints = 2
    Servers <- MCServers
    MaxLaunches = 1
    Nothing = Nothing
    Tabs = {t1, t2}
    Slots = {start, other}
    Boot = start
    FairTab = t1
    MaxPairs = 2
    MaxSent = 2
    Msgs = {m1}
    Handlers = {a1, a2}
    Writers = {a1, a2}
    None = None
    Sweeper = sweeper
    MaxCalls = 4
    MaxAppends = 3
    Edited = {p1, p2}
    Bodies = {b1, b2}
    Saves = {1, 2}
    MaxVersion = 3
    MaxActs = 2
INVARIANTS
    CalmSavedIsStored
    CalmRenameKeepsFile
    CalmClientAgrees
    FailedLoginIsUndone
    CalmSessionLasts
    Filed
    CalmLogIsWhole
    LogoutRevokes
PROPERTIES
    SavesReplaceWhatWasShown
    LoginFlagReleased
    Settles
    StartEnds
CHECK_DEADLOCK FALSE
