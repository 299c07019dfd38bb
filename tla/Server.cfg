SPECIFICATION FairSpec
CONSTANTS
    Requests = {r1, r2}
    Tasks = {download}
    Starts <- MCStarts
    MaxOpen = 1
    None = None
INVARIANTS
    TypeOK
    NoConnectionKept
    ServedBeforeClose
    
    StatusFollowsCause
    PanicsExplained
PROPERTIES
    WaitersServed
    StopEnds
CHECK_DEADLOCK FALSE
