CONSTANTS
    None = None
    Users = {ann, bob}
    Urls = {p1}
    Commands = {cmd}
    MaxWorkers = 2
    MissingOnly = FALSE
    MaxClock = 3
    MaxVersion = 3
SPECIFICATION FairSpec
INVARIANTS TypeOK 
PROPERTIES  RoundsEnd
