CONSTANTS
    None = None
    Users = {ann, bob}
    Urls = {p1}
    Commands = {}
    MaxWorkers = 1
    MissingOnly = TRUE
    MaxClock = 4
    MaxVersion = 1
SPECIFICATION Spec
PROPERTIES MissingListed
