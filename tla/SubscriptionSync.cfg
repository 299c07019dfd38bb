CONSTANTS
    None = None
    Podcasts = {p1}
    Devices = {d1}
    Requests = {r1, r2}
    Second = 2
    MaxClock = 3
SPECIFICATION FairSpec
INVARIANTS TypeOK NothingElseMissed
PROPERTIES ChangesArrive
