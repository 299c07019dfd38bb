CONSTANTS
    None = None
    Podcasts = {p1}
    Devices = {d1}
    Requests = {r1}
    Second = 2
    MaxClock = 4
SPECIFICATION Spec
INVARIANTS DevicesSynchronized
