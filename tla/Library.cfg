CONSTANTS
    p1 = p1
    p2 = p2
    u1 = u1
    u2 = u2
    d1 = d1
    None = None
    Podcasts = {p1, p2}
    Urls = {u1, u2}
    Guids = {g1}
    Devices = {d1}
    Times = {1, 2}
    Uploads <- MCUploads
    Repository = "pg"
    MaxId = 2
    MaxHist = 2
    MaxSettings = 1
    Base = 1
SPECIFICATION Spec
INVARIANTS TypeOK SettingsReferToRows ImportRestores ImportInventsNothing
    MaintenanceKeepsShown
