SPECIFICATION SessionsSpec
CONSTANTS
    Handlers = {r1, r2, r3}
    Sids = {s1}
    Names = {ann, bob}
    MaxLife = 0
    MaxClock = 1
    Null = Null
SYMMETRY Symmetry
INVARIANTS
    SessionsTypeOK
    UserIsOwner
PROPERTY
    LockedGainsNothing
