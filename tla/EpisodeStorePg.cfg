CONSTANTS
    p1 = p1
    u1 = u1
    d1 = d1
    None = None
    Podcasts = {p1}
    Urls = {u1}
    Devices = {d1}
    Times = {1, 2}
    DeviceIds = {1, 2}
    EpisodeIds = {1, 2}
    HistIds = {1, 2, 3}
    Requests = {r1, r2}
    Batches <- MCBatches
SYMMETRY Symmetry
SPECIFICATION Spec
INVARIANTS TypeOK RowsReferToRows LatestUnlessRaced NamesUniqueUnlessRaced
PROPERTIES HistoryKept
