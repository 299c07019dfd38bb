CONSTANTS
    p1 = p1
    u1 = u1
    u2 = u2
    g1 = g1
    d1 = d1
    play = play
    new = new
    r1 = r1
    r2 = r2
    None = None
    Podcasts <- MCPodcasts
    Urls <- MCUrls
    Guids <- MCGuids
    Devices <- MCDevices
    Actions <- MCActions
    EpisodeIds = {1, 2}
    HistIds = {1, 2}
    Times = {1, 2}
    Requests <- MCRequests
    Feeds <- MCNoFeeds
    Batches <- MCRaceBatches
SYMMETRY MCSymmetry
SPECIFICATION Spec
INVARIANTS OneRowPerUrl
PROPERTIES NoLostUpdate Serializable
