CONSTANTS
    p1 = p1
    p2 = p2
    u1 = u1
    d1 = d1
    d2 = d2
    play = play
    None = None
    Podcasts <- MCPodcasts
    Urls <- MCUrls
    Guids = {}
    Devices <- MCDevices
    Actions <- MCActions
    EpisodeIds = {1, 2}
    HistIds = {1, 2}
    Times = {2, 3, 4}
    Pollers <- MCPollers
    Uploads <- MCUploads
    PageLimit = 1
    Second = 2
    MaxClock = 4
SPECIFICATION FairSpec
INVARIANTS TypeOK NothingElseUnseen
PROPERTIES AnswersGoForward ActionsArrive
