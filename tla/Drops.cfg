SPECIFICATION MCSpec
CONSTANTS
    Parts = {"overlap", "world", "at rest"}
    Overlapping = {p1, p2}
    Slots = {"only"}
    Campaigns = {1, 2}
    Channels = {1, 2, 3, 4}
    GameOf <- OneGame
    Earnable = {1, 2}
    Running <- OneEach
    CheckLimit = 2
    LiveSets = {{1, 2, 3}}
    Failures = {{}}
    CatalogueGets = {"fetched"}
    ProgressReads = {TRUE}
    Checks = {{1, 2, 3}}
    Stalls = {"unread", "moving", "stuck"}
    Routes = {"reorder", "queue", "resolve", "pool-size"}
    Events = {"complete", "open"}
    PoolSizes = {2}
    DefaultPool = 1
    InitialConfigs <- AnyBeginning
    InitialPhases <- OpenOrSoon
    MaxEdits = 1
    MaxEvents = 1
    MaxId = 5
    Settled = 2
SYMMETRY Symmetry
INVARIANTS
    ConfigIsSound
    MinerIsNotLeftBehind
    QueueMovesOn
PROPERTIES
    PassesKeepConfig
    WatchListSettles
