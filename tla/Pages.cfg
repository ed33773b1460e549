SPECIFICATION Spec
CONSTANTS
    Parts = {"helper", "miner", "feed", "events", "door", "panel", "grid", "drafts",
             "bell", "gifts", "dialog"}
    Addresses = {"home", "away"}
    Tokens = {1, 2}
    MaxAttempts = 2
    Lockout = 3
    Ttl = 4
    Horizon = 9
    MaxRestarts = 1
    Channels = {"a", "b"}
    MaxSlots = 2
    QueueSize = 2
    GainTtl = 1
    Trust = 2
    MaxTold = 2
    Budgets <- BellBudgets
    Streamers = {"a", "b", "c"}
    BatchSize = 2
    CookieTokens = {1, 2}
    MaxFailures = 2
    MaxRequests = 3
    Capacity = 2
    MaxChunk = 2
    MaxLines = 5
    MaxWaiting = 3
    MaxRuns = 2
    MaxCuts = 2
    MaxBytes = 3
    TailBytes = 3
    RingSize = 2
    MaxEvents = 8
    MaxKills = 2
    MaxFaults = 1
    Cards = {"a", "b"}
    NoChannel = "nobody"
    Gifts <- GiftsOfFour
    GiftBudgets <- GiftOccasions
    Queries = {"q1", "q2"}
    Named <- NamedGames
    Exact <- ExactGames
    MaxResults = 2
    MaxIds = 2
    DialogBudgets <- DialogOccasions
    Subs = {"a", "b", "c"}
    OfGame = {"b", "c"}
    FirstOrder <- RankedFirst
    PanelBudgets <- OccasionsOfPanel
INVARIANTS
    RepliesAreFair
    LogIsWhole
    RecentEventsAreOnDisk
    AccessIsKept
    GiftsAreShown
    FollowsAreHonest
    QuietPageIsCurrent
    MinerIsAsConfigured
    GridIsTrue
    DraftsAreKept
    WatchingIsTold
CHECK_DEADLOCK FALSE
