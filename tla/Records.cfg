SPECIFICATION Spec
CONSTANTS
    Parts = {"past", "progress", "badge", "sweep"}
    Channels = {c1, c2}
    Drops = {1, 2}
    Required = 2
    DropsTtl = 1
    LastMinute = 3
    MaxWires = 1
    MaxOutages = 1
    MaxEdits = 1
    Games <- TwoGames
    GamesOf <- GamesOfTwo
    Followed = {}
    Concurrency = 2
    MaxAge = 1
    Horizon = 3
    MaxFaults = 2
SYMMETRY Symmetry
INVARIANTS
    PastIsTrue
    BadgeCatchesUp
    SweepIsComplete
PROPERTY ProgressIsTrue
CHECK_DEADLOCK FALSE
