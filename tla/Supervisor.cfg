SPECIFICATION HistorySpec
CONSTANTS
    MaxRestarts = 1
    CrashWindow = 5
    FastExit = 1
    BackoffBase = 1
    BackoffCap = 2
    MaxQueue = 2
    MaxGeneration = 6
INVARIANTS
    RespawnRateIsBounded
PROPERTIES
    OneWantedMiner
    ImplementsLifecycle
    NothingHangs
