\* More channels stream than StreamTtl + 1 passes look up.
SPECIFICATION ProfileSpec
CONSTANTS
    RosterSize = 4
    PerPass = 1
    StreamTtl = 2
    AvatarTtl = 8
    MaxLive = 4
    MaxFaults = 0
    MaxFlips = 4
PROPERTY NobodyIsPassedOver
CHECK_DEADLOCK FALSE
