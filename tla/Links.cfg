SPECIFICATION LinksSpec
CONSTANTS
    Links = {"client", "store", "page"}
    Requests = 3
    Children = 3
    Calls = {stop, r1, r2}
    Stops = {stop}
    Garbled = {2}
    MaxClock = 2
    MaxStreams = 2
    MaxBalance = 2
    MaxCrashes = 1
    MaxFails = 1
    BellRoom = 1
    Streams = {s1, s2}
    NoStream = NoStream
    MaxNews = 3
    MaxFaults = 2
    MaxProbes = 2
INVARIANTS
    RequestsAreKept
    SessionsMatchStreams
    PageIsCurrent
PROPERTIES
    CallsReturn
    RecordStays
    StoreFollows
    PageRecovers
\* Once its requests and calls are used up a client rests.
CHECK_DEADLOCK FALSE
