SPECIFICATION LogSpec
CONSTANTS
    Capacity = 2
    MaxChunk = 2
    MaxLines = 5
    MaxWaiting = 3
    MaxRuns = 1
    MaxCuts = 1
INVARIANT
    LoadsLeaveNoGap
CHECK_DEADLOCK FALSE
