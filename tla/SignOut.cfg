SPECIFICATION HistorySpec
CONSTANTS
    Names = {alice}
    NoName = NoName
    MaxAttempts = 2
    MaxOps = 1
INVARIANT
    SignOutHolds
CHECK_DEADLOCK FALSE
