SPECIFICATION Spec
CONSTANTS
    Names = {alice}
    NoName = NoName
    MaxAttempts = 2
    MaxOps = 1
INVARIANTS
    SignInAgrees
PROPERTIES
    CancelledAttemptsEnd
CHECK_DEADLOCK FALSE
