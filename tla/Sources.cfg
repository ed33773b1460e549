SPECIFICATION Spec
CONSTANTS
    Tabs = {t1, t2}
    Subjects = {c}
    Parts = {irc, gql}
    MaxRows = 4
    MaxDays = 2
    Budgets <- EitherBusy
INVARIANTS
    RingsOnce
PROPERTIES
    PushRecovers
