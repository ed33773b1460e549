SPECIFICATION Spec
CONSTANTS
    Browsers = {b1}
    MaxNews = 2
    MaxSignIns = 1
INVARIANTS
    CardsAreRenewed
PROPERTIES
    WorkingSessionStays
