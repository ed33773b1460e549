SPECIFICATION FairSpec
CONSTANTS
    Devices = {phone}
    phone = phone
    Reasons = {resolved}
    resolved = resolved
    NoReason = noReason
    Short = 1
    Long = 2
    MaxProposals = 3
PROPERTIES
    RestartsAreWanted
    TokensKnowTheirRestart
    EveryProposalResolves
\* Once its proposals are used up and every timer is at zero it rests.
CHECK_DEADLOCK FALSE
