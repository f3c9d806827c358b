SPECIFICATION Spec
CONSTANTS
    MaxAuctions = 1
    MaxVersion = 1
    MaxUnderWay = 2
    MatchPage = 1
    Slots = {}
    IsHost = FALSE
    NoAuction = NoAuction
PROPERTY
    ResultStaysShown
CHECK_DEADLOCK FALSE
