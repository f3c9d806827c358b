SPECIFICATION MCSpec
CONSTANTS
    MaxAuctions = 1
    MaxVersion = 1
    MaxUnderWay = 2
    MatchPage = 1
    Slots = {f1}
    IsHost = TRUE
    NoAuction = NoAuction
INVARIANTS
    OneBidAtATime
    ShownIsTrue
PROPERTY
    BidIsAnswered
CHECK_DEADLOCK FALSE
