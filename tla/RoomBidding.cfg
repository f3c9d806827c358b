\* The room stops when the clock reaches MaxTime and every auction has ended.
CHECK_DEADLOCK FALSE
SPECIFICATION FairSpec
CONSTANTS
    MatchBudget = 3
    Host = host
    Guest = guest
    Players = {p1}
    Managers = {}
    Formations = {}
    Keys = {k1, k2}
    OpeningPrices = {1, 2}
    Increments = {1, 2}
    Amounts = {1, 2, 3, 4}
    Durations = {2, 3}
    LastCallSeconds = 1
    MaxPrice = 3
    SquadSize = 1
    CommitDelay = 1
    MaxTime = 5
INVARIANTS
    TypeOK
    ReservedBacksLeader
    HistoryExplainsAuction
    LedgerExplainsWallet
PROPERTIES
    FinishedIsFinal
    SettledOnTime
    RunsEnglishAuction
    StartedAuctionFinishes
