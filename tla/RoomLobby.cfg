\* The room stops when the clock reaches MaxTime and every auction has ended.
CHECK_DEADLOCK FALSE
SPECIFICATION Spec
CONSTANTS
    MatchBudget = 3
    Host = host
    Guest = guest
    Players = {}
    Managers = {m1, m2}
    Formations = {f1}
    Keys = {k1}
    OpeningPrices = {1}
    Increments = {1}
    Amounts = {1, 2}
    Durations = {2}
    LastCallSeconds = 1
    MaxPrice = 3
    SquadSize = 1
    CommitDelay = 0
    MaxTime = 4
INVARIANT
    RoomWaitsForOpponent
