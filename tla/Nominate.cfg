SPECIFICATION PagesSpec
CONSTANTS
    owner = owner
    MatchBudget = 3
    Participants = {owner}
    Auctions = {"lot"}
    Callers = {c1, c2}
    Requests <- MCRequests
    Viewer = owner
    HistoryPage = 2
    Data <- MCData
    Leftover <- MCLeftover
    Ratings = {1, 2}
    PageSize = 1
    NoPage = NoPage
    Catalogs <- MCCatalogs
    MarketValue <- MCMarketValue
    Typed = {0, 2, 4}
    MinPrice = 1
    MaxPrice = 3
    NoAsset = NoAsset
    Players = {p1, p2, p3, p4}
    Formations = {}
    Shape <- MCShape
    PrimaryPosition <- MCPosition
    SecondaryKeepers = {}
    XI = 3
    Bench = 1
    Reserves = 1
    Words = {"ann", "bob", "ann@x", "bob@x"}
    Emails = {"ann@x", "bob@x"}
    Clients = {c1, c2}
    Sockets = {s1}
    Limit = 2
    Window = 3
    MaxTime = 7
INVARIANT
    SelectedAssetIsPriced
CHECK_DEADLOCK FALSE
