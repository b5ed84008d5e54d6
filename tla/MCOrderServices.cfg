CONSTANTS
    Symbol = {s1}
    Amount <- Sizes
    StopTime = 2
    PostedKinds = {}
    AskedLots = {}
    AskedPrices = {}
    MarketMax = 10
    OrderIds <- StopIds
    MaxTrades = 2
    MaxTraderOrders = 0
    MaxFaults = 1
    MaxHubRestarts = 0
    OpenTime = {1, 2}
    Parts = {2}
    FirstIndex = {0}
    MaxTradeCalls = 3
    MaxInDoubt = 1
    MaxTradeStarts = 2
SPECIFICATION OrdersSpec
INVARIANTS OrdersTypeOK StopsBounded ProfitsOfOneRequest OpenedOnce
PROPERTY PositionsProtected
CHECK_DEADLOCK FALSE
