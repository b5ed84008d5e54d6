CONSTANTS
    Symbol = {s1}
    Amount <- ShortAndLong
    StopTime = 1
    PostedKinds = {"foreign", "wTake", "MC"}
    AskedLots = {3}
    AskedPrices = {1}
    MarketMax = 10
    OrderIds <- Ids
    MaxTrades = 2
    MaxTraderOrders = 1
    MaxFaults = 1
    MaxHubRestarts = 1
SPECIFICATION FairSpec
INVARIANT StopsBounded
PROPERTIES PositionsProtected StaleStopsGone TimedOutOrdersGone
