CONSTANTS
    Symbol = {s1}
    Amount <- TwoSizes
    StopTime = 2
    PostedKinds = {}
    AskedLots = {}
    AskedPrices = {}
    MarketMax = 10
    OrderIds <- Ids
    MaxTrades = 2
    MaxTraderOrders = 0
    MaxFaults = 2
    MaxHubRestarts = 0
SPECIFICATION Spec
PROPERTY OldStopsKeptUntilConfirmed
