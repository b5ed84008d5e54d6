CONSTANTS
    Loop <- TwoSymbols
    Answer = 2
    Window = 2
    MaxAges = 1
    MaxOrders = 2
    MaxProgress = 1
    MaxFaults = 1
SPECIFICATION FairSpec
INVARIANTS TypeOK TradesOnce
PROPERTY OrdersKept
