CONSTANTS
    Loop <- OneSymbol
    Answer = 4
    Window = 4
    MaxAges = 0
    MaxOrders = 2
    MaxProgress = 1
    MaxFaults = 0
SPECIFICATION FairSpec
PROPERTY OrdersRight
