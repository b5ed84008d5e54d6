SPECIFICATION HSpec
CONSTANTS
    Data = {"", "k"}
    Empty = ""
    Ts = {0, 1, 2}
    Radix = 2
    CountFloor = 2
    Conn = {c1, c2}
    Frames <- HistoryFrames
    MaxInFlight = 1
    MaxStarts = 2
    MaxOffers = 2
    MaxHanded = 2
INVARIANTS
    DispatchBalanced
PROPERTIES
    ServesLatest
SYMMETRY Alike
CHECK_DEADLOCK FALSE
