SPECIFICATION Spec
CONSTANTS
    Data = {"", "k"}
    Empty = ""
    Ts = {0, 1, 2}
    Radix = 2
    CountFloor = 2
    Conn = {c1, c2}
    Frames <- MarketFrames
    MaxInFlight = 1
    MaxStarts = 2
INVARIANTS
    TypeOK
    AggCacheCurrent
    ConnectionsCounted
SYMMETRY Alike
CHECK_DEADLOCK FALSE
