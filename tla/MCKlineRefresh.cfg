CONSTANTS
    c1 = c1
    c2 = c2
    Data <- Versions
    Empty = 0
    Ts = {0}
    Radix = 2
    CountFloor = 2
    Conn = {c1, c2}
    Special = {c2}
    Known <- Two
    Frames <- FeedFrames
    MaxInFlight = 3
    MaxStarts = 1
    MaxVersion = 2
    MaxFaults = 1
SPECIFICATION FairFeedSpec
PROPERTY EverySymbolRefreshed
