CONSTANTS
    NoState = NoState
    NoHotKey = NoHotKey
    NoBinding = NoHotKey
    Nothing <- NothingMC
    InitialFiles <- Files
    MaxRequests = 3
    MaxMishaps = 1
    Key = {49,67,112}
    Chosen = {4}
    Headings = {"all"}
    MaxInputs = 3
    MaxHotLoads = 2
    ViewFields = {"binanceAddressConfigArr", "binanceRecommissionConfigArr"}
    LimitFields = {"limitMaxPositionLockConfigArr"}
    CountFields = {"depthConfigArr"}
    Version = {0, 1}
    Refused = {1}
    NoText = NoText
    HotKeysElsewhere <- NothingBound
    MaxEdits = 2
    MaxPosts = 2
    MaxPageLoads = 2
    BoardRange = {"fromLastInvestor", "lastOneDay"}
    FirstRange = "fromLastInvestor"
    NoRecords = "none"
    MaxAsked = 4
    MaxBoardMisses = 1
    MaxBoardLoads = 2
    Follow <- Follows
    ChartRange = {"all", "lastOneDay"}
    DefaultRange = "all"
    MaxVersion = 2
    Slot = {1, 2}
    MaxFailures = 1
    Resolution = {"1", "5"}
    TicksPerBar = 3
    Start = 1
    LastBar = 3
    MaxFeedLoads = 2
    UnitsPerDollar = 2
    PositionRecord <- BalanceRecords
    RecordLimits = {0, 2}
    IncomeKind <- IncomeKinds
    MaxRecords = 3
    MaxIncomes = 2
    MaxDay = 2
    MonthLengths <- Months
    NamedTime = {2880, 4260, 38880, 40260, 43200, 44580, 83520, 84900}
    Step = 360
SPECIFICATION FrontSpec
INVARIANTS
    FrontTypeOK
    SerialSavesKept
    StoredIsShown
    ServerColumnCurrent
    ConfigDrawable
    ModalDrawable
    CarefulEditsAddUp
    RangeShown
    NoFutureBar
    RecordsDrawnRight
    IncomeAddsUp
PROPERTIES
    WordsGoOn
    BoardSettles
    DashboardFollows
    RangeFollows
    NothingSkipped
    ReplayGoesOn
CHECK_DEADLOCK FALSE
