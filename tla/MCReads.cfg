SPECIFICATION Spec
CONSTANTS
    MonthLength = 2
    MonthCount = 3
    Closes = {2, 3}
    Amount = 9
    FeePcts = {30}
    FlatFee = 1
    TaxPct = 20
    PerShare = 2
    Symbols = {a,b,c}
    SharePaisa = {2,3}
    MinOverlap = 2
    YearDays = 2
    Stake = 7
    MaxStored = 3
    FinalDay = 3
    ClosesSeen = {2, 3}
    Cash = 1
    MaxNews = 2
    MaxBroken = 2
    Tickers = {1, 2, 3}
    Figures = {1, 2}
    PageRows = 2
    MaxAsked = 2
    MaxChanged = 1
    Stamps = {2,3,4,6,8}
    SharePrices = {2,3}
    IndexLevel = 40
    CandleLimit = 3
    HistoryLimit = 2
    Cutoffs = {0,2,3}
    Lookback = 1
    Windows <- SessionsOf
    MaxReadings = 4
    Levels = {0,1}
    BetaWindow = 3
    MinObservations = 2
    MaxTraded = 4
    RatioFigures = {1,3}
    SectorRows <- Sectors
    RatioRowsBefore <- OwnRatios
    MinPeers = 3
    MinMetrics = 2
    MinPillars = 2
    MaxRatioRows = 1
    Texts <- Typed
    NoText = ""
    TextLength <- LengthOf
    Spells <- SpellsOf
    LikeText <- LikeOf
    NoSymbol = "-"
    Tracked = {"HBL"}
    Added = "HBX"
    Constituents = {"MCB"}
    MaxTyped = 3
    Board <- Companies
    Bounds <- BoundsGiven
    ScreenRows = 2
    Listed = {1,2,3,4}
    Boards <- BoardsStored
    NewRows <- RowsWritten
    SectorNames = {"Cement", "Banks"}
    LedgerRows <- Dividends
    Yields <- YieldsStated
    Today = 6
    TrailingDays = 3
    ListLength = 2
    LiquidityFloor = 3
    MinSessions = 3
    WeekBack = 2
    MaxSyncs = 1
    FirstDay = 8
    LastDay = 10
    DaySlots = 4
    OpenSlot = 1
    CloseSlot = 2
    Weekends = {5,6,9}
    HolidayLists = {{},{10},{7}}
    DaysBack = 3
    LiveWithin = 0
    StaleAfter = 1
    EventCurrent = 5
    FinalIndexDay = 2
    NoSessionOn = {2}
    IndexLevels = {2,3}
    PublishedMoves <- MovesStated
    IndexMembers = {"OGDC","HBL"}
    MemberVolumes = {1}
    MaxIndexWrites = 2
    Compared = {"OGDC","HBL","MCB"}
    Histories <- HistoriesStored
    PeriodSessions = 3
    DeviceTabs = {"t1", "t2"}
    Names = {"mine", "Mine"}
    Lower <- LowerCase
    TooLong = {}
    Addresses = {"pe"}
    Followed = {1,2}
    WatchLimit = 1
    MaxWrites = 2
    MaxAlerts = 2
    MaxCalls = 2
INVARIANTS
    RoiAddsUp
    CardHolds
    PagesCoverTheList
    ChartHolds
    BetaHolds
    ScoreHolds
    PurchasesAreAlike
    ResultsAreOfTheForm
    MarketPagesHold
    BrowserListsHold
PROPERTIES
    BoardCatchesUp
    EnterDoesWhatIsTyped
CHECK_DEADLOCK FALSE
