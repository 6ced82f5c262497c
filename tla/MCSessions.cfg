SPECIFICATION Spec
CONSTANTS
    Readers = {r1,r2}
    Dates <- MCDates
    Weekends = {2}
    Years = {"old", "new"}
    YearOf <- MCYearOf
    Published <- MCPublished
    MaxBack = 2
    Retry = 1
    MaxFailures = 1
    Horizon = 2
    DayLength = 8
    OpenAt = 2
    TradeFrom = 3
    CaptureTo = 3
    CloseAt = 5
    SettledAt = 6
    SettleBy = 7
    PageTurnsAt = 1
    Weekdays = {0,1,2}
    Sessions = {0,1}
    Listed = {2}
    Lags = {0,1}
    MaxAge = 1
    MaxFaults = 1
    Lanes = {l1}
    Marker = 6
    Providers = {"psx", "sarmaaya"}
    MaxWalk = 2
    MaxPages = 2
    QuoteLags = {0}
    MaxQuoteAge = 2
    Symbols = {1,2,3}
    Slice = 2
    MinInterval = 2
    MaxTicks = 3
    MaxChanges = 1
    Securities = {a,b}
    MaxPasses = 3
    MaxMoves = 2
    IndexSymbols = {"KSE100", "KMI30"}
    Spelled <- IndexSpelled
    NoIndexName = "-"
    MarketViews <- ViewsGiven
    BoardFeeds <- FeedsGiven
    Carousels <- CarouselsGiven
    NameLists <- NamesGiven
    StatsPages <- StatsGiven
    PerPage = 2
    LastPage = 2
    Reach = 1
    MaxFeedPasses = 2
    HolidayPages <- HolidayTables
    DaysOf <- DaysOfMonth
    MemberLists <- MembersGiven
    Tracks = {"OGDC", "HBL"}
    SymbolOf <- StockSpelled
    Nobody = "-"
    Asked <- ThreeAsked
    BatchSize = 2
    CandlePages <- CandlesGiven
    PsxPages <- PsxGiven
    SarmaayaPages <- SarmaayaGiven
    FundamentalsSay <- FundamentalsGiven
    Tabs = {t1,t2}
    Cooldown = 2
    LastTick = 2
    MaxEvents = 2
INVARIANTS
    PagesAreAsPublished
    NoPhantomSession
    ErrsTowardsTrading
    BoardSettles
    PriceIsOfItsSession
    AskedInTurn
    ServedIsStored
    LastFiringIsHeeded
PROPERTIES
    PastLevelsSettle
    OneCaptureAtATime
SYMMETRY Callers
CHECK_DEADLOCK FALSE
