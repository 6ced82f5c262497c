SPECIFICATION Spec
CONSTANTS
    Workers = {w1, w2}
    Patterns = {p1, p2}
    MaxDeploys = 3
    LastDay = 7
    WeekendDays = {4}
    Holidays = {3}
    Closures = {5,6,7}
    ExWalk = 4
    MaxDeaths = 1
    Companies = {a,b}
    Caps = {1,2}
    MaxRows = 2
    MaxRefreshes = 2
    Sessions = {1}
    Prices = {2}
    Lows = {1, 3}
    Highs = {4}
    Writers = {w1, w2}
    MaxSyncs = 2
    BarDays = {1, 2, 3}
    BarPrices = {1, 2}
    Payloads <- YahooBars
    IndexPayloads <- SarmaayaSeries
    MinDeep = 3
    MaxBackfills = 2
    Issuers = {"HBL", "OGDC"}
    NoIssuer = "-"
    Batches <- NoticePages
    MaxBatches = 2
    WrittenUp = {"HBL", "OGDC"}
    Releases <- Folders
    Loaders = {"job", "command"}
    JobAttempts = 2
    MaxLoads = 4
    Syncable = {"HBL", "OGDC"}
    Askers = {t1, t2}
    Ranges = {"1y"}
    Attempts = 2
    Recent = 1
    MaxAsks = 3
    MaxGhosts = 2
    MaxClears = 2
    Stocks = {"HBL"}
    MaxStored = 2
    MaxRuns = 1
INVARIANTS
    RereadsAreHarmless
    QueuePageHolds
    AgreedScheduleHolds
    AdjustedIsRawOrFlat
    SharedCapIsVouchedFor
PROPERTIES
    StepIsConfirmed
CHECK_DEADLOCK FALSE
