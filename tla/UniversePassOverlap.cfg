CONSTANTS
    BoardSize = 5
    Pacing = 1
    Slack = 4
    CronEvery = 2
    Backoff = 1
    DayLength = 39
    OpenAt = 1
    CloseAt = 23
    TradingDays = {0}
    Horizon = 20
    FetchMax = 1
    ScrapeMax = 2
    DownMax = 1
    MaxFaults = 0
SPECIFICATION PassSpec
INVARIANTS
    WalksDoNotOverlap
CHECK_DEADLOCK FALSE
