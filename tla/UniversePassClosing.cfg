CONSTANTS
    BoardSize = 2
    Pacing = 1
    Slack = 8
    CronEvery = 3
    Backoff = 1
    DayLength = 39
    OpenAt = 1
    CloseAt = 23
    TradingDays = {0, 1}
    Horizon = 66
    FetchMax = 1
    ScrapeMax = 1
    DownMax = 1
    MaxFaults = 0
SPECIFICATION PassSpec
INVARIANTS
    ClaimedClosingPassRuns
CHECK_DEADLOCK FALSE
