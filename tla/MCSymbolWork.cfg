CONSTANTS
    BoardSize = 2
    Pacing = 1
    Slack = 2
    CronEvery = 3
    Backoff = 1
    DayLength = 30
    OpenAt = 1
    CloseAt = 17
    TradingDays = {0}
    Horizon = 24
    FetchMax = 1
    ScrapeMax = 1
    DownMax = 1
    MaxFaults = 1
    Symbols = {s1}
    Callers = {c1, c2}
    SyncWorkers = {w1, w2}
    Walkers = {u}
    NoSymbol = NoSymbol
    MaxAttempts = 2
    MaxCrashes = 1
    StatementLines <- SourceLines
    TtmOnly = {"interest"}
    Profiles = {"company", "bank"}
    MaxPublished = 2
    MaxFetches = 2
SPECIFICATION SpecWork
SYMMETRY Alike
INVARIANTS
    OneRunPerSymbol
    BuriedOrTracked
    ClosingWalkOnce
    OverlapIsLateness
    DeadPassDoesNotWedge
    StatementIsTheCompanys
PROPERTIES
    UndisturbedAddIsQueued
CHECK_DEADLOCK FALSE
