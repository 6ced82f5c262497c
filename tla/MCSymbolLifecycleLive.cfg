CONSTANTS
    Symbols = {s1}
    Callers = {c1, c2}
    SyncWorkers = {w1}
    Walkers = {}
    NoSymbol = NoSymbol
    MaxAttempts = 2
    MaxCrashes = 1
SPECIFICATION FairSpec
PROPERTIES
    RemovalReturns
    QueuedSyncSettles
