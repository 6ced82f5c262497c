CONSTANTS
    Symbols = {s1}
    Callers = {c1}
    SyncWorkers = {w1}
    Walkers = {u}
    NoSymbol = NoSymbol
    MaxAttempts = 2
    MaxCrashes = 0
SPECIFICATION Spec
PROPERTIES
    RemovedStaysRemoved
