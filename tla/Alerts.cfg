SPECIFICATION AlertsSpec
CONSTANTS
    Tabs = {t1, t2}
    Cooldown = 2
    LastTick = 3
    MaxEvents = 3
INVARIANT QuietOnceFired
CHECK_DEADLOCK FALSE
