SPECIFICATION RosterSpec
CONSTANTS
    Securities = {a,b}
    MaxPasses = 3
    MaxMoves = 2
PROPERTIES
    UnreadKeepTheirReading
CHECK_DEADLOCK FALSE
