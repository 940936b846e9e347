SPECIFICATION HistorySpec
CONSTANTS
    Obj = {1, 2, 3, 4}
    NoObj = 0
    Window = 1
    MaxRounds = 2
    MaxWritten = 4
    MaxDowns = 0
    MaxCleared = 0
PROPERTIES
    SummaryReachesNextTurn
CHECK_DEADLOCK FALSE
