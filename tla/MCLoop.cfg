SPECIFICATION FairBoth
CONSTANTS
    m1 = m1
    a1 = a1
    sub = sub
    stop = stop
    new = new
    o1 = o1
    ops = ops
    other = other
    NoMsg = NoMsg
    Msg = {m1, sub, a1, stop, new, o1}
    Session = {ops, other}
    KindOf <- Kinds1
    SessionOf <- Sessions1
    Modes <- BothModes
    Cap = 1
    PendingCap = 1
    Gate = 1
    Obj = {1, 2, 3, 4}
    NoObj = 0
    Window = 1
    MaxRounds = 2
    MaxWritten = 4
    MaxDowns = 1
    MaxCleared = 1
INVARIANTS
    EachMessageIsInOnePlace
    PendingQueueHasItsTurn
    AutomationIsNotInjected
    DeferredTurnIsPublished
    HistoryIsReplayable
    KeptUntilArchived
PROPERTIES
    CatchesUp
CHECK_DEADLOCK FALSE
