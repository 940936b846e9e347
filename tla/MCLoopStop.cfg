SPECIFICATION FairLoop
CONSTANTS
    m1 = m1
    a1 = a1
    sub = sub
    stop = stop
    new = new
    o1 = o1
    ops = ops
    other = other
    NoMsg = NoMsg
    Msg = {m1, sub, a1, stop, o1}
    Session = {ops, other}
    KindOf <- Kinds1
    SessionOf <- Sessions1
    Modes <- InjectOnly
    Cap = 1
    PendingCap = 1
    Gate = 1
    Obj = {1, 2, 3, 4}
    NoObj = 0
    Window = 1
    MaxRounds = 2
    MaxWritten = 0
    MaxDowns = 0
    MaxCleared = 0
PROPERTIES
    InlineCommandEnds
CHECK_DEADLOCK FALSE
