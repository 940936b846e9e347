SPECIFICATION GateSpec
CONSTANTS
    Blank = Blank
    None = None
    web = web
    chat = chat
    ana = ana
    bo = bo
    s1 = s1
    d1 = d1
    d2 = d2
    a1 = a1
    a2 = a2
    x1 = x1
    x2 = x2
    Action = {a1, a2}
    Answer = {x1, x2}
    Request <- AllRequests
    Frame <- Frames
    GatesChoice <- AllPolicies
    Timeout = 1
    TokenTTL = 1
    Retention = 0
INVARIANTS
    OneAnswerCounts
    RunNeedsIndependentApproval
    RunOnceAndOnRecord
    RefusedNeverRuns
    ExpiryExcludesAnswers
    OnlyTheWinnersTokenIsSpent
PROPERTIES
    ImplementsPromise
    VerdictIsFinal
    EveryActionEnds
