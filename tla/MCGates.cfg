SPECIFICATION GatesSpec
CONSTANTS
    Blank = Blank
    Path = {web, chat}
    Person = {ana, bo}
    web = web
    ana = ana
    MaxApprovers = 3
    n1 = n1
    x1 = x1
    x2 = x2
    c1 = c1
    c2 = c2
    mail = mail
    send = send
    Host = {n1, x1, x2}
    Command = {c1, c2}
    Connector = {mail}
    Operation = {send}
    Never = Never
    Ask <- Commands
    ConnectorAsk <- Calls
    Matrix <- Policies
    Declared <- Handwritten
    Inventories <- Targets
    Duration = {1, Never}
    Ceiling <- Ceilings
    MaxNow = 1
    MaxWaiting = 1
    MaxAgreed = 2
    MaxGrants = 2
    Call = {k1, k2}
    Session = {s1, s2}
    MaxDay = 2
    Retention = 1
    MaxTears = 1
    MaxLosses = 1
SYMMETRY Symmetry
INVARIANTS
    CheckAgreesWithFeasibility
    NoSelfApproval
    AuthorityIsTraceable
    DelegationNeverWidens
    AddedGrantAnswers
    LatchIsOnRecord
    LatchHasACause
PROPERTIES
    RestartKeepsLatches
    TearKeepsLatches
