SPECIFICATION FairDelivery
CONSTANTS
    Trigger = {t1}
    Delivery = {1, 2}
    Policy = {"always", "on-change", "never"}
    yes = yes
    no = no
    Answer = {yes, no}
    Sorry = sorry
    None = none
    MaxAttempts = 2
    BatchSize = 2
    MaxFailures = 1
    MaxCrashes = 1
    Nil = nil
    web = web
    chat = chat
    s1 = s1
    s2 = s2
    o1 = o1
    o2 = o2
    x = x
    y = y
    Channel = {web, chat}
    Stream = {s1, s2}
    Origin = {o1, o2}
    Text = {x, y}
    Declines = {web}
    Published <- Messages
    QueueSize = 2
    MaxSends = 2
    MaxPublished = 3
    MaxApplied = 1
    Asker = {t2, t3}
    Fallbacks = 2
    Threshold = 2
    Cooldown = 2
    Retries = 1
    RetryDelay = 1
    Buffer = 1
INVARIANTS
    NeverMeansSilence
CHECK_DEADLOCK FALSE
