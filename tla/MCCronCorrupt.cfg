SPECIFICATION FairCron
CONSTANTS
    Job = {dream}
    NoJob = NoJob
    System = {dream}
    Schedules <- OnceOnly
    SystemSchedules <- EveryOnly
    Retries = 0
    MaxDelay = 0
    MaxTime = 3
    MaxFailures = 0
    MaxCrashes = 1
    MaxCorruptions = 1
    MaxLines = 0
PROPERTIES
    PollDropsNoJob
