SPECIFICATION FairCron
CONSTANTS
    Job = {dream, user}
    NoJob = NoJob
    System = {dream}
    Schedules <- AllKinds
    SystemSchedules <- EveryOnly
    Retries = 1
    MaxDelay = 1
    MaxTime = 3
    MaxFailures = 1
    MaxCrashes = 2
    MaxCorruptions = 1
    MaxLines = 1
INVARIANTS
    RefusedJobIsNoJob
    CleanMeansSaved
    AcknowledgedJobIsKept
PROPERTIES
    SlotRunsOnce
    DueJobRuns
