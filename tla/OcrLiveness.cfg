SPECIFICATION FairSpec
CONSTANTS
    Version = {v1}
    NULL = NULL
    MaxJobs = 2
    MaxRuns = 2
    MaxEntries = 2
    MaxFaults = 0
    MaxCrashes = 1
    Deletes = TRUE
INVARIANT EntryInHand
PROPERTIES
    JobSettles
    RetryHappens
    LeftoverTakenUp
CHECK_DEADLOCK FALSE
