SPECIFICATION Spec
CONSTANTS
    Version = {v1}
    NULL = NULL
    MaxJobs = 2
    MaxRuns = 3
    MaxEntries = 1
    MaxFaults = 1
    MaxCrashes = 1
    Deletes = TRUE
INVARIANTS
    ReadyHasText
    IndexAgreesWithJob
CHECK_DEADLOCK FALSE
