SPECIFICATION FairSpec
CONSTANTS
    MaxRuns = 2
    None = None
    Retention = 1
    RunLimit = 0
    MaxTime = 4
    MaxRows = 2
    MaxFaults = 1
CHECK_DEADLOCK FALSE
INVARIANTS
    NewestStays
PROPERTIES
    ReadingsSurvive
    OldRunsGo
