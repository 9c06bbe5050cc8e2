SPECIFICATION JobFairSpec
CONSTANTS
    Jobs = {j1, j2}
    JobWorkers = {w1, w2}
    NoJob = NoJob
    MaxCopies = 1
CHECK_DEADLOCK FALSE
INVARIANTS
    NoWorkerMissesItsJob
PROPERTIES
    FinishedNeverRestarts
    EveryJobEnds
