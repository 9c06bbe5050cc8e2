SPECIFICATION Spec
CONSTANTS
    Workers = {w1, w2}
    Bodies = {v1, v2, garbled}
    Unreadable = {garbled}
    Gone = Gone
    None = None
    Calls = 4
    Retries = 1
    Further = 1
    Ticks = 1
    MaxWindow = 1
    MaxRuns = 3
CHECK_DEADLOCK FALSE
SYMMETRY Symmetry
INVARIANTS
    AllowanceHolds
    NoCallOnceRefused
    EvidenceIsCurrent
    RememberedWasRecorded
    EndingMatchesEvidence
