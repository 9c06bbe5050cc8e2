SPECIFICATION DigestSpec
CONSTANTS
    Collections = {c1, c2}
    MaxRows = 1
    MaxClock = 7
    Digesters = {beat, hand}
    Overall = {quiet}
    Window = 3
    MaxDigests = 3
CHECK_DEADLOCK FALSE
SYMMETRY MCSymmetry
CONSTRAINT OneReader
INVARIANTS
    CutoffIsSettled
    WindowsJoin
    UnchangedNamesTheChange
PROPERTIES
    LateEvidenceIsFromTheGap
