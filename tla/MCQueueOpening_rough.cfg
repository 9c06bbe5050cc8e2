SPECIFICATION Spec
CONSTANTS
    Packages = {p}
    Runs = {r1, r2}
    None = None
    MaxClock = 3
    MaxLag = 0
    Overlap = TRUE
    Replays = TRUE
    Routes = TRUE
    Purges = TRUE
CHECK_DEADLOCK FALSE
SYMMETRY RunSymmetry
PROPERTIES
    ClosedOnlyForAbsence
