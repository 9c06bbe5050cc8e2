SPECIFICATION Spec
CONSTANTS
    Packages = {p}
    Runs = {r1, r2, r3}
    None = None
    MaxClock = 3
    MaxLag = 3
    Overlap = FALSE
    Replays = FALSE
    Routes = FALSE
    Purges = FALSE
CHECK_DEADLOCK FALSE
SYMMETRY RunSymmetry
INVARIANTS
    OneOpenIdentityItem
PROPERTIES
    NoListedPackageIsMissed
    NothingOpenForWhatLeft
