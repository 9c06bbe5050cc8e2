SPECIFICATION FairSpec
CONSTANTS
    Collectors = {c1}
    Packages = {p}
    Selection <- MCSelection
    Workers = {w1, w2}
    Pressers = {u1, u2}
    None = None
    MaxOffers = 1
    MaxExtra = 1
    MaxFaults = 2
CHECK_DEADLOCK FALSE
INVARIANTS
    OneDrain
    OnePressWaits
PROPERTIES
    OfferedAgain
    PackageComesFree
