SPECIFICATION Spec
CONSTANTS
    first = first
    second = second
    Packages = {first, second}
    Names = {"a", "b"}
    Listed <- MCListed
    Builds = {"f"}
    Repositories = {"repo"}
    Resolvers = {r1}
    None = None
    MaxOverrides = 1
CHECK_DEADLOCK FALSE
INVARIANTS
    NameIsTheNewestOverrides
    ConfidenceIsEarned
PROPERTIES
    VerifiedFallsOnlyToAStaleRead
    FailureToAskLowersNoMapping
