\* Every reply of every source, two observations of the package, one run.
CONSTANTS
    None = None
    Advisories = {"a1", "a2"}
    Labels = {"odd", "low", "high", "<2"}
    Expressions <- MCExpressions
    Operands <- MCOperands
    FreshFor <- MCFreshFor
    Runs = {r1}
    Versions = {"full"}
    Parameters <- MCParameters
    Identities <- OneIdentity
    AnswersTo <- BroadAnswers
    MaxClock = 3
    MaxSweeps = 2
    r1 = r1
SPECIFICATION Spec
INVARIANTS
    NoRowIsRefused
    NoCleanVerdictOutOfSilence
    VerdictsRestOnFreshEvidence
CHECK_DEADLOCK FALSE
