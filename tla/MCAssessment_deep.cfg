\* Chosen replies of every source, four observations of the package, two runs, a corrected identity.
CONSTANTS
    None = None
    Advisories = {"a1", "a2"}
    Labels = {"odd", "low", "high", "<2"}
    Expressions <- MCExpressions
    Operands <- MCOperands
    FreshFor <- MCFreshFor
    Runs = {r1, r2}
    Versions = {"full"}
    Parameters <- MCParameters
    Identities <- Corrected
    AnswersTo <- DeepAnswers
    MaxClock = 2
    MaxSweeps = 4
    r1 = r1
    r2 = r2
SPECIFICATION Spec
SYMMETRY RunSymmetry
INVARIANTS
    PassesAgree
    ReplaysAgree
    ClaimsWereRead
CHECK_DEADLOCK FALSE
