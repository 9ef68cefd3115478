SPECIFICATION Spec
CONSTANTS
    Operators = {1, 2, 3}
    Polynomials = {p, q}
    WellFormed = {p}
    Faulty = {2}
    None = None
INVARIANTS CompleteKeysAgree ShareMatchesMPK ContributionHeld
CHECK_DEADLOCK FALSE
