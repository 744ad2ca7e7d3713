CONSTANTS
    Mints = {m1, m2}
    NoMint = NoMint
    Untracks = TRUE
SPECIFICATION Spec
SYMMETRY Symmetry
INVARIANT CurveForgotten NewAccountsNoticed
CHECK_DEADLOCK FALSE
