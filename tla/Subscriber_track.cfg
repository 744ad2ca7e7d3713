CONSTANTS
    Mints = {m1, m2}
    NoMint = NoMint
    Untracks = FALSE
SPECIFICATION FairSpec
PROPERTY AccountsStreamed
CHECK_DEADLOCK FALSE
