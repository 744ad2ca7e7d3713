CONSTANTS
    Mints = {m1, m2}
    NoMint = NoMint
    MaxTokens = 1
    ConfirmTimeout = 1
    ConfirmDeadline = 2
    MaxHold = 2
    Retention = 2
    MaxAge = 2
    MaxSignals = 1
    MaxSellRetries = 1
    RpcErrors = FALSE
    LandBy = 0
    Prompt = TRUE
SPECIFICATION Spec
SYMMETRY Symmetry
PROPERTY SellingReleased
CHECK_DEADLOCK FALSE
