CONSTANTS
    Mints = {m1}
    NoMint = NoMint
    MaxTokens = 3
    ConfirmTimeout = 2
    ConfirmDeadline = 3
    MaxHold = 4
    Retention = 3
    MaxAge = 4
    MaxSignals = 1
    MaxSellRetries = 2
    RpcErrors = FALSE
    LandBy = 4
    Prompt = FALSE
SPECIFICATION Spec
INVARIANT ClosedMeansSold
PROPERTY SellingReleased
CHECK_DEADLOCK FALSE
