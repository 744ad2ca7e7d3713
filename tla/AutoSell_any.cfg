CONSTANTS
    Mints = {m1}
    NoMint = NoMint
    MaxTokens = 2
    ConfirmTimeout = 1
    ConfirmDeadline = 2
    MaxHold = 1
    Retention = 2
    MaxAge = 2
    MaxSignals = 2
    MaxSellRetries = 2
    RpcErrors = TRUE
    LandBy = 2
    Prompt = FALSE
SPECIFICATION Spec
INVARIANT TypeOK OpenIsTracked HeldOnlyIfBought
PROPERTY ClosedStaysClosed
CHECK_DEADLOCK FALSE
