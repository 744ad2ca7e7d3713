CONSTANTS
    Mints = {m1}
    NoMint = NoMint
    MaxTokens = 1
    ConfirmTimeout = 2
    ConfirmDeadline = 3
    MaxHold = 4
    Retention = 3
    MaxAge = 4
    MaxSignals = 1
    MaxSellRetries = 2
    RpcErrors = FALSE
    LandBy = 2
    Prompt = TRUE
SPECIFICATION FairSpec
PROPERTY FallbackConfirms
CHECK_DEADLOCK FALSE
