CONSTANTS
    Mints = {m1}
    NoMint = NoMint
    MaxTokens = 2
    ConfirmTimeout = 2
    ConfirmDeadline = 3
    MaxHold = 4
    Retention = 3
    MaxAge = 4
    MaxSignals = 1
    MaxSellRetries = 2
    RpcErrors = FALSE
    LandBy = 0
    Prompt = TRUE
SPECIFICATION FairSpec
INVARIANT HeldTokensManaged
PROPERTIES FollowsLifecycle SellAttemptEnds HeldTokensSold
CHECK_DEADLOCK FALSE
