CONSTANTS
    Feed = {"laserstream", "shyft"}
    Token = {"t1", "t2"}
    BuyEvent = {"b1"}
    TokenOf <- BuyOf
    DedupTTL = 1
    CleanupEvery = 1
    MaxKeys = 1
    TokenRoom = 1
    BuyRoom = 1
    MaxLag = 1
    MaxWait = 1
    FeedTime = 2
    Sends = {1, 2, 3}
    Engines <- DefaultEngines
    Relay = "relay"
    Confidences = {59, 60, 80}
    Urgencies = {17, 18}
    MaxReceipts = 6
    MaxConfirming = 1
    StartSol = 4
    StartTokens = 20
    Amounts = {1, 3}
    Slippages = {0, 20}
    MaxSol = 8
    Processes = {"p1", "p2"}
    MaxStarts = 4
    Prices = {2, 3, 4}
    StopLoss = 50
    TakeProfit = 100
    Trailing = 25
    MaxHold = 2
    ConfirmTimeout = 1
    MaxQueue = 2
    HoldTime = 2
SPECIFICATION FairSpec
INVARIANT TypeOK ForwardedOnce TipsMatchChannels FailuresEscalate QuotesSound
PROPERTY TokensReachFilter OneInstance BreachSignalled
CHECK_DEADLOCK FALSE
