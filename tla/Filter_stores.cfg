CONSTANTS
    Creators = {OneCreator}
    Nobody = Nobody
    MaxRestarts = 1
    Gates = {t1, t2}
    Permits = 2
    FewPermits = 1
    ProfileTTL = 0
    RefreshCooldown = 1
    BadFrom = 1
    RefreshTime = 2
    Addresses = {OneWallet}
    Lookups = {1, 2, 3}
    SnapshotTTL = 0
    LookupCooldown = 1
    LookupTime = 1
    Templates = {"template"}
    Window = 1
    Factory = 3
    RepeatLimit = 2
    LaunchTime = 2
    MaxLaunches = 3
    RecordTime = 2
    MaxOutcomes = 2
    Buyers = {OneWallet, OtherWallet}
    MaxRugs = 1
    MaxTasks = 3
    Terms = {"term"}
    TermTTL <- TermTTLs
    TermTime = 2
    TokenLimit = 2
    RugLimit = 1
    FreshLimit = 2
    MinSol = 45
    MinQuality = 20
    MinCurve = 60
    MaxRisk = 10
    RiskCap = 18
    BonusCap = 1
    Bonus <- Bonuses
    Sols = {20, 50, 250}
    Curves = {0, 60}
    Qualities = {0, 25}
    Gate1Risks = {0, 3}
SPECIFICATION FairSpec
INVARIANT TypeOK OneRefreshAtATime MemoryBehindStore KnownBadStopped LaunchesLimited RecordsMerge
INVARIANT CountCoversBuyers TierJustified ScoringConsistent
PROPERTY NothingForgotten RefreshEnds EvidenceHelps
CHECK_DEADLOCK FALSE
