CONSTANTS
    NoFunder = "-"
    FunderOf <- MCFunderOf
    Creator = "creator"
    CreatorFunder = "bank"
    Config <- MCConfig
    Enabled <- MCEnabled
    Mints = {m1}
    MaxAdmissions = 2
    MaxBuysSeen = 1
    Amounts = {1}
    MaxLag = 1
    Capacity = 1
    HotlistsSeen <- TwoLists
    Reloads = TRUE
    Faults = TRUE
    Buyers <- Outsiders
SPECIFICATION FairSpec
INVARIANT TypeOK TasksMatchStatus Accounted CloneIsCurrent
PROPERTY ReadyIsScored CandidateLeaves
CHECK_DEADLOCK FALSE
