------------------------------- MODULE Gate3 -------------------------------
(***************************************************************************)
(* Gate 3 of the filter (filter/engine.rs): whether the first buys of a    *)
(* new token show smart money.  The statistics the code accumulates over   *)
(* the list of buys are defined here on its prefixes.  Amounts are whole   *)
(* units instead of floats, so shares are compared by cross-multiplying.   *)
(***************************************************************************)
EXTENDS Integers, Sequences, FiniteSets, SequencesExt

CONSTANTS
    Buyers,         \* wallets that buy
    NoFunder,       \* a wallet whose first funder is not known
    FunderOf,       \* the first funder of each wallet
    Creator,        \* the wallet that created the token
    CreatorFunder,  \* and who funded it
    Config,         \* the settings read from the environment
    Enabled         \* and the rules they switch on

Funders == {FunderOf[b] : b \in Buyers} \ {NoFunder}
Sols    == {"fastSol", "softSol", "floorSol", "clusterSol", "selfSol", "selfHardSol", "externalSol"}
Shares  == {"selfShare", "selfHardShare", "buyerShare"}
Windows == {"fastWindow", "softWindow", "window", "hardReject"}
Counts  == {"maxBuys", "concentrationBuys", "externalBuyers", "diversityBuys"}

ASSUME Gate3Assumption ==
    /\ FunderOf \in [Buyers -> Funders \cup {NoFunder}]
    /\ Enabled \subseteq {"hotlists", "selfBuyBlock", "concentration"}
    /\ Config \in [Sols \cup Shares \cup Windows \cup Counts -> Nat]

Smaller(a, b) == IF a <= b THEN a ELSE b
Larger(a, b)  == IF a >= b THEN a ELSE b

(* Whatever the settings, each window lies within the next. *)
SoftWindow == Smaller(Larger(Config.softWindow, Config.fastWindow), Config.window)
FastWindow == Smaller(Config.fastWindow, SoftWindow)
HardReject == Smaller(Larger(Config.hardReject, SoftWindow), Config.window)

-----------------------------------------------------------------------------
(* Buys are records [sig, buyer, sol, rank, at]; `h` is the hot lists, `bs`  *)
(* a list of buys, `known` the buyers whose profile is known, `profile`      *)
(* whether the creator's is, and `c` a candidate, which has all of these.    *)

HotlistMode(h) == "hotlists" \in Enabled /\ (h.wallets # {} \/ h.funders # {})

FunderIn(known, b) == IF b.buyer \in known THEN FunderOf[b.buyer] ELSE NoFunder

MatchesHotlist(h, known, b) ==
    /\ b.buyer \notin h.blocked
    /\ b.buyer \in h.wallets \/ FunderIn(known, b) \in h.funders

Matched(h, known, b)   == HotlistMode(h) => MatchesHotlist(h, known, b)
Eligible(h, bs)        == SelectSeq(bs, LAMBDA b : b.buyer \notin h.blocked)
MatchedIn(h, known, bs) == SelectSeq(bs, LAMBDA b : Matched(h, known, b))
ByCreator(bs)          == SelectSeq(bs, LAMBDA b : b.buyer = Creator)

(* buys of other wallets that the creator's funder has funded *)
ByCreatorFunder(known, profile, bs) ==
    SelectSeq(bs, LAMBDA b : /\ profile /\ CreatorFunder # NoFunder
                             /\ b.buyer # Creator
                             /\ FunderIn(known, b) = CreatorFunder)

Sol(bs)              == FoldLeft(LAMBDA sum, b : sum + b.sol, 0, bs)
BuyersIn(bs)         == {bs[i].buyer : i \in DOMAIN bs}
FundersIn(known, bs) == {FunderIn(known, bs[i]) : i \in DOMAIN bs} \ {NoFunder}
BoughtBy(bs, b)      == SelectSeq(bs, LAMBDA x : x.buyer = b)

(* the most buys one funder stands behind; one wallet's buys all count *)
LargestCluster(known, bs) ==
    Max({0} \cup {Len(SelectSeq(bs, LAMBDA b : FunderIn(known, b) = f)) : f \in FundersIn(known, bs)})

ClusterAtMost(known, bs, share) ==
    100 * LargestCluster(known, bs) <= share * Cardinality(BuyersIn(bs))
ClusterAtLeast(known, bs, share) ==
    100 * LargestCluster(known, bs) >= share * Cardinality(BuyersIn(bs))

QualityCluster(h, known, profile, bs) ==
    /\ Cardinality(FundersIn(known, bs)) >= 3
    /\ Cardinality(FundersIn(known, bs) \cap h.funders) >= 2
    /\ ByCreatorFunder(known, profile, bs) = <<>>
    /\ ClusterAtMost(known, bs, 60)

SameClusterPressure(known, bs, count) ==
    count >= 3 /\ LargestCluster(known, bs) >= 3 /\ ClusterAtLeast(known, bs, 66)

FastMinSol(h, known, profile, bs) ==   \* in hundredths of a unit
    IF QualityCluster(h, known, profile, bs)
    THEN Larger(85 * Config.fastSol, 100 * Config.floorSol)
    ELSE 100 * Config.fastSol

FastReady(h, known, profile, bs, count) ==
    /\ ~SameClusterPressure(known, bs, count)
    /\ 100 * Sol(MatchedIn(h, known, bs)) >= FastMinSol(h, known, profile, bs)

SoftReady(h, known, bs) == Sol(MatchedIn(h, known, bs)) >= Config.softSol

Weighs(h, known, b) == b.buyer \notin h.blocked /\ Matched(h, known, b)

(* The first of all buys that counts and at which the test held of those     *)
(* eligible so far came within the window.                                   *)
ReachedWithin(h, known, all, Test(_), window) ==
    LET reached == {i \in DOMAIN all : /\ Weighs(h, known, all[i])
                                       /\ Test(Eligible(h, SubSeq(all, 1, i)))}
    IN  reached # {} /\ all[Min(reached)].at <= window

FastTriggers(h, known, profile, all) ==
    /\ FastReady(h, known, profile, Eligible(h, all), Len(all))
    /\ ReachedWithin(h, known, all, LAMBDA p : FastReady(h, known, profile, p, Len(p)),
                     FastWindow)

SoftTriggers(h, known, all) ==
    /\ SoftReady(h, known, Eligible(h, all))
    /\ ReachedWithin(h, known, all, LAMBDA p : SoftReady(h, known, p), SoftWindow)

Trigger(h, c) ==
    IF FastTriggers(h, c.known, c.profile, c.buys) THEN "fast"
    ELSE IF SoftTriggers(h, c.known, c.buys) THEN "soft"
    ELSE "none"

-----------------------------------------------------------------------------
(* The reasons for which gate 3 turns a candidate away. *)

SelfBuy(bs) ==   \* of the eligible buys
    LET own      == Sol(ByCreator(bs))
        external == Cardinality(BuyersIn(bs) \ {Creator})
        strong   == external >= Config.externalBuyers /\ Sol(bs) - own >= Config.externalSol
        above(share) == own > Config.selfSol /\ 100 * own > share * Sol(bs)
    IN  /\ "selfBuyBlock" \in Enabled
        /\ ByCreator(bs) # <<>>
        /\ \/ above(Config.selfHardShare)
           \/ own > Config.selfHardSol /\ ~strong
           \/ above(Config.selfShare) /\ ~strong

CreatorCluster(known, profile, bs) ==   \* of the eligible buys
    LET linked   == ByCreatorFunder(known, profile, bs)
        external == Sol(bs) - Sol(ByCreator(bs))
    IN  /\ profile /\ CreatorFunder # NoFunder
        /\ Len(linked) >= 2
        /\ Sol(linked) >= Config.clusterSol
        /\ external > 0 /\ 100 * Sol(linked) >= 85 * external

Concentration(h, all) ==
    LET bs == Eligible(h, all)
    IN  /\ "concentration" \in Enabled
        /\ Len(all) >= Config.concentrationBuys
        /\ Sol(bs) > 0
        /\ \E b \in BuyersIn(bs) : 100 * Sol(BoughtBy(bs, b)) > Config.buyerShare * Sol(bs)

LowDiversity(h, known, all) ==
    LET bs == Eligible(h, all)
    IN  /\ Len(all) >= Config.diversityBuys
        /\ Cardinality(BuyersIn(bs)) >= 2
        /\ Cardinality(FundersIn(known, bs)) < 2

Full(h, known, all) == Len(all) >= Config.maxBuys /\ ~SoftReady(h, known, Eligible(h, all))

(* The first that holds, in the code's order. *)
Reject(h, c) ==
    IF SelfBuy(Eligible(h, c.buys)) THEN "creator_self_buy"
    ELSE IF CreatorCluster(c.known, c.profile, Eligible(h, c.buys)) THEN "creator_cluster"
    ELSE IF Concentration(h, c.buys) THEN "concentration"
    ELSE IF LowDiversity(h, c.known, c.buys) THEN "insufficient"
    ELSE IF c.age > HardReject THEN "timeout"
    ELSE IF Full(h, c.known, c.buys) THEN "max_buys"
    ELSE "none"

Immediate == {"creator_self_buy", "creator_cluster", "concentration", "max_buys"}

ShouldFinalize(h, c) == Reject(h, c) = "none" /\ Trigger(h, c) # "none"

=============================================================================
