------------------------------- MODULE Scoring -------------------------------
(***************************************************************************)
(* What the filter computes of one candidate (filter/engine.rs,            *)
(* filter/risk.rs): gate 2's rules for its creator and his funder, gate    *)
(* 4's score and its filter for single buyers.  Amounts of SOL, shares and *)
(* progress are hundredths.  The evidence may grow before it is scored.    *)
(***************************************************************************)
EXTENDS Integers, FiniteSets

CONSTANTS
    TokenLimit,   \* CREATOR_TOTAL_TOKEN_LIMIT
    RugLimit,     \* CREATOR_RUG_LIMIT
    FreshLimit,   \* creator_fresh_wallet_token_limit
    MinSol,       \* sniper_single_buyer_min_sol
    MinQuality,   \* sniper_single_buyer_min_buyer_quality_pct
    MinCurve,     \* sniper_single_buyer_max_curve_progress_pct
    MaxRisk,      \* sniper_single_buyer_max_runtime_risk_penalty
    RiskCap,      \* risk_penalty_cap
    BonusCap,     \* dynamic_narrative_bonus_cap
    Bonus,        \* of a hit in each tier: narrative_*_bonus_per_hit
    Sols, Curves, Qualities,  \* bounds: amounts the evidence may show
    Gate1Risks                \* bounds: penalties of gate 1

VARIABLES
    step,      \* how far the candidate is
    profile,   \* its creator's profile
    counted,   \* whether his graduated tokens have been counted
    gate2,     \* CreatorGateResult
    evidence   \* of its buyers, curve and name

vars == <<step, profile, counted, gate2, evidence>>

Paths   == {"fast", "soft"}
Tiers   == {"preheat", "base", "confirmed"}
Tokens  == 1..(TokenLimit + 1)
Funding == {"none", "blacklisted", "rugs", "large"}   \* what is known of a funder
Profile == [tokens : Tokens, rugs : {0, RugLimit}, graduated : {0, 1}, young : BOOLEAN,
            funder : Funding]
Evidence == [path : Paths, matched : 1..2, eligible : 1..2, funders : 0..2, sol : Sols,
             curve : Curves, quality : Qualities, risk : Gate1Risks, hits : [Tiers -> {0, 1}]]
Gate2   == [passed : BOOLEAN, penalty : 0..99,
            warnings : SUBSET {"fresh_wallet", "unproven_creator", "large_funder_cluster"}]

TypeOK ==
    /\ step \in {"profile", "rules", "entity", "gate4", "scored", "rejected"}
    /\ profile \in Profile
    /\ counted \in BOOLEAN
    /\ gate2 \in Gate2
    /\ evidence \in Evidence

Smaller(a, b) == IF a <= b THEN a ELSE b
Larger(a, b)  == IF a >= b THEN a ELSE b
Least(amounts) == CHOOSE x \in amounts : \A y \in amounts : x <= y
Points(holds, points) == IF holds THEN points ELSE 0

Clean == [passed |-> TRUE, penalty |-> 0, warnings |-> {}]

(* A profile fetched counts no graduated tokens yet; the evidence is the     *)
(* least there can be.                                                       *)
Init ==
    /\ step = "profile"
    /\ profile \in {p \in Profile : p.graduated = 0}
    /\ counted = FALSE
    /\ gate2 = Clean
    /\ evidence \in [path : Paths, matched : {1}, eligible : {1}, funders : {0, 1},
                     sol : {Least(Sols)}, curve : {Least(Curves)}, quality : {Least(Qualities)},
                     risk : Gate1Risks, hits : {[t \in Tiers |-> 0]}]

-----------------------------------------------------------------------------
(* Gate 2.  Before the graduated tokens are counted, which takes a request   *)
(* for each, the rules that do not need them are applied.                    *)

(* as it would be with the limit itself turned away *)
RejectedAtLimit(p) == p.tokens >= TokenLimit \/ p.rugs >= RugLimit

RejectedWithoutGraduated(p) == p.tokens > TokenLimit \/ p.rugs >= RugLimit

NeedsGraduated(p) == p.tokens >= FreshLimit

Fetch ==
    /\ step = "profile"
    /\ IF RejectedWithoutGraduated(profile)
       THEN /\ step' = "rejected"
            /\ gate2' = [Clean EXCEPT !.passed = FALSE]
            /\ UNCHANGED <<profile, counted>>
       ELSE /\ step' = "rules"
            /\ counted' = NeedsGraduated(profile)
            /\ \E n \in {0, 1} : profile' = [profile EXCEPT !.graduated = IF counted' THEN n ELSE 0]
            /\ UNCHANGED gate2
    /\ UNCHANGED evidence

Warned(p) ==
    {w \in {"fresh_wallet", "unproven_creator"} :
        /\ p.tokens >= FreshLimit
        /\ IF w = "fresh_wallet" THEN p.young ELSE p.graduated = 0}

(* apply_creator_rules, for a profile just fetched and for a stored one *)
CreatorRules(p) ==
    [passed   |-> p.tokens <= TokenLimit /\ p.rugs < RugLimit,
     penalty  |-> Points("fresh_wallet" \in Warned(p), 4) + Points("unproven_creator" \in Warned(p), 6),
     warnings |-> Warned(p)]

Judge ==
    /\ step = "rules"
    /\ gate2' = CreatorRules(profile)
    /\ step' = IF gate2'.passed THEN "entity" ELSE "rejected"
    /\ UNCHANGED <<profile, counted, evidence>>

(* apply_creator_entity_rules: what is known of the creator's funder *)
EntityRules ==
    /\ step = "entity"
    /\ LET barred == profile.funder \in {"blacklisted", "rugs"}
           large  == profile.funder = "large" /\ profile.tokens >= FreshLimit
       IN  /\ gate2' = IF barred THEN [gate2 EXCEPT !.passed = FALSE]
                       ELSE IF large
                       THEN [gate2 EXCEPT !.penalty = @ + 4,
                                          !.warnings = @ \cup {"large_funder_cluster"}]
                       ELSE gate2
           /\ step' = IF barred THEN "rejected" ELSE "gate4"
    /\ UNCHANGED <<profile, counted, evidence>>

-----------------------------------------------------------------------------
(* The evidence grows until the candidate is scored.                         *)

Better(e) ==
    {[e EXCEPT !.sol = x] : x \in {x \in Sols : x > e.sol}}
    \cup {[e EXCEPT !.curve = x] : x \in {x \in Curves : x > e.curve}}
    \cup {[e EXCEPT !.quality = x] : x \in {x \in Qualities : x > e.quality}}
    \cup {[e EXCEPT !.hits[t] = @ + 1] : t \in {t \in Tiers : e.hits[t] = 0}}
    \cup {[e EXCEPT !.eligible = 2, !.matched = e.matched + n[1], !.funders = e.funders + n[2]] :
            n \in {n \in {0, 1} \X {0, 1} : e.eligible = 1}}

Grow ==
    /\ step = "gate4"
    /\ evidence' \in Better(evidence)
    /\ UNCHANGED <<step, profile, counted, gate2>>

-----------------------------------------------------------------------------
(* Gate 4.                                                                   *)

Hits(e, tiers) ==
    Points("preheat" \in tiers, e.hits["preheat"]) + Points("base" \in tiers, e.hits["base"])
        + Points("confirmed" \in tiers, e.hits["confirmed"])

RawBonus(e, t) == e.hits[t] * Bonus[t]
Excess(e) == Larger(RawBonus(e, "preheat") + RawBonus(e, "base") + RawBonus(e, "confirmed") - BonusCap, 0)
Cut(e, t, excess) == Smaller(RawBonus(e, t), excess)

(* build_narrative_adjustment: what exceeds the cap is cut from the confirmed *)
(* terms first, then from the base terms, then from those of the preheat.     *)
Narrative(e) ==
    LET confirmed == Cut(e, "confirmed", Excess(e))
        base      == Cut(e, "base", Excess(e) - confirmed)
        preheat   == Cut(e, "preheat", Excess(e) - confirmed - base)
    IN  [t \in Tiers |-> RawBonus(e, t) - (CASE t = "confirmed" -> confirmed
                                             [] t = "base"      -> base
                                             [] t = "preheat"   -> preheat)]

NarrativeBonus(e) ==
    Smaller(Narrative(e)["preheat"] + Narrative(e)["base"] + Narrative(e)["confirmed"], BonusCap)

(* analyze_runtime_risk: with one buyer, his share is the whole *)
RuntimeRisk(e) ==
    LET spike    == e.sol >= 250 /\ e.eligible <= 2
        repeated == e.risk > 0   \* a template repeated, which gate 1 has let pass
    IN  Smaller(Points(e.eligible = 1, 8) + Points(spike, 6) + Points(repeated, 4) + e.risk, RiskCap)

Participants(e) ==
    LET steps == IF e.path = "fast" THEN <<20, 26>> ELSE <<10, 20>>
    IN  steps[e.matched]

Capital(e) ==
    IF e.path = "fast"
    THEN Larger(Larger(Points(e.sol >= 100, 20), Points(e.sol >= 50, 15)), Points(e.sol >= 20, 10))
    ELSE Larger(Points(e.sol >= 200, 20), Points(e.sol >= 50, 10))

CurveScore(e) ==
    Points(e.curve > 50, 5) + Points(e.curve > 200, 5) + Points(e.curve > 500, 5)

BuyerQuality(e) ==
    LET score == (e.quality * 15 + 50) \div 100
    IN  IF e.path = "fast" /\ e.eligible = 1 THEN Larger(score, 5) ELSE score

Base(e)    == Participants(e) + Capital(e) + CurveScore(e) + BuyerQuality(e)
Penalty(e) ==
    gate2.penalty + RuntimeRisk(e)
        + Points(e.eligible >= 2 /\ e.funders < 2, 6)
        + Points(profile.funder = "large", 6)

Quality(e) == Base(e) - Smaller(Penalty(e), Base(e))
Urgency(e) == NarrativeBonus(e)   \* and points for the number of buys, too few here
Total(e)   == Quality(e) + Urgency(e)

(* as it would be without the floors that spare a larger buy *)
RiskHeavyAtAnySize(e) ==
    /\ e.curve < MinCurve
    /\ Hits(e, {"base", "confirmed"}) = 0
    /\ RuntimeRisk(e) > MaxRisk
    /\ e.quality < Smaller(MinQuality + 10, 100)

RiskHeavy(e) ==
    /\ RiskHeavyAtAnySize(e)
    /\ e.sol < Smaller(MinSol + 15, 100)

Noise(e) ==
    /\ e.sol < MinSol /\ e.curve < MinCurve /\ e.quality < MinQuality
    /\ Hits(e, {"base", "confirmed"}) = 0

(* sniper_single_buyer_reject_reason *)
SingleBuyerReject(e) ==
    /\ e.path = "fast" /\ e.matched <= 1 /\ e.eligible <= 1
    /\ Noise(e) \/ RiskHeavy(e)

(* The score itself stops nothing: it only goes with the signal. *)
Score ==
    /\ step = "gate4"
    /\ step' = IF SingleBuyerReject(evidence) THEN "rejected" ELSE "scored"
    /\ UNCHANGED <<profile, counted, gate2, evidence>>

Next == Fetch \/ Judge \/ EntityRules \/ Grow \/ Score

Spec == Init /\ [][Next]_vars

-----------------------------------------------------------------------------
(* The rules applied before the graduated tokens are counted turn away those *)
(* creators, and only those, whom the full rules would: the profile that is  *)
(* stored gets the same verdict at the creator's next launch, when it comes  *)
(* from the database and only the full rules see it.                         *)
VerdictRepeats ==
    step \notin {"profile", "rules"} /\ ~gate2.passed =>
        ~CreatorRules(profile).passed \/ profile.funder \in {"blacklisted", "rugs"}

(* A creator is never charged with having no graduated token when none were  *)
(* counted: the saving of the count and the warning have one condition.      *)
UnprovenWasCounted == "unproven_creator" \in gate2.warnings => counted

(* The bonus of the tiers is the smaller of what the hits earn and the cap,  *)
(* whatever order the tiers are cut in.                                      *)
NarrativeWithinCap ==
    Narrative(evidence)["preheat"] + Narrative(evidence)["base"] + Narrative(evidence)["confirmed"]
        = Smaller(RawBonus(evidence, "preheat") + RawBonus(evidence, "base")
                      + RawBonus(evidence, "confirmed"), BonusCap)

(* The score is unsigned: penalties, of however many rules, take away        *)
(* quality at most, and leave the urgency.                                   *)
PenaltiesWithinQuality == Total(evidence) >= Urgency(evidence)

(* Better evidence never turns a candidate away that would have passed: a    *)
(* larger buy adds to the runtime risk, but no longer meets the risk filter. *)
EvidenceHelps ==
    [][step = "gate4" /\ step' = "gate4" /\ ~SingleBuyerReject(evidence)
          => ~SingleBuyerReject(evidence')]_vars

=============================================================================
