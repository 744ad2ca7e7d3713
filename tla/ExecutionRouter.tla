-------------------------- MODULE ExecutionRouter --------------------------
(***************************************************************************)
(* How much a buy pays and which channels it takes                         *)
(* (tx/execution_router.rs), from the signal it acts on and from how       *)
(* earlier orders fared: each order leaves receipts in the analytics       *)
(* database (main.rs, tx/confirm.rs), and a task turns those of the       *)
(* last window into the feedback of the next buys (main.rs).  Receipts     *)
(* are written by concurrent tasks, so the feedback a buy sees may be old. *)
(*                                                                         *)
(* Rates are in basis points, as in the code; prices in units of 1/10^8.   *)
(***************************************************************************)
EXTENDS Integers, FiniteSets, Sequences

CONSTANTS
    Confidences,    \* values of execution_confidence
    Urgencies,      \* values of urgency_score
    MaxReceipts,    \* bound: receipts in the window
    MaxConfirming   \* bound: buys submitted and not confirmed

VARIABLES
    route,          \* the plan's primary: "rpc", "jito" or "zero_slot"
    jito,           \* the plan's send_jito
    receipts,       \* the statuses of the window's receipts, oldest first
    feedback,       \* execution_feedback
    confirming      \* buys submitted and not yet confirmed

vars == <<route, jito, receipts, feedback, confirming>>

Kinds    == {"submitted", "success", "failure"}
Tiers    == <<"conservative", "balanced", "aggressive">>
Full     == 10000

-----------------------------------------------------------------------------
(* execution_feedback_from_receipts *)

Number(log, kind) == Cardinality({i \in DOMAIN log : log[i] = kind})

(* What is only submitted is not counted.                                    *)
Samples(log) == Number(log, "success") + Number(log, "failure")

Rate(log) ==
    IF Samples(log) = 0 THEN Full ELSE (Number(log, "success") * Full) \div Samples(log)

(* recent_failure_streak: the failures since the last success                *)
SinceSuccess(log) ==
    {i \in DOMAIN log : log[i] = "failure" /\ \A j \in i..Len(log) : log[j] # "success"}

Streak(log) == Cardinality(SinceSuccess(log))

(* as it would be with the streak looked at first *)
BoostStreakFirst(rate, streak, samples, low, middle, high) ==
    IF samples < 4 THEN Full
    ELSE IF streak >= 2 THEN low
    ELSE IF rate < 5000 THEN high
    ELSE IF rate < 7500 THEN middle
    ELSE Full

(* fee_boost_bps, tip_boost_bps *)
Boost(rate, streak, samples, low, middle, high) ==
    IF samples < 4 THEN Full
    ELSE IF rate < 5000 THEN high
    ELSE IF rate < 7500 THEN middle
    ELSE IF streak >= 2 THEN low
    ELSE Full

Feedback(log) ==
    LET rate    == Rate(log)
        streak  == Streak(log)
        samples == Samples(log)
    IN  [streak |-> streak,
         fanout |-> jito /\ samples >= 4 /\ rate < 8000,
         fee    |-> Boost(rate, streak, samples, 11500, 12000, 13500),
         tip    |-> Boost(rate, streak, samples, 11500, 12500, 14000)]

(* ExecutionFeedback::default: nothing is boosted (combine_bps).             *)
NoFeedback == [streak |-> 0, fanout |-> FALSE, fee |-> 0, tip |-> 0]

-----------------------------------------------------------------------------
(* profile_for_signal *)

TierOf(path, urgency, confidence) ==
    IF confidence >= 80 \/ (path = "fast" /\ urgency >= 18) THEN 3
    ELSE IF confidence >= 60 \/ path = "fast" THEN 2
    ELSE 1

Raised(tier, streak) == IF streak >= 2 /\ tier < 3 THEN tier + 1 ELSE tier

FeeOf == <<10000, 12500, 15000>>
TipOf == <<10000, 12500, 16000>>

(* combine_bps, before the division: a boost below 10000 does not lower.     *)
Combined(base, boost) == base * (IF boost < Full THEN Full ELSE boost)

Profile(path, urgency, confidence, fb) ==
    LET tier == Raised(TierOf(path, urgency, confidence), fb.streak)
        all  == route # "zero_slot" /\ jito /\ (tier > 1 \/ fb.fanout)
    IN  [tier  |-> Tiers[tier],
         all   |-> all,
         label |-> IF route = "zero_slot" THEN "zero_slot"
                   ELSE IF all THEN "rpc+jito" ELSE route,
         fee   |-> Combined(FeeOf[tier], fb.fee),
         tip   |-> Combined(TipOf[tier], fb.tip)]

Profiles == {Profile(path, u, c, feedback) : path \in {"fast", "slow"}, u \in Urgencies,
                                             c \in Confidences}

-----------------------------------------------------------------------------
Boosts    == 0..14000
Feedbacks == [streak : 0..MaxReceipts, fanout : BOOLEAN, fee : Boosts, tip : Boosts]

TypeOK ==
    /\ route \in {"rpc", "jito", "zero_slot"} /\ jito \in BOOLEAN
    /\ receipts \in Seq(Kinds) /\ Len(receipts) <= MaxReceipts
    /\ feedback \in Feedbacks
    /\ confirming \in 0..MaxConfirming

(* ExecutionPlan::from_config *)
Init ==
    /\ jito \in BOOLEAN
    /\ route \in {"zero_slot", IF jito THEN "jito" ELSE "rpc"}
    /\ receipts = <<>> /\ feedback = NoFeedback /\ confirming = 0

Room(n) == Len(receipts) + n <= MaxReceipts

WithJito(label) == label \in {"jito", "rpc+jito"}

(* A buy that is sent: execute_group_buy counts what Jito was sent among the *)
(* successes, before anyone has accepted it.                                 *)
Submit(p) ==
    /\ confirming < MaxConfirming
    /\ LET left == IF WithJito(p.label) THEN <<"submitted", "success">> ELSE <<"submitted">>
       IN  /\ Room(Len(left))
           /\ receipts' = receipts \o left
    /\ confirming' = confirming + 1
    /\ UNCHANGED <<route, jito, feedback>>

(* No quote, no transaction or, over all channels, no channel that took it.  *)
Refuse ==
    /\ Room(1) /\ receipts' = Append(receipts, "failure")
    /\ UNCHANGED <<route, jito, feedback, confirming>>

(* The confirmer finds the buy landed, dropped or replaced.                  *)
Confirm(kind) ==
    /\ confirming > 0
    /\ kind \in {"success", "failure"}
    /\ Room(1) /\ receipts' = Append(receipts, kind)
    /\ confirming' = confirming - 1
    /\ UNCHANGED <<route, jito, feedback>>

(* The oldest receipt leaves the window.                                     *)
Expire ==
    /\ receipts # <<>>
    /\ receipts' = Tail(receipts)
    /\ UNCHANGED <<route, jito, feedback, confirming>>

Refresh ==
    /\ feedback' = Feedback(receipts)
    /\ UNCHANGED <<route, jito, receipts, confirming>>

Next ==
    \/ \E p \in Profiles : Submit(p)
    \/ Refuse
    \/ \E kind \in {"success", "failure"} : Confirm(kind)
    \/ Expire \/ Refresh

Spec == Init /\ [][Next]_vars

-----------------------------------------------------------------------------
(* One more failed receipt never makes the next buy of a signal pay a lower  *)
(* fee or tip, nor give up channels: the streak, the rate and the tier push  *)
(* the same way wherever their thresholds cross.                             *)
FailuresEscalate ==
    LET worse == Feedback(Append(receipts, "failure"))
        now   == Feedback(receipts)
    IN  \A path \in {"fast", "slow"}, u \in Urgencies, c \in Confidences :
            LET p == Profile(path, u, c, now)
                q == Profile(path, u, c, worse)
            IN  q.fee >= p.fee /\ q.tip >= p.tip /\ (p.all => q.all)

=============================================================================
