--------------------------- MODULE FilterPipeline ---------------------------
(***************************************************************************)
(* The event loop of the filter (filter/engine.rs): the candidates it      *)
(* keeps, the tasks it spawns for them (the slow creator gate, the fetches *)
(* of buyers' profiles, the scoring) and the messages that come back.  A   *)
(* message names a mint, never the admission it was sent for.  Tasks       *)
(* finish in any order; the loop handles one event at a time.              *)
(***************************************************************************)
EXTENDS Gate3

CONSTANTS
    Mints,          \* mints whose creation is reported
    MaxAdmissions,  \* bound: times a mint passes gate 1
    MaxBuysSeen,    \* bound: buys one wallet makes of a mint
    Amounts,        \* what a buy may be worth
    MaxLag,         \* bound: how long a buy event waits to be handled
    Capacity,       \* of the channel to the buy loop
    HotlistsSeen,   \* contents the hot lists may have
    Reloads,        \* whether the hot lists change while running
    Faults          \* whether the database fails and the buy loop ends

ASSUME PipelineAssumption ==
    /\ MaxAdmissions \in Nat /\ MaxBuysSeen \in Nat /\ MaxLag \in Nat
    /\ Capacity \in Nat \ {0} /\ Amounts \subseteq Nat /\ IsFiniteSet(Amounts)
    /\ Reloads \in BOOLEAN /\ Faults \in BOOLEAN /\ HotlistsSeen # {}

VARIABLES
    candidates,  \* candidates: what is known of each mint
    gating,      \* creator gates at work, or whose result is on its way
    fetching,    \* fetches of buyers' profiles, likewise
    scoring,     \* the clones score tasks work on, likewise
    hot,         \* hotlists
    signals,     \* the channel to the buy loop
    running,     \* the loop has not returned
    open,        \* the buy loop still receives
    admitted, rejected, passed, sent   \* counts per mint

vars == <<candidates, gating, fetching, scoring, hot, signals, running, open,
          admitted, rejected, passed, sent>>
counts == <<admitted, rejected, passed, sent>>
tasks  == <<gating, fetching, scoring>>

Sigs  == Buyers \X (1..MaxBuysSeen)
Ranks == {0, 1}   \* buy_feed_rank: deshred, processed
Ages  == 0..(HardReject + 1)
Buy   == [sig : Sigs, buyer : Buyers, sol : Amounts, rank : Ranks, at : Ages]

Statuses == {"CreatorPending", "Active", "Finalizing"}
Candidate ==
    [status : Statuses, buys : Seq(Buy), known : SUBSET Buyers, pending : SUBSET Buyers,
     profile : BOOLEAN, age : Ages]
NoCandidate == [status |-> "none"]
NewCandidate(status, profile) ==
    [status |-> status, buys |-> <<>>, known |-> {}, pending |-> {}, profile |-> profile, age |-> 0]

Present(m) == candidates[m] # NoCandidate

TypeOK ==
    /\ candidates \in [Mints -> Candidate \cup {NoCandidate}]
    /\ \A m \in Mints : Present(m) => Len(candidates[m].buys) <= Config.maxBuys
    /\ gating \in [Mints -> Nat]
    /\ fetching \in [Mints \X Buyers -> Nat]
    /\ scoring \in [Mints -> Seq(Candidate)]
    /\ hot \in HotlistsSeen
    /\ signals \in Seq(Mints) /\ Len(signals) <= Capacity
    /\ running \in BOOLEAN /\ open \in BOOLEAN
    /\ \A count \in {admitted, rejected, passed, sent} : count \in [Mints -> 0..MaxAdmissions]

Init ==
    /\ candidates = [m \in Mints |-> NoCandidate]
    /\ gating = [m \in Mints |-> 0]
    /\ fetching = [f \in Mints \X Buyers |-> 0]
    /\ scoring = [m \in Mints |-> <<>>]
    /\ hot \in HotlistsSeen
    /\ signals = <<>>
    /\ running = TRUE
    /\ open = TRUE
    /\ admitted = [m \in Mints |-> 0]
    /\ rejected = admitted
    /\ passed = admitted
    /\ sent = admitted

Put(m, c)      == candidates' = [candidates EXCEPT ![m] = c]
Plus(count, m) == [count EXCEPT ![m] = @ + 1]

(* The candidate leaves with a recorded outcome. *)
TurnAway(m) ==
    /\ Put(m, NoCandidate)
    /\ rejected' = Plus(rejected, m)
    /\ UNCHANGED <<scoring, admitted, passed, sent>>

(* A candidate without a reason to reject it and with a trigger is scored. *)
Settle(m, c) ==
    /\ IF c.status = "Active" /\ ShouldFinalize(hot, c)
       THEN /\ Put(m, [c EXCEPT !.status = "Finalizing"])
            /\ scoring' = [scoring EXCEPT ![m] = Append(@, c)]
       ELSE Put(m, c) /\ UNCHANGED scoring
    /\ UNCHANGED counts

-----------------------------------------------------------------------------
(* A token that passed gate 1 becomes a candidate unless its mint is one;   *)
(* what the cache or the database knows of its creator decides gate 2 at    *)
(* once, otherwise a task does.  A database error ends the loop.            *)

Admit(m, c) ==
    /\ running /\ ~Present(m) /\ admitted[m] < MaxAdmissions
    /\ Put(m, c)
    /\ admitted' = Plus(admitted, m)
    /\ UNCHANGED <<fetching, scoring, hot, signals, open, rejected, passed, sent>>

AdmitKnownCreator(m) ==
    /\ \E profile \in BOOLEAN : Admit(m, NewCandidate("Active", profile))
    /\ UNCHANGED <<gating, running>>

RejectKnownCreator(m) ==
    /\ running /\ ~Present(m) /\ admitted[m] < MaxAdmissions
    /\ admitted' = Plus(admitted, m)
    /\ rejected' = Plus(rejected, m)
    /\ UNCHANGED <<candidates, tasks, hot, signals, running, open, passed, sent>>

AdmitForGate(m) ==
    /\ Admit(m, NewCandidate("CreatorPending", FALSE))
    /\ gating' = Plus(gating, m)
    /\ UNCHANGED running

AdmitFails(m) ==
    /\ Faults
    /\ Admit(m, NewCandidate("CreatorPending", FALSE))
    /\ running' = FALSE
    /\ UNCHANGED gating

(* handle_creator_gate_resolution looks at no status: what it finds is what *)
(* its own task was spawned for.  An error in the task counts as a pass.    *)
CreatorGateResolved(m) ==
    /\ running /\ gating[m] > 0
    /\ gating' = [gating EXCEPT ![m] = @ - 1]
    /\ IF Present(m)
       THEN \/ TurnAway(m)
            \/ \E profile \in BOOLEAN :
                  Settle(m, [candidates[m] EXCEPT !.status = "Active", !.profile = profile])
       ELSE UNCHANGED <<candidates, scoring, counts>>
    /\ UNCHANGED <<fetching, hot, signals, running, open>>

-----------------------------------------------------------------------------
(* Buys of a candidate *)

(* upgrade_existing_buy_event: the larger amount, the better feed's data *)
Upgrade(old, new) ==
    [old EXCEPT !.sol = Larger(old.sol, new.sol), !.rank = Larger(old.rank, new.rank)]

Fetch(m, b) == fetching' = [fetching EXCEPT ![<<m, b>>] = @ + 1]

(* maybe_spawn_buyer_profile_fetch *)
WithProfile(m, c, buyer) ==
    IF buyer \in c.known \cup c.pending
    THEN c
    ELSE [c EXCEPT !.pending = @ \cup {buyer}]

SpawnFetch(m, c, buyer) ==
    IF buyer \in c.known \cup c.pending THEN UNCHANGED fetching ELSE Fetch(m, buyer)

(* as it would be without the look at the status *)
EvaluateInAnyStatus(m, c) ==
    IF Reject(hot, c) \in Immediate THEN TurnAway(m)
    ELSE Settle(m, [c EXCEPT !.status = "Active"])

(* evaluate_candidate_after_buy *)
Evaluate(m, c) ==
    IF c.status = "Active" /\ Reject(hot, c) \in Immediate THEN TurnAway(m) ELSE Settle(m, c)

Position(c, sig) == {i \in DOMAIN c.buys : c.buys[i].sig = sig}

Room(c) == Len(c.buys) < Config.maxBuys

NewBuy(m, buy) ==
    LET c == candidates[m]
    IN  /\ Position(c, buy.sig) = {}
        /\ Room(c)
        /\ buy.at <= HardReject
        /\ Evaluate(m, [WithProfile(m, c, buy.buyer) EXCEPT !.buys = Append(@, buy)])
        /\ SpawnFetch(m, c, buy.buyer)

KnownBuy(m, buy) ==
    LET c == candidates[m]
    IN  \E i \in Position(c, buy.sig) :
          /\ Upgrade(c.buys[i], buy) # c.buys[i]
          /\ Evaluate(m, [c EXCEPT !.buys[i] = Upgrade(@, buy)])
          /\ UNCHANGED fetching

(* as it would be without the look at the status *)
FollowedThroughout(m) == Present(m)

(* A buy of a mint that is not, or no longer, looked at is dropped. *)
Followed(m) == Present(m) /\ candidates[m].status # "Finalizing"

(* as it would be with a plain subtraction *)
PlainlySince(age, lag) == age - lag

(* a buy may be stamped before its token's creation: saturating_sub *)
Since(age, lag) == Larger(age - lag, 0)

BuyEvent(m) ==
    /\ running /\ Followed(m)
    /\ \E sig \in Sigs, sol \in Amounts, rank \in Ranks, lag \in 0..MaxLag :
          LET buy == [sig |-> sig, buyer |-> sig[1], sol |-> sol, rank |-> rank,
                      at |-> Since(candidates[m].age, lag)]
          IN  NewBuy(m, buy) \/ KnownBuy(m, buy)
    /\ UNCHANGED <<gating, hot, signals, running, open>>

Fetched(c, b, found) ==
    [c EXCEPT !.pending = @ \ {b}, !.known = @ \cup found]

(* as it would be if only buys had a candidate looked at again *)
BuyerProfileStored(m, b) ==
    /\ running /\ fetching[<<m, b>>] > 0
    /\ fetching' = [fetching EXCEPT ![<<m, b>>] = @ - 1]
    /\ IF Present(m)
       THEN \E found \in {{}, {b}} : Put(m, Fetched(candidates[m], b, found))
       ELSE UNCHANGED candidates
    /\ UNCHANGED <<gating, scoring, hot, signals, running, open, counts>>

(* A profile is applied to whatever candidate the mint now has. *)
BuyerProfileResolved(m, b) ==
    /\ running /\ fetching[<<m, b>>] > 0
    /\ fetching' = [fetching EXCEPT ![<<m, b>>] = @ - 1]
    /\ IF Present(m)
       THEN \E found \in {{}, {b}} : Settle(m, Fetched(candidates[m], b, found))
       ELSE UNCHANGED <<candidates, scoring, counts>>
    /\ UNCHANGED <<gating, hot, signals, running, open>>

-----------------------------------------------------------------------------
(* The score task looks at its clone once more, under the hot lists of the  *)
(* moment.  The signal is sent whether or not the candidate is still there. *)

MaySignal(m) ==
    LET clone == Head(scoring[m])
    IN  Trigger(hot, clone) # "none"

Single(c) == Cardinality(BuyersIn(Eligible(hot, c.buys))) <= 1

MayReject(m) ==   \* below the threshold again, or a lone sniper
    LET clone == Head(scoring[m])
    IN  Trigger(hot, clone) = "none" \/ (Trigger(hot, clone) = "fast" /\ Single(clone))

(* as it would be with the candidate left in place *)
StayScored(m, outcome) ==
    /\ UNCHANGED candidates
    /\ scoring' = [scoring EXCEPT ![m] = Tail(@)]
    /\ IF Present(m) THEN outcome ELSE UNCHANGED <<rejected, passed>>
    /\ UNCHANGED <<gating, fetching, hot, admitted>>

LeaveScored(m, outcome) ==
    /\ candidates' = [candidates EXCEPT ![m] = NoCandidate]
    /\ scoring' = [scoring EXCEPT ![m] = Tail(@)]
    /\ IF Present(m) THEN outcome ELSE UNCHANGED <<rejected, passed>>
    /\ UNCHANGED <<gating, fetching, hot, admitted>>

ScoredRejected(m) ==
    /\ running /\ scoring[m] # <<>> /\ MayReject(m)
    /\ LeaveScored(m, rejected' = Plus(rejected, m) /\ UNCHANGED passed)
    /\ UNCHANGED <<signals, running, open, sent>>

ScoredPassed(m) ==
    /\ running /\ scoring[m] # <<>> /\ MaySignal(m)
    /\ LeaveScored(m, passed' = Plus(passed, m) /\ UNCHANGED rejected)
    /\ \/ /\ open /\ Len(signals) < Capacity
          /\ signals' = Append(signals, m)
          /\ sent' = Plus(sent, m)
          /\ UNCHANGED running
       \/ /\ ~open
          /\ running' = FALSE
          /\ UNCHANGED <<signals, sent>>
    /\ UNCHANGED open

(* as it would be for the reasons found at a buy only *)
SweepImmediate(m) ==
    /\ running /\ Present(m)
    /\ candidates[m].status = "Active"
    /\ Reject(hot, candidates[m]) \in Immediate
    /\ TurnAway(m)
    /\ UNCHANGED <<gating, fetching, hot, signals, running, open>>

(* Every 200 ms the active candidates with a reason to leave are removed. *)
Sweep(m) ==
    /\ running /\ Present(m)
    /\ candidates[m].status = "Active"
    /\ Reject(hot, candidates[m]) # "none"
    /\ TurnAway(m)
    /\ UNCHANGED <<gating, fetching, hot, signals, running, open>>

-----------------------------------------------------------------------------
(* Around the loop *)

Elapse(m) ==
    /\ running /\ Present(m) /\ candidates[m].age <= HardReject
    /\ Put(m, [candidates[m] EXCEPT !.age = @ + 1])
    /\ UNCHANGED <<tasks, hot, signals, running, open, counts>>

Reload ==
    /\ Reloads
    /\ hot' \in HotlistsSeen \ {hot}
    /\ UNCHANGED <<candidates, tasks, signals, running, open, counts>>

TakeSignal ==
    /\ open /\ signals # <<>>
    /\ signals' = Tail(signals)
    /\ UNCHANGED <<candidates, tasks, hot, running, open, counts>>

BuyLoopEnds ==
    /\ Faults /\ open
    /\ open' = FALSE
    /\ UNCHANGED <<candidates, tasks, hot, signals, running, counts>>

Next ==
    \/ \E m \in Mints :
          \/ AdmitKnownCreator(m) \/ RejectKnownCreator(m) \/ AdmitForGate(m) \/ AdmitFails(m)
          \/ CreatorGateResolved(m)
          \/ BuyEvent(m)
          \/ \E b \in Buyers : BuyerProfileResolved(m, b)
          \/ ScoredRejected(m) \/ ScoredPassed(m)
          \/ Sweep(m) \/ Elapse(m)
    \/ Reload \/ TakeSignal \/ BuyLoopEnds

Spec == Init /\ [][Next]_vars

(* Time passes, spawned tasks end (their calls have timeouts), the loop gets *)
(* round to its timer and the buy loop takes signals.  Nothing is assumed of *)
(* the events that come from outside.                                        *)
FairSpec ==
    /\ Spec
    /\ \A m \in Mints :
          /\ WF_vars(CreatorGateResolved(m))
          /\ WF_vars(ScoredRejected(m) \/ ScoredPassed(m))
          /\ WF_vars(Sweep(m))
          /\ WF_vars(Elapse(m))
    /\ WF_vars(TakeSignal)

-----------------------------------------------------------------------------
(* Each status stands for the task that will end it: while the loop runs a   *)
(* pending candidate has its creator gate, a finalizing one its score task,  *)
(* and no other task of either kind exists.  So a result that names only a   *)
(* mint is never applied to a later admission of it, no candidate is scored  *)
(* twice, and no signal goes out without its candidate.                      *)
StatusHasTask ==
    running => \A m \in Mints :
        /\ gating[m] = IF candidates[m].status = "CreatorPending" THEN 1 ELSE 0
        /\ Len(scoring[m]) = IF candidates[m].status = "Finalizing" THEN 1 ELSE 0

(* A buyer whose profile a candidate waits for is being looked up, so that   *)
(* another of his buys may rely on it, even where an answer meant for an     *)
(* earlier admission of the mint has been applied.                           *)
PendingIsFetched ==
    \A m \in Mints : Present(m) =>
        \A b \in candidates[m].pending : fetching[<<m, b>>] > 0

(* No candidate and no buyer waits for a task that does not exist, and no    *)
(* task exists that nothing waits for.                                       *)
TasksMatchStatus == StatusHasTask /\ PendingIsFetched

(* Every admission ends in one recorded outcome, and the buy loop is sent   *)
(* one signal for each pass.                                                *)
Accounted ==
    running => \A m \in Mints :
        /\ admitted[m] = rejected[m] + passed[m] + (IF Present(m) THEN 1 ELSE 0)
        /\ sent[m] = passed[m]

Waits(m) ==
    Present(m) /\ candidates[m].status = "Active" /\ ShouldFinalize(hot, candidates[m])

(* The loop leaves no active candidate waiting that it could send on: any    *)
(* event that completes the trigger has it scored, other than a reload of    *)
(* the hot lists, which looks at no candidate.                               *)
ReadyIsScored == [][hot' = hot => \A m \in Mints : Waits(m)' => Waits(m)]_vars

(* A scored candidate is the one the clone was made of: no buy is counted    *)
(* in between, and what is then known of it has only grown.                  *)
CloneIsCurrent ==
    running => \A m \in Mints : scoring[m] # <<>> =>
        /\ Present(m)
        /\ Head(scoring[m]).buys = candidates[m].buys
        /\ Head(scoring[m]).known \subseteq candidates[m].known

(* No candidate stays for ever. *)
CandidateLeaves == \A m \in Mints : Present(m) ~> (~Present(m) \/ ~running)

=============================================================================
