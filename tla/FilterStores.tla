---------------------------- MODULE FilterStores ----------------------------
(***************************************************************************)
(* The stores beside the filter's event loop.  They meet only through the  *)
(* candidates of FilterPipeline, which takes what they answer as given, so *)
(* each is checked on its own: `part` names the one that moves in a        *)
(* behaviour, and the others stay as they start.  CreatorRefresh is there  *)
(* twice, with as many permits as gates and with fewer.                    *)
(***************************************************************************)
EXTENDS Integers, FiniteSets

CONSTANTS
    Creators, Nobody, MaxRestarts,
    \* CreatorRefresh
    Gates, Permits, FewPermits, ProfileTTL, RefreshCooldown, BadFrom, RefreshTime,
    \* AddressSnapshots
    Addresses, Lookups, SnapshotTTL, LookupCooldown, LookupTime,
    \* Gate1
    Templates, Window, Factory, RepeatLimit, LaunchTime, MaxLaunches,
    \* FilterRecords
    RecordTime, MaxOutcomes,
    \* EntityGraph
    Buyers, MaxRugs, MaxTasks,
    \* NarrativeTerms
    Terms, TermTTL, TermTime,
    \* Scoring
    TokenLimit, RugLimit, FreshLimit, MinSol, MinQuality, MinCurve, MaxRisk, RiskCap, BonusCap,
    Bonus, Sols, Curves, Qualities, Gate1Risks

VARIABLES
    part,
    \* CreatorRefresh
    apiKey, refreshNow, profileCache, profileRows, retryAfter, refreshes, permits, gates, workers,
    \* AddressSnapshots
    lookupNow, snapshotCache, snapshotRows, lookups, coolUntil, lookupTasks,
    \* Gate1
    gate1Now, blacklist, window, repeats, repeatTasks, repeatRows, gate1Starts, launches, lost,
    \* FilterRecords
    recordNow, trace, outcomeTasks, result, timeline, outcomes, written,
    \* EntityGraph
    profiles, linkTasks, linkStep, funderRead, walletCount, rugExposure, members, resolved,
    graphStarts, forgotten, failed,
    \* NarrativeTerms
    termNow, termRows, termFile, terms, termStep, up, found, begun, termStarts, seen, loaded, whole,
    \* Scoring
    scoreStep, creatorProfile, counted, gate2, evidence

refreshVars == <<apiKey, refreshNow, profileCache, profileRows, retryAfter, refreshes, permits,
                 gates, workers>>
lookupVars  == <<lookupNow, snapshotCache, snapshotRows, lookups, coolUntil, lookupTasks>>
gate1Vars   == <<gate1Now, blacklist, window, repeats, repeatTasks, repeatRows, gate1Starts,
                 launches, lost>>
recordVars  == <<recordNow, trace, outcomeTasks, result, timeline, outcomes, written>>
graphVars   == <<profiles, linkTasks, linkStep, funderRead, walletCount, rugExposure, members,
                 resolved, graphStarts, forgotten, failed>>
termVars    == <<termNow, termRows, termFile, terms, termStep, up, found, begun, termStarts, seen,
                 loaded, whole>>
scoreVars   == <<scoreStep, creatorProfile, counted, gate2, evidence>>
vars        == <<part, refreshVars, lookupVars, gate1Vars, recordVars, graphVars, termVars,
                 scoreVars>>

-----------------------------------------------------------------------------
Roomy == INSTANCE CreatorRefresh WITH
    Calls <- Gates, NoCreator <- Nobody, TTL <- ProfileTTL, Cooldown <- RefreshCooldown,
    MaxTime <- RefreshTime, now <- refreshNow, memory <- profileCache, stored <- profileRows,
    retry <- retryAfter, inflight <- refreshes, calls <- gates

Crowded == INSTANCE CreatorRefresh WITH
    Calls <- Gates, NoCreator <- Nobody, Permits <- FewPermits, TTL <- ProfileTTL,
    Cooldown <- RefreshCooldown, MaxTime <- RefreshTime, now <- refreshNow,
    memory <- profileCache, stored <- profileRows, retry <- retryAfter, inflight <- refreshes,
    calls <- gates

Snapshots == INSTANCE AddressSnapshots WITH
    Calls <- Lookups, NoAddress <- Nobody, TTL <- SnapshotTTL, Cooldown <- LookupCooldown,
    MaxTime <- LookupTime, Loses <- FALSE, now <- lookupNow, memory <- snapshotCache,
    stored <- snapshotRows, inflight <- lookups, until <- coolUntil, tasks <- lookupTasks

Launches == INSTANCE Gate1 WITH
    MaxTime <- LaunchTime, now <- gate1Now, queue <- repeatTasks, stored <- repeatRows,
    restarts <- gate1Starts

Records == INSTANCE FilterRecords WITH
    MaxTime <- RecordTime, now <- recordNow, queue <- outcomeTasks

Graph == INSTANCE EntityGraph WITH
    queue <- linkTasks, step <- linkStep, read <- funderRead, wallets <- walletCount,
    rugs <- rugExposure, tasks <- resolved, restarts <- graphStarts

Keywords == INSTANCE NarrativeTerms WITH
    TTL <- TermTTL, MaxTime <- TermTime, now <- termNow, rows <- termRows, file <- termFile,
    memory <- terms, step <- termStep, restarts <- termStarts

Scores == INSTANCE Scoring WITH step <- scoreStep, profile <- creatorProfile

(* What a configuration may set: ages, limits and amounts are numbers, and   *)
(* tasks and wallets are finite in number.                                   *)
ASSUME RefreshAssumption ==
    /\ IsFiniteSet(Gates)
    /\ Permits \in Nat /\ FewPermits \in Nat /\ ProfileTTL \in Nat /\ RefreshCooldown \in Nat
    /\ BadFrom \in Nat /\ RefreshTime \in Nat

ASSUME SnapshotsAssumption ==
    /\ Nobody \notin Addresses
    /\ SnapshotTTL \in Nat /\ LookupCooldown \in Nat /\ LookupTime \in Nat

(* A template is tolerated once at least. *)
ASSUME LaunchesAssumption ==
    /\ Window \in Nat /\ Factory \in Nat /\ RepeatLimit \in Nat \ {0}
    /\ LaunchTime \in Nat /\ MaxLaunches \in Nat /\ MaxRestarts \in Nat

ASSUME RecordsAssumption == RecordTime \in Nat /\ MaxOutcomes \in Nat

ASSUME GraphAssumption ==
    /\ IsFiniteSet(Creators) /\ IsFiniteSet(Buyers)
    /\ MaxRugs \in Nat /\ MaxTasks \in Nat

ASSUME KeywordsAssumption == TermTTL \in [Keywords!Source -> Nat] /\ TermTime \in Nat

ASSUME ScoresAssumption ==
    /\ TokenLimit \in Nat /\ RugLimit \in Nat /\ FreshLimit \in Nat /\ MinSol \in Nat
    /\ MinQuality \in Nat /\ MinCurve \in Nat /\ MaxRisk \in Nat /\ RiskCap \in Nat
    /\ BonusCap \in Nat /\ Bonus \in [Scores!Tiers -> Nat]
    /\ \A amounts \in {Sols, Curves, Qualities, Gate1Risks} : amounts \in (SUBSET Nat) \ {{}}

-----------------------------------------------------------------------------
Parts == {"roomy", "crowded", "snapshots", "launches", "records", "graph", "keywords", "scores"}

(* A part that does not move starts in one of its initial states. *)
Init ==
    /\ part \in Parts
    /\ IF part = "crowded" THEN Crowded!Init ELSE Roomy!Init
    /\ part \notin {"roomy", "crowded"} => profileRows = profileCache /\ apiKey
    /\ Snapshots!Init /\ Launches!Init /\ Records!Init /\ Graph!Init /\ Keywords!Init
    /\ Scores!Init
    /\ part # "scores" =>
          /\ creatorProfile = [tokens |-> 1, rugs |-> 0, graduated |-> 0, young |-> FALSE,
                               funder |-> "none"]
          /\ evidence.path = "fast" /\ evidence.funders = 0 /\ evidence.risk = 0

Next ==
    /\ UNCHANGED part
    /\ \/ /\ part = "roomy" /\ Roomy!Next
          /\ UNCHANGED <<lookupVars, gate1Vars, recordVars, graphVars, termVars, scoreVars>>
       \/ /\ part = "crowded" /\ Crowded!Next
          /\ UNCHANGED <<lookupVars, gate1Vars, recordVars, graphVars, termVars, scoreVars>>
       \/ /\ part = "snapshots" /\ Snapshots!Next
          /\ UNCHANGED <<refreshVars, gate1Vars, recordVars, graphVars, termVars, scoreVars>>
       \/ /\ part = "launches" /\ Launches!Next
          /\ UNCHANGED <<refreshVars, lookupVars, recordVars, graphVars, termVars, scoreVars>>
       \/ /\ part = "records" /\ Records!Next
          /\ UNCHANGED <<refreshVars, lookupVars, gate1Vars, graphVars, termVars, scoreVars>>
       \/ /\ part = "graph" /\ Graph!Next
          /\ UNCHANGED <<refreshVars, lookupVars, gate1Vars, recordVars, termVars, scoreVars>>
       \/ /\ part = "keywords" /\ Keywords!Next
          /\ UNCHANGED <<refreshVars, lookupVars, gate1Vars, recordVars, graphVars, scoreVars>>
       \/ /\ part = "scores" /\ Scores!Next
          /\ UNCHANGED <<refreshVars, lookupVars, gate1Vars, recordVars, graphVars, termVars>>

Spec == Init /\ [][Next]_vars

(* Requests have timeouts: a refresh that works goes on until it is done. *)
FairSpec ==
    /\ Spec
    /\ \A t \in Gates : WF_refreshVars(part \in {"roomy", "crowded"} /\ Roomy!Work(t))
    /\ \A p \in Lookups \X {"answer", "refresh"} :
          WF_lookupVars(part = "snapshots" /\ Snapshots!Fetch(p))

-----------------------------------------------------------------------------
(* The types of all parts. *)
TypeOK ==
    /\ part \in Parts
    /\ IF part = "crowded" THEN Crowded!TypeOK ELSE Roomy!TypeOK
    /\ Snapshots!TypeOK /\ Launches!TypeOK /\ Records!TypeOK /\ Graph!TypeOK /\ Keywords!TypeOK
    /\ Scores!TypeOK

(* No creator is refreshed twice and no wallet looked up twice at a time,    *)
(* and no way out of a refresh, nor of its launch, loses a permit.           *)
OneRefreshAtATime ==
    /\ Roomy!OneRefreshInFlight
    /\ IF part = "crowded" THEN Crowded!PermitsConserved ELSE Roomy!PermitsConserved
    /\ Snapshots!OneRefresh

(* Memory knows nothing the database does not, or a task is on its way to    *)
(* tell it: a restart loses no profile and no snapshot that was not failed.  *)
MemoryBehindStore == Roomy!MemoryBehindStore /\ Snapshots!NewerIsPersisting

(* A creator the database knows as bad does not get past the gate, unless it *)
(* has no key to Helius or could not read the database.                      *)
KnownBadStopped == Roomy!KnownBadStopped

(* No token passes that is a factory's, and fewer tokens of a creator pass   *)
(* from one template than the limit, as far as the window goes back.         *)
LaunchesLimited == Launches!FactoryStopped /\ Launches!TemplateLimited

(* Rows written in pieces, in any order, hold the last of the best results   *)
(* and a timeline without a stage before an earlier one.                     *)
RecordsMerge == Records!BestRecorded /\ Records!StagesInOrder

(* As long as no statement has failed, a funder is never taken for smaller   *)
(* than he is known to be, but by buyers whose profile has lost its funder.  *)
CountCoversBuyers == Graph!CountCoversBuyers

(* A term that memory calls confirmed was found on chain in time.            *)
TierJustified == Keywords!TierJustified

(* A creator turned away early is turned away again from his stored profile, *)
(* none is charged with having no graduated token uncounted, the narrative   *)
(* bonus is the smaller of what the hits earn and the cap, and penalties     *)
(* take away quality at most.                                                *)
ScoringConsistent ==
    /\ Scores!VerdictRepeats /\ Scores!UnprovenWasCounted
    /\ Scores!NarrativeWithinCap /\ Scores!PenaltiesWithinQuality

(* Profiles, first funders, repeats, what is charged to a funder and the     *)
(* terms in memory are not lost, nor replaced by older ones.                 *)
NothingForgotten ==
    /\ Roomy!StoredGrows
    /\ Snapshots!FunderKept
    /\ Launches!StoredGrows
    /\ Graph!GraphGrows
    /\ Keywords!TermsKept

(* Neither a creator nor a wallet stays in flight.                           *)
RefreshEnds == Roomy!InflightClears /\ Snapshots!InflightClears

(* Better evidence never turns a candidate away that would have passed.      *)
EvidenceHelps == Scores!EvidenceHelps

=============================================================================
