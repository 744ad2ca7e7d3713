--------------------------- MODULE CreatorRefresh ---------------------------
(***************************************************************************)
(* The creator gate's tasks (filter/engine.rs, creator_gate): the profile  *)
(* of a creator is kept in memory and in the database, and refreshed by a  *)
(* remote task when it is missing or stale.  An in-flight set, a semaphore *)
(* and a retry cooldown limit the refreshes.  Each step is what a task     *)
(* does between two awaits; a profile is the time it was fetched at, and   *)
(* says from BadFrom on that the creator has launched too many tokens.     *)
(***************************************************************************)
EXTENDS Integers, FiniteSets

CONSTANTS
    Creators,   \* creators of tokens
    Calls,      \* creator gates, one per token
    NoCreator,  \* a call that has not begun
    Permits,    \* creator_gate_remote_concurrency
    TTL,        \* how long a profile counts as fresh
    Cooldown,   \* creator_gate_cache_miss_retry_ms
    BadFrom,    \* when the creators pass CREATOR_TOTAL_TOKEN_LIMIT
    MaxTime     \* bound: the clock

VARIABLES
    apiKey,   \* whether helius_api_key is configured
    now,      \* the clock
    memory,   \* creator_profile_cache
    stored,   \* the database's creator_profiles
    retry,    \* creator_profile_retry_after_ms
    inflight, \* creator_profile_refreshes
    permits,  \* left in creator_gate_remote_semaphore
    calls,    \* creator_gate
    workers   \* the refresh task each call has spawned

vars == <<apiKey, now, memory, stored, retry, inflight, permits, calls, workers>>

None     == -1   \* no profile
Profiles == {None} \cup 0..MaxTime

CallSteps   == {"start", "load", "merge", "launch", "inflight", "permit", "insert", "wait", "done"}
WorkerSteps == {"none", "remote", "upsert", "cache", "result", "settle", "clear", "respond",
                "gone"}

Call   == [step : CallSteps, creator : Creators \cup {NoCreator}, left : Profiles,
           seen : Profiles, stale : BOOLEAN,
           knew : BOOLEAN,    \* history: the database held a bad profile at the beginning
           blind : BOOLEAN,   \* history: the last read of the database failed
           passed : BOOLEAN]
Worker == [step : WorkerSteps, profile : Profiles]

Resting == [step |-> "start", creator |-> NoCreator, left |-> None, seen |-> None,
            stale |-> FALSE, knew |-> FALSE, blind |-> FALSE, passed |-> TRUE]
Idle    == [step |-> "none", profile |-> None]

TypeOK ==
    /\ apiKey \in BOOLEAN
    /\ now \in 0..MaxTime
    /\ memory \in [Creators -> Profiles]
    /\ stored \in [Creators -> Profiles]
    /\ retry \in [Creators -> 0..(MaxTime + Cooldown)]
    /\ inflight \in SUBSET Creators
    /\ permits \in 0..Permits
    /\ calls \in [Calls -> Call]
    /\ workers \in [Calls -> Worker]

Init ==
    /\ apiKey \in BOOLEAN
    /\ now = 0
    /\ memory = [c \in Creators |-> None]
    /\ stored \in [Creators -> {None, 0}]   \* what an earlier process has left
    /\ retry = [c \in Creators |-> 0]
    /\ inflight = {}
    /\ permits = Permits
    /\ calls = [t \in Calls |-> Resting]
    /\ workers = [t \in Calls |-> Idle]

Fresh(profile) == profile # None /\ now - profile <= TTL

(* apply_creator_rules: nothing is held against a creator without a profile. *)
Bad(profile) == profile >= BadFrom

At(t, step)   == calls[t].step = step
Go(t, step)   == calls' = [calls EXCEPT ![t].step = step]
Creator(t)    == calls[t].creator
Cooling(c)    == retry[c] > now
Works(t, step) == workers[t].step = step
OnTo(t, step) == workers' = [workers EXCEPT ![t].step = step]

-----------------------------------------------------------------------------
(* The gate looks in memory, then in the database (and again, whatever the   *)
(* age), each an await.  A read of the database that fails reads as no row.  *)

Read(c) == {None, stored[c]}

Begin(t, c) ==
    /\ At(t, "start")
    /\ \E row \in Read(c) : calls' = [calls EXCEPT ![t] =
          [step |-> IF Fresh(memory[c]) THEN "done" ELSE "load",
           creator |-> c, left |-> None, seen |-> row, stale |-> FALSE,
           knew |-> Bad(stored[c]) /\ ~Fresh(memory[c]), blind |-> FALSE,
           passed |-> ~Fresh(memory[c]) \/ ~Bad(memory[c])]]
    /\ UNCHANGED <<apiKey, now, memory, stored, retry, inflight, permits, workers>>

LoadFresh(t) ==
    /\ At(t, "load") /\ Fresh(calls[t].seen)
    /\ memory' = [memory EXCEPT ![Creator(t)] = calls[t].seen]
    /\ calls' = [calls EXCEPT ![t].step = "done", ![t].passed = ~Bad(calls[t].seen)]
    /\ UNCHANGED <<apiKey, now, stored, retry, inflight, permits, workers>>

Load(t) ==
    /\ At(t, "load") /\ ~Fresh(calls[t].seen)
    /\ \E row \in Read(Creator(t)) :
          calls' = [calls EXCEPT ![t].step = "merge", ![t].left = memory[Creator(t)],
                                 ![t].seen = row, ![t].blind = (row # stored[Creator(t)])]
    /\ UNCHANGED <<apiKey, now, memory, stored, retry, inflight, permits, workers>>

(* The newer of the two is taken, and cached if it is the database's: what   *)
(* memory holds by now is not looked at.  Without a key nothing could be     *)
(* fetched, and the gate lets pass whatever it has found.                    *)
MergeAs(t, newer) ==
    LET c     == Creator(t)
        taken == IF newer THEN calls[t].seen ELSE calls[t].left
        known == taken # None
    IN  /\ At(t, "merge")
        /\ memory' = IF newer THEN [memory EXCEPT ![c] = taken] ELSE memory
        /\ calls' = [calls EXCEPT
              ![t].stale  = known,
              ![t].passed = ~apiKey \/ ~Bad(taken),
              ![t].step   = IF ~apiKey \/ (~known /\ Cooling(c)) THEN "done" ELSE "launch"]
        /\ UNCHANGED <<apiKey, now, stored, retry, inflight, permits, workers>>

(* as it would be with the database asked only when memory has nothing *)
MergeMemoryFirst(t) == MergeAs(t, calls[t].left = None /\ calls[t].seen # None)

Merge(t) == MergeAs(t, calls[t].seen > calls[t].left)

-----------------------------------------------------------------------------
(* maybe_spawn_creator_profile_refresh: the cooldown, the in-flight set under *)
(* its read lock, a permit, the set under its write lock.                    *)

CheckCooldown(t) ==
    /\ At(t, "launch")
    /\ Go(t, IF Cooling(Creator(t)) THEN "done" ELSE "inflight")
    /\ UNCHANGED <<apiKey, now, memory, stored, retry, inflight, permits, workers>>

CheckInflight(t) ==
    /\ At(t, "inflight")
    /\ Go(t, IF Creator(t) \in inflight THEN "done" ELSE "permit")
    /\ UNCHANGED <<apiKey, now, memory, stored, retry, inflight, permits, workers>>

(* as it would be with no regard to the permits left *)
AcquireAnyway(t) ==
    /\ At(t, "permit")
    /\ permits' = permits - 1
    /\ Go(t, "insert")
    /\ UNCHANGED <<apiKey, now, memory, stored, retry, inflight, workers>>

Acquire(t) ==
    /\ At(t, "permit") /\ permits > 0
    /\ permits' = permits - 1
    /\ Go(t, "insert")
    /\ UNCHANGED <<apiKey, now, memory, stored, retry, inflight, workers>>

Busy(t) ==   \* only a call that waits for an answer sets the cooldown
    /\ At(t, "permit") /\ permits = 0
    /\ retry' = IF calls[t].stale THEN retry
                ELSE [retry EXCEPT ![Creator(t)] = now + Cooldown]
    /\ Go(t, "done")
    /\ UNCHANGED <<apiKey, now, memory, stored, inflight, permits, workers>>

Overtaken(t) ==
    /\ At(t, "insert") /\ Creator(t) \in inflight
    /\ permits' = permits + 1
    /\ Go(t, "done")
    /\ UNCHANGED <<apiKey, now, memory, stored, retry, inflight, workers>>

Spawn(t) ==
    /\ inflight' = inflight \cup {Creator(t)}
    /\ OnTo(t, "remote")
    /\ Go(t, IF calls[t].stale THEN "done" ELSE "wait")
    /\ UNCHANGED <<apiKey, now, memory, stored, retry, permits>>

(* as it would be without looking at what insert returns *)
LaunchAnyway(t) == At(t, "insert") /\ Spawn(t)

Launch(t) == At(t, "insert") /\ Creator(t) \notin inflight /\ Spawn(t)

(* The answer comes, or the fast timeout does. *)
Answered(t) ==
    /\ At(t, "wait") /\ Works(t, "gone")
    /\ calls' = [calls EXCEPT ![t].step = "done", ![t].passed = ~Bad(workers[t].profile)]
    /\ UNCHANGED <<apiKey, now, memory, stored, retry, inflight, permits, workers>>

TimesOut(t) ==
    /\ At(t, "wait") /\ ~Works(t, "gone")
    /\ Go(t, "done")
    /\ UNCHANGED <<apiKey, now, memory, stored, retry, inflight, permits, workers>>

-----------------------------------------------------------------------------
(* The refresh task: creator_gate_remote, then its own bookkeeping.          *)

(* as it would be with the memory written before the database *)
FetchedAndCached(t) ==
    /\ Works(t, "remote")
    /\ workers' = [workers EXCEPT ![t] = [step |-> "upsert", profile |-> now]]
    /\ memory' = [memory EXCEPT ![Creator(t)] = now]
    /\ UNCHANGED <<apiKey, now, stored, retry, inflight, permits, calls>>

Fetched(t) ==
    /\ Works(t, "remote")
    /\ workers' = [workers EXCEPT ![t] = [step |-> "upsert", profile |-> now]]
    /\ UNCHANGED <<apiKey, now, memory, stored, retry, inflight, permits, calls>>

(* creator_gate_remote puts the profile of a creator it does not turn away   *)
(* early into memory itself.                                                 *)
Upsert(t) ==
    /\ Works(t, "upsert")
    /\ stored' = [stored EXCEPT ![Creator(t)] = workers[t].profile]
    /\ OnTo(t, IF Bad(workers[t].profile) THEN "result" ELSE "cache")
    /\ UNCHANGED <<apiKey, now, memory, retry, inflight, permits, calls>>

PutInMemory(t) == memory' = [memory EXCEPT ![Creator(t)] = workers[t].profile]

Cache(t) ==
    /\ Works(t, "cache")
    /\ PutInMemory(t)
    /\ OnTo(t, "result")
    /\ UNCHANGED <<apiKey, now, stored, retry, inflight, permits, calls>>

(* The refresh task does so (again) with whatever profile comes back.        *)
CacheResult(t) ==
    /\ Works(t, "result")
    /\ PutInMemory(t)
    /\ OnTo(t, "settle")
    /\ UNCHANGED <<apiKey, now, stored, retry, inflight, permits, calls>>

ClearRetry(t) ==
    /\ Works(t, "settle")
    /\ retry' = [retry EXCEPT ![Creator(t)] = 0]
    /\ OnTo(t, "clear")
    /\ UNCHANGED <<apiKey, now, memory, stored, inflight, permits, calls>>

(* as it would be with the clean-up only after success *)
FailsUncleared(t) ==
    /\ Works(t, "remote") \/ Works(t, "upsert")
    /\ retry' = [retry EXCEPT ![Creator(t)] = now + Cooldown]
    /\ workers' = [workers EXCEPT ![t] = [step |-> "respond", profile |-> None]]
    /\ UNCHANGED <<apiKey, now, memory, stored, inflight, permits, calls>>

(* A remote call or the upsert fails. *)
Fails(t) ==
    /\ Works(t, "remote") \/ Works(t, "upsert")
    /\ retry' = [retry EXCEPT ![Creator(t)] = now + Cooldown]
    /\ workers' = [workers EXCEPT ![t] = [step |-> "clear", profile |-> None]]
    /\ UNCHANGED <<apiKey, now, memory, stored, inflight, permits, calls>>

ClearInflight(t) ==
    /\ Works(t, "clear")
    /\ inflight' = inflight \ {Creator(t)}
    /\ OnTo(t, "respond")
    /\ UNCHANGED <<apiKey, now, memory, stored, retry, permits, calls>>

(* The answer is sent, and the permit goes with the task. *)
Respond(t) ==
    /\ Works(t, "respond")
    /\ permits' = permits + 1
    /\ OnTo(t, "gone")
    /\ UNCHANGED <<apiKey, now, memory, stored, retry, inflight, calls>>

Tick ==
    /\ now < MaxTime
    /\ now' = now + 1
    /\ UNCHANGED <<apiKey, memory, stored, retry, inflight, permits, calls, workers>>

Gate(t) ==
    \/ \E c \in Creators : Begin(t, c)
    \/ LoadFresh(t) \/ Load(t) \/ Merge(t)
    \/ CheckCooldown(t) \/ CheckInflight(t) \/ Acquire(t) \/ Busy(t)
    \/ Overtaken(t) \/ Launch(t) \/ Answered(t) \/ TimesOut(t)

Work(t) ==
    \/ Fetched(t) \/ Fails(t) \/ Upsert(t) \/ Cache(t) \/ CacheResult(t)
    \/ ClearRetry(t) \/ ClearInflight(t) \/ Respond(t)

Next == Tick \/ \E t \in Calls : Gate(t) \/ Work(t)

(* Remote calls have timeouts: a refresh goes on until it is done. *)
Spec     == Init /\ [][Next]_vars
FairSpec == Spec /\ \A t \in Calls : WF_vars(Work(t))

-----------------------------------------------------------------------------
Refreshing(t) == workers[t].step \in {"remote", "upsert", "cache", "result", "settle", "clear"}

(* One refresh of a creator works at a time, exactly while the in-flight set *)
(* holds him: the set is checked twice, with an await for a permit between.  *)
OneRefreshInFlight ==
    \A c \in Creators :
        Cardinality({t \in Calls : Refreshing(t) /\ Creator(t) = c})
            = IF c \in inflight THEN 1 ELSE 0

(* No way out of the launch, nor of the refresh, loses a permit. *)
PermitsConserved ==
    permits + Cardinality({t \in Calls : At(t, "insert") \/ workers[t].step \notin {"none", "gone"}})
        = Permits

(* What memory holds, the database holds or has held and replaced by a newer *)
(* profile: a restart, which loses the memory, loses no profile.             *)
MemoryBehindStore == \A c \in Creators : memory[c] <= stored[c]

(* A profile in the database is never replaced by an older one. *)
StoredGrows == [][\A c \in Creators : stored'[c] >= stored[c]]_vars

(* A gate which begins when the database knows its creator as bad, and finds *)
(* no fresh profile in memory, turns him away: however stale that knowledge, *)
(* whatever older profile memory holds, and whether a refresh is launched,   *)
(* refused, overtaken or fails.  Two gates let him pass: one without a key   *)
(* to Helius, and one whose last read of the database failed.                *)
KnownBadStopped ==
    \A t \in Calls :
        At(t, "done") /\ calls[t].knew /\ calls[t].passed => ~apiKey \/ calls[t].blind

(* A creator does not stay in flight: later refreshes stay possible. *)
InflightClears == \A c \in Creators : c \in inflight ~> c \notin inflight

=============================================================================
