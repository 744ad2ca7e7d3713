------------------------ MODULE CreatorRefreshProofs ------------------------
(***************************************************************************)
(* What TLAPS proves of CreatorRefresh: for every set of creators, every   *)
(* finite number of gates, any number of permits and any ages.             *)
(***************************************************************************)
EXTENDS CreatorRefresh, FiniteSetTheorems, TLAPS

(* What a configuration may set; no profile is bad for being unknown. *)
Settings ==
    /\ IsFiniteSet(Calls)
    /\ Permits \in Nat /\ TTL \in Nat /\ Cooldown \in Nat /\ BadFrom \in Nat /\ MaxTime \in Nat

(* A gate knows its creator once it has begun, and a worker is that of a     *)
(* gate which is past the launch.                                            *)
Placed(t) ==
    /\ ~ At(t, "start") => Creator(t) \in Creators
    /\ calls[t].step \notin {"wait", "done"} => workers[t].step = "none"

(* TypeOK but for the permits, which PermitsConserved bounds *)
Shape ==
    /\ apiKey \in BOOLEAN
    /\ now \in 0..MaxTime
    /\ memory \in [Creators -> Profiles]
    /\ stored \in [Creators -> Profiles]
    /\ retry \in [Creators -> 0..(MaxTime + Cooldown)]
    /\ inflight \in SUBSET Creators
    /\ permits \in Nat
    /\ calls \in [Calls -> Call]
    /\ workers \in [Calls -> Worker]
    /\ \A t \in Calls : Placed(t)

-----------------------------------------------------------------------------
(* What a step changes of the gate or worker that takes it, and that it      *)
(* leaves the others alone.                                                  *)

LEMMA CallMoves ==
    ASSUME NEW c \in Call, NEW step \in CallSteps, NEW d, d = [c EXCEPT !.step = step]
    PROVE  d \in Call /\ d.step = step /\ d.creator = c.creator
BY DEF Call

LEMMA OthersUntouched ==
    ASSUME Shape, NEW t \in Calls, Gate(t) \/ Work(t)
    PROVE  \A u \in Calls \ {t} : calls'[u] = calls[u] /\ workers'[u] = workers[u]
<1> USE DEF Shape
<1>1. CASE Gate(t)
  BY <1>1
  DEF Gate, Begin, LoadFresh, Load, Merge, MergeAs, CheckCooldown, CheckInflight, Acquire, Busy,
      Overtaken, Launch, Spawn, Answered, TimesOut, Go, OnTo
<1>2. CASE Work(t)
  BY <1>2 DEF Work, Fetched, Fails, Upsert, Cache, CacheResult, PutInMemory, ClearRetry, ClearInflight, Respond, OnTo
<1>3. QED BY <1>1, <1>2

LEMMA ShapeInit == ASSUME Settings PROVE Init => Shape
<1> SUFFICES ASSUME Init PROVE Shape
  OBVIOUS
<1>1. Resting \in Call
  BY DEF Resting, Call, CallSteps, Profiles, None
<1>2. Idle \in Worker
  BY DEF Idle, Worker, WorkerSteps, Profiles, None
<1>3. calls \in [Calls -> Call] /\ workers \in [Calls -> Worker]
  BY <1>1, <1>2 DEF Init
<1>4. \A t \in Calls : Placed(t)
  BY DEF Init, Placed, At, Creator, Resting, Idle
<1>5. apiKey \in BOOLEAN /\ now \in 0..MaxTime /\ memory \in [Creators -> Profiles] /\ permits \in Nat
  BY DEF Init, Settings, Profiles, None
<1>6. stored \in [Creators -> Profiles]
  BY DEF Init, Settings, Profiles, None
<1>7. retry \in [Creators -> 0..(MaxTime + Cooldown)] /\ inflight \in SUBSET Creators
  BY DEF Init, Settings
<1>8. QED BY <1>3, <1>4, <1>5, <1>6, <1>7 DEF Shape

(* What the gate takes of the two profiles it has read. *)
Newer(t) == calls[t].seen > calls[t].left
Taken(t) == IF Newer(t) THEN calls[t].seen ELSE calls[t].left
Passes(t) == ~apiKey \/ ~Bad(Taken(t))
StepTaken(t) ==
    IF ~apiKey \/ (Taken(t) = None /\ Cooling(Creator(t))) THEN "done" ELSE "launch"

LEMMA MergeFields ==
    ASSUME Shape, NEW t \in Calls, Merge(t)
    PROVE  /\ calls[t].step = "merge" /\ Creator(t) \in Creators /\ Taken(t) \in Profiles
           /\ memory' = IF Newer(t) THEN [memory EXCEPT ![Creator(t)] = Taken(t)] ELSE memory
           /\ UNCHANGED <<apiKey, now, stored, retry, inflight, permits, workers>>
           /\ calls'[t] \in Call /\ calls'[t].creator = calls[t].creator
           /\ calls'[t].step = StepTaken(t)
           /\ calls'[t].stale = (Taken(t) # None) /\ calls'[t].passed = Passes(t)
           /\ calls'[t].left = calls[t].left /\ calls'[t].seen = calls[t].seen
           /\ calls'[t].knew = calls[t].knew /\ calls'[t].blind = calls[t].blind
<1>1. calls[t] \in Call /\ Placed(t)
  BY DEF Shape
<1>2. calls[t].step = "merge" /\ Creator(t) \in Creators /\ Taken(t) \in Profiles
  BY <1>1 DEF Merge, MergeAs, Placed, At, Call, Taken
<1>3. /\ memory' = IF Newer(t) THEN [memory EXCEPT ![Creator(t)] = Taken(t)] ELSE memory
      /\ UNCHANGED <<apiKey, now, stored, retry, inflight, permits, workers>>
  BY DEF Merge, MergeAs, Newer, Taken
<1>4. PICK passed \in BOOLEAN, stale \in BOOLEAN :
         passed = Passes(t) /\ stale = (Taken(t) # None)
  BY Zenon DEF Passes
<1>5. PICK c \in Call : c = calls[t]
  BY <1>1
<1>6. PICK d : d = calls'[t]
  OBVIOUS
<1>7. d = [c EXCEPT !.stale = stale, !.passed = passed, !.step = StepTaken(t)]
  <2>1. calls'[t] = [calls[t] EXCEPT !.stale = Taken(t) # None, !.passed = Passes(t),
                                    !.step = StepTaken(t)]
    <3>1. calls'[t] = [calls[t] EXCEPT
             !.stale = Taken(t) # None, !.passed = ~apiKey \/ ~Bad(Taken(t)),
             !.step = IF ~apiKey \/ (~(Taken(t) # None) /\ Cooling(Creator(t))) THEN "done"
                      ELSE "launch"]
      BY DEF Merge, MergeAs, Newer, Taken, Shape
    <3>2. (~(Taken(t) # None)) = (Taken(t) = None)
      BY Zenon
    <3>3. QED BY <3>1, <3>2, Zenon DEF Passes, StepTaken
  <2>2. QED BY <1>4, <1>5, <1>6, <2>1
<1>8. StepTaken(t) \in CallSteps
  BY DEF StepTaken, CallSteps
<1>9. /\ d \in Call /\ d.step = StepTaken(t) /\ d.creator = c.creator /\ d.stale = stale
      /\ d.passed = passed /\ d.left = c.left /\ d.seen = c.seen /\ d.knew = c.knew
      /\ d.blind = c.blind
  BY <1>7, <1>8 DEF Call
<1>10. calls'[t].stale = (Taken(t) # None) /\ calls'[t].passed = Passes(t)
  BY Zenon, <1>4, <1>6, <1>9
<1>11. QED BY <1>2, <1>3, <1>5, <1>6, <1>9, <1>10

(* What the gate reads last. *)
LEMMA LoadFields ==
    ASSUME Shape, NEW t \in Calls, Load(t)
    PROVE  /\ calls[t].step = "load" /\ Creator(t) \in Creators
           /\ calls'[t] \in Call /\ calls'[t].step = "merge"
           /\ calls'[t].creator = calls[t].creator /\ calls'[t].knew = calls[t].knew
           /\ calls'[t].left = memory[Creator(t)] /\ calls'[t].seen \in Read(Creator(t))
           /\ calls'[t].blind = (calls'[t].seen # stored[Creator(t)])
<1>1. calls[t].step = "load" /\ Creator(t) \in Creators
  BY DEF Load, At, Shape, Placed
<1>2. PICK c \in Call : c = calls[t]
  BY DEF Shape
<1>3. PICK d : d = calls'[t]
  OBVIOUS
<1>4. PICK row \in Read(Creator(t)), failed \in BOOLEAN :
         /\ failed = (row # stored[Creator(t)])
         /\ d = [c EXCEPT !.step = "merge", !.left = memory[Creator(t)], !.seen = row,
                          !.blind = failed]
  BY <1>2, <1>3 DEF Load, Shape
<1>5. row \in Profiles /\ memory[Creator(t)] \in Profiles /\ "merge" \in CallSteps
  BY <1>1 DEF Profiles, Read, Shape, CallSteps
<1>6. /\ d \in Call /\ d.step = "merge" /\ d.creator = c.creator /\ d.knew = c.knew
      /\ d.left = memory[Creator(t)] /\ d.seen = row /\ d.blind = failed
  BY <1>4, <1>5 DEF Call
<1>7. QED BY <1>1, <1>2, <1>3, <1>4, <1>6

(* The gate's own step and creator. *)
LEMMA GateShape ==
    ASSUME Settings, Shape, NEW t \in Calls, Gate(t)
    PROVE  Shape'
<1> USE DEF Shape
<1>1. calls[t] \in Call /\ workers[t] \in Worker /\ Placed(t)
  OBVIOUS
<1>2. ASSUME NEW c \in Creators, Begin(t, c) PROVE Shape'
  <2> DEFINE r == calls'[t]
  <2>1. PICK row \in Read(c) : calls'[t] =
          [step |-> IF Fresh(memory[c]) THEN "done" ELSE "load",
           creator |-> c, left |-> None, seen |-> row, stale |-> FALSE,
           knew |-> Bad(stored[c]) /\ ~Fresh(memory[c]), blind |-> FALSE,
           passed |-> ~Fresh(memory[c]) \/ ~Bad(memory[c])]
    BY <1>2 DEF Begin
  <2>2. (Bad(stored[c]) /\ ~Fresh(memory[c])) \in BOOLEAN
        /\ (~Fresh(memory[c]) \/ ~Bad(memory[c])) \in BOOLEAN
    BY Zenon
  <2>3. row \in Profiles /\ None \in Profiles
    BY DEF Profiles, Read
  <2>4. calls'[t] \in Call
    BY <2>1, <2>2, <2>3 DEF Call, CallSteps
  <2>5. calls' = [calls EXCEPT ![t] = r]
    BY <1>2 DEF Begin
  <2>6. calls' \in [Calls -> Call]
    BY <2>4, <2>5
  <2>7. r.creator = c /\ workers[t].step = "none" /\ workers' = workers
    BY <1>1, <1>2, <2>1 DEF Begin, Placed, At
  <2>8. \A u \in Calls : Placed(u)'
    BY <2>7, OthersUntouched DEF Placed, At, Creator
  <2>9. QED BY <1>2, <2>6, <2>8 DEF Begin
<1>3. CASE LoadFresh(t)
  <2>1. calls[t].seen \in Profiles /\ Creator(t) \in Creators
    BY <1>1, <1>3 DEF LoadFresh, Call, Placed, At
  <2>2. calls'[t] \in Call
    <3>1. (~Bad(calls[t].seen)) \in BOOLEAN
      BY Zenon
    <3>2. QED BY <1>1, <1>3, <3>1 DEF LoadFresh, Call, CallSteps
  <2>3. memory' \in [Creators -> Profiles] /\ calls' \in [Calls -> Call]
    BY <1>3, <2>1, <2>2, OthersUntouched DEF LoadFresh
  <2>4. \A u \in Calls : Placed(u)'
    BY <1>1, <1>3, OthersUntouched DEF LoadFresh, Placed, At, Creator, Call
  <2>5. QED BY <1>3, <2>3, <2>4 DEF LoadFresh
<1>4. CASE Load(t)
  <2>1. Creator(t) \in Creators
    BY <1>1, <1>4 DEF Load, Placed, At
  <2>2. calls'[t] \in Call
    BY <1>4, LoadFields
  <2>3. calls' \in [Calls -> Call]
    BY <1>4, <2>2, OthersUntouched DEF Load
  <2>4. \A u \in Calls : Placed(u)'
    BY <1>1, <1>4, OthersUntouched DEF Load, Placed, At, Creator, Call
  <2>5. QED BY <1>4, <2>3, <2>4 DEF Load
<1>5. CASE Merge(t)
  <2>1. memory' \in [Creators -> Profiles] /\ calls' \in [Calls -> Call]
    BY <1>5, OthersUntouched, MergeFields DEF Merge, MergeAs
  <2>2. \A u \in Calls : Placed(u)'
    BY <1>1, <1>5, OthersUntouched, MergeFields DEF Placed, At, Creator, StepTaken
  <2>3. QED BY <1>5, <2>1, <2>2, MergeFields
<1>6. CASE CheckCooldown(t) \/ CheckInflight(t) \/ Acquire(t) \/ Busy(t) \/ Overtaken(t)
             \/ TimesOut(t)
  <2>1. PICK step \in CallSteps \ {"start"} :
           /\ calls[t].step # "start" /\ calls' = [calls EXCEPT ![t].step = step]
           /\ step \in {"wait", "done"} \/ calls[t].step \notin {"wait", "done"}
    BY <1>6 DEF CheckCooldown, CheckInflight, Acquire, Busy, Overtaken, TimesOut, Go, At, CallSteps
  <2>2. calls'[t] = [calls[t] EXCEPT !.step = step]
    BY <2>1
  <2>3. calls'[t] \in Call /\ calls'[t].step = step /\ calls'[t].creator = calls[t].creator
    BY <1>1, <2>1, <2>2, CallMoves
  <2>4. calls' \in [Calls -> Call]
    BY <2>1, <2>3, OthersUntouched
  <2>5. retry' \in [Creators -> 0..(MaxTime + Cooldown)]
    BY <1>1, <1>6
    DEF CheckCooldown, CheckInflight, Acquire, Busy, Overtaken, TimesOut, Settings
  <2>6. permits' \in Nat
    BY <1>6 DEF CheckCooldown, CheckInflight, Acquire, Busy, Overtaken, TimesOut
  <2>7. UNCHANGED <<apiKey, now, memory, stored, inflight, workers>>
    BY <1>6 DEF CheckCooldown, CheckInflight, Acquire, Busy, Overtaken, TimesOut
  <2>8. \A u \in Calls : Placed(u)'
    BY <1>1, <2>1, <2>3, <2>7, OthersUntouched DEF Placed, At, Creator
  <2>9. QED BY <2>4, <2>5, <2>6, <2>7, <2>8
<1>7. CASE Launch(t)
  <2>1. PICK step \in {"done", "wait"} : calls' = [calls EXCEPT ![t].step = step]
    BY <1>7 DEF Launch, Spawn, Go
  <2>2. /\ calls[t].step = "insert" /\ workers' = [workers EXCEPT ![t].step = "remote"]
        /\ inflight' = inflight \cup {Creator(t)} /\ UNCHANGED <<apiKey, now, memory, stored, retry, permits>>
    BY <1>7 DEF Launch, Spawn, OnTo, At
  <2>3. calls'[t] = [calls[t] EXCEPT !.step = step]
    BY <2>1
  <2>4. calls'[t] \in Call /\ calls'[t].step = step /\ calls'[t].creator = calls[t].creator
    <3>1. step \in CallSteps
      BY DEF CallSteps
    <3> HIDE DEF Shape
    <3>2. calls[t] \in Call
      BY <1>1
    <3>3. QED BY <2>3, <3>1, <3>2, CallMoves
  <2>5. calls' \in [Calls -> Call]
    BY <2>1, <2>4, OthersUntouched
  <2>6. workers' \in [Calls -> Worker]
    BY <1>1, <2>2 DEF Worker, WorkerSteps
  <2>7. Creator(t) \in Creators
    BY <1>1, <2>2 DEF Placed, At
  <2>8. \A u \in Calls : Placed(u)'
    BY <1>1, <2>4, <2>7, OthersUntouched DEF Placed, At, Creator
  <2>9. QED BY <2>2, <2>5, <2>6, <2>7, <2>8
<1>8. CASE Answered(t)
  <2>1. (~Bad(workers[t].profile)) \in BOOLEAN
    BY Zenon
  <2>2. calls[t].step = "wait" /\ UNCHANGED <<apiKey, now, memory, stored, retry, inflight, permits, workers>>
    BY <1>8 DEF Answered, At
  <2>3. "done" \in CallSteps
    BY DEF CallSteps
  <2>4. calls'[t] \in Call /\ calls'[t].step = "done" /\ calls'[t].creator = calls[t].creator
    <3>1. PICK passed \in BOOLEAN : passed = ~Bad(workers[t].profile)
      BY <2>1
    <3>2. PICK c \in Call : c = calls[t]
      BY <1>1
    <3>3. PICK d : d = calls'[t]
      OBVIOUS
    <3>4. d = [c EXCEPT !.step = "done", !.passed = passed]
      BY <1>8, <3>1, <3>2, <3>3 DEF Answered
    <3>5. d \in Call /\ d.step = "done" /\ d.creator = c.creator
      BY <2>3, <3>4 DEF Call
    <3>6. QED BY <3>2, <3>3, <3>5
  <2>5. calls' \in [Calls -> Call]
    BY <1>8, <2>4, OthersUntouched DEF Answered
  <2>6. \A u \in Calls : Placed(u)'
    BY <1>1, <2>2, <2>4, OthersUntouched DEF Placed, At, Creator
  <2>7. QED BY <2>2, <2>5, <2>6
<1>9. QED BY <1>2, <1>3, <1>4, <1>5, <1>6, <1>7, <1>8 DEF Gate

(* What the worker may do to its creator's rows. *)
LEMMA WorkShape ==
    ASSUME Settings, Shape, NEW t \in Calls, Work(t)
    PROVE  Shape'
<1> USE DEF Shape
<1>1. /\ workers[t] \in Worker /\ workers[t].profile \in Profiles
      /\ Creator(t) \in Creators /\ calls[t].step \in {"wait", "done"}
  BY DEF Work, Fetched, Fails, Upsert, Cache, CacheResult, PutInMemory, ClearRetry, ClearInflight, Respond, Works, Placed, At,
         Worker
<1>2. UNCHANGED <<apiKey, now, calls>> /\ permits' \in Nat /\ inflight' \in SUBSET Creators
  BY DEF Work, Fetched, Fails, Upsert, Cache, CacheResult, PutInMemory, ClearRetry, ClearInflight, Respond
<1>3. memory' \in [Creators -> Profiles] /\ stored' \in [Creators -> Profiles]
  BY <1>1 DEF Work, Fetched, Fails, Upsert, Cache, CacheResult, PutInMemory, ClearRetry, ClearInflight, Respond
<1>4. retry' \in [Creators -> 0..(MaxTime + Cooldown)]
  BY <1>1 DEF Work, Fetched, Fails, Upsert, Cache, CacheResult, PutInMemory, ClearRetry, ClearInflight, Respond, Settings
<1>5. workers' \in [Calls -> Worker]
  <2>1. now \in Profiles /\ None \in Profiles
    BY DEF Profiles
  <2>2. CASE Fetched(t) \/ Fails(t)
    BY <2>1, <2>2 DEF Fetched, Fails, Worker, WorkerSteps
  <2>3. CASE ~ (Fetched(t) \/ Fails(t))
    <3>1. PICK step \in WorkerSteps : workers' = [workers EXCEPT ![t].step = step]
      BY <2>3 DEF Work, Upsert, Cache, CacheResult, PutInMemory, ClearRetry, ClearInflight, Respond, OnTo, WorkerSteps
    <3>2. QED BY <3>1 DEF Worker
  <2>4. QED BY <2>2, <2>3
<1>6. \A u \in Calls : Placed(u)'
  BY <1>1, <1>2, OthersUntouched DEF Placed, At, Creator
<1>7. QED BY <1>2, <1>3, <1>4, <1>5, <1>6

LEMMA ShapeStep == ASSUME Settings, Shape, [Next]_vars PROVE Shape'
<1>1. CASE UNCHANGED vars
  BY <1>1 DEF vars, Shape, Placed, At, Creator
<1>2. CASE Tick
  BY <1>2 DEF Tick, Shape, Placed, At, Creator, Settings
<1>3. QED BY <1>1, <1>2, GateShape, WorkShape DEF Next

-----------------------------------------------------------------------------
(* The permits. *)

Holding == {t \in Calls : At(t, "insert") \/ workers[t].step \notin {"none", "gone"}}

LEMMA HoldingFinite ==
    ASSUME Settings
    PROVE  IsFiniteSet(Holding) /\ Cardinality(Holding) \in Nat
<1>1. IsFiniteSet(Holding)
  BY FS_Subset DEF Settings, Holding
<1>2. QED BY <1>1, FS_CardinalityType

LEMMA PermitsInit == ASSUME Settings, Init PROVE PermitsConserved
<1>1. Holding = {}
  BY DEF Init, Holding, At, Resting, Idle
<1>2. QED BY <1>1, FS_EmptySet DEF Holding, PermitsConserved, Init, Settings

LEMMA PermitsStep ==
    ASSUME Settings, Shape, PermitsConserved, [Next]_vars
    PROVE  PermitsConserved'
<1>1. permits + Cardinality(Holding) = Permits
  BY DEF PermitsConserved, Holding
<1>2. /\ IsFiniteSet(Holding) /\ Cardinality(Holding) \in Nat
      /\ permits \in Nat /\ Permits \in Nat
  BY HoldingFinite DEF Shape, Settings
<1>3. SUFFICES permits' + Cardinality(Holding') = Permits
  BY DEF PermitsConserved, Holding
<1>4. ASSUME UNCHANGED permits, Holding' = Holding
      PROVE  permits' + Cardinality(Holding') = Permits
  BY <1>1, <1>4
<1>5. CASE UNCHANGED vars \/ Tick
  BY <1>4, <1>5 DEF vars, Tick, Holding, At
<1>6. ASSUME NEW t \in Calls, Gate(t) PROVE permits' + Cardinality(Holding') = Permits
  <2>1. \A u \in Calls \ {t} : calls'[u] = calls[u] /\ workers'[u] = workers[u]
    BY <1>6, OthersUntouched
  <2>2. calls[t] \in Call /\ workers[t] \in Worker /\ Placed(t)
    BY DEF Shape
  <2>3. CASE Acquire(t)
    <3>1. /\ calls[t].step = "permit" /\ calls'[t].step = "insert" /\ workers' = workers
          /\ permits' = permits - 1
      BY <2>2, <2>3 DEF Acquire, Go, At, Shape
    <3>2. t \notin Holding /\ Holding' = Holding \cup {t}
      BY <2>1, <2>2, <3>1 DEF Holding, At, Placed
    <3>3. Cardinality(Holding') = Cardinality(Holding) + 1
      BY <1>2, <3>2, FS_AddElement
    <3>4. QED BY <1>1, <1>2, <3>1, <3>3
  <2>4. CASE Overtaken(t)
    <3>1. /\ calls[t].step = "insert" /\ calls'[t].step = "done" /\ workers' = workers
          /\ permits' = permits + 1
      BY <2>2, <2>4 DEF Overtaken, Go, At, Shape
    <3>2. t \in Holding /\ Holding' = Holding \ {t}
      BY <2>1, <2>2, <3>1 DEF Holding, At, Placed
    <3>3. Cardinality(Holding') = Cardinality(Holding) - 1
      BY <1>2, <3>2, FS_RemoveElement
    <3>4. QED BY <1>1, <1>2, <3>1, <3>3
  <2>5. CASE Launch(t)
    <3>1. /\ calls[t].step = "insert" /\ calls'[t].step # "insert"
          /\ workers'[t].step = "remote" /\ UNCHANGED permits
      BY <2>2, <2>5 DEF Launch, Spawn, OnTo, Go, At, Shape, Worker
    <3>2. Holding' = Holding
      BY <2>1, <3>1 DEF Holding, At
    <3>3. QED BY <1>4, <3>1, <3>2
  <2>6. CASE ~ (Acquire(t) \/ Overtaken(t) \/ Launch(t))
    <3>1. /\ UNCHANGED <<permits, workers>>
          /\ calls[t].step # "insert" /\ calls'[t].step # "insert"
      <4>1. ASSUME NEW c \in Creators, Begin(t, c)
            PROVE  /\ UNCHANGED <<permits, workers>>
                   /\ calls[t].step # "insert" /\ calls'[t].step # "insert"
        <5>1. calls'[t].step = IF Fresh(memory[c]) THEN "done" ELSE "load"
          BY <4>1 DEF Begin, Shape
        <5>2. QED BY <4>1, <5>1 DEF Begin, At
      <4>2. CASE Merge(t)
        <5>1. calls'[t].step \in {"done", "launch"}
          BY <4>2, MergeFields DEF StepTaken
        <5>2. QED BY <4>2, <5>1 DEF Merge, MergeAs, At
      <4>3. CASE LoadFresh(t) \/ Load(t) \/ Answered(t)
        <5>1. CASE Load(t)
          BY <5>1, LoadFields DEF Load
        <5>2. CASE LoadFresh(t) \/ Answered(t)
          BY <2>2, <5>2 DEF LoadFresh, Answered, At, Shape, Call
        <5>3. QED BY <4>3, <5>1, <5>2
      <4>4. CASE CheckCooldown(t) \/ CheckInflight(t) \/ Busy(t) \/ TimesOut(t)
        BY <2>2, <4>4 DEF CheckCooldown, CheckInflight, Busy, TimesOut, Go, At, Shape, Call
      <4>5. QED BY <1>6, <2>6, <4>1, <4>2, <4>3, <4>4 DEF Gate
    <3>2. Holding' = Holding
      BY <2>1, <3>1 DEF Holding, At
    <3>3. QED BY <1>4, <3>1, <3>2
  <2>7. QED BY <2>3, <2>4, <2>5, <2>6
<1>7. ASSUME NEW t \in Calls, Work(t) PROVE permits' + Cardinality(Holding') = Permits
  <2>1. \A u \in Calls \ {t} : calls'[u] = calls[u] /\ workers'[u] = workers[u]
    BY <1>7, OthersUntouched
  <2>2. workers[t] \in Worker /\ Placed(t) /\ UNCHANGED calls
    BY <1>7
    DEF Shape, Work, Fetched, Fails, Upsert, Cache, CacheResult, PutInMemory, ClearRetry, ClearInflight, Respond
  <2>3. CASE Respond(t)
    <3>1. /\ workers[t].step = "respond" /\ workers'[t].step = "gone"
          /\ permits' = permits + 1
      BY <2>2, <2>3 DEF Respond, Works, OnTo, Shape, Worker
    <3>2. t \in Holding /\ Holding' = Holding \ {t}
      BY <2>1, <2>2, <3>1 DEF Holding, At, Placed
    <3>3. Cardinality(Holding') = Cardinality(Holding) - 1
      BY <1>2, <3>2, FS_RemoveElement
    <3>4. QED BY <1>1, <1>2, <3>1, <3>3
  <2>4. CASE ~ Respond(t)
    <3>1. /\ UNCHANGED permits
          /\ workers[t].step \notin {"none", "gone"} /\ workers'[t].step \notin {"none", "gone"}
      BY <1>7, <2>2, <2>4
      DEF Work, Fetched, Fails, Upsert, Cache, CacheResult, PutInMemory, ClearRetry, ClearInflight, Works, OnTo, Shape, Worker
    <3>2. Holding' = Holding
      BY <2>1, <2>2, <3>1 DEF Holding, At
    <3>3. QED BY <1>4, <3>1, <3>2
  <2>5. QED BY <2>3, <2>4
<1>8. QED BY <1>5, <1>6, <1>7 DEF Next

-----------------------------------------------------------------------------
(* One refresh at a time.  Of the in-flight set it takes both looks: a gate   *)
(* may wait between them while another launches.                             *)

OneEach ==
    /\ \A t \in Calls : Refreshing(t) => Creator(t) \in inflight
    /\ \A c \in inflight : \E t \in Calls : Refreshing(t) /\ Creator(t) = c
    /\ \A t, u \in Calls :
          Refreshing(t) /\ Refreshing(u) /\ Creator(t) = Creator(u) => t = u

(* The creator of a gate that has a worker does not change. *)
LEMMA GateKeeps ==
    ASSUME Shape, NEW t \in Calls, Gate(t)
    PROVE  /\ workers[t].step = "none" \/ Creator(t)' = Creator(t)
           /\ Launch(t) \/ UNCHANGED <<inflight, workers>>
<1> USE DEF Shape
<1>1. calls[t] \in Call /\ Placed(t)
  OBVIOUS
<1>2. CASE \E c \in Creators : Begin(t, c)
  BY <1>1, <1>2 DEF Begin, Placed, At
<1>3. CASE Merge(t)
  BY <1>3, MergeFields DEF Creator
<1>4. CASE LoadFresh(t) \/ Load(t) \/ Answered(t)
  <2>1. CASE Load(t)
    BY <2>1, LoadFields DEF Load, Creator
  <2>2. CASE LoadFresh(t) \/ Answered(t)
    BY <1>1, <2>2 DEF LoadFresh, Answered, Creator, Call
  <2>3. QED BY <1>4, <2>1, <2>2
<1>5. CASE CheckCooldown(t) \/ CheckInflight(t) \/ Acquire(t) \/ Busy(t) \/ Overtaken(t)
             \/ Launch(t) \/ TimesOut(t)
  BY <1>1, <1>5
  DEF CheckCooldown, CheckInflight, Acquire, Busy, Overtaken, Launch, Spawn, TimesOut, Go,
      Creator, Call
<1>6. QED BY <1>2, <1>3, <1>4, <1>5 DEF Gate

LEMMA OneEachStep ==
    ASSUME Shape, OneEach, [Next]_vars
    PROVE  OneEach'
<1>1. CASE UNCHANGED vars \/ Tick
  BY <1>1 DEF vars, Tick, OneEach, Refreshing, Creator
<1>2. ASSUME NEW t \in Calls, Gate(t) PROVE OneEach'
  <2>1. \A u \in Calls \ {t} : calls'[u] = calls[u] /\ workers'[u] = workers[u]
    BY <1>2, OthersUntouched
  <2>2. workers[t].step = "none" \/ Creator(t)' = Creator(t)
    BY <1>2, GateKeeps
  <2>3. CASE Launch(t)
    <3>1. /\ workers'[t].step = "remote" /\ Creator(t)' = Creator(t)
          /\ inflight' = inflight \cup {Creator(t)} /\ Creator(t) \notin inflight
      BY <2>3 DEF Launch, Spawn, OnTo, Go, Shape, Worker, Call, Creator
    <3>2. QED BY <2>1, <3>1 DEF OneEach, Refreshing, Creator
  <2>4. CASE ~ Launch(t)
    <3>1. UNCHANGED <<inflight, workers>>
      BY <1>2, <2>4, GateKeeps
    <3>2. \A u \in Calls : (Refreshing(u)' <=> Refreshing(u))
                            /\ (Refreshing(u) => Creator(u)' = Creator(u))
      BY <2>1, <2>2, <3>1 DEF Refreshing, Creator
    <3>3. QED BY <3>1, <3>2 DEF OneEach
  <2>5. QED BY <2>3, <2>4
<1>3. ASSUME NEW t \in Calls, Work(t) PROVE OneEach'
  <2>1. \A u \in Calls \ {t} : workers'[u] = workers[u]
    BY <1>3, OthersUntouched
  <2>2. UNCHANGED calls
    BY <1>3 DEF Work, Fetched, Fails, Upsert, Cache, CacheResult, PutInMemory, ClearRetry, ClearInflight, Respond
  <2>3. CASE ClearInflight(t)
    <3>1. /\ Refreshing(t) /\ ~ Refreshing(t)' /\ inflight' = inflight \ {Creator(t)}
      BY <2>3 DEF ClearInflight, Works, OnTo, Shape, Worker, Refreshing
    <3>2. QED BY <2>1, <2>2, <3>1 DEF OneEach, Refreshing, Creator
  <2>4. CASE ~ ClearInflight(t)
    <3>1. (Refreshing(t)' <=> Refreshing(t)) /\ UNCHANGED inflight
      BY <1>3, <2>4
      DEF Work, Fetched, Fails, Upsert, Cache, CacheResult, PutInMemory, ClearRetry, Respond, Works, OnTo, Shape, Worker,
          Refreshing
    <3>2. QED BY <2>1, <2>2, <3>1 DEF OneEach, Refreshing, Creator
  <2>5. QED BY <2>3, <2>4
<1>4. QED BY <1>1, <1>2, <1>3 DEF Next

-----------------------------------------------------------------------------
(* Ages.  What a gate or a worker carries is never newer than the database's, *)
(* except the profile a worker has just fetched, which is the newest of all:  *)
(* until it is stored, no other refresh of that creator is under way.         *)

Ages ==
    /\ \A c \in Creators : memory[c] <= stored[c] /\ stored[c] <= now
    /\ \A t \in Calls :
          /\ ~ At(t, "start") => /\ calls[t].left <= stored[Creator(t)]
                                 /\ calls[t].seen <= stored[Creator(t)]
          /\ workers[t].profile <= now
          /\ Works(t, "upsert") => stored[Creator(t)] <= workers[t].profile
          /\ Works(t, "cache") \/ Works(t, "result") => workers[t].profile <= stored[Creator(t)]

LEMMA Numbers ==
    ASSUME Settings, Shape
    PROVE  /\ now \in Nat
           /\ \A c \in Creators : memory[c] \in Int /\ stored[c] \in Int /\ None <= memory[c]
                                  /\ None <= stored[c]
           /\ \A t \in Calls : /\ calls[t].left \in Int /\ calls[t].seen \in Int
                               /\ workers[t].profile \in Int
                               /\ Creator(t) \in Creators \/ workers[t].step = "none"
BY DEF Settings, Shape, Profiles, None, Call, Worker, Placed, At

LEMMA AgesInit == ASSUME Settings, Init PROVE Ages
<1>1. \A c \in Creators : memory[c] = -1 /\ stored[c] \in {-1, 0} /\ now = 0
  BY DEF Init, None
<1>2. \A t \in Calls : At(t, "start") /\ workers[t].profile = -1 /\ workers[t].step = "none"
  BY DEF Init, At, Resting, Idle, None
<1>3. now = 0
  BY DEF Init
<1>4. QED BY <1>1, <1>2, <1>3 DEF Ages, Works

(* A refresh stores what is at least as new as what it replaces. *)
LEMMA StoredStep ==
    ASSUME Settings, Shape, OneEach, Ages, [Next]_vars
    PROVE  /\ \A c \in Creators : stored'[c] >= stored[c] /\ stored'[c] <= now
           /\ \A c \in Creators : stored'[c] # stored[c] =>
                 \E t \in Calls : Upsert(t) /\ Creator(t) = c /\ stored'[c] = workers[t].profile
<1>1. CASE UNCHANGED stored
  BY <1>1, Numbers DEF Ages
<1>2. ASSUME NEW t \in Calls, Upsert(t)
      PROVE  /\ \A c \in Creators : stored'[c] >= stored[c] /\ stored'[c] <= now
             /\ \A c \in Creators : stored'[c] # stored[c] =>
                   Creator(t) = c /\ stored'[c] = workers[t].profile
  <2>1. /\ Creator(t) \in Creators /\ workers[t].profile \in Int /\ workers[t].profile <= now
        /\ stored[Creator(t)] <= workers[t].profile
    BY <1>2, Numbers DEF Ages, Upsert, Works
  <2>2. \A c \in Creators : stored'[c] = IF c = Creator(t) THEN workers[t].profile ELSE stored[c]
    BY <1>2, <2>1 DEF Upsert, Shape
  <2>3. QED BY <2>1, <2>2, Numbers DEF Ages
<1>3. UNCHANGED stored \/ \E t \in Calls : Upsert(t)
  BY MergeFields
  DEF Next, vars, Tick, Gate, Begin, LoadFresh, Load, Merge, MergeAs, CheckCooldown, CheckInflight,
      Acquire, Busy, Overtaken, Launch, Spawn, Answered, TimesOut, Work, Fetched, Fails, Cache, CacheResult,
      PutInMemory, ClearRetry, ClearInflight, Respond
<1>4. QED BY <1>1, <1>2, <1>3

(* What a gate's step reads, and what it caches. *)
LEMMA GateReads ==
    ASSUME Settings, Shape, NEW t \in Calls, Gate(t)
    PROVE  /\ \/ /\ calls'[t].left = calls[t].left /\ calls'[t].seen = calls[t].seen
                 /\ calls'[t].creator = calls[t].creator /\ calls[t].step # "start"
              \/ /\ calls'[t].creator \in Creators /\ calls'[t].seen \in Read(calls'[t].creator)
                 /\ calls'[t].left \in {None, memory[calls'[t].creator]}
           /\ \A c \in Creators : \/ memory'[c] = memory[c]
                                  \/ memory'[c] = calls[t].seen /\ Creator(t) = c
           /\ memory' # memory => calls[t].step # "start"
           /\ UNCHANGED <<apiKey, now, stored>>
           /\ UNCHANGED workers \/ (workers'[t].step = "remote"
                                     /\ workers'[t].profile = workers[t].profile)
<1> USE DEF Shape
<1>1. calls[t] \in Call /\ Placed(t)
  OBVIOUS
<1>2. ASSUME NEW c \in Creators, Begin(t, c)
      PROVE  /\ calls'[t].creator = c /\ calls'[t].seen \in Read(c) /\ calls'[t].left = None
             /\ UNCHANGED <<apiKey, memory, now, stored, workers>>
  BY <1>2 DEF Begin
<1>3. CASE LoadFresh(t)
  BY <1>1, <1>3 DEF LoadFresh, Call, At, Placed, Creator
<1>4. CASE Load(t)
  <2>1. UNCHANGED <<apiKey, now, memory, stored, workers>>
    BY <1>4 DEF Load
  <2>2. /\ calls[t].step = "load" /\ calls'[t].creator = Creator(t) /\ Creator(t) \in Creators
        /\ calls'[t].left = memory[Creator(t)] /\ calls'[t].seen \in Read(Creator(t))
    BY <1>4, LoadFields DEF Creator
  <2>3. QED BY <2>1, <2>2
<1>5. CASE Merge(t)
  <2>1. \A c \in Creators : \/ memory'[c] = memory[c]
                            \/ memory'[c] = calls[t].seen /\ Creator(t) = c
    BY <1>5, MergeFields DEF Taken
  <2>2. QED BY <1>5, <2>1, MergeFields
<1>6. CASE Answered(t)
  BY <1>1, <1>6 DEF Answered, Call, At
<1>7. CASE CheckCooldown(t) \/ CheckInflight(t) \/ Acquire(t) \/ Busy(t) \/ Overtaken(t)
             \/ TimesOut(t)
  BY <1>1, <1>7
  DEF CheckCooldown, CheckInflight, Acquire, Busy, Overtaken, TimesOut, Go, At, Call
<1>8. CASE Launch(t)
  BY <1>1, <1>8 DEF Launch, Spawn, OnTo, Go, At, Call, Worker
<1>9. QED BY <1>2, <1>3, <1>4, <1>5, <1>6, <1>7, <1>8 DEF Gate

LEMMA AgesStep ==
    ASSUME Settings, Shape, Shape', OneEach, Ages, [Next]_vars
    PROVE  Ages'
<1>1. \A c \in Creators : /\ stored'[c] >= stored[c] /\ stored'[c] <= now
                          /\ stored[c] \in Int /\ stored'[c] \in Int /\ memory[c] \in Int
  BY StoredStep, Numbers DEF Shape, Profiles, None, Settings
<1>2. CASE UNCHANGED vars
  BY <1>2 DEF vars, Ages, At, Creator, Works
<1>3. CASE Tick
  <2>1. UNCHANGED <<memory, stored, calls, workers>> /\ now' = now + 1
    BY <1>3 DEF Tick
  <2>2. QED BY <2>1, Numbers DEF Ages, At, Creator, Works
<1>4. ASSUME NEW t \in Calls, Gate(t) PROVE Ages'
  <2>1. \A u \in Calls \ {t} : calls'[u] = calls[u] /\ workers'[u] = workers[u]
    BY <1>4, OthersUntouched
  <2>2. UNCHANGED <<apiKey, now, stored>>
    BY <1>4, GateReads
  <2>3. \A c \in Creators : memory'[c] <= stored[c]
    BY <1>4, GateReads, Numbers DEF Ages, At
  <2>4. /\ calls'[t].left <= stored[calls'[t].creator]
        /\ calls'[t].seen <= stored[calls'[t].creator]
    BY <1>4, GateReads, Numbers DEF Ages, At, Creator, Read
  <2>5. /\ workers'[t].profile <= now
        /\ workers'[t].step \in {"upsert", "cache", "result"} => workers' = workers
    BY <1>4, GateReads DEF Ages
  <2>6. workers[t].step \in {"upsert", "cache", "result"} => Creator(t)' = Creator(t)
    BY <1>4, GateKeeps
  <2>7. QED BY <2>1, <2>2, <2>3, <2>4, <2>5, <2>6 DEF Ages, At, Creator, Works
<1>5. ASSUME NEW t \in Calls, Work(t) PROVE Ages'
  <2>1. \A u \in Calls \ {t} : workers'[u] = workers[u]
    BY <1>5, OthersUntouched
  <2>2. UNCHANGED <<calls, now>>
    BY <1>5 DEF Work, Fetched, Fails, Upsert, Cache, CacheResult, PutInMemory, ClearRetry, ClearInflight, Respond
  <2>3. Creator(t) \in Creators /\ workers[t] \in Worker
    BY <1>5, Numbers
    DEF Work, Fetched, Fails, Upsert, Cache, CacheResult, PutInMemory, ClearRetry, ClearInflight, Respond, Works, Shape
  <2>4. \A c \in Creators : memory'[c] <= stored'[c]
    <3>1. CASE Cache(t) \/ CacheResult(t)
      BY <1>1, <2>3, <3>1, Numbers DEF Cache, CacheResult, PutInMemory, Ages, Works, Shape
    <3>2. CASE ~ (Cache(t) \/ CacheResult(t))
      <4>1. UNCHANGED memory
        BY <1>5, <3>2 DEF Work, Fetched, Fails, Upsert, ClearRetry, ClearInflight, Respond
      <4>2. QED BY <1>1, <4>1 DEF Ages
    <3>3. QED BY <3>1, <3>2
  <2>5. \A u \in Calls : ~ At(u, "start") => /\ calls'[u].left <= stored'[Creator(u)]
                                              /\ calls'[u].seen <= stored'[Creator(u)]
    <3>1. \A u \in Calls : ~ At(u, "start") => Creator(u) \in Creators
      BY DEF Shape, Placed
    <3>2. QED BY <1>1, <2>2, <3>1, Numbers DEF Ages
  <2>6. workers'[t].profile <= now
    BY <1>5, <2>3, Numbers
    DEF Work, Fetched, Fails, Upsert, Cache, CacheResult, PutInMemory, ClearRetry, ClearInflight, Respond, OnTo, Ages, Shape,
        Worker, None
  (* the worker that stores is the only one of its creator *)
  <2>7. ASSUME NEW u \in Calls, u # t, Works(u, "upsert")
        PROVE  stored'[Creator(u)] <= workers[u].profile
    <3>1. Creator(u) \in Creators
      BY <2>7, Numbers DEF Works
    <3>2. Refreshing(u) /\ ~ (Upsert(t) /\ Creator(t) = Creator(u))
      BY <2>7 DEF Works, Refreshing, Upsert, OneEach
    <3>3. stored'[Creator(u)] = stored[Creator(u)]
      BY <1>5, <2>3, <3>1, <3>2
      DEF Work, Fetched, Fails, Upsert, Cache, CacheResult, PutInMemory, ClearRetry, ClearInflight, Respond, Shape
    <3>4. QED BY <2>7, <3>3 DEF Ages
  <2>8. workers'[t].step = "upsert" => stored'[Creator(t)] <= workers'[t].profile
    <3>1. workers'[t].step = "upsert" => Fetched(t)
      BY <1>5, <2>3
      DEF Work, Fails, Upsert, Cache, CacheResult, PutInMemory, ClearRetry, ClearInflight, Respond, OnTo, Works, Shape, Worker
    <3>2. CASE Fetched(t)
      BY <2>3, <3>2 DEF Fetched, Shape, Ages
    <3>3. QED BY <3>1, <3>2
  <2>9. workers'[t].step \in {"cache", "result"} => workers'[t].profile <= stored'[Creator(t)]
    <3>1. workers'[t].step \in {"cache", "result"} => Upsert(t) \/ Cache(t)
      BY <1>5, <2>3
      DEF Work, Fetched, Fails, CacheResult, PutInMemory, ClearRetry, ClearInflight, Respond, OnTo,
          Works, Shape, Worker
    <3>2. CASE Upsert(t)
      <4>1. stored'[Creator(t)] = workers[t].profile /\ workers'[t].profile = workers[t].profile
        BY <2>3, <3>2 DEF Upsert, OnTo, Shape, Worker
      <4>2. QED BY <2>3, <4>1, Numbers
    <3>3. CASE Cache(t)
      <4>1. stored' = stored /\ workers'[t].profile = workers[t].profile
        BY <2>3, <3>3 DEF Cache, OnTo, Shape, Worker
      <4>2. QED BY <3>3, <4>1 DEF Cache, Ages, Works
    <3>4. QED BY <3>1, <3>2, <3>3
  <2>10. ASSUME NEW u \in Calls, u # t, Works(u, "cache") \/ Works(u, "result")
         PROVE  workers[u].profile <= stored'[Creator(u)]
    BY <1>1, <2>10, Numbers DEF Ages, Works
  <2>11. \A c \in Creators : stored'[c] <= now
    BY <1>1
  <2>12. QED
    BY <2>1, <2>2, <2>4, <2>5, <2>6, <2>7, <2>8, <2>9, <2>10, <2>11 DEF Ages, At, Creator, Works
<1>6. QED BY <1>2, <1>3, <1>4, <1>5 DEF Next

LEMMA OneEachInit == ASSUME Init PROVE OneEach
<1>1. inflight = {} /\ \A t \in Calls : ~ Refreshing(t)
  BY DEF Init, Refreshing, Idle
<1>2. QED BY <1>1 DEF OneEach

-----------------------------------------------------------------------------
(* Known bad.  What the gate knew when it began, it still knows wherever it   *)
(* is: in the row it has read, in the launch it makes of a stale profile, in  *)
(* the verdict it leaves.  Only a gate whose last read has failed may wait    *)
(* for an answer that could be better.                                       *)

Launching == {"launch", "inflight", "permit", "insert"}

Knows(t) ==
    calls[t].knew =>
        /\ At(t, "load")  => /\ Bad(stored[Creator(t)])
                             /\ calls[t].seen # None => Bad(calls[t].seen)
        /\ At(t, "merge") => calls[t].blind \/ Bad(calls[t].seen)
        /\ calls[t].step \in Launching => calls[t].blind \/ (calls[t].stale /\ ~ calls[t].passed)
        /\ At(t, "done")  => ~ apiKey \/ calls[t].blind \/ ~ calls[t].passed
        /\ At(t, "wait")  => calls[t].blind

LEMMA KnowsInit == ASSUME Init PROVE \A t \in Calls : Knows(t)
<1>1. \A t \in Calls : calls[t] = Resting
  BY DEF Init
<1>2. Resting.step = "start"
  BY DEF Resting
<1>3. QED BY <1>1, <1>2 DEF Knows, Launching, At

(* A step that only moves the gate on. *)
LEMMA OnlyMoves ==
    ASSUME Shape, NEW t \in Calls, NEW step, calls' = [calls EXCEPT ![t].step = step]
    PROVE  /\ calls'[t].step = step
           /\ calls'[t].knew = calls[t].knew /\ calls'[t].stale = calls[t].stale
           /\ calls'[t].passed = calls[t].passed /\ calls'[t].blind = calls[t].blind
<1>1. PICK c \in Call : c = calls[t]
  BY DEF Shape
<1>2. PICK d : d = calls'[t]
  OBVIOUS
<1>3. d = [c EXCEPT !.step = step]
  BY <1>1, <1>2 DEF Shape
<1>4. /\ d.step = step /\ d.knew = c.knew /\ d.stale = c.stale /\ d.passed = c.passed
      /\ d.blind = c.blind
  BY <1>3 DEF Call
<1>5. QED BY <1>1, <1>2, <1>4

LEMMA KnowsGate ==
    ASSUME Settings, Shape, Ages, NEW t \in Calls, Knows(t), Gate(t)
    PROVE  Knows(t)'
<1>1. ASSUME NEW c \in Creators, Begin(t, c) PROVE Knows(t)'
  <2>1. PICK fresh, bad, r : fresh = Fresh(memory[c]) /\ bad = Bad(stored[c]) /\ r = calls'[t]
    OBVIOUS
  <2>2. PICK row \in Read(c) : r =
            [step |-> IF fresh THEN "done" ELSE "load",
             creator |-> c, left |-> None, seen |-> row, stale |-> FALSE,
             knew |-> bad /\ ~fresh, blind |-> FALSE, passed |-> ~fresh \/ ~Bad(memory[c])]
    BY <1>1, <2>1 DEF Begin, Shape
  <2>3. /\ r.seen = row /\ r.creator = c /\ r.knew = (bad /\ ~fresh)
        /\ r.step = IF fresh THEN "done" ELSE "load"
    BY <2>2, Zenon
  <2>4. r.knew => r.step = "load" /\ bad
    BY <2>3, Zenon
  <2>5. row = None \/ row = stored[c]
    BY DEF Read
  <2>6. stored' = stored
    BY <1>1 DEF Begin
  <2>7. QED BY <2>1, <2>3, <2>4, <2>5, <2>6 DEF Knows, Launching, At, Creator, Bad
<1>2. CASE LoadFresh(t)
  <2>1. PICK passed \in BOOLEAN : passed = (~ Bad(calls[t].seen))
    BY Zenon
  <2>2. PICK c \in Call : c = calls[t]
    BY DEF Shape
  <2>3. PICK d : d = calls'[t]
    OBVIOUS
  <2>4. d = [c EXCEPT !.step = "done", !.passed = passed] /\ c.step = "load" /\ c.seen # None
    BY <1>2, <2>1, <2>2, <2>3 DEF LoadFresh, At, Shape, Fresh
  <2>5. d.step = "done" /\ d.passed = passed /\ d.knew = c.knew
    BY <2>4 DEF Call
  <2>6. d.knew => Bad(c.seen)
    BY <2>2, <2>4, <2>5 DEF Knows, At
  <2>7. d.knew => ~ d.passed
    BY <2>1, <2>2, <2>5, <2>6, Zenon
  <2>8. QED BY <2>3, <2>5, <2>7 DEF Knows, Launching, At
<1>3. CASE Load(t)
  <2>1. /\ calls[t].step = "load" /\ calls'[t].step = "merge" /\ calls'[t].knew = calls[t].knew
        /\ calls'[t].blind = (calls'[t].seen # stored[Creator(t)])
    BY <1>3, LoadFields
  <2>2. calls[t].knew => Bad(stored[Creator(t)])
    BY <2>1 DEF Knows, At
  <2>3. calls'[t].knew => calls'[t].blind \/ Bad(calls'[t].seen)
    BY <2>1, <2>2, Zenon
  <2>4. QED BY <2>1, <2>3 DEF Knows, Launching, At, Bad
<1>4. CASE Merge(t)
  <2>1. /\ calls[t].step = "merge" /\ calls'[t].step = StepTaken(t)
        /\ calls'[t].stale = (Taken(t) # None) /\ calls'[t].passed = Passes(t)
        /\ calls'[t].knew = calls[t].knew /\ calls'[t].blind = calls[t].blind
        /\ apiKey' = apiKey
    BY <1>4, MergeFields
  <2>2. calls[t].knew => calls[t].blind \/ Bad(calls[t].seen)
    BY <2>1 DEF Knows, At
  <2>3. calls[t].knew => calls[t].blind \/ (Bad(Taken(t)) /\ Taken(t) # None)
    BY <2>2, Numbers DEF Bad, Taken, Newer, None, Settings
  <2>4. calls'[t].knew => calls'[t].blind \/ ~ apiKey \/ (calls'[t].stale /\ ~ calls'[t].passed)
    BY <2>1, <2>3, Zenon DEF Passes
  <2>5. calls'[t].step = "done" \/ (calls'[t].step = "launch" /\ apiKey)
    BY <2>1 DEF StepTaken
  <2>6. QED BY <2>1, <2>4, <2>5 DEF Knows, Launching, At
<1>5. CASE CheckCooldown(t) \/ CheckInflight(t) \/ Acquire(t) \/ Busy(t) \/ Overtaken(t)
             \/ Launch(t) \/ TimesOut(t)
  <2>1. PICK step : /\ calls' = [calls EXCEPT ![t].step = step]
                    /\ \/ calls[t].step \in Launching
                       \/ calls[t].step = "wait" /\ step = "done"
                    /\ \/ step = "done" \/ step \in Launching
                       \/ step = "wait" /\ ~ calls[t].stale
    BY <1>5
    DEF CheckCooldown, CheckInflight, Acquire, Busy, Overtaken, Launch, Spawn, TimesOut, Go, At,
        Launching
  <2>2. /\ calls'[t].step = step /\ calls'[t].knew = calls[t].knew
        /\ calls'[t].stale = calls[t].stale /\ calls'[t].passed = calls[t].passed
        /\ calls'[t].blind = calls[t].blind
    BY <2>1, OnlyMoves
  <2>3. calls[t].knew => calls[t].blind \/ (/\ calls[t].step \in Launching
                                            /\ calls[t].stale /\ ~ calls[t].passed)
    BY <2>1 DEF Knows, At
  <2>4. calls'[t].knew => calls'[t].blind \/ (/\ step \in Launching \cup {"done"}
                                              /\ calls'[t].stale /\ ~ calls'[t].passed)
    BY <2>1, <2>2, <2>3 DEF Launching
  <2>5. step \notin {"load", "merge"}
    BY <2>1 DEF Launching
  <2>6. QED BY <2>2, <2>4, <2>5 DEF Knows, Launching, At
<1>6. CASE Answered(t)
  <2>1. PICK passed \in BOOLEAN : passed = (~ Bad(workers[t].profile))
    BY Zenon
  <2>2. PICK c \in Call : c = calls[t]
    BY DEF Shape
  <2>3. PICK d : d = calls'[t]
    OBVIOUS
  <2>4. d = [c EXCEPT !.step = "done", !.passed = passed] /\ c.step = "wait"
    BY <1>6, <2>1, <2>2, <2>3 DEF Answered, At, Shape
  <2>5. d.step = "done" /\ d.knew = c.knew /\ d.blind = c.blind
    BY <2>4 DEF Call
  <2>6. d.knew => d.blind
    BY <2>2, <2>4, <2>5 DEF Knows, At
  <2>7. QED BY <2>3, <2>5, <2>6 DEF Knows, Launching, At
<1>7. QED BY <1>1, <1>2, <1>3, <1>4, <1>5, <1>6 DEF Gate

LEMMA KnowsStep ==
    ASSUME Settings, Shape, OneEach, Ages, \A t \in Calls : Knows(t), [Next]_vars
    PROVE  \A t \in Calls : Knows(t)'
<1>1. \A c \in Creators : Bad(stored[c]) => Bad(stored[c])'
  BY StoredStep, Numbers DEF Bad, Settings, Ages
<1>2. ASSUME NEW u \in Calls, calls'[u] = calls[u], apiKey' = apiKey PROVE Knows(u)'
  <2>1. At(u, "load") => Creator(u) \in Creators
    BY DEF Shape, Placed, At
  <2>2. Knows(u)
    OBVIOUS
  <2>3. Creator(u)' = Creator(u) /\ \A step \in CallSteps : At(u, step)' <=> At(u, step)
    BY <1>2 DEF Creator, At
  <2>4. At(u, "load") => (Bad(stored[Creator(u)]) => Bad(stored'[Creator(u)]))
    BY <1>1, <2>1 DEF Bad
  <2>5. QED BY <1>2, <2>2, <2>3, <2>4 DEF Knows, Creator, At, Bad
<1>3. apiKey' = apiKey
  BY DEF Next, vars, Tick, Gate, Begin, LoadFresh, Load, Merge, MergeAs, CheckCooldown,
         CheckInflight, Acquire, Busy, Overtaken, Launch, Spawn, Answered, TimesOut, Work, Fetched,
         Fails, Upsert, Cache, CacheResult, ClearRetry, ClearInflight, Respond
<1>4. CASE UNCHANGED calls
  BY <1>2, <1>3, <1>4
<1>5. ASSUME NEW t \in Calls, Gate(t) PROVE \A u \in Calls : Knows(u)'
  <2>1. \A u \in Calls \ {t} : calls'[u] = calls[u]
    BY <1>5, OthersUntouched
  <2>2. \A u \in Calls \ {t} : Knows(u)'
    BY <1>2, <1>3, <2>1
  <2>3. QED BY <1>5, <2>2, KnowsGate
<1>6. UNCHANGED calls \/ \E t \in Calls : Gate(t)
  BY DEF Next, vars, Tick, Work, Fetched, Fails, Upsert, Cache, CacheResult, ClearRetry,
         ClearInflight, Respond
<1>7. QED BY <1>4, <1>5, <1>6

-----------------------------------------------------------------------------
(* The inductive invariant. *)
RefreshInv ==
    /\ Shape
    /\ PermitsConserved
    /\ OneEach
    /\ Ages
    /\ \A t \in Calls : Knows(t)

THEOREM RefreshInvHolds == ASSUME Settings PROVE Spec => []RefreshInv
<1>1. Init => RefreshInv
  BY ShapeInit, PermitsInit, OneEachInit, AgesInit, KnowsInit DEF RefreshInv
<1>2. RefreshInv /\ [Next]_vars => RefreshInv'
  <2> SUFFICES ASSUME RefreshInv, [Next]_vars PROVE RefreshInv'
    OBVIOUS
  <2>1. Shape /\ PermitsConserved /\ OneEach /\ Ages /\ \A t \in Calls : Knows(t)
    BY DEF RefreshInv
  <2>2. Shape'
    BY <2>1, ShapeStep
  <2>3. PermitsConserved' /\ OneEach' /\ \A t \in Calls : Knows(t)'
    BY <2>1, PermitsStep, OneEachStep, KnowsStep
  <2>4. Ages'
    BY <2>1, <2>2, AgesStep
  <2>5. QED BY <2>2, <2>3, <2>4 DEF RefreshInv
<1>3. QED BY <1>1, <1>2, PTL DEF Spec

(* Every variable keeps its type; of the permits, none is made up and none   *)
(* is taken that is not there.                                               *)
THEOREM TypeCorrect == ASSUME Settings PROVE Spec => []TypeOK
<1>1. RefreshInv => TypeOK
  <2> SUFFICES ASSUME RefreshInv PROVE TypeOK
    OBVIOUS
  <2>1. Shape /\ permits + Cardinality(Holding) = Permits
    BY DEF RefreshInv, PermitsConserved, Holding
  <2>2. permits \in 0..Permits
    BY <2>1, HoldingFinite DEF Shape, Settings
  <2>3. QED BY <2>1, <2>2 DEF Shape, TypeOK
<1>2. QED BY <1>1, RefreshInvHolds, PTL

(* No way out of the launch (busy, overtaken, launched) or of the refresh    *)
(* task (done, failed) loses a permit of creator_gate_remote_semaphore.      *)
THEOREM PermitsConservedHolds == ASSUME Settings PROVE Spec => []PermitsConserved
BY RefreshInvHolds, PTL DEF RefreshInv

(* A creator is refreshed by one task at a time, and is in flight exactly as *)
(* long as that task works: maybe_spawn_creator_profile_refresh looks twice. *)
THEOREM OneRefreshInFlightHolds == ASSUME Settings PROVE Spec => []OneRefreshInFlight
<1>1. OneEach => OneRefreshInFlight
  <2> SUFFICES ASSUME OneEach, NEW c \in Creators
      PROVE Cardinality({t \in Calls : Refreshing(t) /\ Creator(t) = c})
               = IF c \in inflight THEN 1 ELSE 0
    BY DEF OneRefreshInFlight
  <2> DEFINE S == {t \in Calls : Refreshing(t) /\ Creator(t) = c}
  <2>1. CASE c \in inflight
    <3>1. PICK t \in Calls : Refreshing(t) /\ Creator(t) = c
      BY <2>1 DEF OneEach
    <3>2. S = {t}
      BY <3>1 DEF OneEach
    <3>3. Cardinality(S) = 1
      BY <3>2, FS_Singleton
    <3>4. QED BY <2>1, <3>3
  <2>2. CASE c \notin inflight
    <3>1. S = {}
      BY <2>2 DEF OneEach
    <3>2. QED BY <2>2, <3>1, FS_EmptySet
  <2>3. QED BY <2>1, <2>2
<1>2. QED BY <1>1, RefreshInvHolds, PTL DEF RefreshInv

(* What creator_profile_cache holds is never newer than the database's row:  *)
(* a restart loses no profile.                                               *)
THEOREM MemoryBehindStoreHolds == ASSUME Settings PROVE Spec => []MemoryBehindStore
<1>1. Ages => MemoryBehindStore
  BY DEF Ages, MemoryBehindStore
<1>2. QED BY <1>1, RefreshInvHolds, PTL DEF RefreshInv

(* A creator known as bad when a gate begins does not pass that gate, where- *)
(* ever it ends (fresh in the database, merged, launched, busy, overtaken),  *)
(* unless the gate has no key or its last read of the database has failed.   *)
THEOREM KnownBadStoppedHolds == ASSUME Settings PROVE Spec => []KnownBadStopped
<1>1. (\A t \in Calls : Knows(t)) => KnownBadStopped
  BY DEF Knows, KnownBadStopped, At
<1>2. QED BY <1>1, RefreshInvHolds, PTL DEF RefreshInv

(* No refresh replaces a row of creator_profiles by an older one: the upsert *)
(* comes after the fetch, but no other of that creator can come between.     *)
THEOREM StoredGrowsHolds == ASSUME Settings PROVE Spec => StoredGrows
<1>1. RefreshInv /\ [Next]_vars => [\A c \in Creators : stored'[c] >= stored[c]]_vars
  BY StoredStep DEF RefreshInv
<1>2. QED BY <1>1, RefreshInvHolds, PTL DEF Spec, StoredGrows

=============================================================================
