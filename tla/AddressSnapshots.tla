-------------------------- MODULE AddressSnapshots --------------------------
(***************************************************************************)
(* What the filter knows of a wallet (filter/engine.rs,                    *)
(* fetch_address_snapshot): kept in memory and in the database, fetched    *)
(* from Helius or, when that fails or is cooling down, by RPC, which does  *)
(* not tell the wallet's first funder.  A stale snapshot is served at once *)
(* and refreshed in the background.  A snapshot is when it was fetched and *)
(* whether it names the funder.                                            *)
(***************************************************************************)
EXTENDS Integers, FiniteSets

CONSTANTS
    Addresses,  \* wallets looked up
    Calls,      \* look-ups
    NoAddress,  \* a look-up that has not begun
    TTL,        \* ADDRESS_SNAPSHOT_CACHE_TTL_MS
    Cooldown,   \* of Helius, after a 429
    MaxTime,    \* bound: the clock
    Loses       \* whether writes to the database may fail

VARIABLES
    now,       \* the clock
    memory,    \* address_snapshot_cache
    stored,    \* the database's address_snapshots
    inflight,  \* address_snapshot_refreshes
    until,     \* address_snapshot_helius_cooldown_until_ms
    tasks      \* each look-up, and the background refresh it has spawned

vars == <<now, memory, stored, inflight, until, tasks>>

None      == [at |-> -1, funder |-> FALSE]
Snapshots == {None} \cup [at : 0..MaxTime, funder : BOOLEAN]
Parts     == {"answer", "refresh"}
Steps     == {"idle", "load", "stale", "launch", "live", "helius", "rpc", "save", "persist",
              "release", "end"}
Task      == [step : Steps, address : Addresses \cup {NoAddress}, got : Snapshots]

TypeOK ==
    /\ now \in 0..MaxTime
    /\ memory \in [Addresses -> Snapshots]
    /\ stored \in [Addresses -> Snapshots]
    /\ inflight \in SUBSET Addresses
    /\ until \in 0..(MaxTime + Cooldown)
    /\ tasks \in [Calls \X Parts -> Task]

Init ==
    /\ now = 0
    /\ memory = [a \in Addresses |-> None]
    /\ stored = memory
    /\ inflight = {}
    /\ until = 0
    /\ tasks = [p \in Calls \X Parts |-> [step |-> "idle", address |-> NoAddress, got |-> None]]

Fresh(s)      == s # None /\ now - s.at <= TTL
At(p, step)   == tasks[p].step = step
Address(p)    == tasks[p].address
Go(p, step)   == tasks' = [tasks EXCEPT ![p].step = step]
Hold(p, step, s) == tasks' = [tasks EXCEPT ![p].step = step, ![p].got = s]
Remember(a, s)   == memory' = [memory EXCEPT ![a] = s]

-----------------------------------------------------------------------------
(* fetch_address_snapshot: memory, the database, either however old; what    *)
(* the database has is put into memory.  A read of the database that fails   *)
(* reads as no row.                                                          *)

Read(a) == {None, stored[a]}

Begin(t, a) ==
    LET p == <<t, "answer">>
    IN  /\ At(p, "idle")
        /\ \E row \in Read(a) : tasks' = [tasks EXCEPT ![p] =
              [step |-> IF Fresh(memory[a]) THEN "end" ELSE "load",
               address |-> a, got |-> row]]
        /\ UNCHANGED <<now, memory, stored, inflight, until>>

Load(p) ==
    /\ At(p, "load")
    /\ LET a == Address(p)
       IN  IF Fresh(tasks[p].got)
           THEN Remember(a, tasks[p].got) /\ Go(p, "end")
           ELSE /\ UNCHANGED memory
                /\ IF memory[a] # None THEN Go(p, "launch")
                   ELSE \E row \in Read(a) : Hold(p, "stale", row)
    /\ UNCHANGED <<now, stored, inflight, until>>

LoadStale(p) ==
    /\ At(p, "stale")
    /\ IF tasks[p].got = None
       THEN Go(p, "live") /\ UNCHANGED memory
       ELSE Go(p, "launch") /\ Remember(Address(p), tasks[p].got)
    /\ UNCHANGED <<now, stored, inflight, until>>

(* The stale snapshot is the answer; one refresh of an address at a time. *)
SpawnRefresh(t) ==
    LET p == <<t, "answer">>
        a == Address(p)
    IN  /\ At(p, "launch")
        /\ inflight' = inflight \cup {a}
        /\ tasks' = [tasks EXCEPT ![p].step = "end",
                                  ![<<t, "refresh">>] = [step |-> "live", address |-> a, got |-> None]]
        /\ UNCHANGED <<now, memory, stored, until>>

LeaveRefresh(t) ==
    /\ At(<<t, "answer">>, "launch")
    /\ Go(<<t, "answer">>, "end")
    /\ UNCHANGED <<now, memory, stored, inflight, until>>

Launch(t) ==
    IF Address(<<t, "answer">>) \in inflight THEN LeaveRefresh(t) ELSE SpawnRefresh(t)

-----------------------------------------------------------------------------
(* fetch_address_snapshot_live, for a look-up that found nothing and for a   *)
(* background refresh                                                        *)

Choose(p) ==
    /\ At(p, "live")
    /\ Go(p, IF until > now THEN "rpc" ELSE "helius")
    /\ UNCHANGED <<now, memory, stored, inflight, until>>

(* A success ends a cooldown another request has met with since. *)
HeliusAnswers(p) ==
    /\ At(p, "helius")
    /\ until' = 0
    /\ \E funder \in BOOLEAN : Hold(p, "save", [at |-> now, funder |-> funder])
    /\ UNCHANGED <<now, memory, stored, inflight>>

CooledUntil == IF until > now + Cooldown THEN until ELSE now + Cooldown

HeliusLimits(p) ==
    /\ At(p, "helius")
    /\ until' = CooledUntil
    /\ Go(p, "rpc")
    /\ UNCHANGED <<now, memory, stored, inflight>>

(* after the last attempt, or for an answer no other attempt would better *)
HeliusFails(p) ==
    /\ At(p, "helius")
    /\ Go(p, "rpc")
    /\ UNCHANGED <<now, memory, stored, inflight, until>>

RpcAnswers(p) ==
    /\ At(p, "rpc")
    /\ Hold(p, "save", [at |-> now, funder |-> FALSE])
    /\ UNCHANGED <<now, memory, stored, inflight, until>>

Done(p) == IF p[2] = "refresh" THEN "release" ELSE "end"

RpcFails(p) ==
    /\ At(p, "rpc")
    /\ Go(p, Done(p))
    /\ UNCHANGED <<now, memory, stored, inflight, until>>

(* cache_address_snapshot: stamped anew, into memory as it is ... *)
Save(p) ==
    /\ At(p, "save")
    /\ Remember(Address(p), [tasks[p].got EXCEPT !.at = now])
    /\ Hold(p, "persist", [tasks[p].got EXCEPT !.at = now])
    /\ UNCHANGED <<now, stored, inflight, until>>

(* ... and into the row of the database, where a known funder stays. *)
Merged(old, new) ==
    [at |-> IF new.at > old.at THEN new.at ELSE old.at, funder |-> old.funder \/ new.funder]

Persist(p) ==
    /\ At(p, "persist")
    /\ \/ stored' = [stored EXCEPT ![Address(p)] = Merged(@, tasks[p].got)]
       \/ Loses /\ UNCHANGED stored
    /\ Go(p, Done(p))
    /\ UNCHANGED <<now, memory, inflight, until>>

Release(p) ==
    /\ At(p, "release")
    /\ inflight' = inflight \ {Address(p)}
    /\ Go(p, "end")
    /\ UNCHANGED <<now, memory, stored, until>>

Tick ==
    /\ now < MaxTime
    /\ now' = now + 1
    /\ UNCHANGED <<memory, stored, inflight, until, tasks>>

Fetch(p) ==
    \/ Choose(p) \/ HeliusAnswers(p) \/ HeliusLimits(p) \/ HeliusFails(p)
    \/ RpcAnswers(p) \/ RpcFails(p) \/ Save(p) \/ Persist(p) \/ Release(p)

Next ==
    \/ Tick
    \/ \E t \in Calls : Launch(t) \/ \E a \in Addresses : Begin(t, a)
    \/ \E p \in Calls \X Parts : Load(p) \/ LoadStale(p) \/ Fetch(p)

(* Requests have timeouts. *)
Spec     == Init /\ [][Next]_vars
FairSpec == Spec /\ \A p \in Calls \X Parts : WF_vars(Fetch(p))

-----------------------------------------------------------------------------
(* Background refreshes of an address exclude each other, and the set says   *)
(* so exactly as long as one works.                                          *)
OneRefresh ==
    \A a \in Addresses :
        Cardinality({t \in Calls : /\ Address(<<t, "refresh">>) = a
                                   /\ ~At(<<t, "refresh">>, "end")})
            = IF a \in inflight THEN 1 ELSE 0

(* A snapshot newer in memory than in the database is about to be written    *)
(* there, or came from there and was overtaken: none is kept from it.        *)
NewerIsPersisting ==
    \A a \in Addresses : memory[a].at > stored[a].at =>
        \E p \in Calls \X Parts : At(p, "persist") /\ Address(p) = a

(* The database never forgets a funder, although RPC, which knows none, may  *)
(* be asked after Helius.                                                    *)
FunderKept == [][\A a \in Addresses : stored[a].funder => stored'[a].funder]_vars

(* No address stays in flight, whatever fails: it can be refreshed again. *)
InflightClears == \A a \in Addresses : a \in inflight ~> a \notin inflight

=============================================================================
