------------------------------- MODULE Gate1 -------------------------------
(***************************************************************************)
(* The gate 1 worker of the filter (filter/engine.rs): the launches of     *)
(* each creator in the last five minutes, kept in memory only, and how     *)
(* often he has used a template, kept in memory and written behind to the  *)
(* database by the persist worker.  `launches` and `lost` are history.     *)
(***************************************************************************)
EXTENDS Integers, Sequences, FiniteSets

CONSTANTS
    Creators,     \* wallets that launch tokens
    Templates,    \* names and addresses a token may be made from
    Window,       \* FACTORY_WINDOW_MS
    Factory,      \* FACTORY_THRESHOLD
    RepeatLimit,  \* risk_template_hard_reject_threshold
    MaxTime,      \* bound: the clock
    MaxLaunches,  \* bound: tokens launched
    MaxRestarts   \* bound: restarts

VARIABLES
    now,        \* the clock
    blacklist,  \* hotlists.creator_blacklist
    window,     \* creator_window
    repeats,    \* creator_template_counts
    queue,      \* the persist worker's channel
    stored,     \* creator_templates in the database
    restarts,   \* how often the process has started anew
    launches,   \* every launch: whose, made from what, when, in which run, the verdict
    lost        \* repeats a crash or a failed read has made the worker forget

vars == <<now, blacklist, window, repeats, queue, stored, restarts, launches, lost>>

Keys     == Creators \X Templates
Verdicts == {"blacklist", "factory", "name", "template", "pass"}
Launch   == [key : Keys, at : Nat, run : Nat, verdict : Verdicts]

TypeOK ==
    /\ now \in 0..MaxTime
    /\ blacklist \in SUBSET Creators
    /\ window \in [Creators -> Seq(0..MaxTime)]
    /\ repeats \in [Keys -> Nat]
    /\ queue \in Seq([key : Keys, count : Nat])
    /\ stored \in [Keys -> Nat]
    /\ restarts \in 0..MaxRestarts
    /\ launches \in Seq(Launch)
    /\ lost \in [Keys -> Nat]

Init ==
    /\ now = 0
    /\ blacklist = {}
    /\ window = [c \in Creators |-> <<>>]
    /\ repeats = [k \in Keys |-> 0]
    /\ queue = <<>>
    /\ stored = repeats
    /\ restarts = 0
    /\ launches = <<>>
    /\ lost = repeats

(* A window from its first time on that is not too old, which each launch's  *)
(* own is not; those in front of it are dropped.                             *)
From(times, age) ==
    SubSeq(times, CHOOSE i \in DOMAIN times :
                      /\ now - times[i] <= age
                      /\ \A j \in 1..(i - 1) : ~(now - times[j] <= age), Len(times))

(* as it would be with the window open at its far end *)
RecentWithin(c) == From(Append(window[c], now), Window - 1)

(* The window of a creator with this launch. *)
Recent(c) == From(Append(window[c], now), Window)

Record(key, verdict) ==
    launches' = Append(launches, [key |-> key, at |-> now, run |-> restarts, verdict |-> verdict])

-----------------------------------------------------------------------------
(* gate1_check, in its order.  A blacklisted creator's launch counts for     *)
(* nothing, a factory's or a misnamed one for the window only.               *)

Blacklisted(key) ==
    /\ key[1] \in blacklist
    /\ Record(key, "blacklist")
    /\ UNCHANGED <<window, repeats, queue>>

OfFactory(key) ==
    /\ key[1] \notin blacklist
    /\ Len(Recent(key[1])) >= Factory
    /\ window' = [window EXCEPT ![key[1]] = Recent(key[1])]
    /\ Record(key, "factory")
    /\ UNCHANGED <<repeats, queue>>

Misnamed(key) ==   \* no name, too long a name, or a keyword of the blacklist in it
    /\ key[1] \notin blacklist
    /\ Len(Recent(key[1])) < Factory
    /\ window' = [window EXCEPT ![key[1]] = Recent(key[1])]
    /\ Record(key, "name")
    /\ UNCHANGED <<repeats, queue>>

(* analyze_gate1_risk; its penalties weigh in gate 4 only *)
Verdict(count) == IF count >= RepeatLimit THEN "template" ELSE "pass"

(* The repeats are counted, and the count goes to the persist worker.        *)
Counted(key) ==
    LET count == repeats[key] + 1
    IN  /\ key[1] \notin blacklist
        /\ Len(Recent(key[1])) < Factory
        /\ window' = [window EXCEPT ![key[1]] = Recent(key[1])]
        /\ repeats' = [repeats EXCEPT ![key] = count]
        /\ queue' = Append(queue, [key |-> key, count |-> count])
        /\ Record(key, Verdict(count))

NewToken(key) ==
    /\ Len(launches) < MaxLaunches
    /\ \/ Blacklisted(key) \/ OfFactory(key) \/ Misnamed(key) \/ Counted(key)
    /\ UNCHANGED <<now, blacklist, stored, restarts, lost>>

-----------------------------------------------------------------------------
(* The persist worker writes the counts in the order they were made; a write *)
(* that fails is dropped, and made good by the next of its template.         *)
Persist ==
    /\ queue # <<>>
    /\ stored' \in {stored, [stored EXCEPT ![Head(queue).key] = Head(queue).count]}
    /\ queue' = Tail(queue)
    /\ UNCHANGED <<now, blacklist, window, repeats, restarts, launches, lost>>

(* list_creator_template_counts: an error leaves the cache empty. *)
Loaded == {stored, [k \in Keys |-> 0]}

(* What the worker no longer knows of. *)
Missing(before, after) ==
    [k \in Keys |-> IF before[k] > after[k] THEN before[k] - after[k] ELSE 0]

Restart ==
    /\ restarts < MaxRestarts
    /\ restarts' = restarts + 1
    /\ window' = [c \in Creators |-> <<>>]
    /\ queue' = <<>>
    /\ repeats' \in Loaded
    /\ lost' = [k \in Keys |-> lost[k] + Missing(repeats, repeats')[k]]
    /\ UNCHANGED <<now, blacklist, stored, launches>>

Reload ==
    /\ blacklist' \in (SUBSET Creators) \ {blacklist}
    /\ UNCHANGED <<now, window, repeats, queue, stored, restarts, launches, lost>>

Tick ==
    /\ now < MaxTime
    /\ now' = now + 1
    /\ UNCHANGED <<blacklist, window, repeats, queue, stored, restarts, launches, lost>>

Next ==
    \/ \E key \in Keys : NewToken(key)
    \/ Persist \/ Restart \/ Reload \/ Tick

Spec == Init /\ [][Next]_vars

-----------------------------------------------------------------------------
Passed(i) == launches[i].verdict = "pass"

(* No token passes that is the third, or a later, of its creator within five *)
(* minutes of one run, whatever became of the others: only launches met      *)
(* while he was blacklisted do not count.                                    *)
FactoryStopped ==
    \A i \in DOMAIN launches : Passed(i) =>
        Cardinality({j \in 1..i : /\ launches[j].key[1] = launches[i].key[1]
                                  /\ launches[j].run = launches[i].run
                                  /\ launches[j].verdict # "blacklist"
                                  /\ launches[i].at - launches[j].at <= Window}) < Factory

(* Over all runs fewer tokens of a creator pass from one template than the   *)
(* limit, but for the repeats a crash or an unreadable database has cost.    *)
TemplateLimited ==
    \A k \in Keys :
        Cardinality({i \in DOMAIN launches : launches[i].key = k /\ Passed(i)})
            < RepeatLimit + lost[k]

(* The stored repeats of a template go back only where they could not be     *)
(* read at a start, and the worker has begun to count anew.                  *)
StoredGrows == [][\A k \in Keys : stored'[k] < stored[k] => lost[k] > 0]_vars

=============================================================================
