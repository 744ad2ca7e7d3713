--------------------------- MODULE NarrativeTerms ---------------------------
(***************************************************************************)
(* The hot narrative terms of the filter (filter/engine.rs,                *)
(* refresh_dynamic_hot_keywords and reload_hotlists).  One worker task     *)
(* collects the terms of each source, replaces the source's rows in the    *)
(* database, one transaction each, writes a snapshot to a file, and loads  *)
(* memory from the rows that have not expired, or else from the file.  The *)
(* process may crash between any two writes, and in the file's.            *)
(***************************************************************************)
EXTENDS Integers, Sequences

CONSTANTS
    Terms,          \* keywords
    TTL,            \* narrative_*_ttl_secs, of each tier
    MaxTime,        \* bound: the clock
    MaxRestarts     \* bound: restarts

VARIABLES
    now,        \* the clock
    rows,       \* dynamic_keywords: when a term's row of a source expires
    file,       \* dynamic_hot_keywords_file: the terms in it
    memory,     \* hotlists.narrative_terms: each term's tier
    step,       \* of the worker
    up,         \* whether the filter has started: lists are loaded
    found,      \* the terms of each source, in a refresh
    begun,      \* when the refresh began
    restarts,   \* how often the process has started anew
    seen,       \* history: when a term was last found confirmed on chain
    loaded,     \* history: when memory was last loaded
    whole       \* history: whether the file's last write was completed

vars == <<now, rows, file, memory, step, up, found, begun, restarts, seen, loaded, whole>>

(* The three kinds of preheat source are told apart by nothing but a mask.   *)
Sources == <<"base", "preheat", "confirmed">>
Source  == {Sources[i] : i \in DOMAIN Sources}
Tiers   == {"none"} \cup Source
Steps   == {"idle", "snapshot", "reload", "dead"} \cup Source
Never   == -1

TypeOK ==
    /\ now \in 0..MaxTime
    /\ rows \in [Terms \X Source -> {Never} \cup Nat]
    /\ file \in SUBSET Terms
    /\ memory \in [Terms -> Tiers]
    /\ step \in Steps
    /\ up \in BOOLEAN
    /\ found \in [Source -> SUBSET Terms]
    /\ begun \in 0..MaxTime
    /\ restarts \in 0..MaxRestarts
    /\ seen \in [Terms -> Never..MaxTime]
    /\ loaded \in 0..MaxTime
    /\ whole \in BOOLEAN

Nothing == [s \in Source |-> {}]

Init ==
    /\ now = 0
    /\ rows = [r \in Terms \X Source |-> Never]
    /\ file = {}
    /\ memory = [k \in Terms |-> "none"]
    /\ step = "idle"
    /\ up = FALSE
    /\ found = Nothing
    /\ begun = 0
    /\ restarts = 0
    /\ seen = [k \in Terms |-> Never]
    /\ loaded = 0
    /\ whole = FALSE

-----------------------------------------------------------------------------
(* A refresh.  A source that cannot be asked has no terms.                   *)

Collect ==
    /\ step = "idle"
    /\ found' \in [Source -> SUBSET Terms]
    /\ begun' = now
    /\ seen' = [k \in Terms |-> IF k \in found'["confirmed"] THEN now ELSE seen[k]]
    /\ step' = Sources[1]
    /\ UNCHANGED <<now, rows, file, memory, up, restarts, loaded, whole>>

(* A list of seeds cannot be read, or a statement or the write of the file   *)
(* fails, or there is no term at all: what has been replaced stays so.  A    *)
(* start goes on to load the lists all the same.                             *)
Fails ==
    /\ step \in {"snapshot"} \cup Source \/ (step = "idle" /\ ~up)
    /\ step' = IF up THEN "idle" ELSE "reload"
    /\ found' = Nothing
    /\ UNCHANGED <<now, rows, file, memory, up, begun, restarts, seen, loaded, whole>>

After(s) ==
    LET i == CHOOSE i \in DOMAIN Sources : Sources[i] = s
    IN  IF i < Len(Sources) THEN Sources[i + 1] ELSE "snapshot"

(* replace_dynamic_keywords: the source's rows go, whatever takes their place. *)
Replace ==
    /\ step \in Source
    /\ rows' = [r \in Terms \X Source |->
                  IF r[2] # step THEN rows[r]
                  ELSE IF r[1] \in found[step] THEN begun + TTL[step] ELSE Never]
    /\ step' = After(step)
    /\ UNCHANGED <<now, file, memory, up, found, begun, restarts, seen, loaded, whole>>

Merged == UNION {found[s] : s \in Source}

(* With no terms at all the refresh fails, and the file stays.  The snapshot *)
(* is cut at a limit.                                                        *)
Snapshot ==
    /\ step = "snapshot" /\ Merged # {}
    /\ file' \in (SUBSET Merged) \ {{}}
    /\ whole' = TRUE
    /\ step' = "reload"
    /\ found' = Nothing
    /\ UNCHANGED <<now, rows, memory, up, begun, restarts, seen, loaded>>

-----------------------------------------------------------------------------
(* reload_hotlists, after a refresh and by a timer of its own                *)

(* as it would be with every row of the table read *)
ActiveForever(k) == {s \in Source : rows[<<k, s>>] # Never}

Active(k) == {s \in Source : rows[<<k, s>>] # Never /\ rows[<<k, s>>] >= now}

Highest(ss) ==
    IF "confirmed" \in ss THEN "confirmed"
    ELSE IF "base" \in ss THEN "base"
    ELSE IF "preheat" \in ss THEN "preheat" ELSE "none"

FromFile == [k \in Terms |-> IF k \in file THEN "preheat" ELSE "none"]

Loaded ==
    IF \E k \in Terms : Active(k) # {} THEN [k \in Terms |-> Highest(Active(k))] ELSE FromFile

Reload ==
    /\ step = "reload" \/ (step = "idle" /\ up)
    /\ memory' = Loaded
    /\ up' = TRUE
    /\ loaded' = now
    /\ step' = "idle"
    /\ UNCHANGED <<now, rows, file, found, begun, restarts, seen, whole>>

(* A list or the table cannot be read: memory stays, but a start ends.       *)
ReloadFails ==
    /\ step = "reload"
    /\ step' = IF up THEN "idle" ELSE "dead"
    /\ UNCHANGED <<now, rows, file, memory, up, found, begun, restarts, seen, loaded, whole>>

-----------------------------------------------------------------------------
(* A crash; in the write of the file it leaves an empty one.                 *)
Restart ==
    /\ restarts < MaxRestarts
    /\ restarts' = restarts + 1
    /\ memory' = [k \in Terms |-> "none"]
    /\ step' = "idle"
    /\ up' = FALSE
    /\ found' = Nothing
    /\ \/ UNCHANGED <<file, whole>>
       \/ step = "snapshot" /\ Merged # {} /\ file' = {} /\ whole' = FALSE
    /\ UNCHANGED <<now, rows, begun, seen, loaded>>

Tick ==
    /\ now < MaxTime
    /\ now' = now + 1
    /\ UNCHANGED <<rows, file, memory, step, up, found, begun, restarts, seen, loaded, whole>>

Next == Collect \/ Fails \/ Replace \/ Snapshot \/ Reload \/ ReloadFails \/ Restart \/ Tick

Spec == Init /\ [][Next]_vars

-----------------------------------------------------------------------------
(* A term that memory calls confirmed was found on chain no longer before    *)
(* the load than the time it stays confirmed, in this run or an earlier one: *)
(* neither a failed refresh nor a restart, nor the file, makes it so.        *)
TierJustified ==
    \A k \in Terms : memory[k] = "confirmed" =>
        seen[k] # Never /\ seen[k] + TTL["confirmed"] >= loaded

(* Once a snapshot has been written, the terms in memory are not lost while  *)
(* the process runs: not by sources that fail, each of which deletes its     *)
(* rows, nor by rows that expire.                                            *)
TermsKept ==
    [][whole /\ restarts' = restarts /\ (\E k \in Terms : memory[k] # "none")
          => \E k \in Terms : memory'[k] # "none"]_vars

=============================================================================
