---------------------------- MODULE FilterRecords ----------------------------
(***************************************************************************)
(* What the database keeps of a mint's way through the gates               *)
(* (filter/db.rs, filter_results and filter_timelines).  A mint may be     *)
(* admitted more than once and before and after a restart, and there is    *)
(* one row of each table for it: the persist worker merges every outcome   *)
(* into them (filter/engine.rs, record_token_outcome).  One mint is        *)
(* modelled, since a row is touched by its own mint only.                  *)
(***************************************************************************)
EXTENDS Integers, Sequences, FiniteSetsExt

CONSTANTS
    MaxTime,      \* bound: the clock
    MaxOutcomes   \* bound: how often the mint is admitted or turned away

VARIABLES
    now,       \* the clock
    trace,     \* of the candidate in the filter: when it reached each stage
    queue,     \* outcomes on their way to the persist worker
    result,    \* the row of filter_results
    timeline,  \* the row of filter_timelines
    outcomes,  \* how many there have been
    written    \* history: the outcomes merged into result, and when

vars == <<now, trace, queue, result, timeline, outcomes, written>>

Stages == <<"detected", "gate1", "gate2", "trigger", "gate4">>
Stage  == {Stages[i] : i \in DOMAIN Stages}
Kinds  == <<"gate1", "gate2", "gate3", "gate4", "pass">>
Kind   == {Kinds[i] : i \in DOMAIN Kinds}
Never  == -1
Times  == {Never} \cup 0..MaxTime

Trace    == [Stage -> Times]
NoTrace  == [s \in Stage |-> Never]
Reached(t, s) == t[s] # Never

Row     == [kind : Kind \cup {"none"}, since : Times, at : Times]   \* whose columns, and ts
Line    == [kind : Kind \cup {"none"}, stamps : Trace, at : Times]
Outcome == [kind : Kind, stamps : Trace]

TypeOK ==
    /\ now \in 0..MaxTime
    /\ trace \in Trace
    /\ queue \in Seq(Outcome)
    /\ result \in Row
    /\ timeline \in Line
    /\ outcomes \in 0..MaxOutcomes
    /\ written \in SUBSET [kind : Kind, at : 0..MaxTime]

Init ==
    /\ now = 0
    /\ trace = NoTrace
    /\ queue = <<>>
    /\ result = [kind |-> "none", since |-> Never, at |-> Never]
    /\ timeline = [kind |-> "none", stamps |-> NoTrace, at |-> Never]
    /\ outcomes = 0
    /\ written = {}

-----------------------------------------------------------------------------
(* The candidate's way, of which the pipeline decides.                       *)

(* Gate 1 turns the token away: no candidate is made. *)
TurnedAway ==
    /\ trace = NoTrace /\ outcomes < MaxOutcomes
    /\ outcomes' = outcomes + 1
    /\ queue' = Append(queue, [kind |-> "gate1",
                               stamps |-> [NoTrace EXCEPT !["detected"] = now, !["gate1"] = now]])
    /\ UNCHANGED <<now, trace, result, timeline, written>>

Admitted ==
    /\ trace = NoTrace /\ outcomes < MaxOutcomes
    /\ outcomes' = outcomes + 1
    /\ trace' = [NoTrace EXCEPT !["detected"] = now, !["gate1"] = now]
    /\ UNCHANGED <<now, queue, result, timeline, written>>

(* gate 2's result, gate 3's trigger *)
Proceeds(from, to) ==
    /\ Reached(trace, from) /\ ~Reached(trace, to)
    /\ trace' = [trace EXCEPT ![to] = now]
    /\ UNCHANGED <<now, queue, result, timeline, outcomes, written>>

(* How a candidate may leave, by how far it has come: gate 4 stamps a        *)
(* candidate only as it decides.                                             *)
Ends ==
    CASE Reached(trace, "trigger") -> {"gate3", "gate4", "pass"}
      [] Reached(trace, "gate2") /\ ~Reached(trace, "trigger") -> {"gate2", "gate3"}
      [] OTHER -> {}

Leaves ==
    \E kind \in Ends :
        /\ queue' = Append(queue,
              [kind |-> kind,
               stamps |-> IF kind \in {"gate4", "pass"} THEN [trace EXCEPT !["gate4"] = now]
                          ELSE trace])
        /\ trace' = NoTrace
        /\ UNCHANGED <<now, result, timeline, outcomes, written>>

-----------------------------------------------------------------------------
(* record_token_outcome and its two statements.  An outcome is stamped when  *)
(* the worker comes to it.                                                   *)

Rank(kind)      == IF kind = "none" THEN 0 ELSE CHOOSE i \in DOMAIN Kinds : Kinds[i] = kind
StampRank(t)    == Max({0} \cup {i - 1 : i \in {j \in DOMAIN Stages : Reached(t, Stages[j])}})

(* as it would be with the first of equals kept *)
BeatsStrictly(new, old, at, was) == new > old

Beats(new, old, at, was) == new > old \/ (new = old /\ at >= was)

(* every column goes by the rank but ts, which is the greater *)
MergedResult(kind) ==
    IF Beats(Rank(kind), Rank(result.kind), now, result.at)
    THEN [kind |-> kind, since |-> now, at |-> Max({now, result.at})]
    ELSE [result EXCEPT !.at = Max({now, @})]

Earlier(a, b) == IF a = Never \/ (b # Never /\ b < a) THEN b ELSE a

Final(o) ==
    IF Beats(StampRank(o.stamps), StampRank(timeline.stamps), now, timeline.at)
    THEN now ELSE timeline.at

(* decision, mode, path, final_at_ms and latency_ms go by the furthest gate  *)
(* passed, a stage's time is the earliest known                              *)
MergedTimeline(o) ==
    [kind   |-> IF Beats(StampRank(o.stamps), StampRank(timeline.stamps), now, timeline.at)
                THEN o.kind ELSE timeline.kind,
     stamps |-> [s \in Stage |-> Earlier(timeline.stamps[s], o.stamps[s])],
     at     |-> Final(o)]

(* Each statement may fail, and is not repeated. *)
Record ==
    /\ queue # <<>>
    /\ LET o == Head(queue)
       IN  /\ \/ /\ result' = MergedResult(o.kind)
                 /\ written' = written \cup {[kind |-> o.kind, at |-> now]}
              \/ UNCHANGED <<result, written>>
           /\ timeline' \in {MergedTimeline(o), timeline}
    /\ queue' = Tail(queue)
    /\ UNCHANGED <<now, trace, outcomes>>

(* The candidate and what was queued are lost, the rows stay. *)
Restart ==
    /\ trace' = NoTrace
    /\ queue' = <<>>
    /\ UNCHANGED <<now, result, timeline, outcomes, written>>

Tick ==
    /\ now < MaxTime
    /\ now' = now + 1
    /\ UNCHANGED <<trace, queue, result, timeline, outcomes, written>>

Next ==
    \/ TurnedAway \/ Admitted
    \/ Proceeds("gate1", "gate2") \/ Proceeds("gate2", "trigger")
    \/ Leaves \/ Record \/ Restart \/ Tick

-----------------------------------------------------------------------------
(* The result kept of a mint is the last of the best of all that were        *)
(* written: a pass is not hidden by a later rejection at an earlier gate.    *)
BestRecorded ==
    written # {} =>
        \E o \in written :
            /\ result.kind = o.kind /\ result.since = o.at
            /\ \A p \in written :
                  \/ Rank(p.kind) < Rank(o.kind)
                  \/ (p.kind = o.kind /\ p.at <= o.at)

(* However many admissions a timeline is merged from, none of its stages     *)
(* comes before an earlier one nor after the end it names: what is computed  *)
(* from the differences of the columns is not negative.                      *)
StagesInOrder ==
    /\ \A i, j \in DOMAIN Stages :
          /\ i < j /\ Reached(timeline.stamps, Stages[i]) /\ Reached(timeline.stamps, Stages[j])
          => timeline.stamps[Stages[i]] <= timeline.stamps[Stages[j]]
    /\ \A s \in Stage : Reached(timeline.stamps, s) => timeline.stamps[s] <= timeline.at

=============================================================================
