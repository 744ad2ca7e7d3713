------------------------ MODULE FilterPipelineProofs ------------------------
(***************************************************************************)
(* What TLAPS proves of FilterPipeline for every set of mints, every       *)
(* setting of the filter and every order in which its tasks end.           *)
(***************************************************************************)
EXTENDS FilterPipeline, SequenceTheorems, TLAPS

LEMMA HardRejectNat == HardReject \in Nat /\ Config.maxBuys \in Nat
BY Gate3Assumption DEF HardReject, SoftWindow, Smaller, Larger, Windows, Counts, Sols, Shares

LEMMA StatusTells ==
    ASSUME NEW c \in Candidate \cup {NoCandidate}
    PROVE  /\ c # NoCandidate <=> c \in Candidate
           /\ c # NoCandidate <=> c.status # "none"
BY DEF Candidate, NoCandidate, Statuses

LEMMA TriggerNeedsBuys ==
    ASSUME NEW h, NEW c, c.buys = <<>>
    PROVE  ~ShouldFinalize(h, c)
BY DEF ShouldFinalize, Trigger, FastTriggers, SoftTriggers, ReachedWithin

LEMMA AgeOnlyRejects ==
    ASSUME NEW h, NEW c \in Candidate, NEW d,
           d = [c EXCEPT !.age = @ + 1],
           ShouldFinalize(h, d)
    PROVE  ShouldFinalize(h, c)
<1>1. d.buys = c.buys /\ d.known = c.known /\ d.profile = c.profile /\ d.age = c.age + 1
  BY DEF Candidate
<1>2. Trigger(h, d) = Trigger(h, c)
  BY <1>1 DEF Trigger
<1>3. c.age > HardReject => d.age > HardReject
  BY <1>1, HardRejectNat DEF Candidate, Ages
<1>4. Reject(h, d) = "none" => Reject(h, c) = "none"
  BY <1>1, <1>3 DEF Reject
<1>5. QED BY <1>2, <1>4 DEF ShouldFinalize

-----------------------------------------------------------------------------
(* The inductive invariant.  The counts stay within their bound because every *)
(* admission has one outcome, that because a result only ever meets the       *)
(* candidate its task was spawned for, and that because each status has its   *)
(* task: none of the parts is inductive without the others.                   *)

Inv == TypeOK /\ StatusHasTask /\ PendingIsFetched /\ Accounted /\ CloneIsCurrent

LEMMA InvInit == ASSUME Init PROVE Inv
<1> USE DEF Init
<1>1. TypeOK
  BY PipelineAssumption DEF TypeOK, Present
<1>2. StatusHasTask /\ PendingIsFetched /\ Accounted /\ CloneIsCurrent
  BY DEF StatusHasTask, PendingIsFetched, Accounted, CloneIsCurrent, Present, NoCandidate
<1>3. QED BY <1>1, <1>2 DEF Inv

(* While the loop runs, what a task's existence says of its mint. *)
LEMMA TaskMeansStatus ==
    ASSUME Inv, running, NEW m \in Mints
    PROVE  /\ gating[m] > 0 => /\ Present(m) /\ candidates[m].status = "CreatorPending"
                               /\ gating[m] = 1 /\ scoring[m] = <<>>
           /\ scoring[m] # <<>> => /\ Present(m) /\ candidates[m].status = "Finalizing"
                                   /\ gating[m] = 0 /\ Len(scoring[m]) = 1
                                   /\ Tail(scoring[m]) = <<>>
           /\ Present(m) => candidates[m] \in Candidate /\ rejected[m] + passed[m] < MaxAdmissions
           /\ ~Present(m) => gating[m] = 0 /\ scoring[m] = <<>>
<1>1. candidates[m] \in Candidate \cup {NoCandidate} /\ scoring[m] \in Seq(Candidate)
      /\ gating[m] \in Nat
  BY DEF Inv, TypeOK
<1>2. /\ gating[m] = IF candidates[m].status = "CreatorPending" THEN 1 ELSE 0
      /\ Len(scoring[m]) = IF candidates[m].status = "Finalizing" THEN 1 ELSE 0
  BY DEF Inv, StatusHasTask
<1>3. Present(m) <=> candidates[m].status # "none"
  BY <1>1, StatusTells DEF Present
<1>4. Present(m) => candidates[m] \in Candidate
  BY <1>1 DEF Present
<1>5. Len(scoring[m]) = 0 <=> scoring[m] = <<>>
  BY <1>1, EmptySeq
<1>6. Len(scoring[m]) = 1 => Tail(scoring[m]) = <<>>
  <2>1. ASSUME NEW q \in Seq(Candidate), Len(q) = 1 PROVE Tail(q) = <<>>
    <3>1. q # <<>>
      BY <2>1, EmptySeq
    <3>2. Tail(q) \in Seq(Candidate) /\ Len(Tail(q)) = 0
      BY <2>1, <3>1, HeadTailProperties
    <3>3. QED BY <3>2, EmptySeq
  <2>2. QED BY <1>1, <2>1
<1>7. Present(m) => rejected[m] + passed[m] < MaxAdmissions
  BY PipelineAssumption DEF Inv, TypeOK, Accounted
<1>8. QED BY <1>1, <1>2, <1>3, <1>4, <1>5, <1>6, <1>7

(* A candidate that stays: c is what it has become, in the task it is in. *)
LEMMA SettleStep ==
    ASSUME Inv, running, NEW m \in Mints, Present(m),
           NEW c \in Candidate, Len(c.buys) <= Config.maxBuys, Settle(m, c),
           UNCHANGED <<hot, signals, running, open>>,
           gating' \in [Mints -> Nat], fetching' \in [Mints \X Buyers -> Nat],
           \A n \in Mints \ {m} : gating'[n] = gating[n],
           \A n \in Mints \ {m}, b \in Buyers : fetching'[<<n, b>>] = fetching[<<n, b>>],
           \A b \in c.pending : fetching'[<<m, b>>] > 0,
           gating'[m] = IF c.status = "CreatorPending" THEN 1 ELSE 0,
           Len(scoring[m]) = IF c.status = "Finalizing" THEN 1 ELSE 0,
           scoring[m] # <<>> => /\ Head(scoring[m]).buys = c.buys
                                /\ Head(scoring[m]).known \subseteq c.known
    PROVE  Inv'
<1>1. PICK d \in Candidate :
         /\ candidates' = [candidates EXCEPT ![m] = d]
         /\ d.buys = c.buys /\ d.known = c.known /\ d.pending = c.pending
         /\ \/ d = c /\ UNCHANGED scoring
            \/ /\ c.status = "Active" /\ d.status = "Finalizing"
               /\ scoring' = [scoring EXCEPT ![m] = Append(@, c)]
  <2>1. [c EXCEPT !.status = "Finalizing"] \in Candidate
    BY DEF Candidate, Statuses
  <2>2. QED BY <2>1 DEF Settle, Put, Candidate
<1>2. UNCHANGED <<admitted, rejected, passed, sent>>
  BY DEF Settle, counts
<1>3. d # NoCandidate
  BY StatusTells
<1>4. candidates'[m] = d /\ \A n \in Mints \ {m} : candidates'[n] = candidates[n]
  BY <1>1 DEF Inv, TypeOK
<1>5. /\ scoring' \in [Mints -> Seq(Candidate)]
      /\ \A n \in Mints \ {m} : scoring'[n] = scoring[n]
      /\ Len(scoring'[m]) = IF d.status = "Finalizing" THEN 1 ELSE 0
      /\ scoring'[m] # <<>> => /\ Head(scoring'[m]).buys = d.buys
                               /\ Head(scoring'[m]).known \subseteq d.known
  <2>1. scoring[m] \in Seq(Candidate)
    BY DEF Inv, TypeOK
  <2>2. CASE d = c /\ UNCHANGED scoring
    BY <2>2 DEF Inv, TypeOK
  <2>3. CASE /\ c.status = "Active" /\ d.status = "Finalizing"
             /\ scoring' = [scoring EXCEPT ![m] = Append(@, c)]
    <3>1. scoring[m] = <<>>
      BY <2>1, <2>3, EmptySeq
    <3>2. scoring'[m] = <<c>>
      BY <2>3, <3>1 DEF Inv, TypeOK
    <3>3. QED BY <1>1, <2>3, <3>2 DEF Inv, TypeOK
  <2>4. QED BY <1>1, <2>2, <2>3
<1>6. TypeOK'
  BY <1>1, <1>2, <1>4, <1>5 DEF Inv, TypeOK, Present
<1>7. StatusHasTask'
  <2> SUFFICES ASSUME NEW n \in Mints
               PROVE  /\ gating'[n] = IF candidates'[n].status = "CreatorPending" THEN 1 ELSE 0
                      /\ Len(scoring'[n]) = IF candidates'[n].status = "Finalizing" THEN 1 ELSE 0
    BY DEF StatusHasTask
  <2>1. CASE n = m
    BY <2>1, <1>1, <1>4, <1>5
  <2>2. CASE n # m
    BY <2>2, <1>4, <1>5 DEF Inv, StatusHasTask
  <2>3. QED BY <2>1, <2>2
<1>8. PendingIsFetched'
  <2> SUFFICES ASSUME NEW n \in Mints, Present(n)', NEW b \in candidates'[n].pending
               PROVE  fetching'[<<n, b>>] > 0
    BY DEF PendingIsFetched
  <2>1. CASE n = m
    BY <2>1, <1>1, <1>4
  <2>2. CASE n # m
    <3>1. Present(n) /\ b \in candidates[n].pending
      BY <2>2, <1>4 DEF Present
    <3>2. b \in Buyers
      BY <3>1, StatusTells DEF Inv, TypeOK, Candidate, Present
    <3>3. QED BY <2>2, <3>1, <3>2 DEF Inv, PendingIsFetched
  <2>3. QED BY <2>1, <2>2
<1>9. Accounted'
  BY <1>1, <1>2, <1>3, <1>4 DEF Inv, Accounted, Present
<1>10. CloneIsCurrent'
  BY <1>1, <1>3, <1>4, <1>5 DEF Inv, CloneIsCurrent, Present
<1>11. QED BY <1>6, <1>7, <1>8, <1>9, <1>10 DEF Inv

(* A candidate that leaves from any status but the score task's. *)
LEMMA TurnAwayStep ==
    ASSUME Inv, running, NEW m \in Mints, Present(m), TurnAway(m), scoring[m] = <<>>,
           UNCHANGED <<hot, signals, running, open>>,
           gating' \in [Mints -> Nat], fetching' \in [Mints \X Buyers -> Nat], gating'[m] = 0,
           \A n \in Mints \ {m} : gating'[n] = gating[n],
           \A n \in Mints \ {m}, b \in Buyers : fetching'[<<n, b>>] = fetching[<<n, b>>]
    PROVE  Inv'
<1>1. /\ candidates' = [candidates EXCEPT ![m] = NoCandidate]
      /\ rejected' = [rejected EXCEPT ![m] = @ + 1]
      /\ UNCHANGED <<scoring, admitted, passed, sent>>
  BY DEF TurnAway, Put, Plus
<1>2. candidates'[m] = NoCandidate /\ \A n \in Mints \ {m} : candidates'[n] = candidates[n]
  BY <1>1 DEF Inv, TypeOK
<1>3. rejected[m] + passed[m] < MaxAdmissions
  BY TaskMeansStatus
<1>4. TypeOK'
  BY <1>1, <1>2, <1>3, PipelineAssumption DEF Inv, TypeOK, Present
<1>5. StatusHasTask'
  <2> SUFFICES ASSUME NEW n \in Mints
               PROVE  /\ gating'[n] = IF candidates'[n].status = "CreatorPending" THEN 1 ELSE 0
                      /\ Len(scoring'[n]) = IF candidates'[n].status = "Finalizing" THEN 1 ELSE 0
    BY DEF StatusHasTask
  <2>1. CASE n = m
    BY <2>1, <1>1, <1>2, EmptySeq DEF NoCandidate
  <2>2. CASE n # m
    BY <2>2, <1>1, <1>2 DEF Inv, StatusHasTask
  <2>3. QED BY <2>1, <2>2
<1>6. PendingIsFetched'
  <2> SUFFICES ASSUME NEW n \in Mints, Present(n)', NEW b \in candidates'[n].pending
               PROVE  fetching'[<<n, b>>] > 0
    BY DEF PendingIsFetched
  <2>1. n # m /\ Present(n) /\ b \in candidates[n].pending
    BY <1>2 DEF Present
  <2>2. b \in Buyers
    BY <2>1, StatusTells DEF Inv, TypeOK, Candidate, Present
  <2>3. QED BY <2>1, <2>2 DEF Inv, PendingIsFetched
<1>7. Accounted'
  BY <1>1, <1>2 DEF Inv, TypeOK, Accounted, Present
<1>8. CloneIsCurrent'
  BY <1>1, <1>2 DEF Inv, CloneIsCurrent, Present
<1>9. QED BY <1>4, <1>5, <1>6, <1>7, <1>8 DEF Inv

-----------------------------------------------------------------------------
(* The actions *)

LEMMA NewIsCandidate ==
    ASSUME NEW status \in Statuses, NEW profile \in BOOLEAN
    PROVE  /\ NewCandidate(status, profile) \in Candidate
           /\ NewCandidate(status, profile).buys = <<>>
           /\ NewCandidate(status, profile).pending = {}
           /\ NewCandidate(status, profile).status = status
<1>1. <<>> \in Seq(Buy)
  BY EmptySeq
<1>2. 0 \in Ages
  BY HardRejectNat DEF Ages
<1>3. QED BY <1>1, <1>2 DEF NewCandidate, Candidate

(* A mint that is not a candidate becomes one. *)
LEMMA AdmitStep ==
    ASSUME Inv, NEW m \in Mints, NEW c \in Candidate, Admit(m, c), c.buys = <<>>,
           c.pending = {}, c.status \in {"Active", "CreatorPending"},
           gating' \in [Mints -> Nat], \A n \in Mints \ {m} : gating'[n] = gating[n],
           running' \in BOOLEAN,
           running' => gating'[m] = IF c.status = "CreatorPending" THEN 1 ELSE 0
    PROVE  Inv'
<1>1. /\ candidates' = [candidates EXCEPT ![m] = c]
      /\ admitted' = [admitted EXCEPT ![m] = @ + 1]
      /\ running /\ ~Present(m) /\ admitted[m] < MaxAdmissions
      /\ UNCHANGED <<fetching, scoring, hot, signals, open, rejected, passed, sent>>
  BY DEF Admit, Put, Plus
<1>2. candidates'[m] = c /\ \A n \in Mints \ {m} : candidates'[n] = candidates[n]
  BY <1>1 DEF Inv, TypeOK
<1>3. scoring[m] = <<>> /\ c # NoCandidate
  BY <1>1, TaskMeansStatus, StatusTells
<1>4. TypeOK'
  <2>1. candidates' \in [Mints -> Candidate \cup {NoCandidate}]
    BY <1>1 DEF Inv, TypeOK
  <2>2. admitted' \in [Mints -> 0..MaxAdmissions]
    BY <1>1, PipelineAssumption DEF Inv, TypeOK
  <2>3. \A n \in Mints : Present(n)' => Len(candidates'[n].buys) <= Config.maxBuys
    <3>1. Len(candidates'[m].buys) <= Config.maxBuys
      BY <1>2, HardRejectNat, EmptySeq
    <3>2. QED BY <1>2, <3>1 DEF Inv, TypeOK, Present
  <2>4. QED BY <1>1, <2>1, <2>2, <2>3 DEF Inv, TypeOK
<1>5. StatusHasTask'
  <2> SUFFICES ASSUME running', NEW n \in Mints
               PROVE  /\ gating'[n] = IF candidates'[n].status = "CreatorPending" THEN 1 ELSE 0
                      /\ Len(scoring'[n]) = IF candidates'[n].status = "Finalizing" THEN 1 ELSE 0
    BY DEF StatusHasTask
  <2>1. CASE n = m
    BY <2>1, <1>1, <1>2, <1>3, EmptySeq
  <2>2. CASE n # m
    BY <2>2, <1>1, <1>2 DEF Inv, StatusHasTask
  <2>3. QED BY <2>1, <2>2
<1>6. PendingIsFetched'
  BY <1>1, <1>2 DEF Inv, PendingIsFetched, Present
<1>7. Accounted'
  BY <1>1, <1>2, <1>3 DEF Inv, TypeOK, Accounted, Present
<1>8. CloneIsCurrent'
  BY <1>1, <1>2, <1>3 DEF Inv, CloneIsCurrent, Present
<1>9. QED BY <1>4, <1>5, <1>6, <1>7, <1>8 DEF Inv

LEMMA InvAdmissions ==
    ASSUME Inv, NEW m \in Mints,
           \/ AdmitKnownCreator(m) \/ RejectKnownCreator(m) \/ AdmitForGate(m) \/ AdmitFails(m)
    PROVE  Inv'
<1>1. CASE AdmitKnownCreator(m)
  <2>1. PICK profile \in BOOLEAN :
           Admit(m, NewCandidate("Active", profile))
    BY <1>1 DEF AdmitKnownCreator
  <2>2. UNCHANGED <<gating, running>> /\ gating \in [Mints -> Nat] /\ running \in BOOLEAN
    BY <1>1 DEF AdmitKnownCreator, Inv, TypeOK
  <2>3. gating[m] = 0
    BY <2>1, TaskMeansStatus DEF Admit
  <2>4. QED BY <2>1, <2>2, <2>3, AdmitStep, NewIsCandidate DEF Statuses
<1>2. CASE RejectKnownCreator(m)
  <2>1. /\ admitted' = [admitted EXCEPT ![m] = @ + 1]
        /\ rejected' = [rejected EXCEPT ![m] = @ + 1]
        /\ running /\ ~Present(m) /\ admitted[m] < MaxAdmissions
        /\ UNCHANGED <<candidates, gating, fetching, scoring, hot, signals, running, open,
                       passed, sent>>
    BY <1>2 DEF RejectKnownCreator, Plus, tasks
  <2>2. admitted[m] = rejected[m] + passed[m]
    BY <2>1 DEF Inv, TypeOK, Accounted
  <2>3. admitted' \in [Mints -> 0..MaxAdmissions] /\ rejected' \in [Mints -> 0..MaxAdmissions]
    BY <2>1, <2>2, PipelineAssumption DEF Inv, TypeOK
  <2>4. TypeOK'
    BY <2>1, <2>3 DEF Inv, TypeOK, Present
  <2>5. Accounted'
    BY <2>1 DEF Inv, TypeOK, Accounted, Present
  <2>6. QED BY <2>1, <2>4, <2>5
       DEF Inv, StatusHasTask, PendingIsFetched, CloneIsCurrent, Present
<1>3. CASE AdmitForGate(m)
  <2> DEFINE c == NewCandidate("CreatorPending", FALSE)
  <2>1. Admit(m, c) /\ gating' = [gating EXCEPT ![m] = @ + 1] /\ UNCHANGED running
    BY <1>3 DEF AdmitForGate, Plus
  <2>2. gating[m] = 0
    BY <2>1, TaskMeansStatus DEF Admit
  <2>3. gating' \in [Mints -> Nat] /\ gating'[m] = 1 /\ running' \in BOOLEAN
        /\ \A n \in Mints \ {m} : gating'[n] = gating[n]
    BY <2>1, <2>2 DEF Inv, TypeOK
  <2>4. c \in Candidate /\ c.buys = <<>> /\ c.pending = {} /\ c.status = "CreatorPending"
    BY NewIsCandidate DEF Statuses
  <2> HIDE DEF c
  <2>5. QED BY <2>1, <2>3, <2>4, AdmitStep
<1>4. CASE AdmitFails(m)
  <2> DEFINE c == NewCandidate("CreatorPending", FALSE)
  <2>1. Admit(m, c) /\ running' = FALSE /\ UNCHANGED gating
    BY <1>4 DEF AdmitFails
  <2>2. c \in Candidate /\ c.buys = <<>> /\ c.pending = {} /\ c.status = "CreatorPending"
    BY NewIsCandidate DEF Statuses
  <2>3. gating \in [Mints -> Nat]
    BY DEF Inv, TypeOK
  <2> HIDE DEF c
  <2>4. QED BY <2>1, <2>2, <2>3, AdmitStep
<1>5. QED BY <1>1, <1>2, <1>3, <1>4

LEMMA InvGate ==
    ASSUME Inv, NEW m \in Mints, CreatorGateResolved(m)
    PROVE  Inv'
<1>1. /\ running /\ gating[m] > 0
      /\ gating' = [gating EXCEPT ![m] = @ - 1]
      /\ UNCHANGED <<fetching, hot, signals, running, open>>
  BY DEF CreatorGateResolved
<1>2. /\ Present(m) /\ candidates[m] \in Candidate
      /\ gating[m] = 1 /\ scoring[m] = <<>>
  BY <1>1, TaskMeansStatus
<1>3. /\ gating' \in [Mints -> Nat] /\ gating'[m] = 0
      /\ \A n \in Mints \ {m} : gating'[n] = gating[n]
      /\ fetching' \in [Mints \X Buyers -> Nat]
  BY <1>1, <1>2 DEF Inv, TypeOK
<1>4. CASE TurnAway(m)
  BY <1>1, <1>2, <1>3, <1>4, TurnAwayStep
<1>5. ASSUME NEW profile \in BOOLEAN,
             Settle(m, [candidates[m] EXCEPT !.status = "Active", !.profile = profile])
      PROVE  Inv'
  <2> DEFINE c == [candidates[m] EXCEPT !.status = "Active", !.profile = profile]
  <2>1. c \in Candidate /\ c.status = "Active" /\ c.buys = candidates[m].buys
        /\ c.pending = candidates[m].pending
    BY <1>2 DEF Candidate, Statuses
  <2>2. Len(c.buys) <= Config.maxBuys
    BY <2>1, <1>2 DEF Inv, TypeOK
  <2>3. \A b \in c.pending : fetching'[<<m, b>>] > 0
    BY <2>1, <1>1, <1>2 DEF Inv, PendingIsFetched
  <2>4. Settle(m, c)
    BY <1>5
  <2>5. Len(scoring[m]) = 0
    BY <1>2, EmptySeq
  <2> HIDE DEF c
  <2>6. QED BY <1>1, <1>2, <1>3, <2>1, <2>2, <2>3, <2>4, <2>5, SettleStep
<1>6. QED BY <1>2, <1>4, <1>5 DEF CreatorGateResolved

(* The candidate after a buy, which is what is evaluated *)
LEMMA EvaluateStep ==
    ASSUME Inv, running, NEW m \in Mints, Followed(m),
           NEW c \in Candidate, c.status = candidates[m].status, Len(c.buys) <= Config.maxBuys,
           Evaluate(m, c),
           UNCHANGED <<gating, hot, signals, running, open>>,
           fetching' \in [Mints \X Buyers -> Nat],
           \A n \in Mints \ {m}, b \in Buyers : fetching'[<<n, b>>] = fetching[<<n, b>>],
           \A b \in c.pending : fetching'[<<m, b>>] > 0
    PROVE  Inv'
<1>1. /\ Present(m) /\ candidates[m].status # "Finalizing"
      /\ gating \in [Mints -> Nat]
      /\ gating[m] = IF c.status = "CreatorPending" THEN 1 ELSE 0
  BY DEF Followed, Inv, TypeOK, StatusHasTask
<1>2. scoring[m] = <<>> /\ Len(scoring[m]) = 0
  BY <1>1, TaskMeansStatus, EmptySeq
<1>3. CASE Settle(m, c)
  BY <1>1, <1>2, <1>3, SettleStep
<1>4. CASE c.status = "Active" /\ TurnAway(m)
  BY <1>1, <1>2, <1>4, TurnAwayStep
<1>5. QED BY <1>3, <1>4 DEF Evaluate

LEMMA WithBuy ==
    ASSUME NEW c \in Candidate, NEW buy \in Buy, NEW d, d = [c EXCEPT !.buys = Append(@, buy)]
    PROVE  /\ d \in Candidate /\ d.status = c.status /\ d.pending = c.pending
           /\ d.buys = Append(c.buys, buy)
<1>1. Append(c.buys, buy) \in Seq(Buy)
  BY AppendProperties DEF Candidate
<1> DEFINE buys == Append(c.buys, buy)
<1> HIDE DEF buys
<1>2. d = [c EXCEPT !.buys = buys]
  BY DEF buys
<1>3. /\ d \in Candidate /\ d.status = c.status /\ d.pending = c.pending /\ d.buys = buys
  BY <1>1, <1>2 DEF Candidate, buys
<1>4. QED BY <1>3 DEF buys

LEMMA FetchCounts ==
    ASSUME fetching \in [Mints \X Buyers -> Nat], NEW m \in Mints, NEW buyer \in Buyers,
           fetching' = [fetching EXCEPT ![<<m, buyer>>] = @ + 1]
    PROVE  /\ fetching' \in [Mints \X Buyers -> Nat]
           /\ \A n \in Mints, b \in Buyers : fetching'[<<n, b>>] >= fetching[<<n, b>>]
           /\ \A n \in Mints \ {m}, b \in Buyers : fetching'[<<n, b>>] = fetching[<<n, b>>]
           /\ fetching'[<<m, buyer>>] > 0
<1>1. <<m, buyer>> \in Mints \X Buyers /\ fetching[<<m, buyer>>] \in Nat
  OBVIOUS
<1>2. fetching' \in [Mints \X Buyers -> Nat] /\ fetching'[<<m, buyer>>] = fetching[<<m, buyer>>] + 1
  BY <1>1
<1>3. ASSUME NEW n \in Mints, NEW b \in Buyers
      PROVE  /\ n # m => fetching'[<<n, b>>] = fetching[<<n, b>>]
             /\ fetching'[<<n, b>>] >= fetching[<<n, b>>]
  <2>1. <<n, b>> \in Mints \X Buyers /\ fetching[<<n, b>>] \in Nat
    OBVIOUS
  <2>2. <<n, b>> # <<m, buyer>> => fetching'[<<n, b>>] = fetching[<<n, b>>]
    BY <2>1
  <2>3. CASE <<n, b>> = <<m, buyer>>
    BY <2>3, <1>1, <1>2
  <2>4. CASE <<n, b>> # <<m, buyer>>
    BY <2>1, <2>2, <2>4
  <2>5. QED BY <2>3, <2>4
<1>4. QED BY <1>1, <1>2, <1>3

(* What a buy makes of its candidate, and which fetch it asks for *)
LEMMA BuyEvaluates ==
    ASSUME Inv, NEW m \in Mints, BuyEvent(m)
    PROVE  \E c \in Candidate :
              /\ Evaluate(m, c)
              /\ c.status = candidates[m].status /\ Len(c.buys) <= Config.maxBuys
              /\ fetching' \in [Mints \X Buyers -> Nat]
              /\ \A n \in Mints \ {m}, b \in Buyers : fetching'[<<n, b>>] = fetching[<<n, b>>]
              /\ \A b \in c.pending : fetching'[<<m, b>>] > 0
<1> DEFINE c == candidates[m]
<1>1. /\ running /\ Followed(m) /\ Present(m)
      /\ UNCHANGED <<gating, hot, signals, running, open>>
  BY DEF BuyEvent, Followed
<1>2. c \in Candidate /\ Len(c.buys) <= Config.maxBuys /\ fetching \in [Mints \X Buyers -> Nat]
      /\ \A b \in c.pending : fetching[<<m, b>>] > 0
  BY <1>1, TaskMeansStatus DEF Inv, TypeOK, PendingIsFetched
<1>3. PICK sig \in Sigs, sol \in Amounts, rank \in Ranks, lag \in 0..MaxLag :
         LET buy == [sig |-> sig, buyer |-> sig[1], sol |-> sol, rank |-> rank,
                     at |-> Since(c.age, lag)]
         IN  NewBuy(m, buy) \/ KnownBuy(m, buy)
  BY DEF BuyEvent
<1> DEFINE buy == [sig |-> sig, buyer |-> sig[1], sol |-> sol, rank |-> rank,
                   at |-> Since(c.age, lag)]
<1>4. buy \in Buy
  <2>1. Since(c.age, lag) \in Ages
    BY <1>2, HardRejectNat, PipelineAssumption DEF Since, Larger, Ages, Candidate
  <2>2. sig[1] \in Buyers
    BY DEF Sigs
  <2>3. QED BY <2>1, <2>2 DEF Buy
<1> HIDE DEF buy
<1>5. CASE NewBuy(m, buy)
  <2> DEFINE known == WithProfile(m, c, buy.buyer)
             d == [known EXCEPT !.buys = Append(@, buy)]
  <2>1. Len(c.buys) < Config.maxBuys /\ Evaluate(m, d) /\ SpawnFetch(m, c, buy.buyer)
    BY <1>5 DEF NewBuy, Room
  <2>2. buy.buyer \in Buyers
    BY <1>4 DEF Buy
  <2>3. /\ known \in Candidate
        /\ known.status = c.status /\ known.buys = c.buys
        /\ known.pending \subseteq c.pending \cup {buy.buyer}
        /\ known.pending = c.pending \/ buy.buyer \notin c.known \cup c.pending
    BY <1>2, <2>2 DEF WithProfile, Candidate
  <2> HIDE DEF known
  <2>4. /\ d \in Candidate /\ d.status = c.status /\ d.pending = known.pending
        /\ d.buys = Append(c.buys, buy)
    BY <1>4, <2>3, WithBuy
  <2>5. Len(d.buys) <= Config.maxBuys
    <3>1. c.buys \in Seq(Buy)
      BY <1>2 DEF Candidate
    <3>2. Len(Append(c.buys, buy)) = Len(c.buys) + 1 /\ Len(c.buys) \in Nat
      BY <3>1, <1>4
    <3>3. QED BY <2>1, <2>4, <3>2, HardRejectNat
  <2>6. /\ fetching' \in [Mints \X Buyers -> Nat]
        /\ \A n \in Mints, b \in Buyers : fetching'[<<n, b>>] >= fetching[<<n, b>>]
        /\ \A n \in Mints \ {m}, b \in Buyers : fetching'[<<n, b>>] = fetching[<<n, b>>]
        /\ buy.buyer \notin c.known \cup c.pending => fetching'[<<m, buy.buyer>>] > 0
    <3>1. CASE UNCHANGED fetching /\ buy.buyer \in c.known \cup c.pending
      <4>1. \A n \in Mints, b \in Buyers : fetching[<<n, b>>] \in Nat
        BY <1>2
      <4>2. QED BY <1>2, <3>1, <4>1
    <3>2. CASE fetching' = [fetching EXCEPT ![<<m, buy.buyer>>] = @ + 1]
      BY <1>2, <2>2, <3>2, FetchCounts
    <3>3. QED BY <2>1, <3>1, <3>2 DEF SpawnFetch, Fetch
  <2>7. \A b \in d.pending : fetching'[<<m, b>>] > 0
    <3> SUFFICES ASSUME NEW b \in d.pending PROVE fetching'[<<m, b>>] > 0
      OBVIOUS
    <3>1. CASE b \in c.pending
      <4>1. b \in Buyers /\ fetching[<<m, b>>] > 0 /\ fetching[<<m, b>>] \in Nat
        BY <3>1, <1>2 DEF Candidate
      <4>2. fetching'[<<m, b>>] >= fetching[<<m, b>>] /\ fetching'[<<m, b>>] \in Nat
        BY <4>1, <2>6
      <4>3. QED BY <4>1, <4>2
    <3>2. CASE b \notin c.pending
      BY <3>2, <2>3, <2>4, <2>6
    <3>3. QED BY <3>1, <3>2
  <2> HIDE DEF d
  <2>8. QED BY <2>1, <2>4, <2>5, <2>6, <2>7
<1>6. CASE KnownBuy(m, buy)
  <2>1. PICK i \in Position(c, buy.sig) :
           /\ Evaluate(m, [c EXCEPT !.buys[i] = Upgrade(@, buy)])
           /\ UNCHANGED fetching
    BY <1>6 DEF KnownBuy
  <2> DEFINE d == [c EXCEPT !.buys[i] = Upgrade(@, buy)]
  <2>2. i \in DOMAIN c.buys /\ c.buys \in Seq(Buy) /\ c.buys[i] \in Buy
    BY <2>1, <1>2, ElementOfSeq DEF Position, Candidate
  <2>3. Upgrade(c.buys[i], buy) \in Buy
    BY <2>2, <1>4 DEF Upgrade, Buy, Larger
  <2>4. d.buys = [c.buys EXCEPT ![i] = Upgrade(@, buy)] /\ d.status = c.status
        /\ d.pending = c.pending
    BY <1>2 DEF Candidate
  <2>5. d.buys \in Seq(Buy) /\ Len(d.buys) = Len(c.buys)
    BY <2>2, <2>3, <2>4, ExceptSeq
  <2>6. d \in Candidate
    BY <1>2, <2>4, <2>5 DEF Candidate
  <2> HIDE DEF d
  <2>7. Evaluate(m, d)
    BY <2>1 DEF d
  <2>8. QED BY <1>2, <2>1, <2>4, <2>5, <2>6, <2>7
<1>7. QED BY <1>3, <1>5, <1>6 DEF buy

LEMMA InvBuyEvent ==
    ASSUME Inv, NEW m \in Mints, BuyEvent(m)
    PROVE  Inv'
<1>1. running /\ Followed(m) /\ UNCHANGED <<gating, hot, signals, running, open>>
  BY DEF BuyEvent
<1>2. QED BY <1>1, BuyEvaluates, EvaluateStep

LEMMA InvProfile ==
    ASSUME Inv, NEW m \in Mints, NEW b \in Buyers, BuyerProfileResolved(m, b)
    PROVE  Inv'
<1>1. /\ running /\ fetching[<<m, b>>] > 0
      /\ fetching' = [fetching EXCEPT ![<<m, b>>] = @ - 1]
      /\ UNCHANGED <<gating, hot, signals, running, open>>
  BY DEF BuyerProfileResolved
<1>2. fetching' \in [Mints \X Buyers -> Nat]
  BY <1>1 DEF Inv, TypeOK
<1>3. ASSUME NEW n \in Mints, NEW x \in Buyers, n # m \/ x # b
      PROVE  fetching'[<<n, x>>] = fetching[<<n, x>>]
  BY <1>1, <1>3 DEF Inv, TypeOK
<1>4. CASE ~Present(m)
  <2>1. UNCHANGED <<candidates, scoring, admitted, rejected, passed, sent>>
    BY <1>4 DEF BuyerProfileResolved, counts
  <2>2. PendingIsFetched'
    <3> SUFFICES ASSUME NEW n \in Mints, Present(n), NEW x \in candidates[n].pending
                 PROVE  fetching'[<<n, x>>] > 0
      BY <2>1 DEF PendingIsFetched, Present
    <3>1. n # m /\ x \in Buyers
      BY <1>4, StatusTells DEF Inv, TypeOK, Candidate, Present
    <3>2. QED BY <3>1, <1>3 DEF Inv, PendingIsFetched
  <2>3. QED BY <1>1, <1>2, <2>1, <2>2
       DEF Inv, TypeOK, StatusHasTask, Accounted, CloneIsCurrent, Present
<1>5. ASSUME Present(m), NEW found \in {{}, {b}}, Settle(m, Fetched(candidates[m], b, found))
      PROVE  Inv'
  <2> DEFINE c == Fetched(candidates[m], b, found)
  <2>1. candidates[m] \in Candidate
    BY <1>1, <1>5, TaskMeansStatus
  <2>2. /\ c \in Candidate /\ c.status = candidates[m].status /\ c.buys = candidates[m].buys
        /\ c.pending = candidates[m].pending \ {b}
        /\ candidates[m].known \subseteq c.known
    BY <2>1 DEF Fetched, Candidate
  <2>3. Settle(m, c)
    BY <1>5
  <2> HIDE DEF c
  <2>4. Len(c.buys) <= Config.maxBuys
    BY <2>2, <1>5 DEF Inv, TypeOK
  <2>5. ASSUME NEW x \in c.pending PROVE fetching'[<<m, x>>] > 0
    <3>1. x # b /\ x \in Buyers /\ x \in candidates[m].pending
      BY <2>2, <2>5 DEF Candidate
    <3>2. QED BY <3>1, <1>3, <1>5 DEF Inv, PendingIsFetched
  <2>6. /\ gating' \in [Mints -> Nat]
        /\ gating'[m] = IF c.status = "CreatorPending" THEN 1 ELSE 0
        /\ Len(scoring[m]) = IF c.status = "Finalizing" THEN 1 ELSE 0
    BY <1>1, <2>2 DEF Inv, TypeOK, StatusHasTask
  <2>7. scoring[m] # <<>> => /\ Head(scoring[m]).buys = c.buys
                             /\ Head(scoring[m]).known \subseteq c.known
    BY <1>1, <2>2 DEF Inv, CloneIsCurrent
  <2>8. \A n \in Mints \ {m}, x \in Buyers : fetching'[<<n, x>>] = fetching[<<n, x>>]
    BY <1>3
  <2>9. QED BY <1>1, <1>2, <1>5, <2>2, <2>3, <2>4, <2>5, <2>6, <2>7, <2>8, SettleStep
<1>6. QED BY <1>4, <1>5 DEF BuyerProfileResolved

LEMMA InvScored ==
    ASSUME Inv, NEW m \in Mints, ScoredRejected(m) \/ ScoredPassed(m)
    PROVE  Inv'
<1>1. running /\ scoring[m] # <<>>
  BY DEF ScoredRejected, ScoredPassed
<1>2. /\ Present(m) /\ candidates[m] \in Candidate
      /\ gating[m] = 0 /\ Len(scoring[m]) = 1 /\ Tail(scoring[m]) = <<>>
      /\ rejected[m] + passed[m] < MaxAdmissions
  BY <1>1, TaskMeansStatus
<1>3. /\ candidates' = [candidates EXCEPT ![m] = NoCandidate]
      /\ scoring' = [scoring EXCEPT ![m] = <<>>]
      /\ UNCHANGED <<gating, fetching, hot, admitted, open>>
  BY <1>2 DEF ScoredRejected, ScoredPassed, LeaveScored
<1>4. \/ /\ rejected' = [rejected EXCEPT ![m] = @ + 1]
         /\ UNCHANGED <<passed, sent, signals, running>>
      \/ /\ passed' = [passed EXCEPT ![m] = @ + 1] /\ sent' = [sent EXCEPT ![m] = @ + 1]
         /\ signals' = Append(signals, m) /\ Len(signals) < Capacity
         /\ UNCHANGED <<rejected, running>>
      \/ /\ passed' = [passed EXCEPT ![m] = @ + 1] /\ running' = FALSE
         /\ UNCHANGED <<rejected, sent, signals>>
  BY <1>2 DEF ScoredRejected, ScoredPassed, LeaveScored, Plus
<1>5. /\ candidates'[m] = NoCandidate /\ scoring'[m] = <<>>
      /\ \A n \in Mints \ {m} : candidates'[n] = candidates[n] /\ scoring'[n] = scoring[n]
  BY <1>3 DEF Inv, TypeOK
<1>6. sent[m] = passed[m]
  BY <1>1 DEF Inv, Accounted
<1>7. TypeOK'
  <2>1. candidates' \in [Mints -> Candidate \cup {NoCandidate}]
    BY <1>3 DEF Inv, TypeOK
  <2>2. scoring' \in [Mints -> Seq(Candidate)]
    BY <1>3, EmptySeq DEF Inv, TypeOK
  <2>3. /\ rejected' \in [Mints -> 0..MaxAdmissions]
        /\ passed' \in [Mints -> 0..MaxAdmissions]
        /\ sent' \in [Mints -> 0..MaxAdmissions]
    <3>1. /\ rejected \in [Mints -> 0..MaxAdmissions] /\ passed \in [Mints -> 0..MaxAdmissions]
          /\ sent \in [Mints -> 0..MaxAdmissions] /\ MaxAdmissions \in Nat
      BY PipelineAssumption DEF Inv, TypeOK
    <3>2. /\ rejected[m] + 1 \in 0..MaxAdmissions /\ passed[m] + 1 \in 0..MaxAdmissions
          /\ sent[m] + 1 \in 0..MaxAdmissions
      BY <3>1, <1>2, <1>6
    <3>3. QED BY <3>1, <3>2, <1>4
  <2>4. signals' \in Seq(Mints) /\ Len(signals') <= Capacity
    <3>1. signals \in Seq(Mints) /\ Len(signals) <= Capacity /\ Capacity \in Nat
      BY PipelineAssumption DEF Inv, TypeOK
    <3>2. CASE UNCHANGED signals
      BY <3>1, <3>2
    <3>3. CASE signals' = Append(signals, m) /\ Len(signals) < Capacity
      BY <3>1, <3>3, AppendProperties
    <3>4. QED BY <1>4, <3>2, <3>3
  <2>5. running' \in BOOLEAN
    BY <1>4 DEF Inv, TypeOK
  <2>6. \A n \in Mints : Present(n)' => Len(candidates'[n].buys) <= Config.maxBuys
    <3> SUFFICES ASSUME NEW n \in Mints, Present(n)'
                 PROVE  Len(candidates'[n].buys) <= Config.maxBuys
      OBVIOUS
    <3>1. n # m /\ candidates'[n] = candidates[n]
      BY <1>5 DEF Present
    <3>2. QED BY <3>1 DEF Inv, TypeOK, Present
  <2>7. QED BY <1>3, <2>1, <2>2, <2>3, <2>4, <2>5, <2>6 DEF Inv, TypeOK
<1>8. StatusHasTask'
  <2> SUFFICES ASSUME NEW n \in Mints
               PROVE  /\ gating'[n] = IF candidates'[n].status = "CreatorPending" THEN 1 ELSE 0
                      /\ Len(scoring'[n]) = IF candidates'[n].status = "Finalizing" THEN 1 ELSE 0
    BY DEF StatusHasTask
  <2>1. CASE n = m
    BY <2>1, <1>2, <1>3, <1>5, EmptySeq DEF NoCandidate
  <2>2. CASE n # m
    BY <2>2, <1>1, <1>3, <1>5 DEF Inv, StatusHasTask
  <2>3. QED BY <2>1, <2>2
<1>9. PendingIsFetched'
  BY <1>3, <1>5 DEF Inv, PendingIsFetched, Present
<1>10. Accounted'
  <2> SUFFICES ASSUME running', NEW n \in Mints
               PROVE  /\ admitted'[n] = rejected'[n] + passed'[n] + (IF Present(n)' THEN 1 ELSE 0)
                      /\ sent'[n] = passed'[n]
    BY DEF Accounted
  <2>1. CASE n = m
    BY <2>1, <1>1, <1>2, <1>3, <1>4, <1>5, <1>6 DEF Inv, TypeOK, Accounted, Present
  <2>2. CASE n # m
    BY <2>2, <1>1, <1>3, <1>4, <1>5 DEF Inv, TypeOK, Accounted, Present
  <2>3. QED BY <2>1, <2>2
<1>11. CloneIsCurrent'
  BY <1>1, <1>5 DEF Inv, CloneIsCurrent, Present
<1>12. QED BY <1>7, <1>8, <1>9, <1>10, <1>11 DEF Inv

LEMMA InvTimer ==
    ASSUME Inv, NEW m \in Mints, Sweep(m) \/ Elapse(m)
    PROVE  Inv'
<1>1. /\ running /\ Present(m) /\ candidates[m] \in Candidate
      /\ gating \in [Mints -> Nat] /\ fetching \in [Mints \X Buyers -> Nat]
  BY TaskMeansStatus DEF Sweep, Elapse, Inv, TypeOK
<1>2. CASE Sweep(m)
  <2>1. gating[m] = 0 /\ scoring[m] = <<>>
    BY <1>1, <1>2, TaskMeansStatus DEF Sweep
  <2>2. QED BY <1>1, <1>2, <2>1, TurnAwayStep DEF Sweep
<1>3. CASE Elapse(m)
  <2> DEFINE c == [candidates[m] EXCEPT !.age = @ + 1]
  <2>1. /\ candidates' = [candidates EXCEPT ![m] = c] /\ candidates[m].age <= HardReject
        /\ UNCHANGED <<gating, fetching, scoring, hot, signals, running, open,
                       admitted, rejected, passed, sent>>
    BY <1>3 DEF Elapse, Put, tasks, counts
  <2>2. candidates[m].age + 1 \in Ages
    BY <1>1, <2>1, HardRejectNat DEF Candidate, Ages
  <2>3. /\ c \in Candidate /\ c.status = candidates[m].status /\ c.buys = candidates[m].buys
        /\ c.known = candidates[m].known /\ c.pending = candidates[m].pending
    BY <1>1, <2>2 DEF Candidate
  <2> HIDE DEF c
  <2>4. candidates'[m] = c /\ c # NoCandidate
        /\ \A n \in Mints \ {m} : candidates'[n] = candidates[n]
    BY <2>1, <2>3, StatusTells DEF Inv, TypeOK
  <2>5. TypeOK'
    BY <1>1, <2>1, <2>3, <2>4 DEF Inv, TypeOK, Present
  <2>6. StatusHasTask' /\ PendingIsFetched'
    BY <1>1, <2>1, <2>3, <2>4 DEF Inv, StatusHasTask, PendingIsFetched, Present
  <2>7. Accounted' /\ CloneIsCurrent'
    BY <1>1, <2>1, <2>3, <2>4 DEF Inv, Accounted, CloneIsCurrent, Present
  <2>8. QED BY <2>5, <2>6, <2>7 DEF Inv
<1>4. QED BY <1>2, <1>3

LEMMA InvAround ==
    ASSUME Inv, Reload \/ TakeSignal \/ BuyLoopEnds
    PROVE  Inv'
<1>1. /\ UNCHANGED <<candidates, gating, fetching, scoring, running,
                     admitted, rejected, passed, sent>>
      /\ hot' \in HotlistsSeen /\ open' \in BOOLEAN
  BY DEF Reload, TakeSignal, BuyLoopEnds, tasks, counts, Inv, TypeOK
<1>2. signals' \in Seq(Mints) /\ Len(signals') <= Capacity
  <2>1. CASE UNCHANGED signals
    BY <2>1 DEF Inv, TypeOK
  <2>2. CASE signals # <<>> /\ signals' = Tail(signals)
    BY <2>2, HeadTailProperties, PipelineAssumption DEF Inv, TypeOK
  <2>3. QED BY <2>1, <2>2 DEF Reload, TakeSignal, BuyLoopEnds
<1>3. QED BY <1>1, <1>2
     DEF Inv, TypeOK, StatusHasTask, PendingIsFetched, Accounted, CloneIsCurrent, Present

LEMMA InvStep == ASSUME Inv, [Next]_vars PROVE Inv'
<1>1. CASE UNCHANGED vars
  BY <1>1 DEF vars, Inv, TypeOK, StatusHasTask, PendingIsFetched, Accounted, CloneIsCurrent,
              Present
<1>2. CASE Next
  <2>1. ASSUME NEW m \in Mints,
               \/ AdmitKnownCreator(m) \/ RejectKnownCreator(m) \/ AdmitForGate(m)
               \/ AdmitFails(m)
        PROVE  Inv'
    BY <2>1, InvAdmissions
  <2>2. ASSUME NEW m \in Mints,
               \/ CreatorGateResolved(m) \/ BuyEvent(m)
               \/ \E b \in Buyers : BuyerProfileResolved(m, b)
        PROVE  Inv'
    BY <2>2, InvGate, InvBuyEvent, InvProfile
  <2>3. ASSUME NEW m \in Mints,
               ScoredRejected(m) \/ ScoredPassed(m) \/ Sweep(m) \/ Elapse(m)
        PROVE  Inv'
    BY <2>3, InvScored, InvTimer
  <2>4. QED BY <1>2, <2>1, <2>2, <2>3, InvAround DEF Next
<1>3. QED BY <1>1, <1>2

-----------------------------------------------------------------------------
(* The inductive invariant holds throughout. *)
THEOREM InvAlways == Spec => []Inv
<1>1. Init => Inv
  BY InvInit
<1>2. Inv /\ [Next]_vars => Inv'
  BY InvStep
<1>3. QED BY <1>1, <1>2, PTL DEF Spec

(* Whatever arrives, the loop's state stays of its type: a candidate never *)
(* keeps more buys than the setting allows, the channel to the buy loop    *)
(* never holds more than its capacity, and no mint has more outcomes than  *)
(* it was admitted times.                                                  *)
THEOREM TypeCorrect == Spec => []TypeOK
<1>1. Inv => TypeOK
  BY DEF Inv
<1>2. QED BY InvAlways, <1>1, PTL

(* Each candidate has exactly the task its status stands for, so no result *)
(* is applied to a later admission of the mint it names.                   *)
THEOREM TasksAlwaysMatchStatus == Spec => []TasksMatchStatus
<1>1. Inv => TasksMatchStatus
  BY DEF Inv, TasksMatchStatus
<1>2. QED BY InvAlways, <1>1, PTL

(* While the loop runs, each admission has at most one outcome, exactly one *)
(* once its candidate has left, and each pass has sent one signal.          *)
THEOREM OutcomesAccounted == Spec => []Accounted
<1>1. Inv => Accounted
  BY DEF Inv
<1>2. QED BY InvAlways, <1>1, PTL

(* The clone a score task works on has the buys of the candidate it will   *)
(* decide about, whatever profiles arrive in between.                      *)
THEOREM CloneStaysCurrent == Spec => []CloneIsCurrent
<1>1. Inv => CloneIsCurrent
  BY DEF Inv
<1>2. QED BY InvAlways, <1>1, PTL

-----------------------------------------------------------------------------
(* Nothing but a reload makes a candidate ready that is not sent on at once. *)

LEMMA SettledNeverWaits ==
    ASSUME TypeOK, NEW m \in Mints, NEW c \in Candidate, Settle(m, c), hot' = hot
    PROVE  ~Waits(m)' /\ \A n \in Mints \ {m} : candidates'[n] = candidates[n]
<1>1. CASE /\ c.status = "Active" /\ ShouldFinalize(hot, c)
           /\ candidates' = [candidates EXCEPT ![m] = [c EXCEPT !.status = "Finalizing"]]
  <2>1. candidates'[m].status = "Finalizing"
    BY <1>1 DEF TypeOK, Candidate
  <2>2. QED BY <1>1, <2>1 DEF TypeOK, Waits
<1>2. CASE /\ ~(c.status = "Active" /\ ShouldFinalize(hot, c))
           /\ candidates' = [candidates EXCEPT ![m] = c]
  <2>1. candidates'[m] = c
    BY <1>2 DEF TypeOK
  <2>2. QED BY <1>2, <2>1 DEF TypeOK, Waits
<1>3. QED BY <1>1, <1>2 DEF Settle, Put

LEMMA GoneNeverWaits ==
    ASSUME TypeOK, NEW m \in Mints, candidates' = [candidates EXCEPT ![m] = NoCandidate]
    PROVE  ~Waits(m)' /\ \A n \in Mints \ {m} : candidates'[n] = candidates[n]
BY DEF TypeOK, Waits, Present

LEMMA NewNeverWaits ==
    ASSUME TypeOK, NEW m \in Mints, NEW status \in Statuses, NEW profile \in BOOLEAN,
           Admit(m, NewCandidate(status, profile))
    PROVE  ~Waits(m)' /\ \A n \in Mints \ {m} : candidates'[n] = candidates[n]
<1> DEFINE c == NewCandidate(status, profile)
<1>1. candidates' = [candidates EXCEPT ![m] = c]
  BY DEF Admit, Put
<1>2. c.buys = <<>>
  BY NewIsCandidate
<1> HIDE DEF c
<1>3. candidates'[m] = c /\ ~ShouldFinalize(hot', c)
  BY <1>1, <1>2, TriggerNeedsBuys DEF TypeOK
<1>4. QED BY <1>1, <1>3 DEF TypeOK, Waits

LEMMA EvaluatedNeverWaits ==
    ASSUME TypeOK, NEW m \in Mints, NEW c \in Candidate, Evaluate(m, c), hot' = hot
    PROVE  ~Waits(m)' /\ \A n \in Mints \ {m} : candidates'[n] = candidates[n]
BY SettledNeverWaits, GoneNeverWaits DEF Evaluate, TurnAway, Put

(* The step of one mint leaves that mint no reason to wait it had not before. *)
LEMMA MintNeverWaits ==
    ASSUME Inv, NEW m \in Mints, hot' = hot,
           \/ AdmitKnownCreator(m) \/ RejectKnownCreator(m) \/ AdmitForGate(m) \/ AdmitFails(m)
           \/ CreatorGateResolved(m) \/ BuyEvent(m)
           \/ \E b \in Buyers : BuyerProfileResolved(m, b)
           \/ ScoredRejected(m) \/ ScoredPassed(m) \/ Sweep(m) \/ Elapse(m)
    PROVE  \A n \in Mints : Waits(n)' => Waits(n)
<1> DEFINE Others == \A n \in Mints \ {m} : candidates'[n] = candidates[n]
<1>1. TypeOK
  BY DEF Inv
<1>2. Others /\ ~Waits(m)' => \A n \in Mints : Waits(n)' => Waits(n)
  BY DEF Waits, Present
<1>3. candidates' = candidates => \A n \in Mints : Waits(n)' => Waits(n)
  BY DEF Waits, Present
<1> HIDE DEF Others
<1>4. CASE AdmitKnownCreator(m) \/ AdmitForGate(m) \/ AdmitFails(m)
  <2>1. PICK status \in Statuses, profile \in BOOLEAN : Admit(m, NewCandidate(status, profile))
    BY <1>4 DEF AdmitKnownCreator, AdmitForGate, AdmitFails, Statuses
  <2>2. QED BY <1>1, <1>2, <2>1, NewNeverWaits DEF Others
<1>5. CASE RejectKnownCreator(m)
  BY <1>3, <1>5 DEF RejectKnownCreator
<1>6. CASE CreatorGateResolved(m)
  <2>1. CASE candidates' = candidates
    BY <1>3, <2>1
  <2>2. CASE TurnAway(m)
    BY <1>1, <1>2, <2>2, GoneNeverWaits DEF TurnAway, Put, Others
  <2>3. ASSUME Present(m), NEW profile \in BOOLEAN,
               Settle(m, [candidates[m] EXCEPT !.status = "Active", !.profile = profile])
        PROVE  Others /\ ~Waits(m)'
    <3>1. [candidates[m] EXCEPT !.status = "Active", !.profile = profile] \in Candidate
      <4>1. ASSUME NEW c \in Candidate
            PROVE  [c EXCEPT !.status = "Active", !.profile = profile] \in Candidate
        BY DEF Candidate, Statuses
      <4>2. QED BY <1>1, <2>3, <4>1 DEF TypeOK, Present
    <3>2. QED BY <1>1, <2>3, <3>1, SettledNeverWaits DEF Others
  <2>4. QED BY <1>2, <1>6, <2>1, <2>2, <2>3 DEF CreatorGateResolved
<1>7. CASE BuyEvent(m)
  BY <1>1, <1>2, <1>7, BuyEvaluates, EvaluatedNeverWaits DEF Others
<1>8. CASE \E b \in Buyers : BuyerProfileResolved(m, b)
  <2>1. PICK b \in Buyers : BuyerProfileResolved(m, b)
    BY <1>8
  <2>2. CASE candidates' = candidates
    BY <1>3, <2>2
  <2>3. ASSUME Present(m), NEW found \in {{}, {b}}, Settle(m, Fetched(candidates[m], b, found))
        PROVE  Others /\ ~Waits(m)'
    <3>1. ASSUME NEW c \in Candidate PROVE Fetched(c, b, found) \in Candidate
      BY DEF Fetched, Candidate
    <3>2. Fetched(candidates[m], b, found) \in Candidate
      BY <1>1, <2>3, <3>1 DEF TypeOK, Present
    <3>3. QED BY <1>1, <2>3, <3>2, SettledNeverWaits DEF Others
  <2>4. QED BY <1>2, <2>1, <2>2, <2>3 DEF BuyerProfileResolved
<1>9. CASE ScoredRejected(m) \/ ScoredPassed(m) \/ Sweep(m)
  <2>1. candidates' = [candidates EXCEPT ![m] = NoCandidate]
    BY <1>9 DEF ScoredRejected, ScoredPassed, LeaveScored, Sweep, TurnAway, Put
  <2>2. QED BY <1>1, <1>2, <2>1, GoneNeverWaits DEF Others
<1>10. CASE Elapse(m)
  <2> DEFINE d == [candidates[m] EXCEPT !.age = @ + 1]
  <2>1. Present(m) /\ candidates' = [candidates EXCEPT ![m] = d]
    BY <1>10 DEF Elapse, Put
  <2>2. candidates[m] \in Candidate
    BY <1>1, <2>1 DEF TypeOK, Present
  <2>3. candidates'[m] = d /\ Others
    BY <1>1, <2>1 DEF TypeOK, Others
  <2>4. d.status = candidates[m].status
    BY <2>2 DEF Candidate
  <2>5. ShouldFinalize(hot, d) => ShouldFinalize(hot, candidates[m])
    BY <2>2, AgeOnlyRejects
  <2> HIDE DEF d
  <2>6. Waits(m)' => Waits(m)
    BY <2>1, <2>3, <2>4, <2>5 DEF Waits
  <2>7. QED BY <2>3, <2>6 DEF Others, Waits, Present
<1>11. QED BY <1>4, <1>5, <1>6, <1>7, <1>8, <1>9, <1>10

(* Whatever the loop handles, a buy, a profile, the answer of the creator    *)
(* gate, its timer or the passing of time, no active candidate is left ready *)
(* to be scored that was not so before: only a reload of the hot lists may   *)
(* leave one waiting for the next event that names it.                       *)
THEOREM ReadyIsAlwaysScored == Spec => ReadyIsScored
<1>1. ASSUME Inv, [Next]_vars
      PROVE  [hot' = hot => \A m \in Mints : Waits(m)' => Waits(m)]_vars
  <2> SUFFICES ASSUME Next, hot' = hot
               PROVE  \A n \in Mints : Waits(n)' => Waits(n)
    BY <1>1
  <2>1. CASE Reload \/ TakeSignal \/ BuyLoopEnds
    BY <2>1 DEF Reload, TakeSignal, BuyLoopEnds, Waits, Present
  <2>2. QED BY <1>1, <2>1, MintNeverWaits DEF Next
<1>2. QED BY InvAlways, <1>1, PTL DEF Spec, ReadyIsScored

=============================================================================
