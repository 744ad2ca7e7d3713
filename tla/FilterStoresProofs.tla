------------------------- MODULE FilterStoresProofs -------------------------
(***************************************************************************)
(* What TLAPS proves of the stores beside the filter's event loop, one     *)
(* after the other and then in their composition: for every set of         *)
(* creators, wallets, templates and terms, every number of tasks and every *)
(* bound.                                                                  *)
(***************************************************************************)
EXTENDS FilterStores, Sequences, FiniteSetTheorems, SequenceTheorems, WellFoundedInduction, TLAPS

(* pairs of a number and a smaller one before it *)
Below == {p \in Nat \X Nat : p[1] < p[2]}

(* Numbers have a least: what the first of anything is found by. *)
LEMMA Least ==
    ASSUME NEW T \in SUBSET Nat, T # {}
    PROVE  \E x \in T : \A y \in T : x <= y
<1>1. Below = OpToRel(<, Nat)
  BY DEF Below, OpToRel
<1>2. IsWellFoundedOn(Below, Nat)
  BY <1>1, NatLessThanWellFounded
<1>3. PICK x \in T : \A y \in T : <<y, x>> \notin Below
  BY <1>2, WFMin
<1>4. ASSUME NEW y \in T PROVE x <= y
  <2>1. <<y, x>> \in Nat \X Nat => (<<y, x>> \in Below <=> y < x)
    BY DEF Below
  <2>2. QED BY <1>3, <2>1
<1>5. QED BY <1>4

-----------------------------------------------------------------------------
(* Gate1.                                                                    *)

(* What the worker takes from the front of a window is too old. *)
LEMMA RecentDrops ==
    ASSUME Launches!TypeOK, NEW c \in Creators
    PROVE  \E d \in 0..Len(window[c]) :
              /\ Launches!Recent(c) \in Seq(0..LaunchTime)
              /\ Len(Launches!Recent(c)) = Len(window[c]) + 1 - d
              /\ \A i \in 1..d : gate1Now - window[c][i] > Window
              /\ \A i \in 1..(Len(window[c]) - d) : Launches!Recent(c)[i] = window[c][i + d]
              /\ Launches!Recent(c)[Len(window[c]) + 1 - d] = gate1Now
<1> DEFINE times   == Append(window[c], gate1Now)
           InTime(at) == gate1Now - at <= Window
           kept    == {i \in DOMAIN times : InTime(times[i])}
           First(i) == i \in DOMAIN times /\ InTime(times[i]) /\ \A j \in 1..(i - 1) : ~ InTime(times[j])
           first   == CHOOSE i \in DOMAIN times :
                         InTime(times[i]) /\ \A j \in 1..(i - 1) : ~ InTime(times[j])
<1>1. /\ window[c] \in Seq(0..LaunchTime) /\ gate1Now \in 0..LaunchTime
      /\ LaunchTime \in Nat /\ Window \in Nat
  BY LaunchesAssumption DEF Launches!TypeOK
<1>2. /\ times \in Seq(0..LaunchTime) /\ Len(times) = Len(window[c]) + 1
      /\ DOMAIN times = 1..(Len(window[c]) + 1) /\ Len(window[c]) \in Nat
      /\ \A i \in 1..Len(window[c]) : times[i] = window[c][i]
      /\ times[Len(window[c]) + 1] = gate1Now
  BY <1>1
<1>3. kept \in SUBSET Nat /\ Len(window[c]) + 1 \in kept
  BY <1>1, <1>2
<1>4. PICK k \in kept : \A i \in kept : k <= i
  BY <1>3, Least
<1>5. First(k)
  <2>1. k \in 1..(Len(window[c]) + 1) /\ InTime(times[k])
    BY <1>2, <1>4
  <2>2. ASSUME NEW j \in 1..(k - 1) PROVE ~ InTime(times[j])
    <3>1. j \in DOMAIN times /\ ~ k <= j
      BY <1>2, <2>1
    <3>2. QED BY <1>4, <3>1
  <2>3. QED BY <1>2, <2>1, <2>2
<1>6. First(first)
  BY <1>5
<1>7. Launches!Recent(c) = SubSeq(times, first, Len(times))
  BY DEF Launches!Recent, Launches!From
<1> HIDE DEF times, first
<1>8. first \in 1..(Len(window[c]) + 1)
  BY <1>2, <1>6
<1>9. /\ Launches!Recent(c) \in Seq(0..LaunchTime)
      /\ Len(Launches!Recent(c)) = Len(window[c]) + 1 - (first - 1)
      /\ \A i \in 1..(Len(window[c]) + 1 - (first - 1)) :
            Launches!Recent(c)[i] = times[i + (first - 1)]
  <2>1. ASSUME NEW i \in first..Len(times) PROVE times[i] \in 0..LaunchTime
    <3>1. i \in 1..Len(times)
      BY <1>2, <1>8
    <3>2. QED BY <1>2, <3>1, ElementOfSeq
  <2>2. /\ SubSeq(times, first, Len(times)) \in Seq(0..LaunchTime)
        /\ Len(SubSeq(times, first, Len(times)))
              = IF first <= Len(times) THEN Len(times) - first + 1 ELSE 0
        /\ \A i \in 1..(Len(times) - first + 1) :
              SubSeq(times, first, Len(times))[i] = times[first + i - 1]
    <3>1. first \in Int /\ Len(times) \in Int
      BY <1>2, <1>8
    <3>2. QED BY <2>1, <3>1, SubSeqProperties
  <2>3. \A i \in Int : first + i - 1 = i + (first - 1)
    BY <1>8
  <2>4. /\ first <= Len(times)
        /\ Len(times) - first + 1 = Len(window[c]) + 1 - (first - 1)
    BY <1>2, <1>8
  <2>5. ASSUME NEW i \in 1..(Len(window[c]) + 1 - (first - 1))
        PROVE  Launches!Recent(c)[i] = times[i + (first - 1)]
    <3>1. i \in 1..(Len(times) - first + 1) /\ first + i - 1 = i + (first - 1)
      BY <2>3, <2>4
    <3>2. QED BY <1>7, <2>2, <3>1
  <2>6. QED BY <1>7, <2>2, <2>4, <2>5
<1>10. /\ first - 1 \in 0..Len(window[c])
       /\ \A i \in 1..(first - 1) : gate1Now - window[c][i] > Window
  <2>1. ASSUME NEW i \in 1..(first - 1) PROVE gate1Now - window[c][i] > Window
    <3>1. i \in 1..Len(window[c])
      BY <1>2, <1>8
    <3>2. times[i] = window[c][i] /\ window[c][i] \in 0..LaunchTime
      BY <1>1, <1>2, <3>1, ElementOfSeq
    <3>3. ~ InTime(times[i])
      BY <1>6
    <3>4. QED BY <1>1, <3>2, <3>3
  <2>2. QED BY <1>2, <1>8, <2>1
<1>11. /\ \A i \in 1..(Len(window[c]) - (first - 1)) :
              Launches!Recent(c)[i] = window[c][i + (first - 1)]
       /\ Launches!Recent(c)[Len(window[c]) + 1 - (first - 1)] = gate1Now
  <2>1. ASSUME NEW i \in 1..(Len(window[c]) - (first - 1))
        PROVE  Launches!Recent(c)[i] = window[c][i + (first - 1)]
    <3>1. i \in 1..(Len(window[c]) + 1 - (first - 1)) /\ i + (first - 1) \in 1..Len(window[c])
      BY <1>2, <1>8
    <3>2. QED BY <1>2, <1>9, <3>1
  <2>2. /\ Len(window[c]) + 1 - (first - 1) \in 1..(Len(window[c]) + 1 - (first - 1))
        /\ Len(window[c]) + 1 - (first - 1) + (first - 1) = Len(window[c]) + 1
    BY <1>2, <1>8
  <2>3. QED BY <1>2, <1>9, <2>1, <2>2
<1>12. QED BY <1>9, <1>10, <1>11

(* A launch is recorded with its verdict; it counts for the window unless    *)
(* its creator was blacklisted, and passes only if that is not full.         *)
Counts(key, verdict) ==
    /\ window' = [window EXCEPT ![key[1]] = Launches!Recent(key[1])]
    /\ verdict = "pass" => Len(Launches!Recent(key[1])) < Factory

LEMMA Launched ==
    ASSUME Launches!TypeOK, NEW key \in Launches!Keys, Launches!NewToken(key)
    PROVE  \E verdict \in Launches!Verdicts :
              /\ Launches!Record(key, verdict)
              /\ \/ verdict = "blacklist" /\ UNCHANGED window
                 \/ verdict # "blacklist" /\ Counts(key, verdict)
<1>1. CASE Launches!Blacklisted(key)
  BY <1>1 DEF Launches!Blacklisted, Launches!Verdicts
<1>2. CASE Launches!OfFactory(key)
  BY <1>2 DEF Launches!OfFactory, Launches!Verdicts, Counts
<1>3. CASE Launches!Misnamed(key)
  BY <1>3 DEF Launches!Misnamed, Launches!Verdicts, Counts
<1>4. CASE Launches!Counted(key)
  BY <1>4 DEF Launches!Counted, Launches!Verdict, Launches!Verdicts, Counts
<1>5. QED BY <1>1, <1>2, <1>3, <1>4 DEF Launches!NewToken

LEMMA Recorded ==
    ASSUME Launches!TypeOK, NEW key \in Launches!Keys, NEW verdict \in Launches!Verdicts,
           Launches!Record(key, verdict)
    PROVE  /\ launches' \in Seq(Launches!Launch)
           /\ Len(launches) \in Nat /\ DOMAIN launches = 1..Len(launches)
           /\ Len(launches') = Len(launches) + 1 /\ DOMAIN launches' = 1..(Len(launches) + 1)
           /\ \A i \in 1..Len(launches) : launches'[i] = launches[i] /\ launches[i] \in Launches!Launch
           /\ launches'[Len(launches) + 1] \in Launches!Launch
           /\ launches'[Len(launches) + 1].key = key
           /\ launches'[Len(launches) + 1].at = gate1Now
           /\ launches'[Len(launches) + 1].run = gate1Starts
           /\ launches'[Len(launches) + 1].verdict = verdict
<1> DEFINE launch == [key |-> key, at |-> gate1Now, run |-> gate1Starts, verdict |-> verdict]
<1>1. launches \in Seq(Launches!Launch) /\ launch \in Launches!Launch
  BY LaunchesAssumption DEF Launches!TypeOK, Launches!Launch
<1>2. launches' = Append(launches, launch)
  BY DEF Launches!Record
<1>3. QED BY <1>1, <1>2, ElementOfSeq, LenProperties

LEMMA LaunchFields ==
    ASSUME Launches!TypeOK, NEW i \in DOMAIN launches
    PROVE  launches[i].key \in Launches!Keys /\ launches[i].at \in Nat /\ launches[i].run \in Nat
<1>1. launches \in Seq(Launches!Launch) /\ i \in 1..Len(launches)
  BY LenProperties DEF Launches!TypeOK
<1>2. launches[i] \in Launches!Launch
  BY <1>1, ElementOfSeq
<1>3. QED BY <1>2 DEF Launches!Launch

LEMMA TaskCounts ==
    ASSUME Launches!TypeOK
    PROVE  /\ Len(repeatTasks) \in Nat
           /\ \A i \in 1..Len(repeatTasks) : repeatTasks[i].count \in Nat
<1>1. repeatTasks \in Seq([key : Launches!Keys, count : Nat])
  BY DEF Launches!TypeOK
<1>2. \A i \in 1..Len(repeatTasks) : repeatTasks[i] \in [key : Launches!Keys, count : Nat]
  BY <1>1, ElementOfSeq
<1>3. QED BY <1>1, <1>2

LEMMA CountedOnce ==
    ASSUME Launches!TypeOK, NEW key \in Launches!Keys, Launches!Counted(key)
    PROVE  /\ repeats[key] \in Nat
           /\ \A k \in Launches!Keys :
                 repeats'[k] = IF k = key THEN repeats[key] + 1 ELSE repeats[k]
           /\ Len(repeatTasks') = Len(repeatTasks) + 1
           /\ \A i \in 1..Len(repeatTasks) : repeatTasks'[i] = repeatTasks[i]
           /\ repeatTasks'[Len(repeatTasks) + 1].key = key
           /\ repeatTasks'[Len(repeatTasks) + 1].count = repeats[key] + 1
<1>1. repeats \in [Launches!Keys -> Nat] /\ repeatTasks \in Seq([key : Launches!Keys, count : Nat])
  BY DEF Launches!TypeOK
<1>2. PICK n \in Nat : n = repeats[key] + 1
  BY <1>1
<1>3. /\ repeats' = [repeats EXCEPT ![key] = n]
      /\ repeatTasks' = Append(repeatTasks, [key |-> key, count |-> n])
  BY <1>2 DEF Launches!Counted
<1>4. [key |-> key, count |-> n] \in [key : Launches!Keys, count : Nat]
  OBVIOUS
<1>5. QED BY <1>1, <1>2, <1>3, <1>4

LEMMA LaunchTypesInit == Launches!Init => Launches!TypeOK
BY LaunchesAssumption DEF Launches!Init, Launches!TypeOK, Launches!Keys

LEMMA LaunchTypesKept == Launches!TypeOK /\ [Launches!Next]_gate1Vars => Launches!TypeOK'
<1> SUFFICES ASSUME Launches!TypeOK, [Launches!Next]_gate1Vars PROVE Launches!TypeOK'
  OBVIOUS
<1>1. ASSUME NEW key \in Launches!Keys, Launches!NewToken(key) PROVE Launches!TypeOK'
  <2>1. PICK verdict \in Launches!Verdicts :
              /\ Launches!Record(key, verdict)
              /\ \/ verdict = "blacklist" /\ UNCHANGED window
                 \/ verdict # "blacklist" /\ Counts(key, verdict)
    BY <1>1, Launched
  <2>2. launches' \in Seq(Launches!Launch)
    BY <2>1, Recorded
  <2>3. key[1] \in Creators
    BY DEF Launches!Keys
  <2>4. window' \in [Creators -> Seq(0..LaunchTime)]
    BY <2>1, <2>3, RecentDrops DEF Launches!TypeOK, Counts
  <2>5. /\ repeats' \in [Launches!Keys -> Nat]
        /\ repeatTasks' \in Seq([key : Launches!Keys, count : Nat])
    <3>1. CASE Launches!Counted(key)
      <4>1. repeats[key] + 1 \in Nat
        BY DEF Launches!TypeOK
      <4>2. QED BY <3>1, <4>1 DEF Launches!TypeOK, Launches!Counted
    <3>2. CASE ~ Launches!Counted(key)
      <4>1. UNCHANGED <<repeats, repeatTasks>>
        BY <1>1, <3>2
        DEF Launches!NewToken, Launches!Blacklisted, Launches!OfFactory, Launches!Misnamed
      <4>2. QED BY <4>1 DEF Launches!TypeOK
    <3>3. QED BY <3>1, <3>2
  <2>6. QED BY <1>1, <2>2, <2>4, <2>5 DEF Launches!TypeOK, Launches!NewToken
<1>2. CASE Launches!Persist
  <2>1. /\ Head(repeatTasks) \in [key : Launches!Keys, count : Nat]
        /\ repeatTasks' \in Seq([key : Launches!Keys, count : Nat])
    BY <1>2, HeadTailProperties DEF Launches!TypeOK, Launches!Persist
  <2>2. repeatRows' \in [Launches!Keys -> Nat]
    BY <1>2, <2>1 DEF Launches!TypeOK, Launches!Persist
  <2>3. QED BY <1>2, <2>1, <2>2 DEF Launches!TypeOK, Launches!Persist
<1>3. CASE Launches!Restart
  <2>1. repeats' \in [Launches!Keys -> Nat]
    BY <1>3 DEF Launches!TypeOK, Launches!Restart, Launches!Loaded
  <2>2. lost' \in [Launches!Keys -> Nat]
    BY <1>3, <2>1 DEF Launches!TypeOK, Launches!Restart, Launches!Missing
  <2>3. gate1Starts' \in 0..MaxRestarts
    BY <1>3, LaunchesAssumption DEF Launches!TypeOK, Launches!Restart
  <2>4. /\ window' \in [Creators -> Seq(0..LaunchTime)]
        /\ repeatTasks' \in Seq([key : Launches!Keys, count : Nat])
    BY <1>3 DEF Launches!Restart
  <2>5. QED BY <1>3, <2>1, <2>2, <2>3, <2>4 DEF Launches!TypeOK, Launches!Restart
<1>4. CASE Launches!Reload
  BY <1>4 DEF Launches!TypeOK, Launches!Reload
<1>5. CASE Launches!Tick
  <2>1. gate1Now' \in 0..LaunchTime
    BY <1>5, LaunchesAssumption DEF Launches!TypeOK, Launches!Tick
  <2>2. QED BY <1>5, <2>1 DEF Launches!TypeOK, Launches!Tick
<1>6. CASE UNCHANGED gate1Vars
  BY <1>6 DEF Launches!TypeOK, gate1Vars
<1>7. QED BY <1>1, <1>2, <1>3, <1>4, <1>5, <1>6 DEF Launches!Next

(* The launches of this run that count for a creator's window, and each of   *)
(* them with a time of its own in it.                                        *)
Met(c) ==
    {j \in DOMAIN launches : /\ launches[j].key[1] = c
                             /\ launches[j].run = gate1Starts
                             /\ launches[j].verdict # "blacklist"
                             /\ gate1Now - launches[j].at <= Window}

Covered(c) ==
    \E f \in Injection(Met(c), 1..Len(window[c])) :
        \A j \in Met(c) : window[c][f[j]] = launches[j].at

RunsSoFar == \A i \in DOMAIN launches : launches[i].run <= gate1Starts

WindowsCover == RunsSoFar /\ \A c \in Creators : Covered(c)

LEMMA CoverInit == Launches!TypeOK /\ Launches!Init => WindowsCover /\ Launches!FactoryStopped
<1> SUFFICES ASSUME Launches!TypeOK, Launches!Init PROVE WindowsCover /\ Launches!FactoryStopped
  OBVIOUS
<1>1. DOMAIN launches = {}
  BY DEF Launches!Init
<1>2. ASSUME NEW c \in Creators PROVE Covered(c)
  <2>1. Met(c) = {}
    BY <1>1 DEF Met
  <2>2. [j \in Met(c) |-> 0] \in Injection(Met(c), 1..Len(window[c]))
    BY <2>1 DEF Injection, IsInjective
  <2>3. QED BY <2>1, <2>2 DEF Covered
<1>3. QED BY <1>1, <1>2 DEF WindowsCover, RunsSoFar, Launches!FactoryStopped

(* A creator of whom no launch is added, and whose window stays. *)
LEMMA CoverStays ==
    ASSUME Launches!TypeOK, NEW c \in Creators, Covered(c), window'[c] = window[c],
           Met(c)' \subseteq Met(c),
           \A j \in Met(c) : launches'[j].at = launches[j].at
    PROVE  Covered(c)'
<1>1. PICK f \in Injection(Met(c), 1..Len(window[c])) :
         \A j \in Met(c) : window[c][f[j]] = launches[j].at
  BY DEF Covered
<1> DEFINE g == [j \in Met(c)' |-> f[j]]
<1>2. g \in Injection(Met(c)', 1..Len(window[c]))
  BY <1>1 DEF Injection, IsInjective
<1>3. \A j \in Met(c)' : window'[c][g[j]] = launches'[j].at
  BY <1>1
<1>4. QED BY <1>2, <1>3 DEF Covered

(* A launch that counts takes the last place; those in front that are given  *)
(* up are too old to count.                                                  *)
LEMMA CoverAdds ==
    ASSUME Launches!TypeOK, Launches!TypeOK', NEW key \in Launches!Keys, NEW verdict \in Launches!Verdicts,
           Launches!Record(key, verdict), Counts(key, verdict), Covered(key[1]),
           UNCHANGED <<gate1Now, gate1Starts>>
    PROVE  Covered(key[1])'
<1> DEFINE c == key[1]
           n == Len(launches)
<1>1. c \in Creators
  BY DEF Launches!Keys
<1>2. PICK f \in Injection(Met(c), 1..Len(window[c])) :
         \A j \in Met(c) : window[c][f[j]] = launches[j].at
  BY DEF Covered
<1>3. PICK d \in 0..Len(window[c]) :
          /\ Launches!Recent(c) \in Seq(0..LaunchTime)
          /\ Len(Launches!Recent(c)) = Len(window[c]) + 1 - d
          /\ \A i \in 1..d : gate1Now - window[c][i] > Window
          /\ \A i \in 1..(Len(window[c]) - d) : Launches!Recent(c)[i] = window[c][i + d]
          /\ Launches!Recent(c)[Len(window[c]) + 1 - d] = gate1Now
  BY <1>1, RecentDrops
<1>4. window'[c] = Launches!Recent(c)
  BY <1>1 DEF Counts, Launches!TypeOK
<1>5. Len(window[c]) \in Nat
  BY <1>1 DEF Launches!TypeOK
<1>6. /\ n \in Nat /\ DOMAIN launches = 1..n /\ DOMAIN launches' = 1..(n + 1)
      /\ \A i \in 1..n : launches'[i] = launches[i] /\ launches[i] \in Launches!Launch
      /\ launches'[n + 1].at = gate1Now
  BY Recorded
<1>7. Met(c)' \subseteq Met(c) \cup {n + 1} /\ n + 1 \notin Met(c) /\ Met(c) \subseteq 1..n
  BY <1>6 DEF Met
<1> DEFINE g == [j \in Met(c)' |-> IF j = n + 1 THEN Len(window[c]) + 1 - d ELSE f[j] - d]
<1>8. ASSUME NEW j \in Met(c)', j # n + 1
      PROVE  /\ g[j] = f[j] - d /\ g[j] \in 1..(Len(window[c]) - d) /\ j \in Met(c)
             /\ f[j] \in 1..Len(window[c])
  <2>1. j \in Met(c) /\ f[j] \in 1..Len(window[c])
    BY <1>2, <1>7, <1>8 DEF Injection
  <2>2. ~ gate1Now - window[c][f[j]] > Window
    <3>1. gate1Now - launches[j].at <= Window
      BY <2>1 DEF Met
    <3>2. launches[j].at \in Nat
      BY <1>6, <1>7, <2>1 DEF Launches!Launch
    <3>3. gate1Now \in Nat /\ Window \in Nat
      BY LaunchesAssumption DEF Launches!TypeOK
    <3>4. QED BY <1>2, <2>1, <3>1, <3>2, <3>3
  <2>3. ~ f[j] \in 1..d
    BY <1>3, <2>2
  <2>4. QED BY <1>3, <1>5, <1>8, <2>1, <2>3
<1>9. \A j \in Met(c)' : g[j] \in 1..(Len(window[c]) + 1 - d)
  BY <1>3, <1>5, <1>8
<1>10. ASSUME NEW i \in Met(c)', NEW j \in Met(c)', g[i] = g[j] PROVE i = j
  <2>1. CASE i # n + 1 /\ j # n + 1
    <3>1. g[i] = f[i] - d /\ i \in Met(c) /\ f[i] \in 1..Len(window[c])
      BY <1>8, <2>1
    <3>2. g[j] = f[j] - d /\ j \in Met(c) /\ f[j] \in 1..Len(window[c])
      BY <1>8, <2>1
    <3>3. f[i] = f[j]
      BY <1>5, <1>10, <3>1, <3>2
    <3>4. QED BY <1>2, <3>1, <3>2, <3>3 DEF Injection, IsInjective
  <2>2. CASE i = n + 1 /\ j # n + 1
    <3>1. g[j] \in 1..(Len(window[c]) - d) /\ g[i] = Len(window[c]) + 1 - d
      BY <1>8, <2>2
    <3>2. QED BY <1>5, <1>10, <3>1
  <2>3. CASE i # n + 1 /\ j = n + 1
    <3>1. g[i] \in 1..(Len(window[c]) - d) /\ g[j] = Len(window[c]) + 1 - d
      BY <1>8, <2>3
    <3>2. QED BY <1>5, <1>10, <3>1
  <2>4. QED BY <2>1, <2>2, <2>3
<1>11. g \in Injection(Met(c)', 1..Len(window'[c]))
  BY <1>3, <1>4, <1>9, <1>10 DEF Injection, IsInjective
<1>12. ASSUME NEW j \in Met(c)' PROVE window'[c][g[j]] = launches'[j].at
  <2>1. CASE j = n + 1
    BY <1>3, <1>4, <1>6, <2>1
  <2>2. CASE j # n + 1
    <3>1. /\ g[j] = f[j] - d /\ g[j] \in 1..(Len(window[c]) - d) /\ j \in Met(c)
          /\ f[j] \in 1..Len(window[c])
      BY <1>8, <2>2
    <3>2. g[j] + d = f[j]
      BY <1>5, <3>1
    <3>3. \A i \in 1..(Len(window[c]) - d) : window'[c][i] = window[c][i + d]
      BY <1>3, <1>4
    <3>4. window'[c][g[j]] = window[c][f[j]]
      BY <3>1, <3>2, <3>3
    <3>5. QED BY <1>2, <1>6, <1>7, <3>1, <3>4
  <2>3. QED BY <2>1, <2>2
<1>13. QED BY <1>11, <1>12 DEF Covered

LEMMA CoverKept ==
    ASSUME Launches!TypeOK, Launches!TypeOK', [Launches!Next]_gate1Vars, WindowsCover
    PROVE  WindowsCover'
<1> USE DEF WindowsCover
<1>1. ASSUME NEW key \in Launches!Keys, Launches!NewToken(key) PROVE WindowsCover'
  <2>1. PICK verdict \in Launches!Verdicts :
              /\ Launches!Record(key, verdict)
              /\ \/ verdict = "blacklist" /\ UNCHANGED window
                 \/ verdict # "blacklist" /\ Counts(key, verdict)
    BY <1>1, Launched
  <2>2. UNCHANGED <<gate1Now, gate1Starts>> /\ gate1Starts \in Nat
    BY <1>1, LaunchesAssumption DEF Launches!NewToken, Launches!TypeOK
  <2>3. /\ Len(launches) \in Nat
        /\ DOMAIN launches = 1..Len(launches) /\ DOMAIN launches' = 1..(Len(launches) + 1)
        /\ \A i \in 1..Len(launches) : launches'[i] = launches[i]
        /\ launches'[Len(launches) + 1].key = key /\ launches'[Len(launches) + 1].run = gate1Starts
        /\ launches'[Len(launches) + 1].verdict = verdict
    BY <2>1, Recorded
  <2>4. RunsSoFar'
    BY <2>2, <2>3 DEF RunsSoFar
  <2>5. ASSUME NEW c \in Creators, c # key[1] \/ verdict = "blacklist" PROVE Covered(c)'
    <3>1. Met(c)' \subseteq Met(c)
      BY <2>2, <2>3, <2>5 DEF Met
    <3>2. \A j \in Met(c) : launches'[j].at = launches[j].at
      BY <2>3 DEF Met
    <3>3. window'[c] = window[c]
      BY <2>1, <2>5 DEF Counts, Launches!TypeOK
    <3>4. QED BY <3>1, <3>2, <3>3, CoverStays
  <2>6. ASSUME verdict # "blacklist" PROVE Covered(key[1])'
    <3>1. Covered(key[1]) /\ Counts(key, verdict)
      BY <2>1, <2>6 DEF Launches!Keys
    <3>2. QED BY <2>1, <2>2, <3>1, CoverAdds
  <2>7. QED BY <2>4, <2>5, <2>6
<1>2. CASE Launches!Restart
  <2>1. gate1Starts \in Nat /\ gate1Starts' = gate1Starts + 1 /\ UNCHANGED launches
    BY <1>2, LaunchesAssumption DEF Launches!Restart, Launches!TypeOK
  <2>2. \A i \in DOMAIN launches : launches[i].run \in Nat
    BY LaunchFields
  <2>3. RunsSoFar' /\ \A c \in Creators : Met(c)' = {}
    BY <2>1, <2>2 DEF RunsSoFar, Met
  <2>4. ASSUME NEW c \in Creators PROVE Covered(c)'
    <3>1. [j \in Met(c)' |-> 0] \in Injection(Met(c)', 1..Len(window'[c]))
      BY <2>3 DEF Injection, IsInjective
    <3>2. QED BY <2>3, <3>1 DEF Covered
  <2>5. QED BY <2>3, <2>4
<1>3. ASSUME \/ Launches!Persist \/ Launches!Reload \/ Launches!Tick
             \/ UNCHANGED gate1Vars
      PROVE  WindowsCover'
  <2>1. UNCHANGED <<window, launches, gate1Starts>> /\ gate1Now' \in {gate1Now, gate1Now + 1}
    BY <1>3 DEF Launches!Persist, Launches!Reload, Launches!Tick, gate1Vars
  <2>2. ASSUME NEW c \in Creators PROVE Covered(c)'
    <3>1. \A i \in DOMAIN launches : launches[i].at \in Nat
      BY LaunchFields
    <3>2. gate1Now \in Nat /\ gate1Now' \in Nat /\ gate1Now' >= gate1Now /\ Window \in Nat
      BY <2>1, LaunchesAssumption DEF Launches!TypeOK
    <3>3. \A i \in DOMAIN launches : gate1Now' - launches[i].at <= Window
                                       => gate1Now - launches[i].at <= Window
      BY <3>1, <3>2
    <3>4. Met(c)' \subseteq Met(c)
      BY <2>1, <3>3 DEF Met
    <3>5. QED BY <2>1, <3>4, CoverStays
  <2>3. QED BY <2>1, <2>2 DEF RunsSoFar
<1>4. QED BY <1>1, <1>2, <1>3 DEF Launches!Next

(* The launches of a creator within the window of one of his, in one run. *)
Together(i) ==
    {j \in 1..i : /\ launches[j].key[1] = launches[i].key[1]
                  /\ launches[j].run = launches[i].run
                  /\ launches[j].verdict # "blacklist"
                  /\ launches[i].at - launches[j].at <= Window}

LEMMA FactoryKept ==
    ASSUME Launches!TypeOK, Launches!TypeOK', [Launches!Next]_gate1Vars, WindowsCover', 
           Launches!FactoryStopped
    PROVE  Launches!FactoryStopped'
<1>0. \A S : Launches!Cardinality(S) = Cardinality(S)
  BY DEF Launches!Cardinality, Cardinality
<1>1. ASSUME NEW key \in Launches!Keys, Launches!NewToken(key) PROVE Launches!FactoryStopped'
  <2>1. PICK verdict \in Launches!Verdicts :
              /\ Launches!Record(key, verdict)
              /\ \/ verdict = "blacklist" /\ UNCHANGED window
                 \/ verdict # "blacklist" /\ Counts(key, verdict)
    BY <1>1, Launched
  <2>2. UNCHANGED <<gate1Now, gate1Starts>>
    BY <1>1 DEF Launches!NewToken
  <2>0. PICK n \in Nat : n = Len(launches)
    BY DEF Launches!TypeOK
  <2>3. /\ n \in Nat
        /\ DOMAIN launches = 1..n /\ DOMAIN launches' = 1..(n + 1)
        /\ \A i \in 1..n : launches'[i] = launches[i]
        /\ launches'[n + 1].key = key /\ launches'[n + 1].run = gate1Starts
        /\ launches'[n + 1].verdict = verdict /\ launches'[n + 1].at = gate1Now
    BY <2>0, <2>1, Recorded
  <2>4. ASSUME NEW i \in 1..n, launches'[i].verdict = "pass"
        PROVE  Cardinality(Together(i)') < Factory
    <3>1. Together(i)' = Together(i)
      BY <2>3 DEF Together
    <3>2. QED BY <1>0, <2>3, <2>4, <3>1 DEF Launches!FactoryStopped, Launches!Passed, Together
  <2>5. ASSUME verdict = "pass" PROVE Cardinality(Together(n + 1)') < Factory
    <3>1. key[1] \in Creators /\ Counts(key, verdict)
      BY <2>1, <2>5 DEF Launches!Keys
    <3>2. Together(n + 1)' \subseteq Met(key[1])'
      <4>1. ASSUME NEW j \in Together(n + 1)' PROVE j \in Met(key[1])'
        <5>1. /\ j \in 1..(n + 1) /\ launches'[j].key[1] = launches'[n + 1].key[1]
              /\ launches'[j].run = launches'[n + 1].run
              /\ launches'[j].verdict # "blacklist"
              /\ launches'[n + 1].at - launches'[j].at <= Window
          BY <4>1 DEF Together
        <5>2. /\ launches'[j].key[1] = key[1] /\ launches'[j].run = gate1Starts'
              /\ gate1Now' - launches'[j].at <= Window
          BY <2>2, <2>3, <5>1
        <5>3. QED BY <2>3, <5>1, <5>2 DEF Met
      <4>2. QED BY <4>1
    <3>3. PICK f : f \in Injection(Met(key[1])', 1..Len(window'[key[1]]))
      BY <3>1 DEF WindowsCover, Covered
    <3>4. Len(window'[key[1]]) \in Nat
      BY <3>1 DEF Launches!TypeOK
    <3>5. /\ IsFiniteSet(1..Len(window'[key[1]]))
          /\ Cardinality(1..Len(window'[key[1]])) = Len(window'[key[1]])
      BY <3>4, FS_Interval
    <3>6. /\ IsFiniteSet(Met(key[1])')
          /\ Cardinality(Met(key[1])') <= Len(window'[key[1]])
      BY <3>3, <3>5, FS_Injection
    <3>7. /\ Cardinality(Together(n + 1)') <= Cardinality(Met(key[1])')
          /\ IsFiniteSet(Together(n + 1)')
      BY <3>2, <3>6, FS_Subset
    <3>8. Cardinality(Together(n + 1)') \in Nat /\ Cardinality(Met(key[1])') \in Nat
      BY <3>6, <3>7, FS_CardinalityType
    <3>9. Len(window'[key[1]]) < Factory
      BY <2>5, <3>1 DEF Counts, Launches!TypeOK
    <3>10. QED BY <3>4, <3>6, <3>7, <3>8, <3>9, LaunchesAssumption
  <2>6. ASSUME NEW i \in DOMAIN launches', launches'[i].verdict = "pass"
        PROVE  Cardinality(Together(i)') < Factory
    <3>1. i \in 1..n \/ i = n + 1
      BY <2>3
    <3>2. QED BY <2>3, <2>4, <2>5, <2>6, <3>1
  <2>7. QED BY Zenon, <1>0, <2>6 DEF Launches!FactoryStopped, Launches!Passed, Together
<1>2. CASE ~ \E key \in Launches!Keys : Launches!NewToken(key)
  <2>1. UNCHANGED launches
    BY <1>2
    DEF Launches!Next, Launches!Persist, Launches!Restart, Launches!Reload, Launches!Tick, gate1Vars
  <2>2. QED BY <2>1 DEF Launches!FactoryStopped, Launches!Passed
<1>3. QED BY <1>1, <1>2

(* Each pass of a template was counted, or is among the repeats forgotten.   *)
Passes(k) == {i \in DOMAIN launches : launches[i].key = k /\ Launches!Passed(i)}

PassesCounted ==
    \A k \in Launches!Keys :
        /\ Cardinality(Passes(k)) <= repeats[k] + lost[k]
        /\ Cardinality(Passes(k)) < RepeatLimit + lost[k]

LEMMA PassesInit == Launches!Init => PassesCounted
<1>1. Launches!Init => \A k : Passes(k) = {}
  BY DEF Launches!Init, Passes
<1>2. Launches!Init => \A k \in Launches!Keys : repeats[k] = 0 /\ lost[k] = 0
  BY DEF Launches!Init
<1>3. RepeatLimit \in Nat /\ RepeatLimit > 0
  BY LaunchesAssumption
<1>4. QED BY <1>1, <1>2, <1>3, FS_EmptySet DEF PassesCounted

LEMMA PassesFinite ==
    ASSUME Launches!TypeOK, NEW k
    PROVE  IsFiniteSet(Passes(k)) /\ Cardinality(Passes(k)) \in Nat
<1>1. DOMAIN launches = 1..Len(launches) /\ Len(launches) \in Nat
  BY LenProperties DEF Launches!TypeOK
<1>2. IsFiniteSet(DOMAIN launches) /\ Passes(k) \in SUBSET DOMAIN launches
  BY <1>1, FS_Interval DEF Passes
<1>3. QED BY <1>2, FS_Subset, FS_CardinalityType

LEMMA PassesKept ==
    ASSUME Launches!TypeOK, Launches!TypeOK', [Launches!Next]_gate1Vars, PassesCounted
    PROVE  PassesCounted'
<1>1. ASSUME NEW key \in Launches!Keys, Launches!NewToken(key) PROVE PassesCounted'
  <2>1. PICK verdict \in Launches!Verdicts : Launches!Record(key, verdict)
    BY <1>1, Launched
  <2>2. PICK n \in Nat : n = Len(launches)
    BY DEF Launches!TypeOK
  <2>3. /\ DOMAIN launches = 1..n /\ DOMAIN launches' = 1..(n + 1)
        /\ \A i \in 1..n : launches'[i] = launches[i]
        /\ launches'[n + 1].key = key /\ launches'[n + 1].verdict = verdict
    BY <2>1, <2>2, Recorded
  <2>4. UNCHANGED lost
    BY <1>1 DEF Launches!NewToken
  <2>5. ASSUME NEW k \in Launches!Keys
        PROVE  /\ Cardinality(Passes(k))' <= repeats'[k] + lost'[k]
               /\ Cardinality(Passes(k))' < RepeatLimit + lost'[k]
    <3>1. /\ repeats[k] \in Nat /\ repeats'[k] \in Nat /\ lost[k] \in Nat /\ RepeatLimit \in Nat
          /\ Cardinality(Passes(k)) \in Nat
      BY LaunchesAssumption, PassesFinite DEF Launches!TypeOK
    <3>2. CASE Launches!Counted(key) /\ k = key /\ verdict = "pass"
      <4>1. repeats'[k] = repeats[k] + 1 /\ repeats[k] + 1 < RepeatLimit
        <5>1. /\ repeats' = [repeats EXCEPT ![k] = repeats[k] + 1]
              /\ Launches!Record(key, Launches!Verdict(repeats[k] + 1))
          BY <3>2 DEF Launches!Counted
        <5>2. launches'[n + 1].verdict = Launches!Verdict(repeats[k] + 1)
          <6>1. Launches!Verdict(repeats[k] + 1) \in Launches!Verdicts
            BY DEF Launches!Verdict, Launches!Verdicts
          <6>2. QED BY <2>2, <5>1, <6>1, Recorded
        <5>3. ~ repeats[k] + 1 >= RepeatLimit
          BY <2>3, <3>2, <5>2 DEF Launches!Verdict
        <5>4. QED BY <3>1, <5>1, <5>3 DEF Launches!TypeOK
      <4>2. Passes(k)' = Passes(k) \cup {n + 1} /\ n + 1 \notin Passes(k)
        BY <2>3, <3>2 DEF Passes, Launches!Passed
      <4>3. Cardinality(Passes(k))' = Cardinality(Passes(k)) + 1
        BY <4>2, PassesFinite, FS_AddElement
      <4>4. QED BY <2>4, <3>1, <4>1, <4>3 DEF PassesCounted
    <3>3. CASE ~ (Launches!Counted(key) /\ k = key /\ verdict = "pass")
      <4>1. k # key \/ verdict # "pass"
        <5>1. ASSUME verdict = "pass" PROVE Launches!Counted(key)
          <6>1. ASSUME NEW v \in Launches!Verdicts, Launches!Record(key, v) PROVE v = "pass"
            BY <2>2, <2>3, <5>1, <6>1, Recorded
          <6>2. ~ Launches!Record(key, "blacklist") /\ ~ Launches!Record(key, "factory")
                /\ ~ Launches!Record(key, "name")
            BY <6>1 DEF Launches!Verdicts
          <6>3. QED BY <1>1, <6>2
                DEF Launches!NewToken, Launches!Blacklisted, Launches!OfFactory, Launches!Misnamed
        <5>2. QED BY <3>3, <5>1
      <4>2. Passes(k)' = Passes(k)
        BY <2>3, <4>1 DEF Passes, Launches!Passed
      <4>3. repeats'[k] >= repeats[k]
        <5>1. CASE Launches!Counted(key)
          BY <3>1, <5>1, CountedOnce
        <5>2. CASE ~ Launches!Counted(key)
          BY <1>1, <3>1, <5>2
          DEF Launches!NewToken, Launches!Blacklisted, Launches!OfFactory, Launches!Misnamed
        <5>3. QED BY <5>1, <5>2
      <4>4. QED BY <2>4, <3>1, <4>2, <4>3 DEF PassesCounted
    <3>4. QED BY <3>2, <3>3
  <2>6. QED BY <2>5 DEF PassesCounted
<1>2. CASE Launches!Restart
  <2>1. ASSUME NEW k \in Launches!Keys
        PROVE  /\ Cardinality(Passes(k))' <= repeats'[k] + lost'[k]
               /\ Cardinality(Passes(k))' < RepeatLimit + lost'[k]
    <3>1. /\ repeats[k] \in Nat /\ repeats'[k] \in Nat /\ lost[k] \in Nat /\ RepeatLimit \in Nat
          /\ Cardinality(Passes(k)) \in Nat
      BY LaunchesAssumption, PassesFinite DEF Launches!TypeOK
    <3>2. lost'[k] = lost[k] + (IF repeats[k] > repeats'[k] THEN repeats[k] - repeats'[k] ELSE 0)
      BY <1>2 DEF Launches!Restart, Launches!Missing
    <3>3. Passes(k)' = Passes(k)
      BY <1>2 DEF Launches!Restart, Passes, Launches!Passed
    <3>4. QED BY <3>1, <3>2, <3>3 DEF PassesCounted
  <2>2. QED BY <2>1 DEF PassesCounted
<1>3. CASE Launches!Persist \/ Launches!Reload \/ Launches!Tick \/ UNCHANGED gate1Vars
  <2>1. UNCHANGED <<launches, repeats, lost>>
    BY <1>3 DEF Launches!Persist, Launches!Reload, Launches!Tick, gate1Vars
  <2>2. QED BY <2>1 DEF PassesCounted, Passes, Launches!Passed
<1>4. QED BY <1>1, <1>2, <1>3 DEF Launches!Next

(* The stored repeats, those on their way and the counted ones come in this  *)
(* order, as long as none were forgotten.                                    *)
StoredBehind ==
    \A k \in Launches!Keys : lost[k] = 0 =>
        /\ repeatRows[k] <= repeats[k]
        /\ \A i \in 1..Len(repeatTasks) : repeatTasks[i].key = k =>
              /\ repeatRows[k] <= repeatTasks[i].count /\ repeatTasks[i].count <= repeats[k]
              /\ \A j \in 1..i : repeatTasks[j].key = k =>
                    repeatTasks[j].count <= repeatTasks[i].count

LEMMA StoredInit == Launches!Init => StoredBehind
BY DEF Launches!Init, StoredBehind

LEMMA StoredKept ==
    ASSUME Launches!TypeOK, Launches!TypeOK', [Launches!Next]_gate1Vars, StoredBehind
    PROVE  StoredBehind'
<1> DEFINE Sent(k) ==
             /\ repeatRows[k] <= repeats[k]
             /\ \A i \in 1..Len(repeatTasks) : repeatTasks[i].key = k =>
                   /\ repeatRows[k] <= repeatTasks[i].count /\ repeatTasks[i].count <= repeats[k]
                   /\ \A j \in 1..i : repeatTasks[j].key = k =>
                         repeatTasks[j].count <= repeatTasks[i].count
<1>1. ASSUME NEW key \in Launches!Keys, Launches!Counted(key), UNCHANGED <<repeatRows, lost>>,
             NEW k \in Launches!Keys, lost'[k] = 0
      PROVE  Sent(k)'
  <2>1. Sent(k)
    BY <1>1 DEF StoredBehind
  <2>3. PICK n \in Nat : n = Len(repeatTasks)
    BY TaskCounts
  <2>5. /\ Len(repeatTasks') = n + 1
        /\ \A i \in 1..n : repeatTasks'[i] = repeatTasks[i]
        /\ \A i \in 1..n : repeatTasks[i].count \in Nat
        /\ repeatTasks'[n + 1].key = key /\ repeatTasks'[n + 1].count = repeats[key] + 1
    BY <1>1, <2>3, CountedOnce, TaskCounts
  <2>6. /\ repeats[k] \in Nat /\ repeatRows[k] \in Nat /\ repeatRows'[k] = repeatRows[k]
        /\ repeats'[k] = IF k = key THEN repeats[k] + 1 ELSE repeats[k]
    BY <1>1, CountedOnce DEF Launches!TypeOK
  <2>8. ASSUME NEW i \in 1..(n + 1), repeatTasks'[i].key = k
        PROVE  /\ repeatRows'[k] <= repeatTasks'[i].count /\ repeatTasks'[i].count <= repeats'[k]
               /\ \A j \in 1..i : repeatTasks'[j].key = k =>
                         repeatTasks'[j].count <= repeatTasks'[i].count
    <3>1. CASE i = n + 1
      <4>1. k = key /\ repeatTasks'[i].count = repeats[k] + 1
        BY <2>5, <2>8, <3>1
      <4>2. ASSUME NEW j \in 1..i, repeatTasks'[j].key = k
            PROVE  repeatTasks'[j].count <= repeatTasks'[i].count
        <5>1. CASE j \in 1..n
          BY <2>1, <2>3, <2>5, <2>6, <4>1, <4>2, <5>1
        <5>2. CASE j = n + 1
          BY <2>6, <3>1, <4>1, <5>2
        <5>3. QED BY <3>1, <5>1, <5>2
      <4>3. QED BY <2>1, <2>6, <4>1, <4>2
    <3>2. CASE i \in 1..n
      <4>1. repeatTasks'[i] = repeatTasks[i] /\ repeatTasks[i].key = k /\ repeatTasks[i].count \in Nat
        BY <2>5, <2>8, <3>2
      <4>2. \A j \in 1..i : repeatTasks'[j] = repeatTasks[j]
        BY <2>5, <3>2
      <4>3. QED BY <2>1, <2>3, <2>6, <3>2, <4>1, <4>2
    <3>3. QED BY <3>1, <3>2
  <2>9. repeatRows'[k] <= repeats'[k]
    BY <2>1, <2>6
  <2>10. QED BY <2>5, <2>8, <2>9
<1>2. ASSUME Launches!Persist, NEW k \in Launches!Keys, lost'[k] = 0
      PROVE  Sent(k)'
  <2>1. Sent(k)
    BY <1>2 DEF StoredBehind, Launches!Persist
  <2>2. /\ UNCHANGED <<repeats, lost>> /\ repeatTasks' = Tail(repeatTasks)
        /\ repeatRows' \in {repeatRows,
                            [repeatRows EXCEPT ![Head(repeatTasks).key] = Head(repeatTasks).count]}
    BY <1>2 DEF Launches!Persist
  <2>3. PICK n \in Nat : n = Len(repeatTasks)
    BY DEF Launches!TypeOK
  <2>4. /\ n >= 1 /\ Len(repeatTasks') = n - 1 /\ Head(repeatTasks) = repeatTasks[1]
        /\ \A i \in 1..(n - 1) : repeatTasks'[i] = repeatTasks[i + 1]
        /\ \A i \in 1..n : repeatTasks[i].count \in Nat
    <3>1. repeatTasks \in Seq([key : Launches!Keys, count : Nat]) /\ repeatTasks # <<>>
      BY <1>2 DEF Launches!TypeOK, Launches!Persist
    <3>2. QED BY <2>2, <2>3, <3>1, TaskCounts, HeadTailProperties
  <2>5. /\ repeats[k] \in Nat /\ repeatRows[k] \in Nat /\ repeats'[k] = repeats[k]
        /\ \/ repeatRows'[k] = repeatRows[k]
           \/ repeatTasks[1].key = k /\ repeatRows'[k] = repeatTasks[1].count
    BY <2>2, <2>4 DEF Launches!TypeOK
  <2>6. ASSUME NEW i \in 1..(n - 1), repeatTasks'[i].key = k
        PROVE  /\ repeatRows'[k] <= repeatTasks'[i].count /\ repeatTasks'[i].count <= repeats'[k]
               /\ \A j \in 1..i : repeatTasks'[j].key = k =>
                         repeatTasks'[j].count <= repeatTasks'[i].count
    <3>1. i + 1 \in 1..n /\ 1 \in 1..(i + 1) /\ repeatTasks[i + 1].key = k
      BY <2>4, <2>6
    <3>2. /\ repeatRows[k] <= repeatTasks[i + 1].count /\ repeatTasks[i + 1].count <= repeats[k]
          /\ \A j \in 1..(i + 1) : repeatTasks[j].key = k =>
                         repeatTasks[j].count <= repeatTasks[i + 1].count
      BY <2>1, <2>3, <3>1
    <3>3. \A j \in 1..i : j + 1 \in 1..(i + 1) /\ repeatTasks'[j] = repeatTasks[j + 1]
      BY <2>4, <2>6
    <3>4. QED BY <2>4, <2>5, <2>6, <3>1, <3>2, <3>3
  <2>7. repeatRows'[k] <= repeats'[k]
    BY <2>1, <2>3, <2>4, <2>5
  <2>8. QED BY <2>4, <2>6, <2>7
<1>3. ASSUME Launches!Restart, NEW k \in Launches!Keys, lost'[k] = 0
      PROVE  Sent(k)'
  <2>1. /\ repeats[k] \in Nat /\ repeats'[k] \in Nat /\ lost[k] \in Nat /\ repeatRows[k] \in Nat
    BY DEF Launches!TypeOK
  <2>2. /\ lost'[k] = lost[k] + (IF repeats[k] > repeats'[k] THEN repeats[k] - repeats'[k] ELSE 0)
        /\ repeatTasks' = <<>> /\ UNCHANGED repeatRows
    BY <1>3 DEF Launches!Restart, Launches!Missing
  <2>3. lost[k] = 0 /\ repeats[k] <= repeats'[k]
    BY <1>3, <2>1, <2>2
  <2>4. repeatRows'[k] <= repeats'[k]
    BY <2>1, <2>2, <2>3 DEF StoredBehind
  <2>5. QED BY <2>2, <2>4
<1>4. ASSUME UNCHANGED <<repeats, repeatTasks, repeatRows, lost>> PROVE StoredBehind'
  BY <1>4 DEF StoredBehind
<1>5. ASSUME NEW key \in Launches!Keys, Launches!NewToken(key) PROVE StoredBehind'
  <2>1. CASE Launches!Counted(key)
    <3>1. UNCHANGED <<repeatRows, lost>>
      BY <1>5 DEF Launches!NewToken
    <3>2. QED BY <1>1, <2>1, <3>1 DEF StoredBehind
  <2>2. CASE ~ Launches!Counted(key)
    <3>1. UNCHANGED <<repeats, repeatTasks, repeatRows, lost>>
      BY <1>5, <2>2
      DEF Launches!NewToken, Launches!Blacklisted, Launches!OfFactory, Launches!Misnamed
    <3>2. QED BY <1>4, <3>1
  <2>3. QED BY <2>1, <2>2
<1>6. CASE Launches!Persist
  BY <1>2, <1>6 DEF StoredBehind
<1>7. CASE Launches!Restart
  BY <1>3, <1>7 DEF StoredBehind
<1>8. CASE Launches!Reload \/ Launches!Tick \/ UNCHANGED gate1Vars
  BY <1>4, <1>8 DEF Launches!Reload, Launches!Tick, gate1Vars
<1>9. QED BY <1>5, <1>6, <1>7, <1>8 DEF Launches!Next

LaunchInv ==
    /\ Launches!TypeOK /\ WindowsCover /\ Launches!FactoryStopped /\ PassesCounted
    /\ StoredBehind

LEMMA LaunchInvInit == Launches!Init => LaunchInv
BY LaunchTypesInit, CoverInit, PassesInit, StoredInit DEF LaunchInv

LEMMA LaunchInvKept == LaunchInv /\ [Launches!Next]_gate1Vars => LaunchInv'
<1> SUFFICES ASSUME LaunchInv, [Launches!Next]_gate1Vars PROVE LaunchInv'
  OBVIOUS
<1>1. Launches!TypeOK /\ Launches!TypeOK'
  BY LaunchTypesKept DEF LaunchInv
<1>2. WindowsCover'
  BY <1>1, CoverKept DEF LaunchInv
<1>3. QED BY <1>1, <1>2, FactoryKept, PassesKept, StoredKept DEF LaunchInv

LEMMA LaunchInvShows == LaunchInv => Launches!TypeOK /\ LaunchesLimited
<1>1. \A S : Launches!Cardinality(S) = Cardinality(S)
  BY DEF Launches!Cardinality, Cardinality
<1>2. LaunchInv => Launches!TemplateLimited
  BY <1>1 DEF LaunchInv, PassesCounted, Passes, Launches!TemplateLimited
<1>3. QED BY <1>2 DEF LaunchInv, LaunchesLimited

LEMMA RowsGrow ==
    ASSUME LaunchInv, [Launches!Next]_gate1Vars
    PROVE  \A k \in Launches!Keys : repeatRows'[k] < repeatRows[k] => lost[k] > 0
<1>1. Launches!TypeOK
  BY DEF LaunchInv
<1>2. \A k \in Launches!Keys : lost[k] \in Nat /\ repeatRows[k] \in Nat
  BY <1>1 DEF Launches!TypeOK
<1>3. CASE Launches!Persist
  <2>1. ASSUME NEW k \in Launches!Keys, lost[k] = 0 PROVE repeatRows'[k] >= repeatRows[k]
    <3>1. \/ repeatRows' = repeatRows
          \/ repeatRows' = [repeatRows EXCEPT ![Head(repeatTasks).key] = Head(repeatTasks).count]
      BY <1>3 DEF Launches!Persist
    <3>2. 1 \in 1..Len(repeatTasks) /\ Head(repeatTasks) = repeatTasks[1]
      BY <1>1, <1>3 DEF Launches!TypeOK, Launches!Persist
    <3>3. repeatTasks[1].key = k => repeatRows[k] <= repeatTasks[1].count
      BY <2>1, <3>2 DEF LaunchInv, StoredBehind
    <3>4. /\ repeatRows \in [Launches!Keys -> Nat]
          /\ repeatRows' = repeatRows \/
             repeatRows' = [repeatRows EXCEPT ![repeatTasks[1].key] = repeatTasks[1].count]
      BY <1>1, <3>1, <3>2 DEF Launches!TypeOK
    <3>5. repeatRows'[k] = repeatRows[k] \/
          (repeatTasks[1].key = k /\ repeatRows'[k] = repeatTasks[1].count)
      BY <3>4
    <3>6. QED BY <1>2, <3>3, <3>5
  <2>2. ASSUME NEW k \in Launches!Keys, repeatRows'[k] < repeatRows[k] PROVE lost[k] > 0
    <3>1. repeatRows'[k] \in Nat
      BY <1>1, LaunchTypesKept DEF Launches!TypeOK
    <3>2. lost[k] # 0
      BY <1>2, <2>1, <2>2, <3>1
    <3>3. QED BY <1>2, <3>2
  <2>3. QED BY <2>2
<1>4. CASE ~ Launches!Persist
  <2>1. repeatRows' = repeatRows
    BY <1>4
    DEF Launches!Next, Launches!NewToken, Launches!Restart, Launches!Reload, Launches!Tick, gate1Vars
  <2>2. QED BY <1>2, <2>1
<1>5. QED BY <1>3, <1>4

-----------------------------------------------------------------------------
(* AddressSnapshots.                                                         *)

Pairs == Lookups \X Snapshots!Parts

(* The steps of an answer and of a refresh. *)
MoveOf(p) == <<lookupTasks[p].step, lookupTasks'[p].step>>

Moves(p) ==
    {<<"load", "end">>, <<"load", "launch">>, <<"load", "stale">>, <<"stale", "live">>,
     <<"stale", "launch">>, <<"live", "rpc">>, <<"live", "helius">>, <<"helius", "save">>,
     <<"helius", "rpc">>, <<"rpc", "save">>, <<"rpc", Snapshots!Done(p)>>, <<"save", "persist">>,
     <<"persist", Snapshots!Done(p)>>, <<"release", "end">>}

LEMMA Going ==
    ASSUME Snapshots!TypeOK, NEW p \in Pairs, NEW step \in Snapshots!Steps, Snapshots!Go(p, step)
    PROVE  /\ lookupTasks' \in [Pairs -> Snapshots!Task]
           /\ \A q \in Pairs : q # p => lookupTasks'[q] = lookupTasks[q]
           /\ lookupTasks'[p].address = lookupTasks[p].address
           /\ lookupTasks'[p].step = step /\ lookupTasks'[p].got = lookupTasks[p].got
<1>1. lookupTasks \in [Pairs -> Snapshots!Task]
  BY DEF Snapshots!TypeOK, Pairs
<1>2. PICK task \in Snapshots!Task : task = lookupTasks[p]
  BY <1>1
<1>3. PICK next : next = [task EXCEPT !.step = step]
  OBVIOUS
<1>4. /\ next \in Snapshots!Task /\ next.address = task.address /\ next.step = step
      /\ next.got = task.got
  BY <1>3 DEF Snapshots!Task
<1>5. lookupTasks' = [lookupTasks EXCEPT ![p] = next]
  BY <1>2, <1>3 DEF Snapshots!Go
<1>6. QED BY <1>1, <1>2, <1>4, <1>5

LEMMA Holding ==
    ASSUME Snapshots!TypeOK, NEW p \in Pairs, NEW step \in Snapshots!Steps,
           NEW got \in Snapshots!Snapshots, Snapshots!Hold(p, step, got)
    PROVE  /\ lookupTasks' \in [Pairs -> Snapshots!Task]
           /\ \A q \in Pairs : q # p => lookupTasks'[q] = lookupTasks[q]
           /\ lookupTasks'[p].address = lookupTasks[p].address
           /\ lookupTasks'[p].step = step /\ lookupTasks'[p].got = got
<1>1. lookupTasks \in [Pairs -> Snapshots!Task]
  BY DEF Snapshots!TypeOK, Pairs
<1>2. PICK task \in Snapshots!Task : task = lookupTasks[p]
  BY <1>1
<1>3. PICK next : next = [task EXCEPT !.step = step, !.got = got]
  OBVIOUS
<1>4. /\ next \in Snapshots!Task /\ next.address = task.address /\ next.step = step
      /\ next.got = got
  BY <1>3 DEF Snapshots!Task
<1>5. lookupTasks' = [lookupTasks EXCEPT ![p] = next]
  BY <1>2, <1>3 DEF Snapshots!Hold
<1>6. QED BY <1>1, <1>2, <1>4, <1>5

(* What a look-up may come to hold. *)
LEMMA HeldTypes ==
    ASSUME Snapshots!TypeOK
    PROVE  /\ \A funder \in BOOLEAN : [at |-> lookupNow, funder |-> funder] \in Snapshots!Snapshots
           /\ \A s \in Snapshots!Snapshots :
                 /\ [s EXCEPT !.at = lookupNow] \in Snapshots!Snapshots
                 /\ [s EXCEPT !.at = lookupNow].at = lookupNow
           /\ \A s \in Snapshots!Snapshots : s.at \in Int
<1>1. lookupNow \in 0..LookupTime
  BY DEF Snapshots!TypeOK
<1>2. \A funder \in BOOLEAN : [at |-> lookupNow, funder |-> funder] \in Snapshots!Snapshots
  BY <1>1 DEF Snapshots!Snapshots
<1>3. ASSUME NEW s \in Snapshots!Snapshots
      PROVE  /\ [s EXCEPT !.at = lookupNow] \in Snapshots!Snapshots
             /\ [s EXCEPT !.at = lookupNow].at = lookupNow
             /\ s.at \in Int
  <2>1. s \in [at : Int, funder : BOOLEAN]
    <3>1. CASE s = Snapshots!None
      <4>1. -1 \in Int /\ FALSE \in BOOLEAN
        OBVIOUS
      <4>2. QED BY <3>1, <4>1 DEF Snapshots!None
    <3>2. CASE s \in [at : 0..LookupTime, funder : BOOLEAN]
      BY <3>2
    <3>3. QED BY <3>1, <3>2 DEF Snapshots!Snapshots
  <2>2. [s EXCEPT !.at = lookupNow] = [at |-> lookupNow, funder |-> s.funder]
    BY <2>1
  <2>3. s.funder \in BOOLEAN /\ s.at \in Int
    BY <2>1
  <2>4. [s EXCEPT !.at = lookupNow] \in Snapshots!Snapshots
    BY <1>2, <2>2, <2>3
  <2>5. QED BY <2>2, <2>3, <2>4
<1>4. QED BY <1>2, <1>3

(* What a read of the database may yield. *)
LEMMA ReadTypes ==
    ASSUME Snapshots!TypeOK, NEW a \in Addresses
    PROVE  /\ Snapshots!Read(a) \in SUBSET Snapshots!Snapshots
           /\ \A row \in Snapshots!Read(a) : row.at <= snapshotRows[a].at
<1>1. snapshotRows[a] \in Snapshots!Snapshots /\ Snapshots!None \in Snapshots!Snapshots
  BY DEF Snapshots!TypeOK, Snapshots!Snapshots
<1>2. \A s \in Snapshots!Snapshots : s.at \in Int /\ -1 <= s.at
  BY SnapshotsAssumption DEF Snapshots!Snapshots, Snapshots!None
<1>3. Snapshots!None.at = -1
  BY DEF Snapshots!None
<1>4. QED BY <1>1, <1>2, <1>3 DEF Snapshots!Read

(* An answer that has begun has its address, and a refresh which that of its *)
(* answer, once it is launched; only answers load, and only refreshes have   *)
(* an address to release.                                                    *)
Answer(t)  == lookupTasks[<<t, "answer">>]
Refresh(t) == lookupTasks[<<t, "refresh">>]

LookupsPlaced ==
    \A t \in Lookups :
        /\ Answer(t).step # "release"
        /\ Answer(t).step # "idle" => Answer(t).address \in Addresses
        /\ Answer(t).step \in {"idle", "load", "stale", "launch"} => Refresh(t).step = "idle"
        /\ Refresh(t).step \notin {"load", "stale", "launch"}
        /\ Refresh(t).address \in IF Refresh(t).step = "idle" THEN {Nobody} ELSE Addresses

LEMMA Sides ==
    ASSUME NEW p \in Pairs
    PROVE  \E t \in Lookups : p \in {<<t, "answer">>, <<t, "refresh">>}
BY DEF Pairs, Snapshots!Parts

LEMMA Addressed ==
    ASSUME LookupsPlaced, NEW p \in Pairs, lookupTasks[p].step # "idle"
    PROVE  Snapshots!Address(p) \in Addresses
BY Sides DEF LookupsPlaced, Answer, Refresh, Snapshots!Address

(* One task moves, and stays with its address. *)
LEMMA OneMoves ==
    ASSUME Snapshots!TypeOK, LookupsPlaced, NEW p \in Pairs,
           Snapshots!Load(p) \/ Snapshots!LoadStale(p) \/ Snapshots!Fetch(p)
    PROVE  /\ lookupTasks' \in [Pairs -> Snapshots!Task]
           /\ \A q \in Pairs : q # p => lookupTasks'[q] = lookupTasks[q]
           /\ lookupTasks'[p].address = lookupTasks[p].address
           /\ MoveOf(p) \in Moves(p)
<1> DEFINE Goal == /\ lookupTasks' \in [Pairs -> Snapshots!Task]
                   /\ \A q \in Pairs : q # p => lookupTasks'[q] = lookupTasks[q]
                   /\ lookupTasks'[p].address = lookupTasks[p].address
                   /\ MoveOf(p) \in Moves(p)
<1> USE DEF MoveOf, Moves, Snapshots!At
<1>1. lookupTasks[p] \in Snapshots!Task /\ lookupTasks[p].got \in Snapshots!Snapshots
  BY DEF Snapshots!TypeOK, Snapshots!Task, Pairs
<1>2. \A s : s \in {"load", "stale", "launch", "live", "helius", "rpc", "save", "persist", "release",
                    "end"} => s \in Snapshots!Steps
  BY DEF Snapshots!Steps
<1>3. Snapshots!Done(p) \in Snapshots!Steps
  BY DEF Snapshots!Done, Snapshots!Steps
<1>4. CASE Snapshots!Load(p)
  <2>1. CASE Snapshots!Go(p, "end") \/ Snapshots!Go(p, "launch")
    BY <1>2, <1>4, <2>1, Going DEF Snapshots!Load
  <2>2. CASE \E row \in Snapshots!Read(Snapshots!Address(p)) : Snapshots!Hold(p, "stale", row)
    <3>1. Snapshots!Address(p) \in Addresses
      BY <1>4, Addressed DEF Snapshots!Load
    <3>2. PICK row \in Snapshots!Snapshots : Snapshots!Hold(p, "stale", row)
      BY <2>2, <3>1, ReadTypes
    <3>3. QED BY <1>2, <1>4, <3>2, Holding DEF Snapshots!Load
  <2>3. QED BY <1>4, <2>1, <2>2 DEF Snapshots!Load
<1>5. CASE Snapshots!LoadStale(p)
  BY <1>2, <1>5, Going DEF Snapshots!LoadStale
<1>6. CASE Snapshots!Choose(p)
  BY <1>2, <1>6, Going DEF Snapshots!Choose
<1>7. CASE Snapshots!HeliusAnswers(p)
  <2>1. PICK got \in Snapshots!Snapshots : Snapshots!Hold(p, "save", got)
    BY <1>7, HeldTypes DEF Snapshots!HeliusAnswers
  <2>2. QED BY <1>2, <1>7, <2>1, Holding DEF Snapshots!HeliusAnswers
<1>8. CASE Snapshots!HeliusLimits(p) \/ Snapshots!HeliusFails(p)
  BY <1>2, <1>8, Going DEF Snapshots!HeliusLimits, Snapshots!HeliusFails
<1>9. CASE Snapshots!RpcAnswers(p)
  <2>1. PICK got \in Snapshots!Snapshots : Snapshots!Hold(p, "save", got)
    <3>1. FALSE \in BOOLEAN
      OBVIOUS
    <3>2. QED BY Zenon, <1>9, <3>1, HeldTypes DEF Snapshots!RpcAnswers
  <2>2. QED BY <1>2, <1>9, <2>1, Holding DEF Snapshots!RpcAnswers
<1>10. CASE Snapshots!RpcFails(p)
  BY <1>3, <1>10, Going DEF Snapshots!RpcFails
<1>11. CASE Snapshots!Save(p)
  <2>1. PICK got \in Snapshots!Snapshots : Snapshots!Hold(p, "persist", got)
    BY <1>1, <1>11, HeldTypes DEF Snapshots!Save
  <2>2. QED BY <1>2, <1>11, <2>1, Holding DEF Snapshots!Save
<1>12. CASE Snapshots!Persist(p)
  BY <1>3, <1>12, Going DEF Snapshots!Persist
<1>13. CASE Snapshots!Release(p)
  BY <1>2, <1>13, Going DEF Snapshots!Release
<1>14. QED
  BY <1>4, <1>5, <1>6, <1>7, <1>8, <1>9, <1>10, <1>11, <1>12, <1>13 DEF Snapshots!Fetch

LEMMA SnapshotsTypesInit == Snapshots!Init => Snapshots!TypeOK
<1> SUFFICES ASSUME Snapshots!Init PROVE Snapshots!TypeOK
  OBVIOUS
<1>1. Snapshots!None \in Snapshots!Snapshots
  BY DEF Snapshots!Snapshots
<1>2. [step |-> "idle", address |-> Nobody, got |-> Snapshots!None] \in Snapshots!Task
  BY <1>1 DEF Snapshots!Task, Snapshots!Steps
<1>3. lookupTasks \in [Lookups \X Snapshots!Parts -> Snapshots!Task]
  BY <1>2 DEF Snapshots!Init
<1>4. /\ snapshotCache \in [Addresses -> Snapshots!Snapshots]
      /\ snapshotRows \in [Addresses -> Snapshots!Snapshots]
  BY <1>1 DEF Snapshots!Init
<1>5. lookupNow \in 0..LookupTime /\ coolUntil \in 0..(LookupTime + LookupCooldown)
  BY SnapshotsAssumption DEF Snapshots!Init
<1>6. lookups \in SUBSET Addresses
  BY DEF Snapshots!Init
<1>7. QED BY <1>3, <1>4, <1>5, <1>6 DEF Snapshots!TypeOK

(* A look-up begins. *)
LEMMA Beginning ==
    ASSUME Snapshots!TypeOK, NEW t \in Lookups, NEW a \in Addresses, Snapshots!Begin(t, a)
    PROVE  /\ lookupTasks' \in [Pairs -> Snapshots!Task]
           /\ \A q \in Pairs : q # <<t, "answer">> => lookupTasks'[q] = lookupTasks[q]
           /\ Answer(t).step = "idle" /\ Answer(t)'.step \in {"load", "end"}
           /\ Answer(t)'.address = a /\ Answer(t)'.got \in Snapshots!Read(a)
<1> DEFINE p == <<t, "answer">>
<1>6. PICK row \in Snapshots!Read(a) :
         lookupTasks' = [lookupTasks EXCEPT ![p] =
            [step |-> IF Snapshots!Fresh(snapshotCache[a]) THEN "end" ELSE "load",
             address |-> a, got |-> row]]
  BY DEF Snapshots!Begin
<1> DEFINE task == [step |-> IF Snapshots!Fresh(snapshotCache[a]) THEN "end" ELSE "load",
                    address |-> a, got |-> row]
<1>1. p \in Pairs /\ lookupTasks \in [Pairs -> Snapshots!Task]
  BY DEF Pairs, Snapshots!Parts, Snapshots!TypeOK
<1>2. task \in Snapshots!Task
  BY ReadTypes DEF Snapshots!Task, Snapshots!TypeOK, Snapshots!Steps
<1>3. lookupTasks' = [lookupTasks EXCEPT ![p] = task] /\ lookupTasks[p].step = "idle"
  BY <1>6 DEF Snapshots!Begin, Snapshots!At
<1>4. task.step \in {"load", "end"} /\ task.address = a /\ task.got = row
  OBVIOUS
<1> HIDE DEF task
<1>5. QED BY <1>1, <1>2, <1>3, <1>4 DEF Answer

(* An answer launches a refresh. *)
LEMMA Spawning ==
    ASSUME Snapshots!TypeOK, NEW t \in Lookups, Snapshots!SpawnRefresh(t), LookupsPlaced
    PROVE  /\ lookupTasks' \in [Pairs -> Snapshots!Task]
           /\ \A q \in Pairs : q \notin {<<t, "answer">>, <<t, "refresh">>}
                                  => lookupTasks'[q] = lookupTasks[q]
           /\ Answer(t).step = "launch" /\ Answer(t)'.step = "end"
           /\ Answer(t)'.address = Answer(t).address /\ Answer(t).address \in Addresses
           /\ Refresh(t)'.step = "live" /\ Refresh(t)'.address = Answer(t).address
           /\ lookups' = lookups \cup {Answer(t).address}
<1> DEFINE p == <<t, "answer">>
           r == <<t, "refresh">>
<1>1. p \in Pairs /\ r \in Pairs /\ p # r /\ lookupTasks \in [Pairs -> Snapshots!Task]
  BY DEF Pairs, Snapshots!Parts, Snapshots!TypeOK
<1>2. PICK task \in Snapshots!Task : task = lookupTasks[p]
  BY <1>1
<1>3. task.step = "launch" /\ task.address \in Addresses
  BY <1>2 DEF Snapshots!SpawnRefresh, Snapshots!At, LookupsPlaced, Answer
<1>4. PICK ended : ended = [task EXCEPT !.step = "end"]
  OBVIOUS
<1>5. ended \in Snapshots!Task /\ ended.step = "end" /\ ended.address = task.address
  BY <1>4 DEF Snapshots!Task, Snapshots!Steps
<1>6. PICK spawned : spawned = [step |-> "live", address |-> task.address, got |-> Snapshots!None]
  OBVIOUS
<1>7. spawned \in Snapshots!Task /\ spawned.step = "live" /\ spawned.address = task.address
  BY <1>3, <1>6 DEF Snapshots!Task, Snapshots!Steps, Snapshots!Snapshots
<1>8. lookupTasks' = [lookupTasks EXCEPT ![p] = ended, ![r] = spawned]
  BY <1>1, <1>2, <1>4, <1>6 DEF Snapshots!SpawnRefresh, Snapshots!Address
<1>9. lookups' = lookups \cup {task.address}
  BY <1>2 DEF Snapshots!SpawnRefresh, Snapshots!Address
<1>10. QED BY <1>1, <1>2, <1>3, <1>5, <1>7, <1>8, <1>9 DEF Answer, Refresh

(* All that a step may do to the tasks. *)
LEMMA LookupSteps ==
    ASSUME Snapshots!TypeOK, LookupsPlaced, [Snapshots!Next]_lookupVars
    PROVE  \/ \E p \in Pairs : Snapshots!Load(p) \/ Snapshots!LoadStale(p) \/ Snapshots!Fetch(p)
           \/ \E t \in Lookups, a \in Addresses : Snapshots!Begin(t, a)
           \/ \E t \in Lookups : /\ Snapshots!SpawnRefresh(t)
                                 /\ Answer(t).address \notin lookups
           \/ \E t \in Lookups : Snapshots!LeaveRefresh(t)
           \/ Snapshots!Tick
           \/ UNCHANGED lookupVars
BY DEF Snapshots!Next, Snapshots!Launch, Snapshots!Address, Answer, Pairs

LEMMA Leaving ==
    ASSUME Snapshots!TypeOK, NEW t \in Lookups, Snapshots!LeaveRefresh(t)
    PROVE  /\ lookupTasks' \in [Pairs -> Snapshots!Task]
           /\ \A q \in Pairs : q # <<t, "answer">> => lookupTasks'[q] = lookupTasks[q]
           /\ Answer(t).step = "launch" /\ Answer(t)'.step = "end"
           /\ Answer(t)'.address = Answer(t).address
<1>1. <<t, "answer">> \in Pairs /\ "end" \in Snapshots!Steps
  BY DEF Pairs, Snapshots!Parts, Snapshots!Steps
<1>2. QED BY <1>1, Going DEF Snapshots!LeaveRefresh, Snapshots!At, Answer

(* The row of two snapshots keeps the later time, and a funder either knows. *)
LEMMA MergedType ==
    ASSUME NEW s \in Snapshots!Snapshots, NEW u \in Snapshots!Snapshots
    PROVE  /\ Snapshots!Merged(s, u) \in Snapshots!Snapshots
           /\ Snapshots!Merged(s, u).at >= s.at /\ Snapshots!Merged(s, u).at >= u.at
           /\ s.funder => Snapshots!Merged(s, u).funder
<1>1. PICK known \in BOOLEAN : known = (s.funder \/ u.funder)
  BY Zenon
<1>2. PICK later : later = IF u.at > s.at THEN u.at ELSE s.at
  OBVIOUS
<1>3. Snapshots!Merged(s, u) = [at |-> later, funder |-> known]
  BY Zenon, <1>1, <1>2 DEF Snapshots!Merged
<1>4. s.at \in -1..LookupTime /\ u.at \in -1..LookupTime
  BY SnapshotsAssumption DEF Snapshots!Snapshots, Snapshots!None
<1>5. later \in -1..LookupTime /\ later >= s.at /\ later >= u.at
  BY <1>2, <1>4, SnapshotsAssumption
<1>6. later = -1 => known = FALSE
  <2>1. ASSUME later = -1 PROVE ~ s.funder /\ ~ u.funder
    <3>1. s.at = -1 /\ u.at = -1
      BY <1>2, <1>4, <2>1, SnapshotsAssumption
    <3>2. s = Snapshots!None /\ u = Snapshots!None
      BY <3>1, SnapshotsAssumption DEF Snapshots!Snapshots
    <3>3. QED BY Zenon, <3>2 DEF Snapshots!None
  <2>2. QED BY Zenon, <1>1, <2>1
<1>7. [at |-> later, funder |-> known] \in Snapshots!Snapshots
  <2>1. CASE later = -1
    BY Zenon, <1>6, <2>1 DEF Snapshots!Snapshots, Snapshots!None
  <2>2. CASE later # -1
    <3>1. later \in 0..LookupTime
      BY <1>5, <2>2, SnapshotsAssumption
    <3>2. QED BY <3>1 DEF Snapshots!Snapshots
  <2>3. QED BY <2>1, <2>2
<1>8. [at |-> later, funder |-> known].at = later /\ ([at |-> later, funder |-> known].funder = known)
  BY Zenon
<1>9. s.funder => Snapshots!Merged(s, u).funder
  BY Zenon, <1>1, <1>3, <1>8
<1>10. QED BY <1>3, <1>5, <1>7, <1>8, <1>9

LEMMA LookupsTypesKept ==
    ASSUME Snapshots!TypeOK, LookupsPlaced, [Snapshots!Next]_lookupVars
    PROVE  Snapshots!TypeOK'
<1>1. lookupTasks' \in [Pairs -> Snapshots!Task]
  BY LookupSteps, OneMoves, Beginning, Spawning, Leaving
  DEF Snapshots!Tick, lookupVars, Snapshots!TypeOK, Pairs
<1>2. lookupNow' \in 0..LookupTime /\ lookups' \in SUBSET Addresses
  <2>1. CASE \E p \in Pairs : Snapshots!Release(p)
    BY <2>1 DEF Snapshots!Release, Snapshots!TypeOK
  <2>2. CASE \E t \in Lookups : Snapshots!SpawnRefresh(t)
    <3>1. UNCHANGED lookupNow
      BY <2>2 DEF Snapshots!SpawnRefresh
    <3>2. QED BY <2>2, <3>1, Spawning DEF Snapshots!TypeOK
  <2>3. CASE Snapshots!Tick
    BY <2>3, SnapshotsAssumption DEF Snapshots!Tick, Snapshots!TypeOK
  <2>4. CASE UNCHANGED <<lookupNow, lookups>>
    BY <2>4 DEF Snapshots!TypeOK
  <2>5. QED
    BY <2>1, <2>2, <2>3, <2>4, LookupSteps
    DEF Snapshots!Load, Snapshots!LoadStale, Snapshots!Fetch, Snapshots!Choose,
        Snapshots!HeliusAnswers, Snapshots!HeliusLimits, Snapshots!HeliusFails,
        Snapshots!RpcAnswers, Snapshots!RpcFails, Snapshots!Save, Snapshots!Persist,
        Snapshots!Begin, Snapshots!LeaveRefresh, lookupVars
<1>3. coolUntil' \in 0..(LookupTime + LookupCooldown)
  <2>1. CASE \E p \in Pairs : Snapshots!HeliusAnswers(p) \/ Snapshots!HeliusLimits(p)
    <3>1. coolUntil' = 0 \/ coolUntil' = Snapshots!CooledUntil
      BY <2>1 DEF Snapshots!HeliusAnswers, Snapshots!HeliusLimits
    <3>2. QED BY <3>1, SnapshotsAssumption DEF Snapshots!CooledUntil, Snapshots!TypeOK
  <2>2. CASE UNCHANGED coolUntil
    BY <2>2 DEF Snapshots!TypeOK
  <2>3. QED
    BY <2>1, <2>2, LookupSteps
    DEF Snapshots!Load, Snapshots!LoadStale, Snapshots!Fetch, Snapshots!Choose,
        Snapshots!HeliusFails, Snapshots!RpcAnswers, Snapshots!RpcFails, Snapshots!Save,
        Snapshots!Persist, Snapshots!Release, Snapshots!Begin, Snapshots!SpawnRefresh,
        Snapshots!LeaveRefresh, Snapshots!Tick, lookupVars
<1>4. snapshotCache' \in [Addresses -> Snapshots!Snapshots]
  <2>1. \A p \in Pairs : /\ lookupTasks[p].got \in Snapshots!Snapshots
                         /\ [lookupTasks[p].got EXCEPT !.at = lookupNow] \in Snapshots!Snapshots
    BY HeldTypes DEF Snapshots!TypeOK, Snapshots!Task, Pairs
  <2>2. ASSUME NEW p \in Pairs, NEW s \in Snapshots!Snapshots,
               Snapshots!Remember(Snapshots!Address(p), s)
        PROVE  snapshotCache' \in [Addresses -> Snapshots!Snapshots]
    BY <2>2 DEF Snapshots!Remember, Snapshots!TypeOK
  <2>3. CASE \E p \in Pairs : Snapshots!Load(p) \/ Snapshots!LoadStale(p) \/ Snapshots!Save(p)
    <3>1. PICK p \in Pairs : Snapshots!Load(p) \/ Snapshots!LoadStale(p) \/ Snapshots!Save(p)
      BY <2>3
    <3>2. \/ UNCHANGED snapshotCache
          \/ Snapshots!Remember(Snapshots!Address(p), lookupTasks[p].got)
          \/ Snapshots!Remember(Snapshots!Address(p), [lookupTasks[p].got EXCEPT !.at = lookupNow])
      BY <3>1 DEF Snapshots!Load, Snapshots!LoadStale, Snapshots!Save
    <3>3. QED BY <2>1, <2>2, <3>2 DEF Snapshots!TypeOK
  <2>4. CASE UNCHANGED snapshotCache
    BY <2>4 DEF Snapshots!TypeOK
  <2>5. QED
    BY <2>3, <2>4, LookupSteps
    DEF Snapshots!Fetch, Snapshots!Choose, Snapshots!HeliusAnswers, Snapshots!HeliusLimits,
        Snapshots!HeliusFails, Snapshots!RpcAnswers, Snapshots!RpcFails,
        Snapshots!Persist, Snapshots!Release, Snapshots!Begin, Snapshots!SpawnRefresh,
        Snapshots!LeaveRefresh, Snapshots!Tick, lookupVars
<1>5. snapshotRows' \in [Addresses -> Snapshots!Snapshots]
  <2>1. CASE \E p \in Pairs : Snapshots!Persist(p)
    <3>1. PICK p \in Pairs : Snapshots!Persist(p)
      BY <2>1
    <3>2. PICK a \in Addresses : a = Snapshots!Address(p)
      BY <3>1, Addressed DEF Snapshots!Persist, Snapshots!At
    <3>3. snapshotRows' = [snapshotRows EXCEPT ![a] =
                              Snapshots!Merged(snapshotRows[a], lookupTasks[p].got)]
      BY <3>1, <3>2 DEF Snapshots!Persist
    <3>4. snapshotRows[a] \in Snapshots!Snapshots /\ lookupTasks[p].got \in Snapshots!Snapshots
      BY DEF Snapshots!TypeOK, Snapshots!Task, Pairs
    <3>5. Snapshots!Merged(snapshotRows[a], lookupTasks[p].got) \in Snapshots!Snapshots
      BY <3>4, MergedType
    <3>6. QED BY <3>3, <3>5 DEF Snapshots!TypeOK
  <2>2. CASE UNCHANGED snapshotRows
    BY <2>2 DEF Snapshots!TypeOK
  <2>3. QED
    BY <2>1, <2>2, LookupSteps
    DEF Snapshots!Load, Snapshots!LoadStale, Snapshots!Fetch, Snapshots!Choose,
        Snapshots!HeliusAnswers, Snapshots!HeliusLimits, Snapshots!HeliusFails,
        Snapshots!RpcAnswers, Snapshots!RpcFails, Snapshots!Save, Snapshots!Release,
        Snapshots!Begin, Snapshots!SpawnRefresh, Snapshots!LeaveRefresh, Snapshots!Tick, lookupVars
<1>6. QED BY <1>1, <1>2, <1>3, <1>4, <1>5 DEF Snapshots!TypeOK, Pairs

LEMMA PlacesInit == Snapshots!Init => LookupsPlaced
BY DEF Snapshots!Init, LookupsPlaced, Answer, Refresh, Snapshots!Parts

LEMMA PlacesKept ==
    ASSUME Snapshots!TypeOK, LookupsPlaced, [Snapshots!Next]_lookupVars
    PROVE  LookupsPlaced'
<1>1. ASSUME NEW p \in Pairs,
             Snapshots!Load(p) \/ Snapshots!LoadStale(p) \/ Snapshots!Fetch(p)
      PROVE  LookupsPlaced'
  <2>1. /\ \A q \in Pairs : q # p => lookupTasks'[q] = lookupTasks[q]
        /\ lookupTasks'[p].address = lookupTasks[p].address
        /\ MoveOf(p) \in Moves(p)
    BY <1>1, OneMoves
  <2>2. PICK t \in Lookups : p \in {<<t, "answer">>, <<t, "refresh">>}
    BY Sides
  <2>3. ASSUME NEW u \in Lookups, u # t
        PROVE  UNCHANGED <<Answer(u), Refresh(u)>>
    BY <2>1, <2>2, <2>3 DEF Answer, Refresh, Pairs, Snapshots!Parts
  <2>4. CASE p = <<t, "answer">>
    <3>1. Refresh(t)' = Refresh(t)
      BY <2>1, <2>4 DEF Refresh, Pairs, Snapshots!Parts
    <3>2. Snapshots!Done(p) = "end"
      BY <2>4 DEF Snapshots!Done
    <3>3. Answer(t)'.address = Answer(t).address
          /\ <<Answer(t).step, Answer(t)'.step>> \in Moves(p)
      BY <2>1, <2>4 DEF Answer, MoveOf
    <3>4. QED BY <2>3, <3>1, <3>2, <3>3 DEF LookupsPlaced, Moves
  <2>5. CASE p = <<t, "refresh">>
    <3>1. Answer(t)' = Answer(t)
      BY <2>1, <2>5 DEF Answer, Pairs, Snapshots!Parts
    <3>2. Snapshots!Done(p) = "release"
      BY <2>5 DEF Snapshots!Done
    <3>3. Refresh(t)'.address = Refresh(t).address
          /\ <<Refresh(t).step, Refresh(t)'.step>> \in Moves(p)
      BY <2>1, <2>5 DEF Refresh, MoveOf
    <3>4. QED BY <2>3, <3>1, <3>2, <3>3 DEF LookupsPlaced, Moves
  <2>6. QED BY <2>2, <2>4, <2>5
<1>2. ASSUME NEW t \in Lookups, NEW a \in Addresses, Snapshots!Begin(t, a)
      PROVE  LookupsPlaced'
  <2>1. \A u \in Lookups : Refresh(u)' = Refresh(u) /\ (u # t => Answer(u)' = Answer(u))
    BY <1>2, Beginning DEF Answer, Refresh, Pairs, Snapshots!Parts
  <2>2. Answer(t).step = "idle" /\ Answer(t)'.step \in {"load", "end"} /\ Answer(t)'.address = a
    BY <1>2, Beginning
  <2>3. QED BY <2>1, <2>2 DEF LookupsPlaced
<1>3. ASSUME NEW t \in Lookups, Snapshots!SpawnRefresh(t) PROVE LookupsPlaced'
  <2>1. \A u \in Lookups \ {t} : Refresh(u)' = Refresh(u) /\ Answer(u)' = Answer(u)
    BY <1>3, Spawning DEF Answer, Refresh, Pairs, Snapshots!Parts
  <2>2. /\ Answer(t)'.step = "end" /\ Answer(t)'.address \in Addresses
        /\ Refresh(t)'.step = "live" /\ Refresh(t)'.address \in Addresses
    BY <1>3, Spawning
  <2>3. QED BY <2>1, <2>2 DEF LookupsPlaced
<1>4. ASSUME NEW t \in Lookups, Snapshots!LeaveRefresh(t) PROVE LookupsPlaced'
  <2>1. \A u \in Lookups : Refresh(u)' = Refresh(u) /\ (u # t => Answer(u)' = Answer(u))
    BY <1>4, Leaving DEF Answer, Refresh, Pairs, Snapshots!Parts
  <2>2. /\ Answer(t).step = "launch" /\ Answer(t)'.step = "end"
        /\ Answer(t)'.address = Answer(t).address
    BY <1>4, Leaving
  <2>3. QED BY <2>1, <2>2 DEF LookupsPlaced
<1>5. CASE Snapshots!Tick \/ UNCHANGED lookupVars
  BY <1>5 DEF Snapshots!Tick, lookupVars, LookupsPlaced, Answer, Refresh
<1>6. QED BY <1>1, <1>2, <1>3, <1>4, <1>5, LookupSteps

(* The refreshes of an address, until they have released it. *)
Working(a) == {t \in Lookups : Refresh(t).address = a /\ Refresh(t).step # "end"}

OneWorking ==
    \A a \in Addresses :
        /\ a \in lookups <=> Working(a) # {}
        /\ \A t, u \in Working(a) : t = u

LEMMA OneWorkingInit == Snapshots!Init => OneWorking
<1> SUFFICES ASSUME Snapshots!Init PROVE OneWorking
  OBVIOUS
<1>1. lookups = {} /\ \A t \in Lookups : Refresh(t).address = Nobody
  BY DEF Snapshots!Init, Refresh, Snapshots!Parts
<1>2. \A a \in Addresses : Working(a) = {}
  BY <1>1, SnapshotsAssumption DEF Working
<1>3. QED BY <1>1, <1>2 DEF OneWorking

LEMMA OneWorkingKept ==
    ASSUME Snapshots!TypeOK, LookupsPlaced, [Snapshots!Next]_lookupVars, OneWorking
    PROVE  OneWorking'
<1>1. ASSUME UNCHANGED lookups, \A a \in Addresses : Working(a)' = Working(a)
      PROVE  OneWorking'
  BY <1>1 DEF OneWorking
<1>2. ASSUME NEW p \in Pairs,
             Snapshots!Load(p) \/ Snapshots!LoadStale(p) \/ Snapshots!Fetch(p)
      PROVE  OneWorking'
  <2>1. /\ \A q \in Pairs : q # p => lookupTasks'[q] = lookupTasks[q]
        /\ lookupTasks'[p].address = lookupTasks[p].address
        /\ MoveOf(p) \in Moves(p)
    BY <1>2, OneMoves
  <2>2. PICK t \in Lookups : p \in {<<t, "answer">>, <<t, "refresh">>}
    BY Sides
  <2>3. \A u \in Lookups : u # t => Refresh(u)' = Refresh(u)
    BY <2>1, <2>2 DEF Refresh, Pairs, Snapshots!Parts
  <2>4. Refresh(t)'.address = Refresh(t).address
    BY <2>1, <2>2 DEF Refresh, Pairs, Snapshots!Parts
  <2>5. CASE Snapshots!Release(p)
    <3>1. p = <<t, "refresh">>
      BY <2>2, <2>5 DEF Snapshots!Release, Snapshots!At, LookupsPlaced, Answer
    <3>2. /\ Refresh(t).step = "release" /\ Refresh(t)'.step = "end"
          /\ lookups' = lookups \ {Refresh(t).address}
      BY <2>1, <2>5, <3>1
      DEF Snapshots!Release, Snapshots!At, Snapshots!Address, Refresh, MoveOf, Moves,
          Snapshots!Done
    <3>3. \A a \in Addresses : Working(a)' = Working(a) \ {t}
      BY <2>3, <2>4, <3>2 DEF Working
    <3>4. Refresh(t).address \in Addresses /\ t \in Working(Refresh(t).address)
      BY <3>2 DEF Working, LookupsPlaced
    <3>5. ASSUME NEW a \in Addresses, a # Refresh(t).address PROVE Working(a)' = Working(a)
      BY <3>3, <3>5 DEF Working
    <3>6. Working(Refresh(t).address) = {t}
      BY <3>4 DEF OneWorking
    <3>7. QED BY <3>2, <3>3, <3>5, <3>6 DEF OneWorking
  <2>6. CASE ~ Snapshots!Release(p)
    <3>1. UNCHANGED lookups
      BY <1>2, <2>6
      DEF Snapshots!Load, Snapshots!LoadStale, Snapshots!Fetch, Snapshots!Choose,
          Snapshots!HeliusAnswers, Snapshots!HeliusLimits, Snapshots!HeliusFails,
          Snapshots!RpcAnswers, Snapshots!RpcFails, Snapshots!Save, Snapshots!Persist
    <3>2. Refresh(t).step # "end" <=> Refresh(t)'.step # "end"
      <4>1. CASE p = <<t, "answer">>
        BY <2>1, <4>1 DEF Refresh, Pairs, Snapshots!Parts
      <4>2. CASE p = <<t, "refresh">>
        <5>1. Snapshots!Done(p) = "release"
          BY <4>2 DEF Snapshots!Done
        <5>2. <<Refresh(t).step, Refresh(t)'.step>> \in Moves(p) /\ Refresh(t).step # "load"
          BY <2>1, <4>2 DEF MoveOf, Refresh, LookupsPlaced
        <5>3. Refresh(t).step # "release"
          BY <1>2, <2>6, <4>2
          DEF Snapshots!Load, Snapshots!LoadStale, Snapshots!Fetch, Snapshots!Choose,
              Snapshots!HeliusAnswers, Snapshots!HeliusLimits, Snapshots!HeliusFails,
              Snapshots!RpcAnswers, Snapshots!RpcFails, Snapshots!Save, Snapshots!Persist,
              Snapshots!At, Refresh
        <5>4. QED BY <5>1, <5>2, <5>3 DEF Moves
      <4>3. QED BY <2>2, <4>1, <4>2
    <3>3. \A a \in Addresses : Working(a)' = Working(a)
      BY <2>3, <2>4, <3>2 DEF Working
    <3>4. QED BY <1>1, <3>1, <3>3
  <2>7. QED BY <2>5, <2>6
<1>3. ASSUME NEW t \in Lookups, Snapshots!SpawnRefresh(t), Answer(t).address \notin lookups
      PROVE  OneWorking'
  <2>1. \A u \in Lookups : u # t => Refresh(u)' = Refresh(u)
    BY <1>3, Spawning DEF Refresh, Pairs, Snapshots!Parts
  <2>2. PICK b \in Addresses :
           /\ b = Answer(t).address /\ Answer(t).step = "launch"
           /\ Refresh(t)'.step = "live" /\ Refresh(t)'.address = b
           /\ lookups' = lookups \cup {b}
    BY <1>3, Spawning
  <2>3. Refresh(t).step = "idle" /\ Refresh(t).address = Nobody
    BY <2>2 DEF LookupsPlaced
  <2>4. Working(b) = {}
    BY <1>3, <2>2 DEF OneWorking
  <2>5. Working(b)' = {t}
    BY <2>1, <2>2, <2>4 DEF Working
  <2>6. ASSUME NEW a \in Addresses, a # b PROVE Working(a)' = Working(a)
    BY <2>1, <2>2, <2>3, <2>6, SnapshotsAssumption DEF Working
  <2>7. QED BY <2>2, <2>5, <2>6 DEF OneWorking
<1>4. ASSUME \/ \E t \in Lookups, a \in Addresses : Snapshots!Begin(t, a)
             \/ \E t \in Lookups : Snapshots!LeaveRefresh(t)
             \/ Snapshots!Tick \/ UNCHANGED lookupVars
      PROVE  OneWorking'
  <2>1. \A t \in Lookups : Refresh(t)' = Refresh(t)
    BY <1>4, Beginning, Leaving
    DEF Refresh, Pairs, Snapshots!Parts, Snapshots!Tick, lookupVars
  <2>2. UNCHANGED lookups
    BY <1>4 DEF Snapshots!Begin, Snapshots!LeaveRefresh, Snapshots!Tick, lookupVars
  <2>3. QED BY <1>1, <2>1, <2>2 DEF Working
<1>5. QED BY <1>2, <1>3, <1>4, LookupSteps

LEMMA OneWorkingShows == OneWorking => Snapshots!OneRefresh
<1> SUFFICES ASSUME OneWorking, NEW a \in Addresses
             PROVE  Snapshots!Cardinality(Working(a)) = IF a \in lookups THEN 1 ELSE 0
  BY DEF Snapshots!OneRefresh, Working, Refresh, Snapshots!Address, Snapshots!At
<1>1. Snapshots!Cardinality(Working(a)) = Cardinality(Working(a))
  BY DEF Snapshots!Cardinality, Cardinality
<1>2. Working(a) = {} \/ \E t : Working(a) = {t}
  BY DEF OneWorking
<1>3. QED BY <1>1, <1>2, FS_EmptySet, FS_Singleton DEF OneWorking

(* Where memory is newer, a task on its way to the database has what memory  *)
(* has; what was read from the database is not newer than its row.           *)
Bringing(a) ==
    \E p \in Pairs : /\ lookupTasks[p].step = "persist" /\ lookupTasks[p].address = a
                     /\ lookupTasks[p].got.at >= snapshotCache[a].at

NewerIsBrought ==
    /\ \A p \in Pairs : lookupTasks[p].step \in {"load", "stale"} =>
          lookupTasks[p].got.at <= snapshotRows[lookupTasks[p].address].at
    /\ \A a \in Addresses : snapshotCache[a].at > snapshotRows[a].at => Bringing(a)

LEMMA NewerInit == Snapshots!Init => NewerIsBrought
BY DEF Snapshots!Init, NewerIsBrought, Pairs, Snapshots!None

(* A row only grows. *)
LEMMA LookupRowsGrow ==
    ASSUME Snapshots!TypeOK, LookupsPlaced, [Snapshots!Next]_lookupVars, NEW a \in Addresses
    PROVE  /\ snapshotRows[a].at \in Int /\ snapshotRows[a]'.at \in Int
           /\ snapshotRows'[a].at >= snapshotRows[a].at
           /\ snapshotRows[a].funder => snapshotRows'[a].funder
<1>1. /\ snapshotRows[a] \in Snapshots!Snapshots /\ snapshotRows[a].at \in Int
      /\ snapshotRows'[a] \in Snapshots!Snapshots /\ snapshotRows'[a].at \in Int
  <2>1. Snapshots!TypeOK'
    BY LookupsTypesKept
  <2>2. snapshotRows[a] \in Snapshots!Snapshots /\ snapshotRows'[a] \in Snapshots!Snapshots
    BY <2>1 DEF Snapshots!TypeOK
  <2>3. QED BY <2>2, HeldTypes
<1>2. CASE \E p \in Pairs : Snapshots!Persist(p)
  <2>1. PICK p \in Pairs : Snapshots!Persist(p)
    BY <1>2
  <2>2. PICK b \in Addresses : b = Snapshots!Address(p)
    BY <2>1, Addressed DEF Snapshots!Persist, Snapshots!At
  <2>3. PICK got \in Snapshots!Snapshots : got = lookupTasks[p].got
    BY DEF Snapshots!TypeOK, Snapshots!Task, Pairs
  <2>4. snapshotRows' = [snapshotRows EXCEPT ![b] = Snapshots!Merged(snapshotRows[b], got)]
    BY <2>1, <2>2, <2>3 DEF Snapshots!Persist
  <2>5. snapshotRows'[a] = snapshotRows[a] \/ snapshotRows'[a] = Snapshots!Merged(snapshotRows[a], got)
    BY <2>4 DEF Snapshots!TypeOK
  <2>6. CASE snapshotRows'[a] = snapshotRows[a]
    BY <1>1, <2>6
  <2>7. CASE snapshotRows'[a] = Snapshots!Merged(snapshotRows[a], got)
    BY <1>1, <2>7, MergedType
  <2>8. QED BY <2>5, <2>6, <2>7
<1>3. CASE UNCHANGED snapshotRows
  BY <1>1, <1>3
<1>4. QED
  BY <1>2, <1>3, LookupSteps
  DEF Snapshots!Load, Snapshots!LoadStale, Snapshots!Fetch, Snapshots!Choose,
      Snapshots!HeliusAnswers, Snapshots!HeliusLimits, Snapshots!HeliusFails,
      Snapshots!RpcAnswers, Snapshots!RpcFails, Snapshots!Save, Snapshots!Release,
      Snapshots!Begin, Snapshots!SpawnRefresh, Snapshots!LeaveRefresh, Snapshots!Tick, lookupVars

(* A step that writes neither to memory nor to the database, and leaves who  *)
(* is about to, brings nothing newer.                                        *)
LEMMA NewerStays ==
    ASSUME Snapshots!TypeOK, NewerIsBrought, UNCHANGED <<snapshotCache, snapshotRows>>,
           \A p \in Pairs : lookupTasks[p].step = "persist" => lookupTasks'[p] = lookupTasks[p],
           \A p \in Pairs : lookupTasks'[p].step \in {"load", "stale"} =>
               \/ lookupTasks'[p] = lookupTasks[p]
               \/ /\ lookupTasks'[p].got \in Snapshots!Read(lookupTasks'[p].address)
                  /\ lookupTasks'[p].address \in Addresses
    PROVE  NewerIsBrought'
<1>1. ASSUME NEW p \in Pairs, lookupTasks'[p].step \in {"load", "stale"}
      PROVE  lookupTasks'[p].got.at <= snapshotRows'[lookupTasks'[p].address].at
  <2>1. CASE lookupTasks'[p] = lookupTasks[p]
    BY <1>1, <2>1 DEF NewerIsBrought
  <2>2. CASE /\ lookupTasks'[p].got \in Snapshots!Read(lookupTasks'[p].address)
             /\ lookupTasks'[p].address \in Addresses
    <3>1. PICK a \in Addresses : a = lookupTasks'[p].address
      BY <2>2
    <3>2. QED BY <2>2, <3>1, ReadTypes
  <2>3. QED BY <1>1, <2>1, <2>2
<1>2. \A a \in Addresses : Bringing(a) => Bringing(a)'
  BY DEF Bringing
<1>3. QED BY <1>1, <1>2 DEF NewerIsBrought

LEMMA NewerKept ==
    ASSUME Snapshots!TypeOK, LookupsPlaced, [Snapshots!Next]_lookupVars, NewerIsBrought
    PROVE  NewerIsBrought'
<1>1. \A a \in Addresses : /\ snapshotRows[a].at \in Int /\ snapshotRows'[a].at \in Int
                           /\ snapshotRows'[a].at >= snapshotRows[a].at
  BY LookupRowsGrow
<1>2. \A a \in Addresses : snapshotCache[a].at \in Int
  BY HeldTypes DEF Snapshots!TypeOK
<1>3. \A p \in Pairs : lookupTasks[p].got \in Snapshots!Snapshots /\ lookupTasks[p].got.at \in Int
  BY HeldTypes DEF Snapshots!TypeOK, Snapshots!Task, Pairs
<1>4. ASSUME NEW p \in Pairs,
             Snapshots!Load(p) \/ Snapshots!LoadStale(p) \/ Snapshots!Fetch(p)
      PROVE  NewerIsBrought'
  <2>1. /\ \A q \in Pairs : q # p => lookupTasks'[q] = lookupTasks[q]
        /\ lookupTasks'[p].address = lookupTasks[p].address
        /\ MoveOf(p) \in Moves(p)
    BY <1>4, OneMoves
  <2>2. lookupTasks[p].step # "idle" /\ lookupTasks'[p].step # "load"
    BY <2>1 DEF MoveOf, Moves, Snapshots!Done
  <2>3. PICK a \in Addresses : a = lookupTasks[p].address
    BY <2>2, Addressed DEF Snapshots!Address
  <2>4. CASE Snapshots!Save(p)
    <3>1. PICK got \in Snapshots!Snapshots :
             /\ got.at = lookupNow /\ got = [lookupTasks[p].got EXCEPT !.at = lookupNow]
      BY <1>3, HeldTypes
    <3>2. Snapshots!Hold(p, "persist", got) /\ snapshotRows' = snapshotRows
          /\ snapshotCache' = [snapshotCache EXCEPT ![a] = got]
      BY <2>3, <2>4, <3>1 DEF Snapshots!Save, Snapshots!Remember, Snapshots!Address
    <3>3. "persist" \in Snapshots!Steps
      BY DEF Snapshots!Steps
    <3>4. lookupTasks'[p].step = "persist" /\ lookupTasks'[p].got = got
      BY <3>2, <3>3, Holding
    <3>5. got.at \in Int /\ snapshotCache'[a] = got
          /\ \A b \in Addresses : b # a => snapshotCache'[b] = snapshotCache[b]
      BY <3>1, <3>2, HeldTypes DEF Snapshots!TypeOK
    <3>6. Bringing(a)'
      BY <2>1, <2>3, <3>4, <3>5 DEF Bringing
    <3>7. ASSUME NEW b \in Addresses, b # a, Bringing(b) PROVE Bringing(b)'
      BY <2>1, <2>3, <3>5, <3>7 DEF Bringing
    <3>8. \A q \in Pairs : lookupTasks'[q].step \in {"load", "stale"} =>
             lookupTasks'[q].got.at <= snapshotRows'[lookupTasks'[q].address].at
      BY <2>1, <3>2, <3>4 DEF NewerIsBrought
    <3>9. QED BY <3>2, <3>5, <3>6, <3>7, <3>8 DEF NewerIsBrought
  <2>5. CASE Snapshots!Persist(p)
    <3>1. snapshotRows' = [snapshotRows EXCEPT ![a] =
                              Snapshots!Merged(snapshotRows[a], lookupTasks[p].got)]
          /\ snapshotCache' = snapshotCache
      BY <2>3, <2>5 DEF Snapshots!Persist, Snapshots!Address
    <3>2. snapshotRows'[a].at >= lookupTasks[p].got.at
      <4>1. snapshotRows[a] \in Snapshots!Snapshots
            /\ snapshotRows'[a] = Snapshots!Merged(snapshotRows[a], lookupTasks[p].got)
        BY <3>1 DEF Snapshots!TypeOK
      <4>2. QED BY <1>3, <4>1, MergedType
    <3>3. ASSUME NEW b \in Addresses, snapshotCache'[b].at > snapshotRows'[b].at
          PROVE  Bringing(b)'
      <4>1. snapshotCache[b].at > snapshotRows[b].at
        BY <1>1, <1>2, <3>1, <3>3
      <4>2. PICK q \in Pairs : /\ lookupTasks[q].step = "persist" /\ lookupTasks[q].address = b
                               /\ lookupTasks[q].got.at >= snapshotCache[b].at
        BY <4>1 DEF NewerIsBrought, Bringing
      <4>3. q # p
        BY <1>1, <1>2, <1>3, <2>3, <3>1, <3>2, <3>3, <4>2
      <4>4. QED BY <2>1, <3>1, <4>2, <4>3 DEF Bringing
    <3>4. ASSUME NEW q \in Pairs, lookupTasks'[q].step \in {"load", "stale"}
          PROVE  lookupTasks'[q].got.at <= snapshotRows'[lookupTasks'[q].address].at
      <4>1. q # p
        BY <2>1, <2>5, <3>4 DEF MoveOf, Moves, Snapshots!Done, Snapshots!Persist, Snapshots!At
      <4>2. lookupTasks'[q] = lookupTasks[q]
        BY <2>1, <4>1
      <4>3. PICK b \in Addresses : b = lookupTasks[q].address
        BY <3>4, <4>2, Addressed DEF Snapshots!Address
      <4>4. lookupTasks[q].got.at <= snapshotRows[b].at
        BY <3>4, <4>2, <4>3 DEF NewerIsBrought
      <4>5. QED BY <1>1, <1>3, <4>2, <4>3, <4>4
    <3>5. QED BY <3>3, <3>4 DEF NewerIsBrought
  <2>6. CASE (Snapshots!Load(p) \/ Snapshots!LoadStale(p)) /\ ~ UNCHANGED snapshotCache
    <3>1. /\ snapshotCache' = [snapshotCache EXCEPT ![a] = lookupTasks[p].got]
          /\ snapshotRows' = snapshotRows /\ lookupTasks[p].step \in {"load", "stale"}
          /\ Snapshots!Go(p, "end") \/ Snapshots!Go(p, "launch")
      BY <2>3, <2>6
      DEF Snapshots!Load, Snapshots!LoadStale, Snapshots!Remember, Snapshots!Address, Snapshots!At
    <3>2. lookupTasks'[p].step \in {"end", "launch"}
      BY <3>1, Going DEF Snapshots!Steps
    <3>3. snapshotCache'[a].at <= snapshotRows'[a].at
      BY <2>3, <3>1 DEF NewerIsBrought, Snapshots!TypeOK
    <3>4. ASSUME NEW b \in Addresses, b # a, Bringing(b) PROVE Bringing(b)'
      <4>1. snapshotCache'[b] = snapshotCache[b]
        BY <3>1, <3>4 DEF Snapshots!TypeOK
      <4>2. QED BY <2>1, <2>3, <3>4, <4>1 DEF Bringing
    <3>5. \A b \in Addresses : b # a => snapshotCache'[b] = snapshotCache[b]
      BY <3>1 DEF Snapshots!TypeOK
    <3>6. ASSUME NEW b \in Addresses, snapshotCache'[b].at > snapshotRows'[b].at PROVE Bringing(b)'
      <4>1. b # a
        <5>1. snapshotCache'[a].at \in Int
          BY <1>3, <3>1 DEF Snapshots!TypeOK
        <5>2. QED BY <1>1, <3>3, <3>6, <5>1
      <4>2. QED BY <3>1, <3>4, <3>5, <3>6, <4>1 DEF NewerIsBrought
    <3>7. \A q \in Pairs : lookupTasks'[q].step \in {"load", "stale"} =>
             lookupTasks'[q].got.at <= snapshotRows'[lookupTasks'[q].address].at
      BY <2>1, <3>1, <3>2 DEF NewerIsBrought
    <3>8. QED BY <3>6, <3>7 DEF NewerIsBrought
  <2>7. CASE UNCHANGED snapshotCache /\ ~ Snapshots!Persist(p) /\ ~ Snapshots!Save(p)
    <3>1. UNCHANGED snapshotRows
      BY <1>4, <2>7
      DEF Snapshots!Load, Snapshots!LoadStale, Snapshots!Fetch, Snapshots!Choose,
          Snapshots!HeliusAnswers, Snapshots!HeliusLimits, Snapshots!HeliusFails,
          Snapshots!RpcAnswers, Snapshots!RpcFails, Snapshots!Release
    <3>2. lookupTasks[p].step # "persist"
      BY <1>4, <2>7
      DEF Snapshots!Load, Snapshots!LoadStale, Snapshots!Fetch, Snapshots!Choose,
          Snapshots!HeliusAnswers, Snapshots!HeliusLimits, Snapshots!HeliusFails,
          Snapshots!RpcAnswers, Snapshots!RpcFails, Snapshots!Release, Snapshots!At
    <3>3. ASSUME lookupTasks'[p].step = "stale"
          PROVE  lookupTasks'[p].got \in Snapshots!Read(a)
      <4>1. lookupTasks[p].step = "load"
        BY <2>1, <3>3 DEF MoveOf, Moves, Snapshots!Done
      <4>2. Snapshots!Load(p)
        BY <1>4, <4>1
        DEF Snapshots!LoadStale, Snapshots!Fetch, Snapshots!Choose,
            Snapshots!HeliusAnswers, Snapshots!HeliusLimits, Snapshots!HeliusFails,
            Snapshots!RpcAnswers, Snapshots!RpcFails, Snapshots!Save, Snapshots!Persist,
            Snapshots!Release, Snapshots!At
      <4>3. "end" \in Snapshots!Steps /\ "launch" \in Snapshots!Steps /\ "stale" \in Snapshots!Steps
        BY DEF Snapshots!Steps
      <4>4. ~ Snapshots!Go(p, "end") /\ ~ Snapshots!Go(p, "launch")
        BY <3>3, <4>3, Going
      <4>5. PICK row \in Snapshots!Read(a) : Snapshots!Hold(p, "stale", row)
        BY <2>3, <4>2, <4>4 DEF Snapshots!Load, Snapshots!Address
      <4>6. row \in Snapshots!Snapshots
        BY ReadTypes
      <4>7. QED BY <4>3, <4>5, <4>6, Holding
    <3>4. \A q \in Pairs : lookupTasks'[q].step \in {"load", "stale"} =>
             \/ lookupTasks'[q] = lookupTasks[q]
             \/ /\ lookupTasks'[q].got \in Snapshots!Read(lookupTasks'[q].address)
                /\ lookupTasks'[q].address \in Addresses
      BY <2>1, <2>2, <2>3, <3>3
    <3>5. QED BY <2>1, <2>7, <3>1, <3>2, <3>4, NewerStays
  <2>8. QED
    BY <1>4, <2>4, <2>5, <2>6, <2>7
    DEF Snapshots!Fetch, Snapshots!Choose, Snapshots!HeliusAnswers, Snapshots!HeliusLimits,
        Snapshots!HeliusFails, Snapshots!RpcAnswers, Snapshots!RpcFails, Snapshots!Release
<1>5. ASSUME NEW t \in Lookups, NEW a \in Addresses, Snapshots!Begin(t, a)
      PROVE  NewerIsBrought'
  <2>1. /\ \A q \in Pairs : q # <<t, "answer">> => lookupTasks'[q] = lookupTasks[q]
        /\ Answer(t).step = "idle" /\ Answer(t)'.address = a
        /\ Answer(t)'.got \in Snapshots!Read(a)
    BY <1>5, Beginning
  <2>2. UNCHANGED <<snapshotCache, snapshotRows>>
    BY <1>5 DEF Snapshots!Begin
  <2>3. QED BY <2>1, <2>2, NewerStays DEF Answer
<1>6. ASSUME NEW t \in Lookups, Snapshots!SpawnRefresh(t) PROVE NewerIsBrought'
  <2>1. /\ \A q \in Pairs : q \notin {<<t, "answer">>, <<t, "refresh">>}
                               => lookupTasks'[q] = lookupTasks[q]
        /\ Answer(t).step = "launch" /\ Answer(t)'.step = "end" /\ Refresh(t)'.step = "live"
    BY <1>6, Spawning
  <2>2. Refresh(t).step = "idle"
    BY <2>1 DEF LookupsPlaced
  <2>3. UNCHANGED <<snapshotCache, snapshotRows>>
    BY <1>6 DEF Snapshots!SpawnRefresh
  <2>4. \A q \in Pairs : /\ lookupTasks[q].step = "persist" => lookupTasks'[q] = lookupTasks[q]
                         /\ lookupTasks'[q].step \in {"load", "stale"}
                               => lookupTasks'[q] = lookupTasks[q]
    BY <2>1, <2>2 DEF Answer, Refresh
  <2>5. QED BY <2>3, <2>4, NewerStays
<1>7. ASSUME NEW t \in Lookups, Snapshots!LeaveRefresh(t) PROVE NewerIsBrought'
  <2>1. /\ \A q \in Pairs : q # <<t, "answer">> => lookupTasks'[q] = lookupTasks[q]
        /\ Answer(t).step = "launch" /\ Answer(t)'.step = "end"
    BY <1>7, Leaving
  <2>2. UNCHANGED <<snapshotCache, snapshotRows>>
    BY <1>7 DEF Snapshots!LeaveRefresh
  <2>3. QED BY <2>1, <2>2, NewerStays DEF Answer
<1>8. CASE Snapshots!Tick \/ UNCHANGED lookupVars
  BY <1>8, NewerStays DEF Snapshots!Tick, lookupVars
<1>9. QED BY <1>4, <1>5, <1>6, <1>7, <1>8, LookupSteps

SnapshotsInv == Snapshots!TypeOK /\ LookupsPlaced /\ OneWorking /\ NewerIsBrought

LEMMA SnapshotsInvInit == Snapshots!Init => SnapshotsInv
BY SnapshotsTypesInit, PlacesInit, OneWorkingInit, NewerInit DEF SnapshotsInv

LEMMA SnapshotsInvKept == SnapshotsInv /\ [Snapshots!Next]_lookupVars => SnapshotsInv'
BY LookupsTypesKept, PlacesKept, OneWorkingKept, NewerKept DEF SnapshotsInv

LEMMA SnapshotsInvShows ==
    SnapshotsInv => Snapshots!TypeOK /\ Snapshots!OneRefresh /\ Snapshots!NewerIsPersisting
<1>1. SnapshotsInv => Snapshots!TypeOK /\ Snapshots!OneRefresh
  BY OneWorkingShows DEF SnapshotsInv
<1>2. SnapshotsInv => Snapshots!NewerIsPersisting
  BY DEF SnapshotsInv, NewerIsBrought, Bringing, Snapshots!NewerIsPersisting, Pairs, Snapshots!At,
         Snapshots!Address
<1>3. QED BY <1>1, <1>2

-----------------------------------------------------------------------------
(* EntityGraph.                                                              *)

LinkTasks == [wallet : Graph!Wallet, rugs : 0..MaxRugs]

LEMMA WalletsFinite ==
    /\ IsFiniteSet(Graph!Wallet) /\ Cardinality(Graph!Wallet) \in Nat
    /\ \A ws \in SUBSET Graph!Wallet :
          /\ IsFiniteSet(ws) /\ Cardinality(ws) \in Nat
          /\ Cardinality(ws) <= Cardinality(Graph!Wallet)
          /\ Graph!Cardinality(ws) = Cardinality(ws)
<1>1. IsFiniteSet(Graph!Wallet)
  BY GraphAssumption, FS_Union DEF Graph!Wallet
<1>2. \A ws : Graph!Cardinality(ws) = Cardinality(ws)
  BY DEF Graph!Cardinality, Cardinality
<1>3. QED BY <1>1, <1>2, FS_Subset, FS_CardinalityType

LEMMA Charged ==
    ASSUME Graph!TypeOK
    PROVE  Graph!WorstRugs \in 0..MaxRugs
<1> DEFINE Bounds == {r \in 0..MaxRugs : \A c \in Graph!Stored(Creators) : profiles[c] <= r}
           Worst(r) == /\ r \in 0..MaxRugs
                       /\ \A c \in Graph!Stored(Creators) : profiles[c] <= r
                       /\ r = 0 \/ \E c \in Graph!Stored(Creators) : profiles[c] = r
<1>1. \A c \in Graph!Stored(Creators) : profiles[c] \in -1..MaxRugs /\ MaxRugs \in Nat
  BY GraphAssumption DEF Graph!Stored, Graph!TypeOK, Graph!Wallet, Graph!Unknown
<1>2. Bounds \in SUBSET Nat /\ MaxRugs \in Bounds
  BY <1>1, GraphAssumption
<1>3. PICK r \in Bounds : \A q \in Bounds : r <= q
  BY <1>2, Least
<1>4. ASSUME r # 0, \A c \in Graph!Stored(Creators) : profiles[c] # r PROVE FALSE
  <2>1. \A c \in Graph!Stored(Creators) : profiles[c] <= r - 1
    BY <1>1, <1>2, <1>3, <1>4
  <2>2. r - 1 \in Bounds
    BY <1>4, <2>1, GraphAssumption
  <2>3. QED BY <1>2, <1>3, <2>2
<1>5. Worst(r)
  BY <1>4
<1> HIDE DEF Worst
<1>6. Graph!WorstRugs = CHOOSE q \in 0..MaxRugs : Worst(q)
  BY DEF Graph!WorstRugs, Worst
<1>7. QED BY <1>5, <1>6 DEF Worst

(* Nothing is counted that has not been resolved: what a buyer's task has    *)
(* read is not more than there is, and a task adds one wallet.               *)
Unlinked == Len(linkTasks) - IF linkStep = "member" THEN 1 ELSE 0

LinksCounted ==
    /\ linkStep = "member" => linkTasks # <<>>
    /\ funderRead.wallets <= walletCount
    /\ walletCount + Unlinked <= resolved + Cardinality(Graph!Wallet)

LEMMA GraphTypesInit == Graph!Init => Graph!TypeOK /\ LinksCounted
<1> SUFFICES ASSUME Graph!Init PROVE Graph!TypeOK /\ LinksCounted
  OBVIOUS
<1>1. /\ MaxRugs \in Nat /\ MaxTasks \in Nat /\ MaxRestarts \in Nat
      /\ Cardinality(Graph!Wallet) \in Nat
      /\ Graph!Cardinality(Graph!Wallet) = Cardinality(Graph!Wallet)
  BY GraphAssumption, LaunchesAssumption, WalletsFinite
<1>2. /\ profiles \in [Graph!Wallet -> Graph!Unknown..MaxRugs]
      /\ members \in [Graph!Wallet -> {0, 50, 100}]
  BY <1>1 DEF Graph!Init, Graph!Unknown
<1>3. linkTasks = <<>> /\ linkTasks \in Seq([wallet : Graph!Wallet, rugs : 0..MaxRugs])
  BY DEF Graph!Init
<1>4. /\ linkStep = "read" /\ linkStep \in Graph!Steps
      /\ funderRead = [wallets |-> 0, rugs |-> 0]
      /\ walletCount = 0 /\ resolved = 0 /\ failed \in BOOLEAN /\ forgotten \in SUBSET Graph!Wallet
  BY DEF Graph!Init, Graph!Steps, Graph!NoRow
<1>5. /\ funderRead \in [wallets : Nat, rugs : 0..MaxRugs]
      /\ walletCount \in 0..(MaxTasks + Graph!Cardinality(Graph!Wallet))
      /\ resolved \in 0..MaxTasks /\ graphStarts \in 0..MaxRestarts /\ rugExposure \in 0..MaxRugs
  BY <1>1, <1>4 DEF Graph!Init
<1>6. Unlinked = 0
  BY <1>3, <1>4 DEF Unlinked
<1>7. LinksCounted
  BY <1>1, <1>3, <1>4, <1>6 DEF LinksCounted
<1>8. QED BY <1>2, <1>3, <1>4, <1>5, <1>7 DEF Graph!TypeOK

LEMMA GraphTasks ==
    ASSUME Graph!TypeOK
    PROVE  /\ linkTasks \in Seq(LinkTasks) /\ Len(linkTasks) \in Nat
           /\ \A i \in 1..Len(linkTasks) : linkTasks[i] \in LinkTasks
           /\ linkTasks # <<>> =>
                 /\ Len(linkTasks) >= 1
                 /\ Graph!Task = linkTasks[1] /\ Graph!Task \in LinkTasks
                 /\ Graph!Task.wallet \in Graph!Wallet /\ Graph!Task.rugs \in 0..MaxRugs
                 /\ Tail(linkTasks) \in Seq(LinkTasks)
                 /\ Len(Tail(linkTasks)) = Len(linkTasks) - 1
                 /\ \A i \in 1..(Len(linkTasks) - 1) : Tail(linkTasks)[i] = linkTasks[i + 1]
<1>1. linkTasks \in Seq(LinkTasks)
  BY DEF Graph!TypeOK, LinkTasks
<1>2. linkTasks # <<>> => /\ Len(linkTasks) >= 1 /\ Graph!Task = linkTasks[1]
                          /\ linkTasks[1] \in LinkTasks
  BY <1>1 DEF Graph!Task
<1>3. linkTasks # <<>> => /\ Tail(linkTasks) \in Seq(LinkTasks)
                          /\ Len(Tail(linkTasks)) = Len(linkTasks) - 1
                          /\ \A i \in 1..(Len(linkTasks) - 1) : Tail(linkTasks)[i] = linkTasks[i + 1]
  BY <1>1, HeadTailProperties
<1>4. Len(linkTasks) \in Nat /\ \A i \in 1..Len(linkTasks) : linkTasks[i] \in LinkTasks
  BY <1>1, ElementOfSeq
<1>5. \A task \in LinkTasks : task.wallet \in Graph!Wallet /\ task.rugs \in 0..MaxRugs
  BY DEF LinkTasks
<1>6. QED BY <1>1, <1>2, <1>3, <1>4, <1>5

(* A count of wallets, of tasks still to be linked and of profiles resolved. *)
WithinBudget(count, left, done) ==
    /\ count \in Nat /\ left \in Nat /\ done \in 0..MaxTasks
    /\ count + left <= done + Cardinality(Graph!Wallet)

LEMMA Budgeted ==
    ASSUME NEW count, NEW left, NEW done, WithinBudget(count, left, done)
    PROVE  /\ count \in Nat /\ left \in Nat /\ done \in 0..MaxTasks
           /\ count + left <= done + Cardinality(Graph!Wallet)
           /\ count \in 0..(MaxTasks + Cardinality(Graph!Wallet))
<1>1. PICK size \in Nat : size = Cardinality(Graph!Wallet)
  BY WalletsFinite
<1>2. count \in Nat /\ left \in Nat /\ done \in 0..MaxTasks /\ count + left <= done + size
  BY <1>1 DEF WithinBudget
<1>3. count \in 0..(MaxTasks + size)
  BY <1>2, GraphAssumption
<1>4. QED BY <1>1, <1>2, <1>3

(* A wallet counted for a task, a task for a profile. *)
LEMMA BudgetMoves ==
    ASSUME NEW count, NEW left, NEW done, WithinBudget(count, left, done)
    PROVE  /\ done < MaxTasks => /\ WithinBudget(count, left + 1, done + 1)
                                 /\ WithinBudget(count, left, done + 1)
           /\ \A next \in Nat : left >= 1 /\ next <= count + 1 => WithinBudget(next, left - 1, done)
           /\ \A m \in Nat, n \in Nat :
                 m <= Cardinality(Graph!Wallet) /\ n <= Cardinality(Graph!Wallet) =>
                     WithinBudget(Graph!Greater(count, Graph!Greater(m, n)), 0, done)
           /\ WithinBudget(count, 0, done)
<1>1. PICK size \in Nat : size = Cardinality(Graph!Wallet)
  BY WalletsFinite
<1>2. count \in Nat /\ left \in Nat /\ done \in 0..MaxTasks /\ count + left <= done + size
  BY <1>1 DEF WithinBudget
<1>3. \A k \in Nat, u \in Nat, n \in 0..MaxTasks : k + u <= n + size => WithinBudget(k, u, n)
  BY <1>1 DEF WithinBudget
<1>4. done < MaxTasks => /\ WithinBudget(count, left + 1, done + 1)
                         /\ WithinBudget(count, left, done + 1)
  BY <1>2, <1>3, GraphAssumption
<1>5. ASSUME NEW next \in Nat, left >= 1, next <= count + 1
      PROVE  WithinBudget(next, left - 1, done)
  BY <1>2, <1>3, <1>5, GraphAssumption
<1>6. ASSUME NEW m \in Nat, NEW n \in Nat, m <= size, n <= size
      PROVE  WithinBudget(Graph!Greater(count, Graph!Greater(m, n)), 0, done)
  <2>1. Graph!Greater(m, n) \in Nat /\ Graph!Greater(m, n) <= size
    BY <1>6 DEF Graph!Greater
  <2>2. PICK k \in Nat : k = Graph!Greater(count, Graph!Greater(m, n)) /\ k <= done + size
    BY <1>2, <2>1, GraphAssumption DEF Graph!Greater
  <2>3. k + 0 <= done + size
    BY <1>2, <2>2, GraphAssumption
  <2>4. QED BY <1>2, <1>3, <2>2, <2>3
<1>7. WithinBudget(count, 0, done)
  BY <1>2, <1>3, GraphAssumption
<1>8. QED BY <1>1, <1>4, <1>5, <1>6, <1>7

LEMMA GraphTypesKept ==
    ASSUME Graph!TypeOK, LinksCounted, [Graph!Next]_graphVars
    PROVE  Graph!TypeOK' /\ LinksCounted'
<1>1. PICK size \in Nat :
         size = Cardinality(Graph!Wallet) /\ size = Graph!Cardinality(Graph!Wallet)
  BY WalletsFinite
<1>2. MaxRugs \in Nat /\ MaxTasks \in Nat /\ MaxRestarts \in Nat /\ size \in Nat
  BY <1>1, GraphAssumption, LaunchesAssumption
<1>3. /\ profiles \in [Graph!Wallet -> Graph!Unknown..MaxRugs]
      /\ linkStep \in {"read", "funder", "member"}
      /\ funderRead \in [wallets : Nat, rugs : 0..MaxRugs]
      /\ walletCount \in 0..(MaxTasks + size)
      /\ rugExposure \in 0..MaxRugs
      /\ members \in [Graph!Wallet -> {0, 50, 100}]
      /\ resolved \in 0..MaxTasks
      /\ graphStarts \in 0..MaxRestarts
  BY <1>1 DEF Graph!TypeOK, Graph!Steps
<1>4. failed' \in BOOLEAN /\ forgotten' \in SUBSET Graph!Wallet
  <2>1. failed' \in BOOLEAN
    BY Zenon
    DEF Graph!TypeOK, Graph!Next, Graph!Resolve, Graph!ResolveUnfunded, Graph!Read,
        Graph!LinkFunder, Graph!LinkMember, Graph!Restart, graphVars
  <2>2. forgotten' = forgotten \/ \E w \in Graph!Wallet : forgotten' = forgotten \cup {w}
    BY Zenon
    DEF Graph!Next, Graph!Resolve, Graph!ResolveUnfunded, Graph!Read, Graph!LinkFunder,
        Graph!LinkMember, Graph!Restart, graphVars
  <2>3. QED BY <2>1, <2>2 DEF Graph!TypeOK
<1>5. SUFFICES /\ profiles' \in [Graph!Wallet -> Graph!Unknown..MaxRugs]
               /\ linkTasks' \in Seq(LinkTasks)
               /\ linkStep' \in {"read", "funder", "member"}
               /\ linkStep' = "member" => linkTasks' # <<>>
               /\ funderRead' \in [wallets : Nat, rugs : 0..MaxRugs]
               /\ funderRead'.wallets <= walletCount'
               /\ WithinBudget(walletCount', Unlinked', resolved')
               /\ rugExposure' \in 0..MaxRugs
               /\ members' \in [Graph!Wallet -> {0, 50, 100}]
               /\ graphStarts' \in 0..MaxRestarts
  <2>1. /\ walletCount' \in 0..(MaxTasks + Cardinality(Graph!Wallet)) /\ resolved' \in 0..MaxTasks
        /\ walletCount' + Unlinked' <= resolved' + Cardinality(Graph!Wallet)
    BY <1>5, Budgeted
  <2>2. QED BY <1>1, <1>4, <1>5, <2>1 DEF Graph!TypeOK, LinksCounted, LinkTasks, Graph!Steps
<1>6. PICK count, left, done :
         /\ count = walletCount /\ left = Unlinked /\ done = resolved
         /\ WithinBudget(count, left, done) /\ count \in Nat /\ left \in Nat
         /\ linkTasks \in Seq(LinkTasks) /\ Len(linkTasks) \in Nat
         /\ linkStep = "member" => linkTasks # <<>>
         /\ funderRead.wallets \in Nat /\ funderRead.rugs \in 0..MaxRugs
         /\ funderRead.wallets <= count
  <2>1. linkTasks \in Seq(LinkTasks) /\ Len(linkTasks) \in Nat
    BY GraphTasks
  <2>2. linkStep = "member" => linkTasks # <<>>
    BY DEF LinksCounted
  <2>3. Unlinked \in Nat
    BY <2>1, <2>2 DEF Unlinked
  <2>4. walletCount \in Nat /\ resolved \in 0..MaxTasks
    BY <1>2, <1>3
  <2>5. WithinBudget(walletCount, Unlinked, resolved)
    BY <2>3, <2>4 DEF LinksCounted, WithinBudget
  <2>6. QED BY <1>3, <2>1, <2>2, <2>3, <2>4, <2>5 DEF LinksCounted
<1>7. ASSUME NEW w \in Graph!Wallet, Graph!Resolve(w)
      PROVE  /\ profiles' \in [Graph!Wallet -> Graph!Unknown..MaxRugs]
             /\ linkTasks' \in Seq(LinkTasks) /\ Len(linkTasks') = Len(linkTasks) + 1
             /\ linkTasks' # <<>>
             /\ resolved' = resolved + 1 /\ resolved' \in 0..MaxTasks
             /\ UNCHANGED <<linkStep, funderRead, walletCount, rugExposure, members, graphStarts>>
  <2>1. PICK r \in 0..MaxRugs :
           /\ profiles' = [profiles EXCEPT ![w] = r] \/ UNCHANGED profiles
           /\ linkTasks' = Append(linkTasks, [wallet |-> w, rugs |-> r])
    BY <1>2, <1>7 DEF Graph!Resolve
  <2>2. [wallet |-> w, rugs |-> r] \in LinkTasks
    BY DEF LinkTasks
  <2>3. /\ linkTasks' \in Seq(LinkTasks) /\ Len(linkTasks') = Len(linkTasks) + 1
        /\ linkTasks' # <<>>
    BY <1>6, <2>1, <2>2, AppendProperties
  <2>4. r \in Graph!Unknown..MaxRugs
    BY <1>2 DEF Graph!Unknown
  <2>5. profiles' \in [Graph!Wallet -> Graph!Unknown..MaxRugs]
    BY <1>2, <1>3, <2>1, <2>4 DEF Graph!Unknown
  <2>6. QED BY <1>2, <1>3, <1>7, <2>3, <2>5 DEF Graph!Resolve
<1>8. CASE \E w \in Graph!Wallet : Graph!Resolve(w)
  <2>1. PICK w \in Graph!Wallet : Graph!Resolve(w)
    BY <1>8
  <2>2. left + 1 = Unlinked'
    BY <1>6, <1>7, <2>1 DEF Unlinked
  <2>3. done + 1 = resolved' /\ done < MaxTasks
    BY <1>6, <1>7, <2>1 DEF Graph!Resolve
  <2>4. WithinBudget(count, left + 1, done + 1)
    BY <1>6, <2>3, BudgetMoves
  <2>5. WithinBudget(walletCount', Unlinked', resolved')
    BY <1>6, <1>7, <2>1, <2>2, <2>3, <2>4
  <2>6. QED BY <1>3, <1>6, <1>7, <2>1, <2>5
<1>15. CASE \E w \in Graph!Wallet : Graph!ResolveUnfunded(w)
  <2>1. PICK w \in Graph!Wallet : Graph!ResolveUnfunded(w)
    BY <1>15
  <2>2. /\ profiles' = [profiles EXCEPT ![w] = Graph!Unknown] /\ Graph!Unknown \in Graph!Unknown..MaxRugs
        /\ resolved' = resolved + 1 /\ resolved < MaxTasks
        /\ UNCHANGED <<linkTasks, linkStep, funderRead, walletCount, rugExposure, members, graphStarts>>
    BY <1>2, <2>1 DEF Graph!ResolveUnfunded, Graph!Unknown
  <2>3. left = Unlinked' /\ done + 1 = resolved' /\ done < MaxTasks /\ count = walletCount'
    BY <1>6, <2>2 DEF Unlinked
  <2>4. WithinBudget(count, left, done + 1)
    BY <1>6, <2>3, BudgetMoves
  <2>5. WithinBudget(walletCount', Unlinked', resolved')
    BY <2>3, <2>4
  <2>6. QED BY <1>3, <1>6, <2>2, <2>5
<1>9. CASE Graph!Read
  <2>1. /\ funderRead' = [wallets |-> walletCount, rugs |-> rugExposure]
           \/ funderRead' = [wallets |-> 0, rugs |-> 0]
        /\ linkStep = "read" /\ linkStep' = "funder"
        /\ UNCHANGED <<profiles, linkTasks, walletCount, rugExposure, members, resolved, graphStarts>>
    BY <1>9 DEF Graph!Read, Graph!NoRow
  <2>2. left = Unlinked'
    BY <1>6, <2>1 DEF Unlinked
  <2>3. WithinBudget(walletCount', Unlinked', resolved')
    BY <1>6, <2>1, <2>2
  <2>4. funderRead' \in [wallets : Nat, rugs : 0..MaxRugs] /\ funderRead'.wallets <= walletCount'
    BY <1>2, <1>3, <1>6, <2>1
  <2>5. QED BY <1>3, <1>6, <2>1, <2>3, <2>4
<1>10. CASE Graph!LinkFunder
  <2>1. /\ linkTasks # <<>> /\ linkStep = "funder" /\ linkStep' = "member"
        /\ UNCHANGED <<profiles, linkTasks, funderRead, members, resolved, graphStarts>>
    BY <1>10 DEF Graph!LinkFunder
  <2>2. left - 1 = Unlinked' /\ left >= 1
    BY <1>6, <2>1, GraphTasks DEF Unlinked
  <2>3. Graph!Counted \in Nat /\ Graph!Counted <= count + 1
    BY <1>6 DEF Graph!Counted
  <2>4. PICK next \in Nat : next = walletCount' /\ next >= count /\ next <= count + 1
    BY <1>6, <1>10, <2>3 DEF Graph!LinkFunder, Graph!UpsertFunder, Graph!Greater
  <2>5. rugExposure' \in 0..MaxRugs
    BY <1>3, <1>6, <1>10, GraphTasks DEF Graph!LinkFunder, Graph!UpsertFunder, Graph!Greater
  <2>6. funderRead'.wallets <= walletCount'
    BY <1>6, <2>1, <2>4
  <2>7. WithinBudget(next, left - 1, done)
    BY <1>6, <2>2, <2>4, BudgetMoves
  <2>8. WithinBudget(walletCount', Unlinked', resolved')
    BY <1>6, <2>1, <2>2, <2>4, <2>7
  <2>9. QED BY <1>3, <1>6, <2>1, <2>5, <2>6, <2>8
<1>11. CASE Graph!LinkMember
  <2>1. /\ linkTasks # <<>> /\ linkStep = "member" /\ linkStep' = "read"
        /\ linkTasks' = Tail(linkTasks) /\ funderRead' = [wallets |-> 0, rugs |-> 0]
        /\ UNCHANGED <<profiles, walletCount, rugExposure, resolved, graphStarts>>
    BY <1>11 DEF Graph!LinkMember, Graph!NoRow
  <2>2. linkTasks' \in Seq(LinkTasks) /\ Len(linkTasks') = Len(linkTasks) - 1
    BY <2>1, GraphTasks
  <2>3. left = Unlinked'
    BY <1>6, <2>1, <2>2 DEF Unlinked
  <2>4. members' \in [Graph!Wallet -> {0, 50, 100}]
    <3>1. PICK w \in Graph!Wallet : w = Graph!Task.wallet
      BY <2>1, GraphTasks
    <3>2. \/ members' = [members EXCEPT ![w] = Graph!Greater(members[w], Graph!Score(w))]
          \/ UNCHANGED members
      BY <1>11, <3>1 DEF Graph!LinkMember
    <3>3. Graph!Greater(members[w], Graph!Score(w)) \in {0, 50, 100}
      BY <1>3 DEF Graph!Greater, Graph!Score
    <3>4. QED BY <1>3, <3>2, <3>3
  <2>5. WithinBudget(walletCount', Unlinked', resolved')
    BY <1>6, <2>1, <2>3
  <2>6. funderRead' \in [wallets : Nat, rugs : 0..MaxRugs] /\ funderRead'.wallets <= walletCount'
    BY <1>2, <1>6, <2>1
  <2>7. QED BY <1>3, <2>1, <2>2, <2>4, <2>5, <2>6
<1>12. CASE Graph!Restart
  <2>1. /\ linkTasks' = <<>> /\ linkStep' = "read" /\ funderRead' = [wallets |-> 0, rugs |-> 0]
        /\ graphStarts' \in 0..MaxRestarts
        /\ UNCHANGED <<profiles, resolved>>
        /\ Graph!Backfill \/ UNCHANGED <<walletCount, rugExposure, members>>
    BY <1>2, <1>3, <1>12 DEF Graph!Restart, Graph!NoRow
  <2>2. Unlinked' = 0
    BY <2>1 DEF Unlinked
  <2>3. PICK m \in Nat, n \in Nat :
           /\ m = Graph!Cardinality(Graph!Stored(Buyers)) /\ m <= Cardinality(Graph!Wallet)
           /\ n = Graph!Cardinality(Graph!Stored(Creators)) /\ n <= Cardinality(Graph!Wallet)
    <3>1. Graph!Stored(Buyers) \in SUBSET Graph!Wallet /\ Graph!Stored(Creators) \in SUBSET Graph!Wallet
      BY DEF Graph!Stored, Graph!Wallet
    <3>2. QED BY <1>1, <3>1, WalletsFinite
  <2>4. Graph!WorstRugs \in 0..MaxRugs
    BY Charged
  <2>5. ASSUME Graph!Backfill
        PROVE  /\ WithinBudget(walletCount', Unlinked', resolved')
               /\ rugExposure' \in 0..MaxRugs /\ members' \in [Graph!Wallet -> {0, 50, 100}]
    <3>1. walletCount' = Graph!Greater(walletCount, Graph!Greater(m, n))
          /\ rugExposure' = Graph!Greater(rugExposure, Graph!WorstRugs)
          /\ members' = [w \in Graph!Wallet |-> IF w \in Graph!Stored(Graph!Wallet)
                                               THEN Graph!Greater(members[w], Graph!Score(w))
                                               ELSE members[w]]
      BY <2>3, <2>5 DEF Graph!Backfill
    <3>2. WithinBudget(walletCount', Unlinked', resolved')
      BY <1>6, <2>1, <2>2, <2>3, <3>1, BudgetMoves
    <3>3. rugExposure' \in 0..MaxRugs
      BY <1>3, <2>4, <3>1 DEF Graph!Greater
    <3>4. members' \in [Graph!Wallet -> {0, 50, 100}]
      BY <1>3, <3>1 DEF Graph!Greater, Graph!Score
    <3>5. QED BY <3>2, <3>3, <3>4
  <2>6. ASSUME UNCHANGED <<walletCount, rugExposure, members>>
        PROVE  /\ WithinBudget(walletCount', Unlinked', resolved')
               /\ rugExposure' \in 0..MaxRugs /\ members' \in [Graph!Wallet -> {0, 50, 100}]
    <3>1. WithinBudget(walletCount', Unlinked', resolved')
      BY <1>6, <2>1, <2>2, <2>6, BudgetMoves
    <3>2. QED BY <1>3, <2>6, <3>1
  <2>7. QED
    <3>1. ASSUME WithinBudget(walletCount', Unlinked', resolved')
          PROVE  /\ linkTasks' \in Seq(LinkTasks)
                 /\ funderRead' \in [wallets : Nat, rugs : 0..MaxRugs]
                 /\ funderRead'.wallets <= walletCount'
      <4>1. walletCount' \in Nat
        BY <3>1, Budgeted
      <4>2. QED BY <1>2, <2>1, <4>1
    <3>2. QED BY <1>3, <2>1, <2>5, <2>6, <3>1
<1>13. CASE UNCHANGED graphVars
  <2>1. left = Unlinked'
    BY <1>6, <1>13 DEF graphVars, Unlinked
  <2>2. WithinBudget(walletCount', Unlinked', resolved')
    BY <1>6, <1>13, <2>1 DEF graphVars
  <2>3. QED BY <1>3, <1>6, <1>13, <2>2 DEF graphVars
<1>14. QED BY <1>8, <1>9, <1>10, <1>11, <1>12, <1>13, <1>15 DEF Graph!Next

(* A buyer who is linked, or queued to be, has his funder in his row or has  *)
(* had it there, unless a statement failed; what a buyer's task has read     *)
(* covers the buyers already linked, and what it has written him as well.    *)
Linked == {b \in Buyers : members[b] > 0} \ forgotten

Traced(w) == w \in Buyers => profiles[w] # Graph!Unknown \/ w \in forgotten

LinkedStored ==
    /\ \A i \in 1..Len(linkTasks) : Traced(linkTasks[i].wallet)
    /\ \A w \in Graph!Wallet : members[w] > 0 => Traced(w)

LinkedCounted ==
    /\ walletCount >= Cardinality(Linked)
    /\ linkTasks # <<>> /\ Graph!Task.wallet \in Buyers =>
          /\ linkStep = "funder" => funderRead.wallets >= Cardinality(Linked)
          /\ linkStep = "member" => walletCount >= Cardinality(Linked \cup {Graph!Task.wallet})

BuyersCovered ==
    /\ linkStep # "read" => linkTasks # <<>>
    /\ ~ failed => LinkedStored /\ LinkedCounted

LEMMA CoveredInit == Graph!Init => BuyersCovered
<1> SUFFICES ASSUME Graph!Init PROVE BuyersCovered
  OBVIOUS
<1>1. Linked = {}
  BY DEF Graph!Init, Linked, Graph!Wallet
<1>2. Cardinality(Linked) = 0
  BY <1>1, FS_EmptySet
<1>3. QED BY <1>2 DEF Graph!Init, BuyersCovered, LinkedStored, LinkedCounted

LEMMA CoveredShows == Graph!TypeOK /\ BuyersCovered => CountCoversBuyers
<1> SUFFICES ASSUME BuyersCovered, ~ failed
             PROVE  walletCount >= Graph!Cardinality(Linked)
  BY DEF CountCoversBuyers, Graph!CountCoversBuyers, Linked
<1>1. Graph!Cardinality(Linked) = Cardinality(Linked)
  BY WalletsFinite DEF Linked, Graph!Wallet
<1>2. QED BY <1>1 DEF BuyersCovered, LinkedCounted

(* A wallet more is one more at most. *)
LEMMA OneMore ==
    ASSUME NEW ws \in SUBSET Graph!Wallet, NEW w \in Graph!Wallet
    PROVE  /\ Cardinality(ws) \in Nat /\ Cardinality(ws \cup {w}) \in Nat
           /\ Cardinality(ws \cup {w}) <= Cardinality(ws) + 1
<1>1. IsFiniteSet(ws) /\ Cardinality(ws) \in Nat
  BY WalletsFinite
<1>2. CASE w \in ws
  <2>1. ws \cup {w} = ws
    BY <1>2
  <2>2. QED BY <1>1, <2>1
<1>3. CASE w \notin ws
  <2>1. Cardinality(ws \cup {w}) = Cardinality(ws) + 1
    BY <1>1, <1>3, FS_AddElement
  <2>2. QED BY <1>1, <2>1
<1>4. QED BY <1>2, <1>3

LEMMA CoveredKept ==
    ASSUME Graph!TypeOK, Graph!TypeOK', LinksCounted, [Graph!Next]_graphVars, BuyersCovered
    PROVE  BuyersCovered'
<1>1. linkStep' # "read" => linkTasks' # <<>>
  <2>1. CASE \E w \in Graph!Wallet : Graph!Resolve(w)
    <3>1. PICK w \in Graph!Wallet : Graph!Resolve(w)
      BY <2>1
    <3>2. PICK r \in 0..MaxRugs : linkTasks' = Append(linkTasks, [wallet |-> w, rugs |-> r])
      <4>1. 0 \in 0..MaxRugs
        BY GraphAssumption
      <4>2. QED BY <3>1, <4>1 DEF Graph!Resolve
    <3>3. [wallet |-> w, rugs |-> r] \in LinkTasks /\ linkTasks \in Seq(LinkTasks)
      BY GraphTasks DEF LinkTasks
    <3>4. QED BY <3>2, <3>3, AppendProperties
  <2>2. CASE \/ Graph!Read \/ Graph!LinkFunder \/ UNCHANGED graphVars
             \/ \E w \in Graph!Wallet : Graph!ResolveUnfunded(w)
    BY <2>2 DEF Graph!Read, Graph!LinkFunder, Graph!ResolveUnfunded, graphVars, BuyersCovered
  <2>3. CASE Graph!LinkMember \/ Graph!Restart
    BY <2>3 DEF Graph!LinkMember, Graph!Restart
  <2>4. QED BY <2>1, <2>2, <2>3 DEF Graph!Next
<1>2. ASSUME ~ failed' PROVE LinkedStored' /\ LinkedCounted'
  <2>1. ~ failed
    BY Zenon, <1>2
    DEF Graph!Next, Graph!Resolve, Graph!ResolveUnfunded, Graph!Read, Graph!LinkFunder,
        Graph!LinkMember, Graph!Restart, graphVars
  <2>2. LinkedStored /\ LinkedCounted
    BY <2>1 DEF BuyersCovered
  <2>3. /\ Linked \in SUBSET Graph!Wallet /\ Cardinality(Linked) \in Nat
        /\ profiles \in [Graph!Wallet -> -1..MaxRugs]
        /\ members \in [Graph!Wallet -> {0, 50, 100}]
        /\ walletCount \in Nat /\ funderRead.wallets \in Nat
        /\ Graph!Unknown = -1
    <3>1. Linked \in SUBSET Graph!Wallet
      BY DEF Linked, Graph!Wallet
    <3>2. PICK size \in Nat : size = Graph!Cardinality(Graph!Wallet)
      BY WalletsFinite
    <3>3. walletCount \in 0..(MaxTasks + size)
      BY <3>2 DEF Graph!TypeOK
    <3>4. walletCount \in Nat
      BY <3>3, GraphAssumption
    <3>5. QED BY <3>1, <3>4, WalletsFinite DEF Graph!TypeOK, Graph!Unknown
  <2>4. ASSUME UNCHANGED <<members, forgotten>> PROVE Linked' = Linked
    BY <2>4 DEF Linked
  <2>5. CASE \E w \in Graph!Wallet : Graph!Resolve(w)
    <3>1. PICK w \in Graph!Wallet : Graph!Resolve(w)
      BY <2>5
    <3>2. PICK r \in 0..MaxRugs :
             /\ profiles' = [profiles EXCEPT ![w] = r] \/ (w \notin Buyers /\ UNCHANGED profiles)
             /\ linkTasks' = Append(linkTasks, [wallet |-> w, rugs |-> r])
      <4>1. 0 \in 0..MaxRugs
        BY GraphAssumption
      <4>2. QED BY <3>1, <4>1 DEF Graph!Resolve
    <3>3. UNCHANGED <<linkStep, funderRead, walletCount, members, forgotten>>
      BY <3>1 DEF Graph!Resolve
    <3>4. PICK n \in Nat : n = Len(linkTasks)
      BY GraphTasks
    <3>5. /\ Len(linkTasks') = n + 1
          /\ \A i \in 1..n : linkTasks'[i] = linkTasks[i] /\ linkTasks[i].wallet \in Graph!Wallet
          /\ linkTasks'[n + 1].wallet = w
      <4>1. [wallet |-> w, rugs |-> r] \in LinkTasks /\ linkTasks \in Seq(LinkTasks)
        BY GraphTasks DEF LinkTasks
      <4>2. \A i \in 1..n : linkTasks[i].wallet \in Graph!Wallet
        BY <3>4, GraphTasks DEF LinkTasks
      <4>3. QED BY <3>2, <3>4, <4>1, <4>2, AppendProperties
    <3>6. \A v \in Graph!Wallet : Traced(v) => Traced(v)'
      <4>1. \A v \in Graph!Wallet : profiles[v] # -1 => profiles'[v] # -1
        BY <2>3, <3>2, GraphAssumption
      <4>2. QED BY <2>3, <3>3, <4>1 DEF Traced
    <3>7. Traced(w)'
      BY <2>3, <3>2, GraphAssumption DEF Traced
    <3>8. ASSUME NEW i \in 1..(n + 1) PROVE Traced(linkTasks[i].wallet)'
      <4>1. CASE i \in 1..n
        <5>1. Traced(linkTasks[i].wallet)
          BY <2>2, <3>4, <4>1 DEF LinkedStored
        <5>2. PICK v \in Graph!Wallet : v = linkTasks[i].wallet /\ v = linkTasks'[i].wallet
          BY <3>5, <4>1
        <5>3. Traced(v)'
          BY <3>6, <5>1, <5>2
        <5>4. QED BY <5>2, <5>3 DEF Traced
      <4>2. CASE i = n + 1
        BY <3>5, <3>7, <4>2 DEF Traced
      <4>3. QED BY <4>1, <4>2
    <3>9. LinkedStored'
      BY <2>2, <2>3, <3>3, <3>5, <3>6, <3>8 DEF LinkedStored
    <3>10. linkStep # "read" => linkTasks # <<>> /\ linkTasks'[1] = linkTasks[1]
      BY <3>4, <3>5, GraphTasks DEF BuyersCovered
    <3>11. linkStep # "read" => Graph!Task' = Graph!Task
      <4>1. linkTasks' \in Seq(LinkTasks) /\ linkTasks' # <<>> /\ linkTasks \in Seq(LinkTasks)
        BY <3>4, <3>5, GraphTasks DEF Graph!TypeOK, LinkTasks
      <4>2. QED BY <3>10, <4>1 DEF Graph!Task
    <3>12. LinkedCounted'
      BY <2>2, <2>4, <3>3, <3>10, <3>11 DEF LinkedCounted
    <3>13. QED BY <3>9, <3>12
  <2>12. CASE \E w \in Graph!Wallet : Graph!ResolveUnfunded(w)
    <3>1. PICK w \in Graph!Wallet : Graph!ResolveUnfunded(w)
      BY <2>12
    <3>2. /\ UNCHANGED <<linkTasks, linkStep, funderRead, walletCount, members>>
          /\ profiles' = [profiles EXCEPT ![w] = Graph!Unknown]
          /\ forgotten' = IF profiles[w] = Graph!Unknown THEN forgotten ELSE forgotten \cup {w}
      BY <3>1 DEF Graph!ResolveUnfunded
    <3>3. \A v : Traced(v) => Traced(v)'
      <4>1. \A v : v \in Buyers => v \in Graph!Wallet
        BY DEF Graph!Wallet
      <4>2. QED BY <2>3, <3>2, <4>1 DEF Traced
    <3>4. LinkedStored'
      <4>1. ASSUME NEW i \in 1..Len(linkTasks) PROVE Traced(linkTasks[i].wallet)'
        <5>1. PICK v : v = linkTasks[i].wallet /\ v = linkTasks'[i].wallet
          BY <3>2
        <5>2. Traced(v)'
          BY <2>2, <3>3, <5>1 DEF LinkedStored
        <5>3. QED BY <5>1, <5>2 DEF Traced
      <4>2. QED BY <2>2, <3>2, <3>3, <4>1 DEF LinkedStored
    <3>5. Graph!Task' = Graph!Task
      BY <3>2 DEF Graph!Task
    <3>6. Linked' \in SUBSET Linked
      BY <3>2 DEF Linked
    <3>7. PICK ws \in SUBSET Linked : ws = Linked'
      BY <3>6
    <3>8. \A v \in Graph!Wallet :
             /\ Cardinality(ws) \in Nat /\ Cardinality(ws) <= Cardinality(Linked)
             /\ Cardinality(ws \cup {v}) \in Nat /\ Cardinality(Linked \cup {v}) \in Nat
             /\ Cardinality(ws \cup {v}) <= Cardinality(Linked \cup {v})
      <4>1. TAKE v \in Graph!Wallet
      <4>2. IsFiniteSet(Linked) /\ IsFiniteSet(Linked \cup {v})
        BY <2>3, WalletsFinite
      <4>3. ws \in SUBSET Linked /\ (ws \cup {v}) \in SUBSET (Linked \cup {v})
        OBVIOUS
      <4>4. QED BY <4>2, <4>3, FS_Subset, FS_CardinalityType
    <3>9. walletCount >= Cardinality(ws)
      <4>1. Cardinality(ws) \in Nat /\ Cardinality(ws) <= Cardinality(Linked)
        <5>1. IsFiniteSet(Linked)
          BY <2>3, WalletsFinite
        <5>2. QED BY <5>1, FS_Subset, FS_CardinalityType
      <4>2. QED BY <2>2, <2>3, <4>1 DEF LinkedCounted
    <3>10. ASSUME linkTasks # <<>>, Graph!Task.wallet \in Buyers
           PROVE  /\ linkStep = "funder" => funderRead.wallets >= Cardinality(ws)
                  /\ linkStep = "member" => walletCount >= Cardinality(ws \cup {Graph!Task.wallet})
      <4>1. PICK v \in Graph!Wallet : v = Graph!Task.wallet
        BY <3>10 DEF Graph!Wallet
      <4>2. /\ linkStep = "funder" => funderRead.wallets >= Cardinality(Linked)
            /\ linkStep = "member" => walletCount >= Cardinality(Linked \cup {v})
        BY <2>2, <3>10, <4>1 DEF LinkedCounted
      <4>3. PICK a \in Nat, b \in Nat, c \in Nat, d \in Nat :
               /\ a = Cardinality(ws) /\ b = Cardinality(Linked) /\ a <= b
               /\ c = Cardinality(ws \cup {v}) /\ d = Cardinality(Linked \cup {v}) /\ c <= d
        BY <2>3, <3>8
      <4>4. (linkStep = "funder" => funderRead.wallets >= b) /\ (linkStep = "member" => walletCount >= d)
        BY <4>2, <4>3
      <4>5. (linkStep = "funder" => funderRead.wallets >= a) /\ (linkStep = "member" => walletCount >= c)
        BY <2>3, <4>3, <4>4
      <4>6. QED BY <4>1, <4>3, <4>5
    <3>11. LinkedCounted'
      BY <3>2, <3>5, <3>7, <3>9, <3>10 DEF LinkedCounted
    <3>12. QED BY <3>4, <3>11
  <2>6. CASE Graph!Read
    <3>1. /\ UNCHANGED <<profiles, linkTasks, walletCount, members, forgotten>>
          /\ linkStep' = "funder" /\ linkTasks # <<>>
          /\ Graph!Task.wallet \in Buyers => funderRead' = [wallets |-> walletCount, rugs |-> rugExposure]
      BY <1>2, <2>6 DEF Graph!Read
    <3>2. LinkedStored'
      BY <2>2, <3>1 DEF LinkedStored, Traced
    <3>3. Graph!Task' = Graph!Task
      BY <3>1 DEF Graph!Task
    <3>4. LinkedCounted'
      BY <2>2, <2>4, <3>1, <3>3 DEF LinkedCounted
    <3>5. QED BY <3>2, <3>4
  <2>7. CASE Graph!LinkFunder
    <3>1. /\ UNCHANGED <<profiles, linkTasks, members, forgotten>>
          /\ linkStep = "funder" /\ linkStep' = "member" /\ linkTasks # <<>>
          /\ walletCount' = Graph!Greater(walletCount, Graph!Counted)
      BY <1>2, <2>7 DEF Graph!LinkFunder, Graph!UpsertFunder
    <3>2. LinkedStored'
      BY <2>2, <3>1 DEF LinkedStored, Traced
    <3>3. Graph!Task' = Graph!Task /\ Linked' = Linked
      BY <2>4, <3>1 DEF Graph!Task
    <3>4. PICK w \in Graph!Wallet : w = Graph!Task.wallet
      BY <3>1, GraphTasks
    <3>5. PICK next \in Nat : /\ next = walletCount' /\ next >= walletCount
                              /\ w \in Buyers => next >= funderRead.wallets + 1
      <4>1. PICK m, f, k, d :
               /\ m \in Nat /\ f \in Nat
               /\ m = walletCount /\ f = funderRead.wallets
               /\ k = Graph!Counted /\ d = walletCount'
        BY <2>3
      <4>2. k = IF w \in Buyers THEN f + 1 ELSE 1
        BY <3>4, <4>1 DEF Graph!Counted
      <4>3. d = IF m > k THEN m ELSE k
        BY <3>1, <4>1 DEF Graph!Greater
      <4>4. m \in Nat /\ f \in Nat
        BY <4>1
      <4>5. d \in Nat /\ d >= m /\ (w \in Buyers => d >= f + 1)
        BY <4>2, <4>3, <4>4
      <4>6. QED BY Zenon, <4>1, <4>5
    <3>6. next >= Cardinality(Linked)
      BY <2>2, <2>3, <3>5 DEF LinkedCounted
    <3>7. ASSUME w \in Buyers PROVE next >= Cardinality(Linked \cup {w})
      <4>1. funderRead.wallets >= Cardinality(Linked)
        BY <2>2, <3>1, <3>4, <3>7 DEF LinkedCounted
      <4>2. Cardinality(Linked \cup {w}) \in Nat
            /\ Cardinality(Linked \cup {w}) <= Cardinality(Linked) + 1
        BY <2>3, OneMore
      <4>3. next >= funderRead.wallets + 1
        BY <3>5, <3>7
      <4>4. QED BY <2>3, <4>1, <4>2, <4>3
    <3>8. LinkedCounted'
      BY <3>1, <3>3, <3>4, <3>5, <3>6, <3>7 DEF LinkedCounted
    <3>9. QED BY <3>2, <3>8
  <2>8. CASE Graph!LinkMember
    <3>1. PICK w \in Graph!Wallet : w = Graph!Task.wallet /\ w = linkTasks[1].wallet
      BY <2>8, GraphTasks DEF Graph!LinkMember
    <3>2. /\ UNCHANGED <<profiles, walletCount, forgotten>> /\ linkTasks # <<>>
          /\ linkStep = "member" /\ linkStep' = "read" /\ linkTasks' = Tail(linkTasks)
          /\ members' = [members EXCEPT ![w] = Graph!Greater(members[w], Graph!Score(w))]
      BY <1>2, <2>8, <3>1 DEF Graph!LinkMember
    <3>3. PICK n \in Nat : n = Len(linkTasks) /\ n >= 1
      BY <3>2, GraphTasks
    <3>4. /\ Len(linkTasks') = n - 1
          /\ \A i \in 1..(n - 1) : linkTasks'[i] = linkTasks[i + 1]
      BY <3>2, <3>3, GraphTasks
    <3>5. Traced(w)
      BY <2>2, <3>1, <3>3 DEF LinkedStored
    <3>6. \A i \in 1..(n - 1) : Traced(linkTasks[i].wallet)'
      BY <2>2, <3>2, <3>3, <3>4 DEF LinkedStored, Traced
    <3>7. \A v \in Graph!Wallet : v # w => members'[v] = members[v]
      BY <2>3, <3>2
    <3>8. LinkedStored'
      BY <2>2, <3>2, <3>4, <3>5, <3>6, <3>7 DEF LinkedStored, Traced
    <3>9. Linked' \in SUBSET (Linked \cup {w}) /\ (w \notin Buyers => Linked' = Linked)
      BY <3>2, <3>7 DEF Linked, Graph!Wallet
    <3>10. PICK ws \in SUBSET (Linked \cup {w}) : ws = Linked'
      BY <3>9
    <3>11. walletCount >= Cardinality(ws)
      <4>1. CASE w \in Buyers
        <5>1. /\ Cardinality(ws) <= Cardinality(Linked \cup {w})
              /\ Cardinality(ws) \in Nat /\ Cardinality(Linked \cup {w}) \in Nat
          <6>1. IsFiniteSet(Linked \cup {w})
            BY <2>3, WalletsFinite
          <6>2. QED BY <6>1, <3>10, FS_Subset, FS_CardinalityType
        <5>2. walletCount >= Cardinality(Linked \cup {w})
          BY <2>2, <3>1, <3>2, <4>1 DEF LinkedCounted
        <5>3. QED BY <2>3, <5>1, <5>2
      <4>2. CASE w \notin Buyers
        BY <2>2, <3>9, <3>10, <4>2 DEF LinkedCounted
      <4>3. QED BY <4>1, <4>2
    <3>12. LinkedCounted'
      BY <3>2, <3>10, <3>11 DEF LinkedCounted
    <3>13. QED BY <3>8, <3>12
  <2>9. CASE Graph!Restart
    <3>1. linkTasks' = <<>> /\ UNCHANGED <<profiles, forgotten>> /\ Graph!Backfill
      BY <1>2, <2>9 DEF Graph!Restart
    <3>2. members' = [w \in Graph!Wallet |-> IF w \in Graph!Stored(Graph!Wallet)
                                            THEN Graph!Greater(members[w], Graph!Score(w))
                                            ELSE members[w]]
      BY <3>1 DEF Graph!Backfill
    <3>3. \A w \in Graph!Wallet : members'[w] > 0 => Traced(w)
      BY <2>2, <3>2 DEF LinkedStored, Graph!Stored, Traced
    <3>4. LinkedStored'
      BY <3>1, <3>3 DEF LinkedStored, Traced
    <3>5. PICK stored \in SUBSET Graph!Wallet : stored = Graph!Stored(Buyers)
      BY DEF Graph!Stored, Graph!Wallet
    <3>6. PICK ws \in SUBSET stored : ws = Linked'
      BY <3>1, <3>3, <3>5 DEF Linked, Traced, Graph!Stored, Graph!Wallet
    <3>7. PICK m \in Nat : /\ m = Graph!Cardinality(stored) /\ m >= Cardinality(ws)
                           /\ Cardinality(ws) \in Nat
      BY WalletsFinite, FS_Subset, FS_CardinalityType
    <3>8. PICK k \in Nat : k = Graph!Cardinality(Graph!Stored(Creators))
      BY WalletsFinite DEF Graph!Stored, Graph!Wallet
    <3>9. walletCount' = Graph!Greater(walletCount, Graph!Greater(m, k))
      BY <3>1, <3>5, <3>7, <3>8 DEF Graph!Backfill
    <3>10. walletCount' >= Cardinality(ws)
      BY <2>3, <3>7, <3>9 DEF Graph!Greater
    <3>11. LinkedCounted'
      BY <3>1, <3>6, <3>10 DEF LinkedCounted
    <3>12. QED BY <3>4, <3>11
  <2>10. CASE UNCHANGED graphVars
    BY <2>2, <2>10 DEF graphVars, LinkedStored, LinkedCounted, Linked, Traced, Graph!Task
  <2>11. QED BY <2>5, <2>12, <2>6, <2>7, <2>8, <2>9, <2>10 DEF Graph!Next
<1>3. QED BY <1>1, <1>2 DEF BuyersCovered

GraphInv == Graph!TypeOK /\ LinksCounted /\ BuyersCovered

LEMMA GraphInvInit == Graph!Init => GraphInv
BY GraphTypesInit, CoveredInit DEF GraphInv

LEMMA GraphInvKept == GraphInv /\ [Graph!Next]_graphVars => GraphInv'
<1> SUFFICES ASSUME GraphInv, [Graph!Next]_graphVars PROVE GraphInv'
  OBVIOUS
<1>1. Graph!TypeOK /\ LinksCounted /\ BuyersCovered
  BY DEF GraphInv
<1>2. Graph!TypeOK' /\ LinksCounted'
  BY <1>1, GraphTypesKept
<1>3. BuyersCovered'
  BY <1>1, <1>2, CoveredKept
<1>4. QED BY <1>2, <1>3 DEF GraphInv

LEMMA GraphInvShows == GraphInv => Graph!TypeOK /\ CountCoversBuyers
BY CoveredShows DEF GraphInv

(* Nothing charged to the funder is taken back. *)
LEMMA ChargesStay ==
    ASSUME GraphInv, [Graph!Next]_graphVars
    PROVE  walletCount' >= walletCount /\ rugExposure' >= rugExposure
<1>1. walletCount \in Nat /\ funderRead.wallets \in Nat
  <2>1. PICK size \in Nat : size = Graph!Cardinality(Graph!Wallet)
    BY WalletsFinite
  <2>2. walletCount \in 0..(MaxTasks + size)
    BY <2>1 DEF GraphInv, Graph!TypeOK
  <2>3. QED BY <2>2, GraphAssumption DEF GraphInv, Graph!TypeOK
<1>2. rugExposure \in Nat /\ funderRead.rugs \in Nat /\ Graph!WorstRugs \in Nat
  <2>1. rugExposure \in 0..MaxRugs /\ funderRead.rugs \in 0..MaxRugs /\ Graph!WorstRugs \in 0..MaxRugs
    BY Charged DEF GraphInv, Graph!TypeOK
  <2>2. QED BY <2>1, GraphAssumption
<1>3. CASE Graph!LinkFunder
  <2>1. Graph!Task.rugs \in Nat
    BY <1>3, GraphTasks, GraphAssumption DEF Graph!LinkFunder, GraphInv
  <2>2. Graph!Counted \in Nat
    BY <1>1 DEF Graph!Counted
  <2>3. QED
    BY <1>1, <1>2, <1>3, <2>1, <2>2 DEF Graph!LinkFunder, Graph!UpsertFunder, Graph!Greater
<1>4. CASE Graph!Restart
  <2>1. PICK m \in Nat, n \in Nat : /\ m = Graph!Cardinality(Graph!Stored(Buyers))
                                    /\ n = Graph!Cardinality(Graph!Stored(Creators))
    <3>1. Graph!Stored(Buyers) \in SUBSET Graph!Wallet /\ Graph!Stored(Creators) \in SUBSET Graph!Wallet
      BY DEF Graph!Stored, Graph!Wallet
    <3>2. QED BY <3>1, WalletsFinite
  <2>2. CASE Graph!Backfill
    <3>1. walletCount' = Graph!Greater(walletCount, Graph!Greater(m, n))
          /\ rugExposure' = Graph!Greater(rugExposure, Graph!WorstRugs)
      BY <2>1, <2>2 DEF Graph!Backfill
    <3>2. QED BY <1>1, <1>2, <2>1, <3>1 DEF Graph!Greater
  <2>3. CASE UNCHANGED <<walletCount, rugExposure>>
    BY <1>1, <1>2, <2>3
  <2>4. QED BY <1>4, <2>2, <2>3 DEF Graph!Restart
<1>5. CASE UNCHANGED <<walletCount, rugExposure>>
  BY <1>1, <1>2, <1>5
<1>6. QED
  BY <1>3, <1>4, <1>5
  DEF Graph!Next, Graph!Resolve, Graph!ResolveUnfunded, Graph!Read, Graph!LinkMember, graphVars

-----------------------------------------------------------------------------
(* NarrativeTerms.                                                           *)

(* The sources, in the order they are replaced in. *)
LEMMA TermSources ==
    /\ Keywords!Source = {"base", "preheat", "confirmed"}
    /\ Keywords!After("base") = "preheat" /\ Keywords!After("preheat") = "confirmed"
    /\ Keywords!After("confirmed") = "snapshot"
<1>1. Keywords!Sources = <<"base", "preheat", "confirmed">> /\ DOMAIN Keywords!Sources = 1..3
      /\ Len(Keywords!Sources) = 3
  BY DEF Keywords!Sources
<1>2. Keywords!Source = {"base", "preheat", "confirmed"}
  BY <1>1 DEF Keywords!Source
<1>3. \A i \in 1..3 : Keywords!Sources[i] = (CASE i = 1 -> "base" [] i = 2 -> "preheat"
                                               [] i = 3 -> "confirmed")
  BY <1>1
<1>4. /\ (CHOOSE i \in DOMAIN Keywords!Sources : Keywords!Sources[i] = "base") = 1
      /\ (CHOOSE i \in DOMAIN Keywords!Sources : Keywords!Sources[i] = "preheat") = 2
      /\ (CHOOSE i \in DOMAIN Keywords!Sources : Keywords!Sources[i] = "confirmed") = 3
  BY <1>1, <1>3
<1>5. Keywords!After("base") = "preheat"
  BY <1>1, <1>3, <1>4 DEF Keywords!After
<1>6. Keywords!After("preheat") = "confirmed"
  BY <1>1, <1>3, <1>4 DEF Keywords!After
<1>7. Keywords!After("confirmed") = "snapshot"
  BY <1>1, <1>3, <1>4 DEF Keywords!After
<1>8. QED BY <1>2, <1>5, <1>6, <1>7

LEMMA TermTypesInit == Keywords!Init => Keywords!TypeOK
<1> SUFFICES ASSUME Keywords!Init PROVE Keywords!TypeOK
  OBVIOUS
<1>1. /\ termRows \in [Terms \X Keywords!Source -> {Keywords!Never} \cup Nat]
      /\ seen \in [Terms -> Keywords!Never..TermTime]
  BY KeywordsAssumption DEF Keywords!Init, Keywords!Never
<1>2. /\ terms \in [Terms -> Keywords!Tiers]
      /\ found \in [Keywords!Source -> SUBSET Terms]
  BY DEF Keywords!Init, Keywords!Tiers, Keywords!Nothing
<1>3. /\ termNow \in 0..TermTime /\ termFile \in SUBSET Terms /\ termStep \in Keywords!Steps
      /\ begun \in 0..TermTime /\ termStarts \in 0..MaxRestarts /\ loaded \in 0..TermTime
  BY KeywordsAssumption, LaunchesAssumption DEF Keywords!Init, Keywords!Steps
<1>4. up \in BOOLEAN /\ whole \in BOOLEAN
  BY DEF Keywords!Init
<1>5. QED BY <1>1, <1>2, <1>3, <1>4 DEF Keywords!TypeOK

LEMMA TermTypesKept ==
    ASSUME Keywords!TypeOK, [Keywords!Next]_termVars
    PROVE  Keywords!TypeOK'
<1>1. /\ termNow \in 0..TermTime /\ TermTime \in Nat /\ MaxRestarts \in Nat
      /\ termRows \in [Terms \X Keywords!Source -> {Keywords!Never} \cup Nat]
      /\ termFile \in SUBSET Terms /\ terms \in [Terms -> Keywords!Tiers]
      /\ termStep \in Keywords!Steps /\ found \in [Keywords!Source -> SUBSET Terms]
      /\ begun \in 0..TermTime /\ termStarts \in 0..MaxRestarts
      /\ seen \in [Terms -> Keywords!Never..TermTime] /\ loaded \in 0..TermTime
      /\ Keywords!Never = -1
  BY KeywordsAssumption, LaunchesAssumption DEF Keywords!TypeOK, Keywords!Never
<1>2. /\ {"idle", "snapshot", "reload", "dead", "base", "preheat", "confirmed"} = Keywords!Steps
      /\ {"none", "base", "preheat", "confirmed"} = Keywords!Tiers
  BY TermSources DEF Keywords!Steps, Keywords!Tiers
<1>3. up' \in BOOLEAN /\ whole' \in BOOLEAN
  BY Zenon
  DEF Keywords!TypeOK, Keywords!Next, Keywords!Collect, Keywords!Fails, Keywords!Replace,
      Keywords!Snapshot, Keywords!Reload, Keywords!ReloadFails, Keywords!Restart,
      Keywords!Tick, termVars
<1>4. Keywords!Nothing \in [Keywords!Source -> SUBSET Terms]
  BY DEF Keywords!Nothing
<1>5. CASE Keywords!Collect
  <2>1. /\ found' \in [Keywords!Source -> SUBSET Terms] /\ begun' = termNow
        /\ UNCHANGED <<termNow, termRows, termFile, terms, termStarts, loaded>>
        /\ termStep' = "base"
    BY <1>5 DEF Keywords!Collect, Keywords!Sources
  <2>2. seen' \in [Terms -> Keywords!Never..TermTime]
    BY <1>1, <1>5 DEF Keywords!Collect
  <2>3. QED BY <1>1, <1>2, <1>3, <2>1, <2>2 DEF Keywords!TypeOK
<1>6. CASE Keywords!Replace
  <2>1. termStep' \in Keywords!Steps
    BY <1>2, <1>6, TermSources DEF Keywords!Replace
  <2>2. termRows' \in [Terms \X Keywords!Source -> {Keywords!Never} \cup Nat]
    <3>1. begun + TermTTL[termStep] \in Nat
      BY <1>1, <1>6, KeywordsAssumption DEF Keywords!Replace
    <3>2. QED BY <1>1, <1>6, <3>1 DEF Keywords!Replace
  <2>3. UNCHANGED <<termNow, termFile, terms, found, begun, termStarts, seen, loaded>>
    BY <1>6 DEF Keywords!Replace
  <2>4. QED BY <1>1, <1>3, <2>1, <2>2, <2>3 DEF Keywords!TypeOK
<1>7. CASE Keywords!Snapshot
  <2>1. termFile' \in SUBSET Terms
    BY <1>1, <1>7 DEF Keywords!Snapshot, Keywords!Merged
  <2>2. termStep' = "reload" /\ found' = Keywords!Nothing
        /\ UNCHANGED <<termNow, termRows, terms, begun, termStarts, seen, loaded>>
    BY <1>7 DEF Keywords!Snapshot
  <2>3. QED BY <1>1, <1>2, <1>3, <1>4, <2>1, <2>2 DEF Keywords!TypeOK
<1>8. CASE Keywords!Reload
  <2>1. terms' \in [Terms -> Keywords!Tiers]
    BY <1>2, <1>8 DEF Keywords!Reload, Keywords!Loaded, Keywords!FromFile, Keywords!Highest
  <2>2. termStep' = "idle" /\ loaded' = termNow
        /\ UNCHANGED <<termNow, termRows, termFile, found, begun, termStarts, seen>>
    BY <1>8 DEF Keywords!Reload
  <2>3. QED BY <1>1, <1>2, <1>3, <2>1, <2>2 DEF Keywords!TypeOK
<1>9. CASE Keywords!Restart
  <2>1. terms' \in [Terms -> Keywords!Tiers]
    BY <1>2, <1>9 DEF Keywords!Restart
  <2>2. /\ termStarts' \in 0..MaxRestarts /\ termStep' = "idle" /\ found' = Keywords!Nothing
        /\ termFile' \in SUBSET Terms
        /\ UNCHANGED <<termNow, termRows, begun, seen, loaded>>
    BY <1>1, <1>9 DEF Keywords!Restart
  <2>3. QED BY <1>1, <1>2, <1>3, <1>4, <2>1, <2>2 DEF Keywords!TypeOK
<1>10. CASE Keywords!Fails \/ Keywords!ReloadFails
  <2>1. /\ termStep' \in Keywords!Steps /\ found' \in {Keywords!Nothing, found}
        /\ UNCHANGED <<termNow, termRows, termFile, terms, begun, termStarts, seen, loaded>>
    BY <1>2, <1>10 DEF Keywords!Fails, Keywords!ReloadFails
  <2>2. QED BY <1>1, <1>3, <1>4, <2>1 DEF Keywords!TypeOK
<1>11. CASE Keywords!Tick
  <2>1. termNow' \in 0..TermTime
    BY <1>1, <1>11 DEF Keywords!Tick
  <2>2. QED BY <1>1, <1>3, <1>11, <2>1 DEF Keywords!Tick, Keywords!TypeOK
<1>12. CASE UNCHANGED termVars
  BY <1>1, <1>3, <1>12 DEF termVars, Keywords!TypeOK
<1>13. QED
  BY <1>5, <1>6, <1>7, <1>8, <1>9, <1>10, <1>11, <1>12 DEF Keywords!Next

(* A confirmed row, a term collected as confirmed and a term that memory     *)
(* calls so were all seen on chain in time; what was noted when is past; a   *)
(* file whose write was completed has terms.                                 *)
ConfirmedSeen ==
    /\ \A k \in Terms :
          /\ termRows[<<k, "confirmed">>] # -1 =>
                seen[k] # -1 /\ seen[k] + TermTTL["confirmed"] >= termRows[<<k, "confirmed">>]
          /\ k \in found["confirmed"] => seen[k] >= begun
          /\ terms[k] = "confirmed" =>
                seen[k] # -1 /\ seen[k] + TermTTL["confirmed"] >= loaded
          /\ seen[k] <= termNow
    /\ begun <= termNow /\ loaded <= termNow
    /\ whole => termFile # {}

LEMMA ConfirmedInit == Keywords!Init => ConfirmedSeen
<1> SUFFICES ASSUME Keywords!Init PROVE ConfirmedSeen
  OBVIOUS
<1>1. "confirmed" \in Keywords!Source
  BY TermSources
<1>2. QED BY <1>1 DEF Keywords!Init, ConfirmedSeen, Keywords!Never, Keywords!Nothing

LEMMA ConfirmedKept ==
    ASSUME Keywords!TypeOK, [Keywords!Next]_termVars, ConfirmedSeen
    PROVE  ConfirmedSeen'
<1>1. PICK ttl \in Nat : ttl = TermTTL["confirmed"]
  BY KeywordsAssumption, TermSources
<1>2. /\ termNow \in Nat /\ begun \in Nat /\ loaded \in Nat /\ "confirmed" \in Keywords!Source
      /\ \A k \in Terms : /\ seen[k] \in Int /\ seen[k] >= -1
                          /\ termRows[<<k, "confirmed">>] \in {-1} \cup Nat
  BY KeywordsAssumption, TermSources DEF Keywords!TypeOK, Keywords!Never
<1>3. CASE Keywords!Collect
  <2>1. /\ begun' = termNow
        /\ UNCHANGED <<termNow, termRows, termFile, terms, loaded, whole>>
        /\ \A k \in Terms : seen'[k] = IF k \in found'["confirmed"] THEN termNow ELSE seen[k]
    BY <1>3 DEF Keywords!Collect
  <2>2. ASSUME NEW k \in Terms
        PROVE  /\ termRows'[<<k, "confirmed">>] # -1 =>
                     seen'[k] # -1 /\ seen'[k] + ttl >= termRows'[<<k, "confirmed">>]
               /\ k \in found'["confirmed"] => seen'[k] >= begun'
               /\ terms'[k] = "confirmed" => seen'[k] # -1 /\ seen'[k] + ttl >= loaded'
               /\ seen'[k] <= termNow'
    <3>1. PICK at \in Int : at = seen'[k] /\ at >= seen[k] /\ at <= termNow
                            /\ (k \in found'["confirmed"] => at = termNow)
      <4>1. seen[k] \in Int /\ seen[k] <= termNow /\ termNow \in Int
        <5>1. seen[k] <= termNow
          BY DEF ConfirmedSeen
        <5>2. seen[k] \in Int
          BY <1>2
        <5>3. termNow \in Nat
          BY <1>2
        <5>4. QED BY <5>1, <5>2, <5>3
      <4>2. CASE k \in found'["confirmed"]
        BY <2>1, <4>1, <4>2
      <4>3. CASE k \notin found'["confirmed"]
        BY <2>1, <4>1, <4>3
      <4>4. QED BY <4>2, <4>3
    <3>2. /\ termRows[<<k, "confirmed">>] # -1 => at # -1 /\ at + ttl >= termRows[<<k, "confirmed">>]
          /\ terms[k] = "confirmed" => at # -1 /\ at + ttl >= loaded
      BY <1>1, <1>2, <3>1 DEF ConfirmedSeen
    <3>3. QED BY <2>1, <3>1, <3>2
  <2>3. QED BY <1>1, <1>2, <2>1, <2>2 DEF ConfirmedSeen
<1>4. CASE Keywords!Replace
  <2>1. UNCHANGED <<termNow, termFile, terms, found, begun, seen, loaded, whole>>
    BY <1>4 DEF Keywords!Replace
  <2>2. ASSUME NEW k \in Terms
        PROVE  termRows'[<<k, "confirmed">>] # -1 =>
                  seen[k] # -1 /\ seen[k] + ttl >= termRows'[<<k, "confirmed">>]
    <3>1. CASE termStep = "confirmed"
      <4>1. termRows'[<<k, "confirmed">>] = IF k \in found["confirmed"] THEN begun + ttl ELSE -1
        BY <1>1, <1>2, <1>4, <3>1 DEF Keywords!Replace, Keywords!Never
      <4>2. k \in found["confirmed"] => seen[k] >= begun
        BY DEF ConfirmedSeen
      <4>3. CASE k \in found["confirmed"]
        <5>1. PICK at \in Int : at = seen[k] /\ at >= begun
          BY <1>2, <4>2, <4>3
        <5>2. at # -1 /\ at + ttl >= begun + ttl
          BY <1>1, <1>2, <5>1
        <5>3. QED BY <4>1, <4>3, <5>1, <5>2
      <4>4. CASE k \notin found["confirmed"]
        BY <4>1, <4>4
      <4>5. QED BY <4>3, <4>4
    <3>2. CASE termStep # "confirmed"
      <4>1. termRows'[<<k, "confirmed">>] = termRows[<<k, "confirmed">>]
        BY <1>2, <1>4, <3>2 DEF Keywords!Replace
      <4>2. QED BY <1>1, <4>1 DEF ConfirmedSeen
    <3>3. QED BY <3>1, <3>2
  <2>3. QED BY <1>1, <2>1, <2>2 DEF ConfirmedSeen
<1>5. CASE Keywords!Reload
  <2>1. /\ terms' = Keywords!Loaded /\ loaded' = termNow
        /\ UNCHANGED <<termNow, termRows, termFile, found, begun, seen, whole>>
    BY <1>5 DEF Keywords!Reload
  <2>2. ASSUME NEW k \in Terms, terms'[k] = "confirmed"
        PROVE  seen[k] # -1 /\ seen[k] + ttl >= termNow
    <3>1. "confirmed" \in Keywords!Active(k)
      BY <2>1, <2>2 DEF Keywords!Loaded, Keywords!FromFile, Keywords!Highest
    <3>2. termRows[<<k, "confirmed">>] # -1 /\ termRows[<<k, "confirmed">>] >= termNow
      BY <3>1 DEF Keywords!Active, Keywords!Never
    <3>3. QED BY <1>1, <1>2, <3>2 DEF ConfirmedSeen
  <2>3. QED BY <1>1, <1>2, <2>1, <2>2 DEF ConfirmedSeen
<1>6. CASE Keywords!Restart
  <2>1. /\ UNCHANGED <<termNow, termRows, begun, seen, loaded>> /\ found' = Keywords!Nothing
        /\ \A k \in Terms : terms'[k] = "none"
    BY <1>6 DEF Keywords!Restart
  <2>2. whole' => whole /\ termFile' = termFile
    BY <1>6 DEF Keywords!Restart
  <2>3. QED BY <1>2, <2>1, <2>2 DEF ConfirmedSeen, Keywords!Nothing
<1>7. CASE Keywords!Snapshot
  <2>1. /\ UNCHANGED <<termNow, termRows, terms, begun, seen, loaded>> /\ found' = Keywords!Nothing
        /\ termFile' # {}
    BY <1>7 DEF Keywords!Snapshot
  <2>2. QED BY <1>2, <2>1 DEF ConfirmedSeen, Keywords!Nothing
<1>8. CASE Keywords!Fails \/ Keywords!ReloadFails
  <2>1. /\ UNCHANGED <<termNow, termRows, termFile, terms, begun, seen, loaded, whole>>
        /\ found' \in {Keywords!Nothing, found}
    BY <1>8 DEF Keywords!Fails, Keywords!ReloadFails
  <2>2. found'["confirmed"] = {} \/ found' = found
    BY <1>2, <2>1 DEF Keywords!Nothing
  <2>3. QED BY <2>1, <2>2 DEF ConfirmedSeen
<1>9. CASE Keywords!Tick
  <2>1. /\ UNCHANGED <<termRows, termFile, terms, found, begun, seen, loaded, whole>>
        /\ termNow' = termNow + 1
    BY <1>9 DEF Keywords!Tick
  <2>2. QED BY <1>2, <2>1 DEF ConfirmedSeen
<1>10. CASE UNCHANGED termVars
  BY <1>10 DEF termVars, ConfirmedSeen
<1>11. QED
  BY <1>3, <1>4, <1>5, <1>6, <1>7, <1>8, <1>9, <1>10 DEF Keywords!Next

TermsInv == Keywords!TypeOK /\ ConfirmedSeen

LEMMA TermsInvInit == Keywords!Init => TermsInv
BY TermTypesInit, ConfirmedInit DEF TermsInv

LEMMA TermsInvKept == TermsInv /\ [Keywords!Next]_termVars => TermsInv'
BY TermTypesKept, ConfirmedKept DEF TermsInv

LEMMA TermsInvShows == TermsInv => Keywords!TypeOK /\ TierJustified
BY DEF TermsInv, ConfirmedSeen, TierJustified, Keywords!TierJustified, Keywords!Never

(* Once written, the file stands in for rows that are gone. *)
LEMMA TermsStay ==
    ASSUME TermsInv, [Keywords!Next]_termVars, whole, termStarts' = termStarts,
           NEW k \in Terms, terms[k] # "none"
    PROVE  \E j \in Terms : terms'[j] # "none"
<1>1. CASE Keywords!Reload
  <2>1. CASE \E j \in Terms : Keywords!Active(j) # {}
    <3>1. PICK j \in Terms : Keywords!Active(j) # {}
      BY <2>1
    <3>2. Keywords!Active(j) \cap {"base", "preheat", "confirmed"} # {}
      BY <3>1, TermSources DEF Keywords!Active
    <3>3. terms'[j] = Keywords!Highest(Keywords!Active(j))
      BY <1>1, <2>1 DEF Keywords!Reload, Keywords!Loaded
    <3>4. QED BY <3>2, <3>3 DEF Keywords!Highest
  <2>2. CASE \A j \in Terms : Keywords!Active(j) = {}
    <3>1. PICK j \in Terms : j \in termFile
      BY DEF TermsInv, ConfirmedSeen, Keywords!TypeOK
    <3>2. terms' = Keywords!FromFile
      BY <1>1, <2>2 DEF Keywords!Reload, Keywords!Loaded
    <3>3. QED BY <3>1, <3>2 DEF Keywords!FromFile
  <2>3. QED BY <2>1, <2>2
<1>2. CASE Keywords!Restart
  BY <1>2 DEF TermsInv, Keywords!TypeOK, Keywords!Restart
<1>3. CASE UNCHANGED terms
  BY <1>3
<1>4. QED
  BY <1>1, <1>2, <1>3
  DEF Keywords!Next, Keywords!Collect, Keywords!Fails, Keywords!Replace, Keywords!Snapshot,
      Keywords!ReloadFails, Keywords!Tick, termVars

-----------------------------------------------------------------------------
(* CreatorRefresh.  The theorems of CreatorRefreshProofs are about their own *)
(* copy of the module, of which there is one for each number of permits.     *)

RoomyT == INSTANCE CreatorRefreshProofs WITH
    Calls <- Gates, NoCreator <- Nobody, TTL <- ProfileTTL, Cooldown <- RefreshCooldown,
    MaxTime <- RefreshTime, now <- refreshNow, memory <- profileCache, stored <- profileRows,
    retry <- retryAfter, inflight <- refreshes, calls <- gates

CrowdedT == INSTANCE CreatorRefreshProofs WITH
    Calls <- Gates, NoCreator <- Nobody, Permits <- FewPermits, TTL <- ProfileTTL,
    Cooldown <- RefreshCooldown, MaxTime <- RefreshTime, now <- refreshNow,
    memory <- profileCache, stored <- profileRows, retry <- retryAfter, inflight <- refreshes,
    calls <- gates

LEMMA SameRoomy == (Roomy!Init => RoomyT!Init) /\ (Roomy!Next => RoomyT!Next)
BY
  DEF Roomy!Read, RoomyT!Read, Roomy!CacheResult, RoomyT!CacheResult, Roomy!PutInMemory,
      RoomyT!PutInMemory, Roomy!Begin, RoomyT!Begin, Roomy!LoadFresh, RoomyT!LoadFresh, Roomy!Load, RoomyT!Load,
      Roomy!Merge, RoomyT!Merge, Roomy!MergeAs, RoomyT!MergeAs, Roomy!CheckCooldown,
      RoomyT!CheckCooldown, Roomy!CheckInflight, RoomyT!CheckInflight, Roomy!Acquire,
      RoomyT!Acquire, Roomy!Busy, RoomyT!Busy, Roomy!Overtaken, RoomyT!Overtaken, Roomy!Spawn,
      RoomyT!Spawn, Roomy!Launch, RoomyT!Launch, Roomy!Answered, RoomyT!Answered,
      Roomy!TimesOut, RoomyT!TimesOut, Roomy!Fetched, RoomyT!Fetched, Roomy!Upsert,
      RoomyT!Upsert, Roomy!Cache, RoomyT!Cache, Roomy!ClearRetry, RoomyT!ClearRetry,
      Roomy!Fails, RoomyT!Fails, Roomy!ClearInflight, RoomyT!ClearInflight, Roomy!Respond,
      RoomyT!Respond, Roomy!Tick, RoomyT!Tick, Roomy!Gate, RoomyT!Gate, Roomy!Work,
      RoomyT!Work, Roomy!Next, RoomyT!Next, Roomy!Init, RoomyT!Init, Roomy!Fresh, RoomyT!Fresh,
      Roomy!Bad, RoomyT!Bad, Roomy!At, RoomyT!At, Roomy!Go, RoomyT!Go, Roomy!Creator,
      RoomyT!Creator, Roomy!Cooling, RoomyT!Cooling, Roomy!Works, RoomyT!Works, Roomy!OnTo,
      RoomyT!OnTo, Roomy!None, RoomyT!None, Roomy!Resting, RoomyT!Resting, Roomy!Idle,
      RoomyT!Idle

LEMMA SameCrowded == (Crowded!Init => CrowdedT!Init) /\ (Crowded!Next => CrowdedT!Next)
BY
  DEF Crowded!Read, CrowdedT!Read, Crowded!CacheResult, CrowdedT!CacheResult, Crowded!PutInMemory,
      CrowdedT!PutInMemory, Crowded!Begin, CrowdedT!Begin, Crowded!LoadFresh, CrowdedT!LoadFresh, Crowded!Load,
      CrowdedT!Load, Crowded!Merge, CrowdedT!Merge, Crowded!MergeAs, CrowdedT!MergeAs,
      Crowded!CheckCooldown, CrowdedT!CheckCooldown, Crowded!CheckInflight,
      CrowdedT!CheckInflight, Crowded!Acquire, CrowdedT!Acquire, Crowded!Busy, CrowdedT!Busy,
      Crowded!Overtaken, CrowdedT!Overtaken, Crowded!Spawn, CrowdedT!Spawn, Crowded!Launch,
      CrowdedT!Launch, Crowded!Answered, CrowdedT!Answered, Crowded!TimesOut,
      CrowdedT!TimesOut, Crowded!Fetched, CrowdedT!Fetched, Crowded!Upsert, CrowdedT!Upsert,
      Crowded!Cache, CrowdedT!Cache, Crowded!ClearRetry, CrowdedT!ClearRetry, Crowded!Fails,
      CrowdedT!Fails, Crowded!ClearInflight, CrowdedT!ClearInflight, Crowded!Respond,
      CrowdedT!Respond, Crowded!Tick, CrowdedT!Tick, Crowded!Gate, CrowdedT!Gate, Crowded!Work,
      CrowdedT!Work, Crowded!Next, CrowdedT!Next, Crowded!Init, CrowdedT!Init, Crowded!Fresh,
      CrowdedT!Fresh, Crowded!Bad, CrowdedT!Bad, Crowded!At, CrowdedT!At, Crowded!Go,
      CrowdedT!Go, Crowded!Creator, CrowdedT!Creator, Crowded!Cooling, CrowdedT!Cooling,
      Crowded!Works, CrowdedT!Works, Crowded!OnTo, CrowdedT!OnTo, Crowded!None, CrowdedT!None,
      Crowded!Resting, CrowdedT!Resting, Crowded!Idle, CrowdedT!Idle

LEMMA RefreshSettings == RoomyT!Settings /\ CrowdedT!Settings
BY RefreshAssumption
DEF RoomyT!Settings, CrowdedT!Settings, RoomyT!IsFiniteSet, CrowdedT!IsFiniteSet, IsFiniteSet

(* Which of the two a behaviour is about is settled at its start. *)
Few == part = "crowded"

LEMMA SeenByRoomy == Spec => (~ Few => RoomyT!Spec)
<1>1. Init /\ ~ Few => RoomyT!Init
  BY SameRoomy DEF Init, Few
<1>2. ~ Few /\ [Next]_vars => ~ Few'
  BY DEF Next, vars, Few
<1>3. ~ Few /\ [Next]_vars => [RoomyT!Next]_refreshVars
  BY SameRoomy DEF Next, vars, refreshVars, Few
<1>4. QED
  BY <1>1, <1>2, <1>3, PTL DEF Spec, RoomyT!Spec, RoomyT!vars, refreshVars

LEMMA SeenByCrowded == Spec => (Few => CrowdedT!Spec)
<1>1. Init /\ Few => CrowdedT!Init
  BY SameCrowded DEF Init, Few
<1>2. Few /\ [Next]_vars => Few'
  BY DEF Next, vars, Few
<1>3. Few /\ [Next]_vars => [CrowdedT!Next]_refreshVars
  BY SameCrowded DEF Next, vars, refreshVars, Few
<1>4. QED
  BY <1>1, <1>2, <1>3, PTL DEF Spec, CrowdedT!Spec, CrowdedT!vars, refreshVars

(* What both are proved to keep, of the two copies' own definitions. *)
RefreshSafe ==
    /\ IF Few THEN Crowded!TypeOK /\ Crowded!PermitsConserved
       ELSE Roomy!TypeOK /\ Roomy!PermitsConserved
    /\ Roomy!OneRefreshInFlight /\ Roomy!MemoryBehindStore /\ Roomy!KnownBadStopped

LEMMA RefreshSafeHolds == Spec => []RefreshSafe
<1>1. RoomyT!Spec => /\ []RoomyT!TypeOK /\ []RoomyT!PermitsConserved
                     /\ []RoomyT!OneRefreshInFlight /\ []RoomyT!MemoryBehindStore
                     /\ []RoomyT!KnownBadStopped
  BY RefreshSettings, RoomyT!TypeCorrect, RoomyT!PermitsConservedHolds,
     RoomyT!OneRefreshInFlightHolds, RoomyT!MemoryBehindStoreHolds, RoomyT!KnownBadStoppedHolds
<1>2. CrowdedT!Spec => /\ []CrowdedT!TypeOK /\ []CrowdedT!PermitsConserved
                       /\ []CrowdedT!OneRefreshInFlight /\ []CrowdedT!MemoryBehindStore
                       /\ []CrowdedT!KnownBadStopped
  BY RefreshSettings, CrowdedT!TypeCorrect, CrowdedT!PermitsConservedHolds,
     CrowdedT!OneRefreshInFlightHolds, CrowdedT!MemoryBehindStoreHolds,
     CrowdedT!KnownBadStoppedHolds
<1>3. /\ ~ Few /\ RoomyT!TypeOK /\ RoomyT!PermitsConserved /\ RoomyT!OneRefreshInFlight
      /\ RoomyT!MemoryBehindStore /\ RoomyT!KnownBadStopped
      => RefreshSafe
  BY DEF RefreshSafe, RoomyT!TypeOK, Roomy!TypeOK, RoomyT!PermitsConserved,
         Roomy!PermitsConserved, RoomyT!OneRefreshInFlight, Roomy!OneRefreshInFlight,
         RoomyT!MemoryBehindStore, Roomy!MemoryBehindStore, RoomyT!KnownBadStopped,
         Roomy!KnownBadStopped, RoomyT!Profiles, Roomy!Profiles, RoomyT!None, Roomy!None,
         RoomyT!Call, Roomy!Call, RoomyT!CallSteps, Roomy!CallSteps, RoomyT!Worker,
         Roomy!Worker, RoomyT!WorkerSteps, Roomy!WorkerSteps, RoomyT!At, Roomy!At,
         RoomyT!Cardinality, Roomy!Cardinality, RoomyT!Refreshing, Roomy!Refreshing,
         RoomyT!Creator, Roomy!Creator
<1>4. /\ Few /\ CrowdedT!TypeOK /\ CrowdedT!PermitsConserved /\ CrowdedT!OneRefreshInFlight
      /\ CrowdedT!MemoryBehindStore /\ CrowdedT!KnownBadStopped
      => RefreshSafe
  BY DEF RefreshSafe, CrowdedT!TypeOK, Crowded!TypeOK, CrowdedT!PermitsConserved,
         Crowded!PermitsConserved, CrowdedT!OneRefreshInFlight, Roomy!OneRefreshInFlight,
         CrowdedT!MemoryBehindStore, Roomy!MemoryBehindStore, CrowdedT!KnownBadStopped,
         Roomy!KnownBadStopped, CrowdedT!Profiles, Crowded!Profiles, CrowdedT!None,
         Crowded!None, CrowdedT!Call, Crowded!Call, CrowdedT!CallSteps, Crowded!CallSteps,
         CrowdedT!Worker, Crowded!Worker, CrowdedT!WorkerSteps, Crowded!WorkerSteps,
         CrowdedT!At, Crowded!At, Roomy!At, CrowdedT!Cardinality, Crowded!Cardinality,
         Roomy!Cardinality, CrowdedT!Refreshing, Roomy!Refreshing, CrowdedT!Creator,
         Roomy!Creator
<1>5. [Next]_vars => (Few' <=> Few)
  BY DEF Next, vars, Few
<1>6. Spec /\ Few => []Few
  BY <1>5, PTL DEF Spec
<1>7. Spec /\ ~ Few => []~ Few
  BY <1>5, PTL DEF Spec
<1>8. QED
  BY <1>1, <1>2, <1>3, <1>4, <1>6, <1>7, SeenByRoomy, SeenByCrowded, PTL

LEMMA ProfilesKept == Spec => Roomy!StoredGrows
<1>1. RoomyT!Spec => RoomyT!StoredGrows
  BY RefreshSettings, RoomyT!StoredGrowsHolds
<1>2. CrowdedT!Spec => CrowdedT!StoredGrows
  BY RefreshSettings, CrowdedT!StoredGrowsHolds
<1>3. RoomyT!StoredGrows => Roomy!StoredGrows
  BY DEF RoomyT!StoredGrows, Roomy!StoredGrows, RoomyT!vars, Roomy!vars
<1>4. CrowdedT!StoredGrows => Roomy!StoredGrows
  BY DEF CrowdedT!StoredGrows, Roomy!StoredGrows, CrowdedT!vars, Roomy!vars
<1>5. QED
  BY <1>1, <1>2, <1>3, <1>4, SeenByRoomy, SeenByCrowded, PTL

-----------------------------------------------------------------------------
(* FilterRecords.                                                            *)

(* The five stages and the five kinds, spelled out. *)
LEMMA StageNames ==
    /\ DOMAIN Records!Stages = 1..5
    /\ Records!Stages[1] = "detected" /\ Records!Stages[2] = "gate1"
    /\ Records!Stages[3] = "gate2" /\ Records!Stages[4] = "trigger"
    /\ Records!Stages[5] = "gate4"
    /\ Records!Stage = {"detected", "gate1", "gate2", "trigger", "gate4"}
<1>1. DOMAIN Records!Stages = 1..5
  BY DEF Records!Stages
<1>2. /\ Records!Stages[1] = "detected" /\ Records!Stages[2] = "gate1"
      /\ Records!Stages[3] = "gate2" /\ Records!Stages[4] = "trigger"
      /\ Records!Stages[5] = "gate4"
  BY DEF Records!Stages
<1>3. 1..5 = {1, 2, 3, 4, 5}
  OBVIOUS
<1>4. Records!Stage = {Records!Stages[i] : i \in {1, 2, 3, 4, 5}}
  BY <1>1, <1>3 DEF Records!Stage
<1>5. Records!Stage = {"detected", "gate1", "gate2", "trigger", "gate4"}
  BY <1>2, <1>4
<1>6. QED BY <1>1, <1>2, <1>5

LEMMA KindRanks ==
    /\ Records!Kind = {"gate1", "gate2", "gate3", "gate4", "pass"}
    /\ Records!Rank("none") = 0
    /\ Records!Rank("gate1") = 1 /\ Records!Rank("gate2") = 2 /\ Records!Rank("gate3") = 3
    /\ Records!Rank("gate4") = 4 /\ Records!Rank("pass") = 5
<1>1. DOMAIN Records!Kinds = 1..5
  BY DEF Records!Kinds
<1>2. /\ Records!Kinds[1] = "gate1" /\ Records!Kinds[2] = "gate2" /\ Records!Kinds[3] = "gate3"
      /\ Records!Kinds[4] = "gate4" /\ Records!Kinds[5] = "pass"
  BY DEF Records!Kinds
<1>3. 1..5 = {1, 2, 3, 4, 5}
  OBVIOUS
<1>4. Records!Kind = {Records!Kinds[i] : i \in {1, 2, 3, 4, 5}}
  BY <1>1, <1>3 DEF Records!Kind
<1>5. Records!Kind = {"gate1", "gate2", "gate3", "gate4", "pass"}
  BY <1>2, <1>4
<1>6. ASSUME NEW i \in {1, 2, 3, 4, 5} PROVE Records!Rank(Records!Kinds[i]) = i
  <2>1. \A j \in {1, 2, 3, 4, 5} : Records!Kinds[j] = Records!Kinds[i] <=> j = i
    BY <1>2
  <2>2. Records!Kinds[i] # "none"
    BY <1>2
  <2>3. QED BY <1>1, <1>3, <2>1, <2>2 DEF Records!Rank
<1>7. Records!Rank("none") = 0
  BY DEF Records!Rank
<1>8. QED BY <1>2, <1>5, <1>6, <1>7

LEMMA LaterOfTwo ==
    ASSUME NEW a \in Int, NEW b \in Int
    PROVE  Records!Max({a, b}) \in {a, b} /\ Records!Max({a, b}) >= a /\ Records!Max({a, b}) >= b
<1>1. \E x \in {a, b} : \A y \in {a, b} : x >= y
  <2>1. CASE a >= b
    BY <2>1
  <2>2. CASE b >= a
    BY <2>2
  <2>3. QED BY <2>1, <2>2
<1>2. QED BY <1>1 DEF Records!Max

(* Of numbers no greater than four there is a greatest. *)
LEMMA Greatest ==
    ASSUME NEW S \in SUBSET (0..4), S # {}
    PROVE  Records!Max(S) \in S /\ \A y \in S : Records!Max(S) >= y
<1> DEFINE T == {4 - x : x \in S}
<1>0. \A x \in S : 4 - x \in Nat
  OBVIOUS
<1>1. T \in SUBSET Nat /\ T # {}
  BY <1>0
<1>2. PICK z \in T : \A y \in T : z <= y
  BY <1>1, Least
<1>3. PICK x \in S : z = 4 - x
  BY <1>2
<1>4. ASSUME NEW y \in S PROVE x >= y
  <2>1. 4 - x <= 4 - y
    BY <1>2, <1>3
  <2>2. x \in Int /\ y \in Int
    OBVIOUS
  <2>3. QED BY <2>1, <2>2
<1>5. QED BY <1>4 DEF Records!Max

(* A stage is reached no sooner than the one before it, and not without it. *)
Follows(t, a, b) == Records!Reached(t, b) => Records!Reached(t, a) /\ t[a] <= t[b]

InOrder(t) ==
    /\ Follows(t, "detected", "gate1") /\ Follows(t, "gate1", "gate2")
    /\ Follows(t, "gate2", "trigger") /\ Follows(t, "trigger", "gate4")

LEMMA TraceTimes ==
    ASSUME NEW t \in Records!Trace, NEW s \in Records!Stage
    PROVE  t[s] \in Int /\ (Records!Reached(t, s) => t[s] \in 0..RecordTime)
BY DEF Records!Trace, Records!Times, Records!Never, Records!Reached

(* How far a trace has come bounds the stages it has reached. *)
LEMMA StampRanks ==
    ASSUME NEW t \in Records!Trace
    PROVE  /\ Records!StampRank(t) \in 0..4
           /\ Records!Reached(t, "gate4") => Records!StampRank(t) = 4
           /\ Records!Reached(t, "trigger") => Records!StampRank(t) >= 3
           /\ Records!Reached(t, "gate2") => Records!StampRank(t) >= 2
           /\ Records!Reached(t, "gate1") => Records!StampRank(t) >= 1
           /\ Records!StampRank(t) = 4 => Records!Reached(t, "gate4")
           /\ Records!StampRank(t) = 3 => Records!Reached(t, "trigger")
           /\ Records!StampRank(t) = 2 => Records!Reached(t, "gate2")
           /\ Records!StampRank(t) = 1 => Records!Reached(t, "gate1")
<1> DEFINE R == {j \in DOMAIN Records!Stages : Records!Reached(t, Records!Stages[j])}
           S == {0} \cup {i - 1 : i \in R}
<1>1. R \subseteq 1..5 /\ \A i \in R : i - 1 \in 0..4
  BY StageNames
<1>2. S \in SUBSET (0..4) /\ 0 \in S
  BY <1>1
<1>3. Records!StampRank(t) = Records!Max(S)
  BY DEF Records!StampRank
<1> HIDE DEF S
<1>4. Records!Max(S) \in S /\ \A y \in S : Records!Max(S) >= y
  BY <1>2, Greatest
<1>5. PICK m \in 0..4 : m = Records!Max(S)
  BY <1>2, <1>4
<1>6. m \in S /\ \A y \in S : m >= y
  BY <1>4, <1>5
<1>7. \A i \in 1..5 : Records!Reached(t, Records!Stages[i]) => i \in R
  BY StageNames
<1>8. \A i \in 1..5 : Records!Reached(t, Records!Stages[i]) => i - 1 \in S
  BY <1>7 DEF S
<1>9. m # 0 => \E i \in 1..5 : m = i - 1 /\ Records!Reached(t, Records!Stages[i])
  BY <1>1, <1>6 DEF S
<1>10. /\ Records!Reached(t, "gate4") => m >= 4
       /\ Records!Reached(t, "trigger") => m >= 3
       /\ Records!Reached(t, "gate2") => m >= 2
       /\ Records!Reached(t, "gate1") => m >= 1
  <2>1. \A i \in 1..5 : Records!Reached(t, Records!Stages[i]) => m >= i - 1
    BY <1>6, <1>8
  <2>2. /\ Records!Reached(t, Records!Stages[5]) => m >= 5 - 1
        /\ Records!Reached(t, Records!Stages[4]) => m >= 4 - 1
        /\ Records!Reached(t, Records!Stages[3]) => m >= 3 - 1
        /\ Records!Reached(t, Records!Stages[2]) => m >= 2 - 1
    BY <2>1
  <2>3. QED BY <2>2, StageNames
<1>11. ASSUME NEW n \in 1..4, m = n PROVE Records!Reached(t, Records!Stages[n + 1])
  <2>1. PICK i \in 1..5 : m = i - 1 /\ Records!Reached(t, Records!Stages[i])
    BY <1>9, <1>11
  <2>2. i = n + 1
    BY <1>11, <2>1
  <2>3. QED BY <2>1, <2>2
<1>12. /\ m = 4 => Records!Reached(t, Records!Stages[5])
       /\ m = 3 => Records!Reached(t, Records!Stages[4])
       /\ m = 2 => Records!Reached(t, Records!Stages[3])
       /\ m = 1 => Records!Reached(t, Records!Stages[2])
  <2>1. 4 + 1 = 5 /\ 3 + 1 = 4 /\ 2 + 1 = 3 /\ 1 + 1 = 2
    OBVIOUS
  <2>2. 4 \in 1..4 /\ 3 \in 1..4 /\ 2 \in 1..4 /\ 1 \in 1..4
    OBVIOUS
  <2>3. QED BY <1>11, <2>1, <2>2
<1>13. QED BY <1>3, <1>5, <1>10, <1>12, StageNames

(* Two traces in order make one that is: each stage has the earlier time. *)
LEMMA MergesInOrder ==
    ASSUME NEW t \in Records!Trace, NEW u \in Records!Trace, InOrder(t), InOrder(u),
           NEW w, w = [s \in Records!Stage |-> Records!Earlier(t[s], u[s])]
    PROVE  /\ w \in Records!Trace /\ InOrder(w)
           /\ \A s \in Records!Stage :
                 /\ Records!Reached(w, s) <=> Records!Reached(t, s) \/ Records!Reached(u, s)
                 /\ Records!Reached(t, s) => w[s] <= t[s]
                 /\ Records!Reached(w, s) => w[s] \in {t[s], u[s]}
<1>1. ASSUME NEW s \in Records!Stage
      PROVE  /\ w[s] \in {t[s], u[s]}
             /\ Records!Reached(w, s) <=> Records!Reached(t, s) \/ Records!Reached(u, s)
             /\ Records!Reached(t, s) => w[s] <= t[s]
             /\ Records!Reached(u, s) => w[s] <= u[s]
  BY TraceTimes DEF Records!Earlier, Records!Reached, Records!Never
<1>2. w \in Records!Trace
  <2>1. \A s \in Records!Stage : w[s] \in Records!Times
    BY <1>1 DEF Records!Trace
  <2>2. QED BY <2>1 DEF Records!Trace
<1>3. ASSUME NEW a \in Records!Stage, NEW b \in Records!Stage,
             Follows(t, a, b), Follows(u, a, b)
      PROVE  Follows(w, a, b)
  <2>1. /\ t[a] \in Int /\ t[b] \in Int /\ u[a] \in Int /\ u[b] \in Int
        /\ w[a] \in Int /\ w[b] \in Int
    BY <1>2, TraceTimes
  <2> SUFFICES ASSUME Records!Reached(w, b) PROVE Records!Reached(w, a) /\ w[a] <= w[b]
    BY DEF Follows
  <2>2. CASE w[b] = t[b]
    <3>1. Records!Reached(t, b)
      BY <2>2 DEF Records!Reached
    <3>2. Records!Reached(t, a) /\ t[a] <= t[b]
      BY <1>3, <3>1 DEF Follows
    <3>3. QED BY <1>1, <2>1, <2>2, <3>2
  <2>3. CASE w[b] = u[b]
    <3>1. Records!Reached(u, b)
      BY <2>3 DEF Records!Reached
    <3>2. Records!Reached(u, a) /\ u[a] <= u[b]
      BY <1>3, <3>1 DEF Follows
    <3>3. QED BY <1>1, <2>1, <2>3, <3>2
  <2>4. QED BY <1>1, <2>2, <2>3
<1>4. InOrder(w)
  BY <1>3, StageNames DEF InOrder
<1>5. QED BY <1>1, <1>2, <1>4

(* Every trace there is, in the filter, on its way and in the row, is in     *)
(* order; the row names an end that is no earlier than its stages.           *)
TracesInOrder ==
    /\ InOrder(trace)
    /\ \A k \in 1..Len(outcomeTasks) : InOrder(outcomeTasks[k].stamps)
    /\ InOrder(timeline.stamps)

Stamped(t, at) == \A s \in Records!Stage : Records!Reached(t, s) => t[s] <= at

TimesPast ==
    /\ Stamped(trace, recordNow)
    /\ \A k \in 1..Len(outcomeTasks) : Stamped(outcomeTasks[k].stamps, recordNow)
    /\ Stamped(timeline.stamps, timeline.at)
    /\ timeline.at <= recordNow /\ result.at <= recordNow
    /\ \A o \in written : o.at <= recordNow

LEMMA StampRankOrder ==
    ASSUME NEW t \in Records!Trace, NEW u \in Records!Trace, InOrder(t), InOrder(u),
           Records!StampRank(u) > Records!StampRank(t),
           NEW s \in Records!Stage, Records!Reached(t, s)
    PROVE  Records!Reached(u, s)
<1>1. PICK m \in 0..4 : m = Records!StampRank(u)
  BY StampRanks
<1>2. PICK n \in 0..4 : n = Records!StampRank(t)
  BY StampRanks
<1>3. m > n
  BY <1>1, <1>2
<1>4. /\ Records!Reached(t, "gate4") => n = 4
      /\ Records!Reached(t, "trigger") => n >= 3
      /\ Records!Reached(t, "gate2") => n >= 2
      /\ Records!Reached(t, "gate1") => n >= 1
  BY <1>2, StampRanks
<1>5. /\ m = 4 => Records!Reached(u, "gate4")
      /\ m = 3 => Records!Reached(u, "trigger")
      /\ m = 2 => Records!Reached(u, "gate2")
      /\ m = 1 => Records!Reached(u, "gate1")
  BY <1>1, StampRanks
<1>6. /\ m = 1 => Records!Reached(u, "detected")
      /\ m = 2 => Records!Reached(u, "gate1") /\ Records!Reached(u, "detected")
      /\ m = 3 => Records!Reached(u, "gate2") /\ Records!Reached(u, "gate1")
                  /\ Records!Reached(u, "detected")
      /\ m = 4 => Records!Reached(u, "trigger") /\ Records!Reached(u, "gate2")
                  /\ Records!Reached(u, "gate1") /\ Records!Reached(u, "detected")
  BY <1>5 DEF InOrder, Follows
<1>7. s \in {"detected", "gate1", "gate2", "trigger", "gate4"}
  BY StageNames
<1>8. CASE m = 1
  BY <1>3, <1>4, <1>5, <1>6, <1>7, <1>8
<1>9. CASE m = 2
  BY <1>3, <1>4, <1>5, <1>6, <1>7, <1>9
<1>10. CASE m = 3
  BY <1>3, <1>4, <1>5, <1>6, <1>7, <1>10
<1>11. CASE m = 4
  BY <1>3, <1>4, <1>5, <1>6, <1>7, <1>11
<1>12. QED BY <1>1, <1>3, <1>8, <1>9, <1>10, <1>11

(* What merging an outcome makes of the timeline. *)
LEMMA TimelineMerged ==
    ASSUME Records!TypeOK, TracesInOrder, TimesPast,
           NEW o \in Records!Outcome, InOrder(o.stamps), Stamped(o.stamps, recordNow)
    PROVE  /\ Records!MergedTimeline(o) \in Records!Line
           /\ InOrder(Records!MergedTimeline(o).stamps)
           /\ Stamped(Records!MergedTimeline(o).stamps, Records!MergedTimeline(o).at)
           /\ Records!MergedTimeline(o).at <= recordNow
<1> DEFINE m == Records!MergedTimeline(o)
           t == timeline.stamps
           u == o.stamps
           newer == Records!Beats(Records!StampRank(u), Records!StampRank(t), recordNow, timeline.at)
<1>1. /\ recordNow \in 0..RecordTime /\ timeline \in Records!Line
      /\ t \in Records!Trace /\ u \in Records!Trace /\ timeline.at \in Records!Times
      /\ timeline.kind \in Records!Kind \cup {"none"} /\ o.kind \in Records!Kind
  BY DEF Records!TypeOK, Records!Line, Records!Outcome
<1>2. m.stamps = [s \in Records!Stage |-> Records!Earlier(t[s], u[s])]
  BY DEF Records!MergedTimeline
<1>3. m.at = IF newer THEN recordNow ELSE timeline.at
  BY DEF Records!MergedTimeline, Records!Final
<1>4. m.kind = IF newer THEN o.kind ELSE timeline.kind
  BY DEF Records!MergedTimeline
<1>5. m = [kind |-> m.kind, stamps |-> m.stamps, at |-> m.at]
  BY DEF Records!MergedTimeline
<1>6. InOrder(t) /\ InOrder(u) /\ Stamped(t, timeline.at) /\ Stamped(u, recordNow)
      /\ timeline.at <= recordNow
  BY DEF TracesInOrder, TimesPast
<1> HIDE DEF m, newer
<1>7. /\ m.stamps \in Records!Trace /\ InOrder(m.stamps)
      /\ \A s \in Records!Stage :
            /\ Records!Reached(m.stamps, s) <=> Records!Reached(t, s) \/ Records!Reached(u, s)
            /\ Records!Reached(t, s) => m.stamps[s] <= t[s]
            /\ Records!Reached(m.stamps, s) => m.stamps[s] \in {t[s], u[s]}
  BY <1>1, <1>2, <1>6, MergesInOrder
<1>8. recordNow \in Records!Times /\ recordNow \in Int /\ timeline.at \in Int
  BY <1>1, RecordsAssumption DEF Records!Times, Records!Never
<1>9. m.at \in Records!Times /\ m.at <= recordNow
  BY <1>1, <1>3, <1>6, <1>8
<1>10. m.kind \in Records!Kind \cup {"none"}
  BY <1>1, <1>4
<1>11. m \in Records!Line
  BY <1>5, <1>7, <1>9, <1>10 DEF Records!Line
<1>12. ASSUME NEW s \in Records!Stage, Records!Reached(m.stamps, s) PROVE m.stamps[s] <= m.at
  <2>1. m.stamps[s] \in Int /\ t[s] \in Int /\ u[s] \in Int
    BY <1>1, <1>7, TraceTimes
  <2>2. CASE newer
    <3>1. Records!Reached(t, s) => t[s] <= recordNow
      BY <1>6, <1>8, <2>1 DEF Stamped
    <3>2. Records!Reached(u, s) => u[s] <= recordNow
      BY <1>6 DEF Stamped
    <3>3. m.stamps[s] = t[s] \/ m.stamps[s] = u[s]
      BY <1>7, <1>12
    <3>4. m.stamps[s] <= recordNow
      BY <1>12, <3>1, <3>2, <3>3 DEF Records!Reached
    <3>5. QED BY <1>3, <2>2, <3>4
  <2>3. CASE ~ newer
    <3>1. Records!StampRank(t) \in Int /\ Records!StampRank(u) \in Int
      BY <1>1, StampRanks
    <3>2. Records!StampRank(t) > Records!StampRank(u)
      BY <1>6, <1>8, <2>3, <3>1 DEF newer, Records!Beats
    <3>3. Records!Reached(t, s)
      BY <1>1, <1>6, <1>7, <1>12, <3>2, StampRankOrder
    <3>4. m.stamps[s] <= t[s] /\ t[s] <= timeline.at
      BY <1>6, <1>7, <3>3 DEF Stamped
    <3>5. QED BY <1>3, <1>8, <2>1, <2>3, <3>4
  <2>4. QED BY <2>2, <2>3
<1>13. Stamped(m.stamps, m.at)
  BY <1>12 DEF Stamped
<1>14. QED BY <1>7, <1>9, <1>11, <1>13 DEF m

(* A trace may be stamped, now, with the stage after one it has reached. *)
LEMMA StampNext ==
    ASSUME Records!TypeOK, NEW t \in Records!Trace, InOrder(t), Stamped(t, recordNow),
           NEW a \in Records!Stage, NEW b \in Records!Stage,
           <<a, b>> \in {<<"gate1", "gate2">>, <<"gate2", "trigger">>, <<"trigger", "gate4">>},
           Records!Reached(t, a), ~ Records!Reached(t, b) \/ b = "gate4"
    PROVE  /\ [t EXCEPT ![b] = recordNow] \in Records!Trace
           /\ InOrder([t EXCEPT ![b] = recordNow])
           /\ Stamped([t EXCEPT ![b] = recordNow], recordNow)
<1> DEFINE u == [t EXCEPT ![b] = recordNow]
<1>1. recordNow \in 0..RecordTime /\ recordNow \in Records!Times /\ recordNow \in Int
  BY RecordsAssumption DEF Records!TypeOK, Records!Times
<1>2. u \in Records!Trace
  BY <1>1 DEF Records!Trace
<1>3. \A s \in Records!Stage : u[s] = IF s = b THEN recordNow ELSE t[s]
  BY DEF Records!Trace
<1> HIDE DEF u
<1>4. Records!Reached(u, b) /\ u[b] = recordNow
  BY <1>1, <1>3 DEF Records!Reached, Records!Never
<1>5. \A s \in Records!Stage : s # b => (Records!Reached(u, s) <=> Records!Reached(t, s))
  BY <1>3 DEF Records!Reached
<1>6. t[a] <= recordNow
  BY DEF Stamped
<1>7. Follows(u, a, b)
  BY <1>1, <1>3, <1>4, <1>5, <1>6 DEF Follows
<1>8. ASSUME NEW x \in Records!Stage, NEW y \in Records!Stage, x # b, y # b, Follows(t, x, y)
      PROVE  Follows(u, x, y)
  BY <1>3, <1>5, <1>8 DEF Follows
<1>9. InOrder(u)
  <2>1. CASE b = "gate2"
    <3>1. ~ Records!Reached(t, "trigger")
      BY <2>1 DEF InOrder, Follows
    <3>2. Follows(u, "gate2", "trigger")
      BY <1>5, <2>1, <3>1, StageNames DEF Follows
    <3>3. Follows(u, "detected", "gate1") /\ Follows(u, "trigger", "gate4")
      BY <1>8, <2>1, StageNames DEF InOrder
    <3>4. QED BY <1>7, <2>1, <3>2, <3>3 DEF InOrder
  <2>2. CASE b = "trigger"
    <3>1. ~ Records!Reached(t, "gate4")
      BY <2>2 DEF InOrder, Follows
    <3>2. Follows(u, "trigger", "gate4")
      BY <1>5, <2>2, <3>1, StageNames DEF Follows
    <3>3. Follows(u, "detected", "gate1") /\ Follows(u, "gate1", "gate2")
      BY <1>8, <2>2, StageNames DEF InOrder
    <3>4. QED BY <1>7, <2>2, <3>2, <3>3 DEF InOrder
  <2>3. CASE b = "gate4"
    <3>1. /\ Follows(u, "detected", "gate1") /\ Follows(u, "gate1", "gate2")
          /\ Follows(u, "gate2", "trigger")
      BY <1>8, <2>3, StageNames DEF InOrder
    <3>2. QED BY <1>7, <2>3, <3>1 DEF InOrder
  <2>4. QED BY <2>1, <2>2, <2>3
<1>10. Stamped(u, recordNow)
  BY <1>1, <1>3, <1>5 DEF Stamped
<1>11. QED BY <1>2, <1>9, <1>10 DEF u

LEMMA FirstStamps ==
    ASSUME Records!TypeOK,
           NEW t, t = [Records!NoTrace EXCEPT !["detected"] = recordNow, !["gate1"] = recordNow]
    PROVE  t \in Records!Trace /\ InOrder(t) /\ Stamped(t, recordNow)
<1>1. recordNow \in 0..RecordTime /\ recordNow \in Records!Times /\ recordNow \in Int
  BY RecordsAssumption DEF Records!TypeOK, Records!Times
<1>2. \A s \in Records!Stage :
         t[s] = IF s \in {"detected", "gate1"} THEN recordNow ELSE Records!Never
  BY DEF Records!NoTrace
<1>3. t \in Records!Trace
  <2>1. t \in [Records!Stage -> Records!Times]
    BY <1>1 DEF Records!NoTrace, Records!Times
  <2>2. QED BY <2>1 DEF Records!Trace
<1>4. InOrder(t)
  BY <1>1, <1>2, StageNames DEF InOrder, Follows, Records!Reached, Records!Never
<1>5. \A s \in Records!Stage : Records!Reached(t, s) => t[s] = recordNow
  BY <1>2 DEF Records!Reached
<1>6. recordNow <= recordNow
  BY <1>1
<1>7. Stamped(t, recordNow)
  BY <1>5, <1>6 DEF Stamped
<1>8. QED BY <1>3, <1>4, <1>7

LEMMA NoStamps ==
    /\ Records!NoTrace \in Records!Trace /\ InOrder(Records!NoTrace)
    /\ \A at : Stamped(Records!NoTrace, at)
BY StageNames
DEF Records!NoTrace, Records!Trace, Records!Times, Records!Reached, InOrder, Follows, Stamped

(* The outcome with the best result yet is there to be found, or none is. *)
BestKept ==
    /\ written = {} => result.kind = "none"
    /\ Records!BestRecorded

RecordsInv == Records!TypeOK /\ TracesInOrder /\ TimesPast /\ BestKept

LEMMA RecordsInvInit == Records!Init => RecordsInv
<1> SUFFICES ASSUME Records!Init PROVE RecordsInv
  OBVIOUS
<1>1. Records!Never \in Records!Times /\ 0 \in 0..RecordTime /\ 0 \in 0..MaxOutcomes
  BY RecordsAssumption DEF Records!Times
<1>2. Records!TypeOK
  BY <1>1, NoStamps DEF Records!Init, Records!TypeOK, Records!Row, Records!Line
<1>3. TracesInOrder
  BY NoStamps DEF Records!Init, TracesInOrder
<1>4. TimesPast
  BY NoStamps DEF Records!Init, TimesPast, Records!Never
<1>5. BestKept
  BY DEF Records!Init, BestKept, Records!BestRecorded
<1>6. QED BY <1>2, <1>3, <1>4, <1>5 DEF RecordsInv

(* What a candidate takes with it as it leaves. *)
LEMMA LeavesSound ==
    ASSUME Records!TypeOK, TracesInOrder, TimesPast, NEW kind \in Records!Ends,
           NEW t, t = IF kind \in {"gate4", "pass"} THEN [trace EXCEPT !["gate4"] = recordNow]
                      ELSE trace
    PROVE  /\ kind \in Records!Kind
           /\ t \in Records!Trace /\ InOrder(t) /\ Stamped(t, recordNow)
<1>1. trace \in Records!Trace /\ InOrder(trace) /\ Stamped(trace, recordNow)
  BY DEF Records!TypeOK, TracesInOrder, TimesPast
<1>2. /\ kind \in {"gate2", "gate3", "gate4", "pass"}
      /\ kind \in {"gate4", "pass"} => Records!Reached(trace, "trigger")
  BY DEF Records!Ends
<1>3. CASE kind \in {"gate4", "pass"}
  BY <1>1, <1>2, <1>3, StageNames, KindRanks, StampNext
<1>4. CASE kind \notin {"gate4", "pass"}
  BY <1>1, <1>2, <1>4, KindRanks
<1>5. QED BY <1>3, <1>4

(* An outcome joins the queue, or one leaves it. *)
LEMMA QueueGrows ==
    ASSUME Records!TypeOK, TracesInOrder, TimesPast, NEW o \in Records!Outcome,
           InOrder(o.stamps), Stamped(o.stamps, recordNow)
    PROVE  LET q == Append(outcomeTasks, o)
           IN  /\ q \in Seq(Records!Outcome)
               /\ \A k \in 1..Len(q) : InOrder(q[k].stamps) /\ Stamped(q[k].stamps, recordNow)
<1> DEFINE q == Append(outcomeTasks, o)
<1>1. outcomeTasks \in Seq(Records!Outcome)
  BY DEF Records!TypeOK
<1>2. /\ q \in Seq(Records!Outcome) /\ Len(q) = Len(outcomeTasks) + 1
      /\ \A k \in 1..Len(outcomeTasks) : q[k] = outcomeTasks[k]
      /\ q[Len(outcomeTasks) + 1] = o
  BY <1>1, AppendProperties
<1> HIDE DEF q
<1>3. ASSUME NEW k \in 1..Len(q) PROVE q[k] = o \/ \E i \in 1..Len(outcomeTasks) : q[k] = outcomeTasks[i]
  <2>1. PICK n \in Nat : n = Len(outcomeTasks)
    BY <1>1, LenProperties
  <2>2. k = n + 1 \/ k \in 1..n
    BY <1>2, <2>1
  <2>3. QED BY <1>2, <2>1, <2>2
<1>4. \A k \in 1..Len(q) : InOrder(q[k].stamps) /\ Stamped(q[k].stamps, recordNow)
  BY <1>3 DEF TracesInOrder, TimesPast
<1>5. QED BY <1>2, <1>4 DEF q

LEMMA QueueShrinks ==
    ASSUME Records!TypeOK, TracesInOrder, TimesPast, outcomeTasks # <<>>
    PROVE  /\ Head(outcomeTasks) \in Records!Outcome
           /\ InOrder(Head(outcomeTasks).stamps) /\ Stamped(Head(outcomeTasks).stamps, recordNow)
           /\ LET q == Tail(outcomeTasks)
              IN  /\ q \in Seq(Records!Outcome)
                  /\ \A k \in 1..Len(q) : InOrder(q[k].stamps) /\ Stamped(q[k].stamps, recordNow)
<1> DEFINE q == Tail(outcomeTasks)
<1>1. outcomeTasks \in Seq(Records!Outcome) /\ Len(outcomeTasks) \in Nat
  BY LenProperties DEF Records!TypeOK
<1>2. /\ Head(outcomeTasks) \in Records!Outcome /\ q \in Seq(Records!Outcome)
      /\ Len(q) = Len(outcomeTasks) - 1
      /\ \A k \in 1..Len(q) : q[k] = outcomeTasks[k + 1]
  BY <1>1, HeadTailProperties
<1>3. Head(outcomeTasks) = outcomeTasks[1] /\ Len(outcomeTasks) >= 1
  BY <1>1
<1> HIDE DEF q
<1>4. \A k \in 1..Len(q) : k + 1 \in 1..Len(outcomeTasks)
  BY <1>1, <1>2
<1>5. \A k \in 1..Len(q) : InOrder(q[k].stamps) /\ Stamped(q[k].stamps, recordNow)
  BY <1>2, <1>4 DEF TracesInOrder, TimesPast
<1>6. 1 \in 1..Len(outcomeTasks)
  BY <1>1, <1>3
<1>7. InOrder(Head(outcomeTasks).stamps) /\ Stamped(Head(outcomeTasks).stamps, recordNow)
  BY <1>3, <1>6 DEF TracesInOrder, TimesPast
<1>8. QED BY <1>2, <1>5, <1>7 DEF q

(* What merging an outcome makes of the result: it takes its place, now, or  *)
(* an outcome further on stays.                                              *)
LEMMA ResultMerged ==
    ASSUME Records!TypeOK, TimesPast, BestKept, NEW kind \in Records!Kind,
           result' = Records!MergedResult(kind),
           written' = written \cup {[kind |-> kind, at |-> recordNow]}
    PROVE  /\ result' \in Records!Row /\ result'.at <= recordNow
           /\ written' \in SUBSET [kind : Records!Kind, at : 0..RecordTime]
           /\ \A o \in written' : o.at <= recordNow
           /\ BestKept'
<1> DEFINE new == [kind |-> kind, at |-> recordNow]
           m == Records!Max({recordNow, result.at})
<1>1. /\ recordNow \in 0..RecordTime /\ recordNow \in Int /\ recordNow \in Records!Times
      /\ result \in Records!Row
      /\ result.at \in Records!Times /\ result.since \in Records!Times
      /\ result.kind \in Records!Kind \cup {"none"} /\ result.at \in Int
      /\ written \in SUBSET [kind : Records!Kind, at : 0..RecordTime]
      /\ result.at <= recordNow /\ \A o \in written : o.at <= recordNow
  BY RecordsAssumption DEF Records!TypeOK, Records!Row, Records!Times, Records!Never, TimesPast
<1>2. m = recordNow
  <2>1. m \in {recordNow, result.at} /\ m >= recordNow
    BY <1>1, LaterOfTwo
  <2> HIDE DEF m
  <2>2. QED BY <1>1, <2>1
<1>3. /\ new \in [kind : Records!Kind, at : 0..RecordTime] /\ new.at = recordNow
      /\ new.kind = kind
  BY <1>1
<1>4. \A k \in Records!Kind \cup {"none"} : Records!Rank(k) \in 0..5
  BY KindRanks
<1>5. \A k, l \in Records!Kind \cup {"none"} : Records!Rank(k) = Records!Rank(l) => k = l
  BY KindRanks
<1>6. /\ result' = IF Records!Beats(Records!Rank(kind), Records!Rank(result.kind), recordNow,
                                    result.at)
                   THEN [kind |-> kind, since |-> recordNow, at |-> recordNow]
                   ELSE [result EXCEPT !.at = recordNow]
  BY <1>1, <1>2, LaterOfTwo DEF Records!MergedResult, Records!Row
<1>7. recordNow <= recordNow
  BY <1>1
<1>8. /\ written' \in SUBSET [kind : Records!Kind, at : 0..RecordTime]
      /\ \A o \in written' : o.at <= recordNow
      /\ written' # {} /\ new \in written'
  BY <1>1, <1>3, <1>7
<1> HIDE DEF new, m
<1>9. CASE Records!Rank(kind) >= Records!Rank(result.kind)
  <2>1. result' = [kind |-> kind, since |-> recordNow, at |-> recordNow]
    BY <1>1, <1>4, <1>6, <1>9 DEF Records!Beats
  <2>2. result' \in Records!Row /\ result'.at = recordNow
    BY <1>1, <2>1 DEF Records!Row
  <2>3. ASSUME NEW p \in written'
        PROVE  Records!Rank(p.kind) < Records!Rank(new.kind) \/ (p.kind = new.kind /\ p.at <= new.at)
    <3>1. CASE p = new
      BY <1>3, <1>7, <3>1
    <3>2. CASE p \in written
      <4>1. PICK o \in written :
               /\ result.kind = o.kind
               /\ Records!Rank(p.kind) < Records!Rank(o.kind) \/ p.kind = o.kind
        BY <3>2 DEF BestKept, Records!BestRecorded
      <4>2. p.kind \in Records!Kind /\ o.kind \in Records!Kind /\ p.at <= recordNow
        BY <1>1, <3>2
      <4>3. Records!Rank(p.kind) < Records!Rank(kind) \/ Records!Rank(p.kind) = Records!Rank(kind)
        <5>1. PICK x \in 0..5 : x = Records!Rank(p.kind)
          BY <1>4, <4>2
        <5>2. PICK y \in 0..5 : y = Records!Rank(o.kind)
          BY <1>4, <4>2
        <5>3. PICK z \in 0..5 : z = Records!Rank(kind)
          BY <1>4
        <5>4. (x < y \/ x = y) /\ y <= z
          BY <1>9, <4>1, <5>1, <5>2, <5>3
        <5>5. QED BY <5>1, <5>2, <5>3, <5>4
      <4>4. QED BY <1>3, <1>5, <4>2, <4>3
    <3>3. QED BY <1>8, <3>1, <3>2 DEF new
  <2>4. Records!BestRecorded'
    BY <1>3, <1>8, <2>1, <2>3 DEF Records!BestRecorded
  <2>5. QED BY <1>7, <1>8, <2>2, <2>4 DEF BestKept
<1>10. CASE ~ (Records!Rank(kind) >= Records!Rank(result.kind))
  <2>1. Records!Rank(kind) < Records!Rank(result.kind)
    BY <1>1, <1>4, <1>10
  <2>2. result' = [result EXCEPT !.at = recordNow]
    BY <1>1, <1>4, <1>6, <2>1 DEF Records!Beats
  <2>3. /\ result' \in Records!Row /\ result'.at = recordNow
        /\ result'.kind = result.kind /\ result'.since = result.since
    BY <1>1, <2>2 DEF Records!Row
  <2>4. result.kind # "none"
    BY <1>4, <2>1, KindRanks
  <2>5. PICK o \in written :
           /\ result.kind = o.kind /\ result.since = o.at
           /\ \A p \in written :
                 Records!Rank(p.kind) < Records!Rank(o.kind) \/ (p.kind = o.kind /\ p.at <= o.at)
    BY <2>4 DEF BestKept, Records!BestRecorded
  <2>6. Records!Rank(new.kind) < Records!Rank(o.kind)
    BY <1>3, <2>1, <2>5
  <2>7. \A p \in written' : p \in written \/ p = new
    BY DEF new
  <2>8. o \in written'
    BY <2>5
  <2>9. Records!BestRecorded'
    BY <2>3, <2>5, <2>6, <2>7, <2>8 DEF Records!BestRecorded
  <2>10. QED BY <1>7, <1>8, <2>3, <2>9 DEF BestKept
<1>11. QED BY <1>9, <1>10

LEMMA RecordsInvKept == RecordsInv /\ [Records!Next]_recordVars => RecordsInv'
<1> SUFFICES ASSUME RecordsInv, [Records!Next]_recordVars PROVE RecordsInv'
  OBVIOUS
<1>1. Records!TypeOK /\ TracesInOrder /\ TimesPast /\ BestKept
  BY DEF RecordsInv
<1>2. /\ recordNow \in 0..RecordTime /\ trace \in Records!Trace
      /\ outcomeTasks \in Seq(Records!Outcome) /\ result \in Records!Row
      /\ timeline \in Records!Line /\ outcomes \in 0..MaxOutcomes
      /\ written \in SUBSET [kind : Records!Kind, at : 0..RecordTime]
  BY <1>1 DEF Records!TypeOK
<1>3. outcomes < MaxOutcomes => outcomes + 1 \in 0..MaxOutcomes
  BY <1>2, RecordsAssumption
<1>4. CASE Records!TurnedAway
  <2> DEFINE t == [Records!NoTrace EXCEPT !["detected"] = recordNow, !["gate1"] = recordNow]
  <2>1. t \in Records!Trace /\ InOrder(t) /\ Stamped(t, recordNow)
    BY <1>1, FirstStamps
  <2>2. [kind |-> "gate1", stamps |-> t] \in Records!Outcome
    BY <2>1, KindRanks DEF Records!Outcome
  <2>3. /\ outcomeTasks' = Append(outcomeTasks, [kind |-> "gate1", stamps |-> t])
        /\ outcomes < MaxOutcomes /\ outcomes' = outcomes + 1
        /\ UNCHANGED <<recordNow, trace, result, timeline, written>>
    BY <1>4 DEF Records!TurnedAway
  <2> HIDE DEF t
  <2>4. /\ outcomeTasks' \in Seq(Records!Outcome)
        /\ \A k \in 1..Len(outcomeTasks') :
              InOrder(outcomeTasks'[k].stamps) /\ Stamped(outcomeTasks'[k].stamps, recordNow)
    BY <1>1, <2>1, <2>2, <2>3, QueueGrows
  <2>5. outcomes' \in 0..MaxOutcomes
    BY <1>3, <2>3
  <2>6. Records!TypeOK'
    BY <1>2, <2>3, <2>4, <2>5 DEF Records!TypeOK
  <2>7. TracesInOrder' /\ TimesPast' /\ BestKept'
    BY <1>1, <2>3, <2>4 DEF TracesInOrder, TimesPast, BestKept, Records!BestRecorded
  <2>8. QED BY <2>6, <2>7 DEF RecordsInv
<1>5. CASE Records!Admitted
  <2>1. trace' \in Records!Trace /\ InOrder(trace') /\ Stamped(trace', recordNow)
    BY <1>1, <1>5, FirstStamps DEF Records!Admitted
  <2>2. /\ outcomes < MaxOutcomes /\ outcomes' = outcomes + 1
        /\ UNCHANGED <<recordNow, outcomeTasks, result, timeline, written>>
    BY <1>5 DEF Records!Admitted
  <2>3. outcomes' \in 0..MaxOutcomes
    BY <1>3, <2>2
  <2>4. Records!TypeOK'
    BY <1>2, <2>1, <2>2, <2>3 DEF Records!TypeOK
  <2>5. TracesInOrder' /\ TimesPast' /\ BestKept'
    BY <1>1, <2>1, <2>2 DEF TracesInOrder, TimesPast, BestKept, Records!BestRecorded
  <2>6. QED BY <2>4, <2>5 DEF RecordsInv
<1>6. CASE Records!Proceeds("gate1", "gate2") \/ Records!Proceeds("gate2", "trigger")
  <2>1. trace' \in Records!Trace /\ InOrder(trace') /\ Stamped(trace', recordNow)
    <3>1. InOrder(trace) /\ Stamped(trace, recordNow)
      BY <1>1 DEF TracesInOrder, TimesPast
    <3>2. QED BY <1>1, <1>2, <1>6, <3>1, StampNext, StageNames DEF Records!Proceeds
  <2>2. UNCHANGED <<recordNow, outcomeTasks, result, timeline, outcomes, written>>
    BY <1>6 DEF Records!Proceeds
  <2>3. Records!TypeOK'
    BY <1>2, <2>1, <2>2 DEF Records!TypeOK
  <2>4. TracesInOrder' /\ TimesPast' /\ BestKept'
    BY <1>1, <2>1, <2>2 DEF TracesInOrder, TimesPast, BestKept, Records!BestRecorded
  <2>5. QED BY <2>3, <2>4 DEF RecordsInv
<1>7. CASE Records!Leaves
  <2>1. PICK kind \in Records!Ends :
           /\ outcomeTasks' = Append(outcomeTasks,
                 [kind |-> kind,
                  stamps |-> IF kind \in {"gate4", "pass"}
                             THEN [trace EXCEPT !["gate4"] = recordNow] ELSE trace])
           /\ trace' = Records!NoTrace
           /\ UNCHANGED <<recordNow, result, timeline, outcomes, written>>
    BY <1>7 DEF Records!Leaves
  <2>2. PICK t : t = IF kind \in {"gate4", "pass"} THEN [trace EXCEPT !["gate4"] = recordNow]
                     ELSE trace
    OBVIOUS
  <2>3. /\ kind \in Records!Kind
        /\ t \in Records!Trace /\ InOrder(t) /\ Stamped(t, recordNow)
    BY <1>1, <2>2, LeavesSound
  <2>4. [kind |-> kind, stamps |-> t] \in Records!Outcome
    BY <2>3 DEF Records!Outcome
  <2>5. outcomeTasks' = Append(outcomeTasks, [kind |-> kind, stamps |-> t])
    BY <2>1, <2>2
  <2>6. /\ outcomeTasks' \in Seq(Records!Outcome)
        /\ \A k \in 1..Len(outcomeTasks') :
              InOrder(outcomeTasks'[k].stamps) /\ Stamped(outcomeTasks'[k].stamps, recordNow)
    BY <1>1, <2>3, <2>4, <2>5, QueueGrows
  <2>7. Records!TypeOK'
    BY <1>2, <2>1, <2>6, NoStamps DEF Records!TypeOK
  <2>8. TracesInOrder' /\ TimesPast' /\ BestKept'
    BY <1>1, <2>1, <2>6, NoStamps DEF TracesInOrder, TimesPast, BestKept, Records!BestRecorded
  <2>9. QED BY <2>7, <2>8 DEF RecordsInv
<1>8. CASE Records!Record
  <2>1. PICK o : /\ o = Head(outcomeTasks)
                 /\ \/ /\ result' = Records!MergedResult(o.kind)
                       /\ written' = written \cup {[kind |-> o.kind, at |-> recordNow]}
                    \/ UNCHANGED <<result, written>>
                 /\ timeline' \in {Records!MergedTimeline(o), timeline}
    BY <1>8 DEF Records!Record
  <2>2. /\ outcomeTasks # <<>> /\ outcomeTasks' = Tail(outcomeTasks)
        /\ UNCHANGED <<recordNow, trace, outcomes>>
    BY <1>8 DEF Records!Record
  <2>3. /\ o \in Records!Outcome /\ InOrder(o.stamps) /\ Stamped(o.stamps, recordNow)
        /\ outcomeTasks' \in Seq(Records!Outcome)
        /\ \A k \in 1..Len(outcomeTasks') :
              InOrder(outcomeTasks'[k].stamps) /\ Stamped(outcomeTasks'[k].stamps, recordNow)
    BY <1>1, <2>1, <2>2, QueueShrinks
  <2>4. /\ timeline' \in Records!Line /\ InOrder(timeline'.stamps)
        /\ Stamped(timeline'.stamps, timeline'.at) /\ timeline'.at <= recordNow
    <3>1. CASE timeline' = timeline
      BY <1>1, <1>2, <3>1 DEF TracesInOrder, TimesPast
    <3>2. CASE timeline' = Records!MergedTimeline(o)
      BY <1>1, <2>3, <3>2, TimelineMerged
    <3>3. QED BY <2>1, <3>1, <3>2
  <2>5. /\ result' \in Records!Row /\ result'.at <= recordNow
        /\ written' \in SUBSET [kind : Records!Kind, at : 0..RecordTime]
        /\ \A p \in written' : p.at <= recordNow
        /\ BestKept'
    <3>1. CASE UNCHANGED <<result, written>>
      BY <1>1, <1>2, <3>1 DEF TimesPast, BestKept, Records!BestRecorded
    <3>2. CASE /\ result' = Records!MergedResult(o.kind)
               /\ written' = written \cup {[kind |-> o.kind, at |-> recordNow]}
      <4>1. o.kind \in Records!Kind
        BY <2>3 DEF Records!Outcome
      <4>2. QED BY <1>1, <3>2, <4>1, ResultMerged
    <3>3. QED BY <2>1, <3>1, <3>2
  <2>6. Records!TypeOK'
    BY <1>2, <2>2, <2>3, <2>4, <2>5 DEF Records!TypeOK
  <2>7. TracesInOrder' /\ TimesPast'
    BY <1>1, <2>2, <2>3, <2>4, <2>5 DEF TracesInOrder, TimesPast
  <2>8. QED BY <2>5, <2>6, <2>7 DEF RecordsInv
<1>9. CASE Records!Restart
  <2>1. /\ trace' = Records!NoTrace /\ outcomeTasks' = <<>>
        /\ UNCHANGED <<recordNow, result, timeline, outcomes, written>>
    BY <1>9 DEF Records!Restart
  <2>2. Records!TypeOK'
    BY <1>2, <2>1, NoStamps DEF Records!TypeOK
  <2>3. TracesInOrder' /\ TimesPast' /\ BestKept'
    BY <1>1, <2>1, NoStamps DEF TracesInOrder, TimesPast, BestKept, Records!BestRecorded
  <2>4. QED BY <2>2, <2>3 DEF RecordsInv
<1>10. CASE Records!Tick
  <2>1. /\ recordNow < RecordTime /\ recordNow' = recordNow + 1
        /\ UNCHANGED <<trace, outcomeTasks, result, timeline, outcomes, written>>
    BY <1>10 DEF Records!Tick
  <2>2. PICK n \in 0..RecordTime : n = recordNow + 1
    BY <1>2, <2>1, RecordsAssumption
  <2>3. recordNow' \in 0..RecordTime /\ \A x \in Int : x <= recordNow => x <= recordNow'
    <3>1. \A x \in Int : x <= recordNow => x <= n
      BY <1>2, <2>2
    <3>2. QED BY <2>1, <2>2, <3>1
  <2>4. Records!TypeOK'
    BY <1>2, <2>1, <2>3 DEF Records!TypeOK
  <2>5. \A t \in Records!Trace : Stamped(t, recordNow) => Stamped(t, recordNow')
    BY <2>3, TraceTimes DEF Stamped
  <2>6. \A k \in 1..Len(outcomeTasks) : outcomeTasks[k].stamps \in Records!Trace
    <3>1. \A k \in 1..Len(outcomeTasks) : outcomeTasks[k] \in Records!Outcome
      BY <1>2, ElementOfSeq
    <3>2. QED BY <3>1 DEF Records!Outcome
  <2>7. timeline.at \in Int /\ result.at \in Int /\ \A o \in written : o.at \in Int
    BY <1>2 DEF Records!Line, Records!Row, Records!Times, Records!Never
  <2>8. TimesPast'
    BY <1>1, <1>2, <2>1, <2>3, <2>5, <2>6, <2>7 DEF TimesPast
  <2>9. TracesInOrder' /\ BestKept'
    BY <1>1, <2>1 DEF TracesInOrder, BestKept, Records!BestRecorded
  <2>10. QED BY <2>4, <2>8, <2>9 DEF RecordsInv
<1>11. CASE UNCHANGED recordVars
  BY <1>1, <1>11
  DEF recordVars, RecordsInv, Records!TypeOK, TracesInOrder, TimesPast, BestKept,
      Records!BestRecorded
<1>12. QED
  BY <1>4, <1>5, <1>6, <1>7, <1>8, <1>9, <1>10, <1>11 DEF Records!Next

LEMMA RecordsInvShows == RecordsInv => Records!TypeOK /\ RecordsMerge
<1> SUFFICES ASSUME RecordsInv PROVE Records!TypeOK /\ RecordsMerge
  OBVIOUS
<1> DEFINE t == timeline.stamps
<1>1. Records!TypeOK /\ InOrder(t) /\ Stamped(t, timeline.at) /\ Records!BestRecorded
  BY DEF RecordsInv, TracesInOrder, TimesPast, BestKept
<1>2. t \in Records!Trace
  BY <1>1 DEF Records!TypeOK, Records!Line
<1>3. PICK d, g, h, u, v \in Int :
         /\ d = t["detected"] /\ g = t["gate1"] /\ h = t["gate2"] /\ u = t["trigger"]
         /\ v = t["gate4"]
  BY <1>2, TraceTimes, StageNames
<1> HIDE DEF t
<1>4. /\ g # -1 => d # -1 /\ d <= g
      /\ h # -1 => g # -1 /\ g <= h
      /\ u # -1 => h # -1 /\ h <= u
      /\ v # -1 => u # -1 /\ u <= v
  BY <1>1, <1>3 DEF InOrder, Follows, Records!Reached, Records!Never
<1>5. ASSUME NEW i \in 1..5, NEW j \in 1..5, i < j, t[Records!Stages[i]] # -1,
             t[Records!Stages[j]] # -1
      PROVE  t[Records!Stages[i]] <= t[Records!Stages[j]]
  <2>1. CASE j = 2
    BY <1>3, <1>4, <1>5, <2>1, StageNames
  <2>2. CASE j = 3
    BY <1>3, <1>4, <1>5, <2>2, StageNames
  <2>3. CASE j = 4
    BY <1>3, <1>4, <1>5, <2>3, StageNames
  <2>4. CASE j = 5
    BY <1>3, <1>4, <1>5, <2>4, StageNames
  <2>5. QED BY <1>5, <2>1, <2>2, <2>3, <2>4
<1>6. Records!StagesInOrder
  BY <1>1, <1>5, StageNames
  DEF Records!StagesInOrder, Records!Reached, Records!Never, Stamped, t
<1>7. QED BY <1>1, <1>6 DEF RecordsMerge

-----------------------------------------------------------------------------
(* Scoring.                                                                  *)

LEMMA EvidenceFields ==
    ASSUME NEW e \in Scores!Evidence
    PROVE  /\ e.path \in {"fast", "soft"} /\ e.matched \in 1..2 /\ e.eligible \in 1..2
           /\ e.funders \in 0..2 /\ e.sol \in Nat /\ e.curve \in Nat /\ e.quality \in Nat
           /\ e.risk \in Nat /\ e.sol \in Sols /\ e.curve \in Curves /\ e.quality \in Qualities
           /\ e.hits \in [{"preheat", "base", "confirmed"} -> {0, 1}]
<1>1. Sols \subseteq Nat /\ Curves \subseteq Nat /\ Qualities \subseteq Nat /\ Gate1Risks \subseteq Nat
  BY ScoresAssumption
<1>2. QED BY <1>1 DEF Scores!Evidence, Scores!Paths, Scores!Tiers

(* The least of the amounts a candidate may show is one of them. *)
LEMMA LeastAmount ==
    ASSUME NEW amounts \in {Sols, Curves, Qualities, Gate1Risks}
    PROVE  Scores!Least(amounts) \in amounts
<1>1. amounts \in SUBSET Nat /\ amounts # {}
  BY ScoresAssumption
<1>2. \E x \in amounts : \A y \in amounts : x <= y
  BY <1>1, Least
<1>3. QED BY <1>2 DEF Scores!Least

(* Nothing is held against a candidate before the rules are applied, they    *)
(* leave room for the next, the graduated tokens have been counted if they   *)
(* are asked for, and one buyer is one participant.                          *)
Judged ==
    /\ scoreStep \in {"profile", "rules"} => gate2.warnings = {}
    /\ scoreStep = "entity" => gate2.penalty \in 0..10
    /\ scoreStep \in {"rules", "entity", "gate4", "scored"} =>
          (counted <=> Scores!NeedsGraduated(creatorProfile))
    /\ evidence.eligible = 1 => evidence.matched = 1 /\ evidence.funders \in {0, 1}

ScoresInv ==
    /\ Scores!TypeOK
    /\ Judged
    /\ Scores!VerdictRepeats
    /\ Scores!UnprovenWasCounted

LEMMA ScoresInvInit == Scores!Init => ScoresInv
<1> SUFFICES ASSUME Scores!Init PROVE ScoresInv
  OBVIOUS
<1>1. Scores!Clean \in Scores!Gate2
  BY DEF Scores!Clean, Scores!Gate2
<1>2. /\ Scores!Least(Sols) \in Sols /\ Scores!Least(Curves) \in Curves
      /\ Scores!Least(Qualities) \in Qualities
  BY LeastAmount
<1>3. /\ evidence \in Scores!Evidence /\ evidence.matched = 1 /\ evidence.funders \in {0, 1}
  <2>1. [t \in Scores!Tiers |-> 0] \in [Scores!Tiers -> {0, 1}]
    OBVIOUS
  <2>2. PICK p \in Scores!Paths, f \in {0, 1}, r \in Gate1Risks :
           evidence = [path |-> p, matched |-> 1, eligible |-> 1, funders |-> f,
                       sol |-> Scores!Least(Sols), curve |-> Scores!Least(Curves),
                       quality |-> Scores!Least(Qualities), risk |-> r,
                       hits |-> [t \in Scores!Tiers |-> 0]]
    BY DEF Scores!Init
  <2>3. 1 \in 1..2 /\ f \in 0..2
    OBVIOUS
  <2>4. QED BY <1>2, <2>1, <2>2, <2>3 DEF Scores!Evidence
<1>4. Scores!TypeOK
  BY <1>1, <1>3 DEF Scores!Init, Scores!TypeOK
<1>5. Judged
  BY <1>3 DEF Scores!Init, Judged, Scores!Clean
<1>6. Scores!VerdictRepeats /\ Scores!UnprovenWasCounted
  BY DEF Scores!Init, Scores!VerdictRepeats, Scores!UnprovenWasCounted, Scores!Clean
<1>7. QED BY <1>4, <1>5, <1>6 DEF ScoresInv

(* The rules never weigh more than 10 and warn of two things at most. *)
LEMMA RulesBounded ==
    ASSUME NEW p \in Scores!Profile
    PROVE  /\ Scores!CreatorRules(p) \in Scores!Gate2
           /\ Scores!CreatorRules(p).penalty \in 0..10
           /\ "unproven_creator" \in Scores!CreatorRules(p).warnings =>
                 Scores!NeedsGraduated(p)
<1> DEFINE r == Scores!CreatorRules(p)
<1>1. PICK n \in 0..10 :
         n = Scores!Points("fresh_wallet" \in Scores!Warned(p), 4)
                + Scores!Points("unproven_creator" \in Scores!Warned(p), 6)
  BY DEF Scores!Points
<1>2. r.penalty = n /\ r.warnings = Scores!Warned(p)
  BY <1>1 DEF Scores!CreatorRules
<1>3. r.passed \in BOOLEAN
  BY DEF Scores!CreatorRules
<1>4. Scores!Warned(p) \subseteq {"fresh_wallet", "unproven_creator"}
  BY DEF Scores!Warned
<1>5. r = [passed |-> r.passed, penalty |-> r.penalty, warnings |-> r.warnings]
  BY DEF Scores!CreatorRules
<1>6. n \in 0..99
  OBVIOUS
<1> HIDE DEF r
<1>7. r \in Scores!Gate2
  BY <1>2, <1>3, <1>4, <1>5, <1>6 DEF Scores!Gate2
<1>8. "unproven_creator" \in Scores!Warned(p) => Scores!NeedsGraduated(p)
  BY DEF Scores!Warned, Scores!NeedsGraduated
<1>9. QED BY <1>1, <1>2, <1>7, <1>8 DEF r

(* What may be known better of a candidate is evidence again. *)
LEMMA BetterEvidence ==
    ASSUME NEW e \in Scores!Evidence, NEW f \in Scores!Better(e),
           e.eligible = 1 => e.matched = 1 /\ e.funders \in {0, 1}
    PROVE  /\ f \in Scores!Evidence
           /\ f.eligible = 1 => f.matched = 1 /\ f.funders \in {0, 1}
<1> USE EvidenceFields
<1>1. CASE f \in {[e EXCEPT !.sol = x] : x \in {x \in Sols : x > e.sol}}
  BY <1>1 DEF Scores!Evidence
<1>2. CASE f \in {[e EXCEPT !.curve = x] : x \in {x \in Curves : x > e.curve}}
  BY <1>2 DEF Scores!Evidence
<1>3. CASE f \in {[e EXCEPT !.quality = x] : x \in {x \in Qualities : x > e.quality}}
  BY <1>3 DEF Scores!Evidence
<1>4. CASE f \in {[e EXCEPT !.hits[t] = @ + 1] : t \in {t \in Scores!Tiers : e.hits[t] = 0}}
  <2>1. PICK t \in Scores!Tiers : e.hits[t] = 0 /\ f = [e EXCEPT !.hits[t] = @ + 1]
    BY <1>4
  <2>2. e.hits[t] + 1 = 1
    BY <2>1
  <2>3. f = [e EXCEPT !.hits = [@ EXCEPT ![t] = 1]]
    BY <2>1, <2>2 DEF Scores!Evidence
  <2>4. [e.hits EXCEPT ![t] = 1] \in [Scores!Tiers -> {0, 1}]
    BY DEF Scores!Evidence
  <2>5. QED BY <2>3, <2>4 DEF Scores!Evidence
<1>5. CASE f \in {[e EXCEPT !.eligible = 2, !.matched = e.matched + n[1],
                             !.funders = e.funders + n[2]] :
                      n \in {n \in {0, 1} \X {0, 1} : e.eligible = 1}}
  <2>1. PICK n \in {0, 1} \X {0, 1} :
           /\ e.eligible = 1
           /\ f = [e EXCEPT !.eligible = 2, !.matched = e.matched + n[1], !.funders = e.funders + n[2]]
    BY <1>5
  <2>2. PICK j \in 1..2, k \in 0..2 : j = e.matched + n[1] /\ k = e.funders + n[2]
    BY <2>1
  <2>3. f = [e EXCEPT !.eligible = 2, !.matched = j, !.funders = k]
    BY <2>1, <2>2
  <2>4. 2 \in 1..2
    OBVIOUS
  <2>5. f \in Scores!Evidence
    BY <2>3, <2>4 DEF Scores!Evidence
  <2>6. f.eligible = 2
    BY <2>3 DEF Scores!Evidence
  <2>7. QED BY <2>5, <2>6
<1>6. QED BY <1>1, <1>2, <1>3, <1>4, <1>5 DEF Scores!Better

LEMMA ScoresInvKept == ScoresInv /\ [Scores!Next]_scoreVars => ScoresInv'
<1> SUFFICES ASSUME ScoresInv, [Scores!Next]_scoreVars PROVE ScoresInv'
  OBVIOUS
<1>1. /\ Scores!TypeOK /\ Judged /\ Scores!VerdictRepeats /\ Scores!UnprovenWasCounted
  BY DEF ScoresInv
<1>2. /\ creatorProfile \in Scores!Profile /\ counted \in BOOLEAN /\ gate2 \in Scores!Gate2
      /\ evidence \in Scores!Evidence
  BY <1>1 DEF Scores!TypeOK
<1>3. CASE Scores!Fetch
  <2>1. scoreStep = "profile" /\ UNCHANGED evidence
    BY <1>3 DEF Scores!Fetch
  <2>2. CASE Scores!RejectedWithoutGraduated(creatorProfile)
    <3>1. /\ scoreStep' = "rejected" /\ gate2' = [Scores!Clean EXCEPT !.passed = FALSE]
          /\ UNCHANGED <<creatorProfile, counted>>
      BY <1>3, <2>2 DEF Scores!Fetch
    <3>2. gate2' \in Scores!Gate2 /\ gate2'.warnings = {}
      <4>1. gate2' = [passed |-> FALSE, penalty |-> 0, warnings |-> {}]
        BY <3>1 DEF Scores!Clean
      <4>2. 0 \in 0..99
        OBVIOUS
      <4>3. QED BY <4>1, <4>2 DEF Scores!Gate2
    <3>3. Scores!TypeOK'
      BY <1>2, <2>1, <3>1, <3>2 DEF Scores!TypeOK
    <3>4. creatorProfile.tokens \in Int /\ creatorProfile.rugs \in Int
      BY <1>2, ScoresAssumption DEF Scores!Profile, Scores!Tokens
    <3>5. ~ (creatorProfile.tokens <= TokenLimit /\ creatorProfile.rugs < RugLimit)
      BY <2>2, <3>4, ScoresAssumption DEF Scores!RejectedWithoutGraduated
    <3>6. ~ Scores!CreatorRules(creatorProfile).passed
      BY <3>5 DEF Scores!CreatorRules
    <3>7. Scores!VerdictRepeats'
      BY <3>1, <3>6 DEF Scores!VerdictRepeats, Scores!CreatorRules, Scores!Warned
    <3>8. Scores!UnprovenWasCounted'
      BY <3>2 DEF Scores!UnprovenWasCounted
    <3>9. Judged'
      BY <1>1, <2>1, <3>1 DEF Judged
    <3>10. QED BY <3>3, <3>7, <3>8, <3>9 DEF ScoresInv
  <2>3. CASE ~ Scores!RejectedWithoutGraduated(creatorProfile)
    <3>1. /\ scoreStep' = "rules" /\ counted' = Scores!NeedsGraduated(creatorProfile)
          /\ UNCHANGED gate2
          /\ \E n \in {0, 1} : creatorProfile' = [creatorProfile EXCEPT !.graduated = n]
      BY <1>3, <2>3 DEF Scores!Fetch
    <3>2. creatorProfile' \in Scores!Profile /\ creatorProfile'.tokens = creatorProfile.tokens
      BY <1>2, <3>1 DEF Scores!Profile
    <3>3. counted' \in BOOLEAN /\ (counted' <=> Scores!NeedsGraduated(creatorProfile'))
      <4>1. counted' \in BOOLEAN
        BY <3>1 DEF Scores!NeedsGraduated
      <4>2. Scores!NeedsGraduated(creatorProfile') = Scores!NeedsGraduated(creatorProfile)
        BY <3>2 DEF Scores!NeedsGraduated
      <4>3. QED BY <3>1, <4>1, <4>2
    <3>4. Scores!TypeOK'
      BY <1>2, <2>1, <3>1, <3>2, <3>3 DEF Scores!TypeOK
    <3>5. gate2.warnings = {}
      BY <1>1, <2>1 DEF Judged
    <3>6. QED BY <1>1, <2>1, <3>1, <3>3, <3>4, <3>5
              DEF ScoresInv, Judged, Scores!VerdictRepeats, Scores!UnprovenWasCounted
  <2>4. QED BY <2>2, <2>3
<1>4. CASE Scores!Judge
  <2>1. /\ scoreStep = "rules" /\ gate2' = Scores!CreatorRules(creatorProfile)
        /\ scoreStep' \in {"entity", "rejected"}
        /\ UNCHANGED <<creatorProfile, counted, evidence>>
    BY <1>4 DEF Scores!Judge
  <2>2. /\ gate2' \in Scores!Gate2 /\ gate2'.penalty \in 0..10
        /\ "unproven_creator" \in gate2'.warnings => Scores!NeedsGraduated(creatorProfile)
    BY <1>2, <2>1, RulesBounded
  <2>3. counted <=> Scores!NeedsGraduated(creatorProfile)
    BY <1>1, <2>1 DEF Judged
  <2>4. Scores!TypeOK'
    BY <1>2, <2>1, <2>2 DEF Scores!TypeOK
  <2>5. Scores!VerdictRepeats'
    BY <2>1 DEF Scores!VerdictRepeats, Scores!CreatorRules, Scores!Warned
  <2>6. Scores!UnprovenWasCounted'
    BY <2>1, <2>2, <2>3 DEF Scores!UnprovenWasCounted
  <2>7. Judged'
    BY <1>1, <2>1, <2>2, <2>3 DEF Judged, Scores!NeedsGraduated
  <2>8. QED BY <2>4, <2>5, <2>6, <2>7 DEF ScoresInv
<1>5. CASE Scores!EntityRules
  <2>1. /\ scoreStep = "entity" /\ UNCHANGED <<creatorProfile, counted, evidence>>
        /\ \/ /\ creatorProfile.funder \in {"blacklisted", "rugs"} /\ scoreStep' = "rejected"
              /\ gate2' = [gate2 EXCEPT !.passed = FALSE]
           \/ /\ scoreStep' = "gate4"
              /\ gate2' = [gate2 EXCEPT !.penalty = @ + 4,
                                        !.warnings = @ \cup {"large_funder_cluster"}]
           \/ scoreStep' = "gate4" /\ gate2' = gate2
    BY <1>5 DEF Scores!EntityRules
  <2>2. gate2.penalty \in 0..10 /\ (counted <=> Scores!NeedsGraduated(creatorProfile))
    BY <1>1, <2>1 DEF Judged
  <2>3. PICK n \in 0..99 : n = gate2.penalty + 4
    BY <2>2
  <2>4. /\ gate2' \in Scores!Gate2
        /\ "unproven_creator" \in gate2'.warnings => "unproven_creator" \in gate2.warnings
        /\ gate2'.passed = gate2.passed \/ creatorProfile.funder \in {"blacklisted", "rugs"}
    <3>1. CASE gate2' = [gate2 EXCEPT !.passed = FALSE] /\ creatorProfile.funder \in {"blacklisted", "rugs"}
      BY <1>2, <3>1 DEF Scores!Gate2
    <3>2. CASE gate2' = [gate2 EXCEPT !.penalty = @ + 4,
                                      !.warnings = @ \cup {"large_funder_cluster"}]
      <4>1. gate2' = [gate2 EXCEPT !.penalty = n,
                                   !.warnings = @ \cup {"large_funder_cluster"}]
        BY <2>3, <3>2
      <4>2. QED BY <1>2, <4>1 DEF Scores!Gate2
    <3>3. CASE gate2' = gate2
      BY <1>2, <3>3
    <3>4. QED BY <2>1, <3>1, <3>2, <3>3
  <2>5. Scores!TypeOK'
    BY <1>2, <2>1, <2>4 DEF Scores!TypeOK
  <2>6. ~ gate2.passed =>
           ~ Scores!CreatorRules(creatorProfile).passed
           \/ creatorProfile.funder \in {"blacklisted", "rugs"}
    BY <1>1, <2>1 DEF Scores!VerdictRepeats
  <2>7. Scores!VerdictRepeats'
    BY <2>1, <2>4, <2>6 DEF Scores!VerdictRepeats, Scores!CreatorRules, Scores!Warned
  <2>8. Scores!UnprovenWasCounted'
    BY <1>1, <2>1, <2>4 DEF Scores!UnprovenWasCounted
  <2>9. Judged'
    BY <1>1, <2>1, <2>2 DEF Judged, Scores!NeedsGraduated
  <2>10. QED BY <2>5, <2>7, <2>8, <2>9 DEF ScoresInv
<1>6. CASE Scores!Grow
  <2>1. /\ scoreStep = "gate4" /\ evidence' \in Scores!Better(evidence)
        /\ UNCHANGED <<scoreStep, creatorProfile, counted, gate2>>
    BY <1>6 DEF Scores!Grow
  <2>2. /\ evidence' \in Scores!Evidence
        /\ evidence'.eligible = 1 => evidence'.matched = 1 /\ evidence'.funders \in {0, 1}
    BY <1>1, <1>2, <2>1, BetterEvidence DEF Judged
  <2>3. QED
    BY <1>1, <2>1, <2>2
    DEF ScoresInv, Scores!TypeOK, Judged, Scores!VerdictRepeats, Scores!UnprovenWasCounted,
        Scores!CreatorRules, Scores!Warned, Scores!NeedsGraduated
<1>7. CASE Scores!Score
  <2>1. /\ scoreStep = "gate4" /\ scoreStep' \in {"rejected", "scored"}
        /\ UNCHANGED <<creatorProfile, counted, gate2, evidence>>
    BY <1>7 DEF Scores!Score
  <2>2. QED
    BY <1>1, <2>1
    DEF ScoresInv, Scores!TypeOK, Judged, Scores!VerdictRepeats, Scores!UnprovenWasCounted,
        Scores!CreatorRules, Scores!Warned, Scores!NeedsGraduated
<1>8. CASE UNCHANGED scoreVars
  BY <1>1, <1>8
  DEF scoreVars, ScoresInv, Scores!TypeOK, Judged, Scores!VerdictRepeats,
      Scores!UnprovenWasCounted, Scores!CreatorRules, Scores!Warned, Scores!NeedsGraduated
<1>9. QED BY <1>3, <1>4, <1>5, <1>6, <1>7, <1>8 DEF Scores!Next

(* What a tier's hits earn is a number: it has one hit or none. *)
LEMMA BonusNumber ==
    ASSUME NEW e \in Scores!Evidence, NEW t \in {"preheat", "base", "confirmed"}
    PROVE  Scores!RawBonus(e, t) \in Nat
<1>1. e.hits[t] = 0 \/ e.hits[t] = 1
  BY EvidenceFields
<1>2. Bonus[t] \in Nat
  BY ScoresAssumption DEF Scores!Tiers
<1>3. Scores!RawBonus(e, t) = 0 \/ Scores!RawBonus(e, t) = Bonus[t]
  <2>1. CASE e.hits[t] = 0
    <3>1. 0 * Bonus[t] = 0
      BY <1>2
    <3>2. QED BY <2>1, <3>1 DEF Scores!RawBonus
  <2>2. CASE e.hits[t] = 1
    <3>1. 1 * Bonus[t] = Bonus[t]
      BY <1>2
    <3>2. QED BY <2>2, <3>1 DEF Scores!RawBonus
  <2>3. QED BY <1>1, <2>1, <2>2
<1>4. QED BY <1>2, <1>3

(* Whatever order the tiers are cut in, what is left is the cap or the whole. *)
LEMMA NarrativeCapped ==
    ASSUME NEW e \in Scores!Evidence
    PROVE  /\ Scores!Narrative(e)["preheat"] + Scores!Narrative(e)["base"]
                 + Scores!Narrative(e)["confirmed"]
              = Scores!Smaller(Scores!RawBonus(e, "preheat") + Scores!RawBonus(e, "base")
                                  + Scores!RawBonus(e, "confirmed"), BonusCap)
           /\ Scores!Urgency(e) \in Int
<1>1. PICK p \in Nat : p = Scores!RawBonus(e, "preheat")
  BY BonusNumber
<1>2. PICK b \in Nat : b = Scores!RawBonus(e, "base")
  BY BonusNumber
<1>3. PICK c \in Nat : c = Scores!RawBonus(e, "confirmed")
  BY BonusNumber
<1>4. PICK k \in Nat : k = BonusCap
  BY ScoresAssumption
<1>5. PICK over \in Int : over = p + b + c - k
  OBVIOUS
<1>6. PICK x \in Nat : x = Scores!Larger(over, 0)
  BY DEF Scores!Larger
<1>7. PICK cutC \in Nat : cutC = Scores!Smaller(c, x)
  BY DEF Scores!Smaller
<1>8. PICK restB \in Int, cutB \in Int : restB = x - cutC /\ cutB = Scores!Smaller(b, restB)
  <2>1. PICK rest \in Int : rest = x - cutC
    OBVIOUS
  <2>2. \E cut \in Int : cut = Scores!Smaller(b, rest)
    BY DEF Scores!Smaller
  <2>3. QED BY <2>1, <2>2
<1>9. PICK restP \in Int, cutP \in Int :
         restP = x - cutC - cutB /\ cutP = Scores!Smaller(p, restP)
  <2>1. PICK rest \in Int : rest = x - cutC - cutB
    BY <1>8
  <2>2. \E cut \in Int : cut = Scores!Smaller(p, rest)
    BY DEF Scores!Smaller
  <2>3. QED BY <2>1, <2>2
<1>10. /\ cutC = Scores!Cut(e, "confirmed", Scores!Excess(e))
       /\ cutB = Scores!Cut(e, "base", Scores!Excess(e) - cutC)
       /\ cutP = Scores!Cut(e, "preheat", Scores!Excess(e) - cutC - cutB)
  <2>1. x = Scores!Excess(e)
    BY <1>1, <1>2, <1>3, <1>4, <1>5, <1>6 DEF Scores!Excess
  <2>2. QED BY <1>1, <1>2, <1>3, <1>7, <1>8, <1>9, <2>1 DEF Scores!Cut
<1>11. Scores!Narrative(e) =
          [t \in Scores!Tiers |-> Scores!RawBonus(e, t) - (CASE t = "confirmed" -> cutC
                                                             [] t = "base"      -> cutB
                                                             [] t = "preheat"   -> cutP)]
  BY <1>10 DEF Scores!Narrative
<1>12. /\ Scores!Narrative(e)["preheat"] = p - cutP
       /\ Scores!Narrative(e)["base"] = b - cutB
       /\ Scores!Narrative(e)["confirmed"] = c - cutC
  BY <1>1, <1>2, <1>3, <1>11 DEF Scores!Tiers
<1>13. (p - cutP) + (b - cutB) + (c - cutC) = Scores!Smaller(p + b + c, k)
  BY <1>5, <1>6, <1>7, <1>8, <1>9 DEF Scores!Smaller, Scores!Larger
<1>14. Scores!Urgency(e) \in Int
  <2>1. Scores!Urgency(e) = Scores!Smaller((p - cutP) + (b - cutB) + (c - cutC), k)
    BY <1>4, <1>12 DEF Scores!Urgency, Scores!NarrativeBonus
  <2>2. QED BY <2>1 DEF Scores!Smaller
<1>15. QED BY <1>1, <1>2, <1>3, <1>4, <1>12, <1>13, <1>14

LEMMA RiskNumber ==
    ASSUME NEW e \in Scores!Evidence
    PROVE  Scores!RuntimeRisk(e) \in Int
<1>1. e.risk \in Int /\ RiskCap \in Int
  BY EvidenceFields, ScoresAssumption
<1>2. QED BY <1>1 DEF Scores!RuntimeRisk, Scores!Points, Scores!Smaller

(* The score is never less than its urgency: quality is not negative. *)
LEMMA QualityStays ==
    ASSUME NEW e \in Scores!Evidence, Scores!TypeOK
    PROVE  Scores!Total(e) >= Scores!Urgency(e)
<1>1. PICK a \in Int : a = Scores!Participants(e)
  <2>1. e.matched = 1 \/ e.matched = 2
    BY EvidenceFields
  <2>2. QED BY <2>1 DEF Scores!Participants
<1>2. PICK b \in Int : b = Scores!Capital(e)
  BY DEF Scores!Capital, Scores!Points, Scores!Larger
<1>3. PICK c \in Int : c = Scores!CurveScore(e)
  BY DEF Scores!CurveScore, Scores!Points
<1>4. PICK d \in Int : d = Scores!BuyerQuality(e)
  <2>1. PICK x \in Int : x = (e.quality * 15 + 50) \div 100
    BY EvidenceFields
  <2>2. QED BY <2>1 DEF Scores!BuyerQuality, Scores!Larger
<1>5. PICK base \in Int : base = Scores!Base(e)
  BY <1>1, <1>2, <1>3, <1>4 DEF Scores!Base
<1>6. PICK r \in Int : r = Scores!RuntimeRisk(e)
  BY RiskNumber
<1>7. PICK g \in Int : g = gate2.penalty
  BY DEF Scores!TypeOK, Scores!Gate2
<1>8. PICK penalty \in Int : penalty = Scores!Penalty(e)
  BY <1>6, <1>7 DEF Scores!Penalty, Scores!Points
<1>9. PICK u \in Int : u = Scores!Urgency(e)
  BY NarrativeCapped
<1>10. (base - Scores!Smaller(penalty, base)) + u >= u
  BY DEF Scores!Smaller
<1>11. QED BY <1>5, <1>8, <1>9, <1>10 DEF Scores!Total, Scores!Quality

LEMMA ScoresInvShows == ScoresInv => Scores!TypeOK /\ ScoringConsistent
<1> SUFFICES ASSUME ScoresInv PROVE Scores!TypeOK /\ ScoringConsistent
  OBVIOUS
<1>1. Scores!TypeOK /\ evidence \in Scores!Evidence
  BY DEF ScoresInv, Scores!TypeOK
<1>2. Scores!NarrativeWithinCap
  BY <1>1, NarrativeCapped DEF Scores!NarrativeWithinCap
<1>3. Scores!PenaltiesWithinQuality
  BY <1>1, QualityStays DEF Scores!PenaltiesWithinQuality
<1>4. QED BY <1>1, <1>2, <1>3 DEF ScoresInv, ScoringConsistent

(* Better evidence: what the filter for single buyers looks at is more, and  *)
(* the runtime risk only where the buy is larger than that filter's floor.   *)
LEMMA BetterHelps ==
    ASSUME NEW e \in Scores!Evidence, NEW f \in Scores!Evidence, f \in Scores!Better(e),
           Scores!SingleBuyerReject(f)
    PROVE  Scores!SingleBuyerReject(e)
<1>1. f.eligible <= 1
  BY DEF Scores!SingleBuyerReject
<1>2. /\ f.path = e.path /\ f.matched = e.matched /\ f.eligible = e.eligible
      /\ f.sol >= e.sol /\ f.curve >= e.curve /\ f.quality >= e.quality
      /\ f.risk = e.risk /\ \A t \in Scores!Tiers : f.hits[t] >= e.hits[t]
  <2>1. /\ e.sol \in Int /\ e.curve \in Int /\ e.quality \in Int
        /\ \A t \in Scores!Tiers : e.hits[t] \in Int
    BY EvidenceFields DEF Scores!Tiers
  <2>2. CASE f \in {[e EXCEPT !.sol = x] : x \in {x \in Sols : x > e.sol}}
    <3>1. PICK x \in Sols : x > e.sol /\ f = [e EXCEPT !.sol = x]
      BY <2>2
    <3>2. /\ f.sol = x /\ f.path = e.path /\ f.matched = e.matched /\ f.eligible = e.eligible
          /\ f.curve = e.curve /\ f.quality = e.quality /\ f.risk = e.risk /\ f.hits = e.hits
      BY <3>1 DEF Scores!Evidence
    <3>3. x \in Int
      BY ScoresAssumption
    <3>4. QED BY <2>1, <3>1, <3>2, <3>3
  <2>3. CASE f \in {[e EXCEPT !.curve = x] : x \in {x \in Curves : x > e.curve}}
    <3>1. PICK x \in Curves : x > e.curve /\ f = [e EXCEPT !.curve = x]
      BY <2>3
    <3>2. /\ f.curve = x /\ f.path = e.path /\ f.matched = e.matched /\ f.eligible = e.eligible
          /\ f.sol = e.sol /\ f.quality = e.quality /\ f.risk = e.risk /\ f.hits = e.hits
      BY <3>1 DEF Scores!Evidence
    <3>3. x \in Int
      BY ScoresAssumption
    <3>4. QED BY <2>1, <3>1, <3>2, <3>3
  <2>4. CASE f \in {[e EXCEPT !.quality = x] : x \in {x \in Qualities : x > e.quality}}
    <3>1. PICK x \in Qualities : x > e.quality /\ f = [e EXCEPT !.quality = x]
      BY <2>4
    <3>2. /\ f.quality = x /\ f.path = e.path /\ f.matched = e.matched
          /\ f.eligible = e.eligible /\ f.sol = e.sol /\ f.curve = e.curve /\ f.risk = e.risk
          /\ f.hits = e.hits
      BY <3>1 DEF Scores!Evidence
    <3>3. x \in Int
      BY ScoresAssumption
    <3>4. QED BY <2>1, <3>1, <3>2, <3>3
  <2>5. CASE f \in {[e EXCEPT !.hits[t] = @ + 1] : t \in {t \in Scores!Tiers : e.hits[t] = 0}}
    <3>1. PICK t \in Scores!Tiers : f = [e EXCEPT !.hits[t] = @ + 1]
      BY <2>5
    <3>2. PICK n \in Int : n = e.hits[t] + 1
      BY <2>1
    <3>3. f = [e EXCEPT !.hits = [@ EXCEPT ![t] = n]]
      BY <3>1, <3>2 DEF Scores!Evidence
    <3>4. /\ f.quality = e.quality /\ f.path = e.path /\ f.matched = e.matched
          /\ f.eligible = e.eligible /\ f.sol = e.sol /\ f.curve = e.curve /\ f.risk = e.risk
          /\ f.hits = [e.hits EXCEPT ![t] = n]
      BY <3>3 DEF Scores!Evidence
    <3>5. \A u \in Scores!Tiers : f.hits[u] = IF u = t THEN n ELSE e.hits[u]
      BY <3>4, EvidenceFields DEF Scores!Tiers
    <3>6. QED BY <2>1, <3>2, <3>4, <3>5
  <2>6. CASE f \in {[e EXCEPT !.eligible = 2, !.matched = e.matched + n[1],
                               !.funders = e.funders + n[2]] :
                        n \in {n \in {0, 1} \X {0, 1} : e.eligible = 1}}
    <3>1. f.eligible = 2
      BY <2>6 DEF Scores!Evidence
    <3>2. QED BY <1>1, <3>1
  <2>7. QED BY <2>2, <2>3, <2>4, <2>5, <2>6 DEF Scores!Better
<1>3. /\ e.sol \in Nat /\ f.sol \in Nat /\ e.curve \in Nat /\ f.curve \in Nat
      /\ e.quality \in Nat /\ f.quality \in Nat
      /\ MinSol \in Nat /\ MinCurve \in Nat /\ MinQuality \in Nat
  BY EvidenceFields, ScoresAssumption
<1>4. Scores!Hits(f, {"base", "confirmed"}) = 0 => Scores!Hits(e, {"base", "confirmed"}) = 0
  <2>1. /\ e.hits["base"] \in 0..1 /\ e.hits["confirmed"] \in 0..1
        /\ f.hits["base"] \in 0..1 /\ f.hits["confirmed"] \in 0..1
    BY EvidenceFields
  <2>2. f.hits["base"] >= e.hits["base"] /\ f.hits["confirmed"] >= e.hits["confirmed"]
    BY <1>2 DEF Scores!Tiers
  <2>3. QED BY <2>1, <2>2 DEF Scores!Hits, Scores!Points
<1>5. Scores!Noise(f) => Scores!Noise(e)
  BY <1>2, <1>3, <1>4 DEF Scores!Noise
<1>6. Scores!RiskHeavy(f) => Scores!RiskHeavy(e)
  <2> SUFFICES ASSUME Scores!RiskHeavy(f) PROVE Scores!RiskHeavy(e)
    OBVIOUS
  <2>1. PICK floor \in Int : floor = Scores!Smaller(MinSol + 15, 100) /\ floor <= 100
    <3>1. PICK m \in Int : m = MinSol + 15
      BY <1>3
    <3>2. QED BY <3>1 DEF Scores!Smaller
  <2>2. PICK ceiling \in Int : ceiling = Scores!Smaller(MinQuality + 10, 100)
    <3>1. PICK m \in Int : m = MinQuality + 10
      BY <1>3
    <3>2. QED BY <3>1 DEF Scores!Smaller
  <2>3. f.sol < floor
    BY <2>1 DEF Scores!RiskHeavy
  <2>4. ~ (f.sol >= 250) /\ ~ (e.sol >= 250) /\ e.sol < floor
    BY <1>2, <1>3, <2>1, <2>3
  <2>5. Scores!RuntimeRisk(f) = Scores!RuntimeRisk(e)
    BY <1>2, <2>4 DEF Scores!RuntimeRisk
  <2>6. f.quality < ceiling /\ f.curve < MinCurve
    BY <2>2 DEF Scores!RiskHeavy, Scores!RiskHeavyAtAnySize
  <2>7. e.quality < ceiling /\ e.curve < MinCurve
    BY <1>2, <1>3, <2>6
  <2>8. /\ Scores!RuntimeRisk(e) > MaxRisk
        /\ Scores!Hits(e, {"base", "confirmed"}) = 0
    BY <1>4, <2>5 DEF Scores!RiskHeavy, Scores!RiskHeavyAtAnySize
  <2>9. QED BY <2>1, <2>2, <2>4, <2>7, <2>8 DEF Scores!RiskHeavy, Scores!RiskHeavyAtAnySize
<1>7. QED BY <1>2, <1>5, <1>6 DEF Scores!SingleBuyerReject

-----------------------------------------------------------------------------
(* The composition.  A behaviour of it is, seen by a store, a behaviour of   *)
(* that store in which it may stand still.                                   *)

LEMMA StoreSteps ==
    [Next]_vars => /\ UNCHANGED part
                   /\ [Snapshots!Next]_lookupVars /\ [Launches!Next]_gate1Vars
                   /\ [Records!Next]_recordVars /\ [Graph!Next]_graphVars
                   /\ [Keywords!Next]_termVars /\ [Scores!Next]_scoreVars
BY DEF Next, vars, lookupVars, gate1Vars, recordVars, graphVars, termVars, scoreVars

StoresInv ==
    /\ part \in Parts
    /\ SnapshotsInv /\ LaunchInv /\ RecordsInv /\ GraphInv /\ TermsInv /\ ScoresInv

(* The inductive invariants of all stores but the creators' profiles, which  *)
(* RefreshSafe is about.                                                     *)
THEOREM StoresInvHolds == Spec => []StoresInv
<1>1. Init => StoresInv
  BY SnapshotsInvInit, LaunchInvInit, RecordsInvInit, GraphInvInit, TermsInvInit, ScoresInvInit
  DEF Init, StoresInv
<1>2. StoresInv /\ [Next]_vars => StoresInv'
  BY StoreSteps, SnapshotsInvKept, LaunchInvKept, RecordsInvKept, GraphInvKept, TermsInvKept,
     ScoresInvKept
  DEF StoresInv
<1>3. QED BY <1>1, <1>2, PTL DEF Spec

(* Profiles, snapshots, launches, rows, counts, terms and scores keep their  *)
(* types, whatever the number of tasks and wherever a process ends.          *)
THEOREM TypeCorrect == Spec => []TypeOK
<1>1. StoresInv /\ RefreshSafe => TypeOK
  BY SnapshotsInvShows, LaunchInvShows, RecordsInvShows, GraphInvShows, TermsInvShows,
     ScoresInvShows
  DEF StoresInv, RefreshSafe, Few, TypeOK
<1>2. QED BY <1>1, StoresInvHolds, RefreshSafeHolds, PTL

(* Neither a creator's profile nor a wallet's snapshot is refreshed by two   *)
(* tasks at a time, and no way out of a refresh, nor of its launch, loses a  *)
(* permit: in-flight sets, cooldowns and semaphore of both kinds of task.    *)
THEOREM OneRefreshAtATimeHolds == Spec => []OneRefreshAtATime
<1>1. StoresInv /\ RefreshSafe => OneRefreshAtATime
  BY SnapshotsInvShows DEF StoresInv, RefreshSafe, Few, OneRefreshAtATime
<1>2. QED BY <1>1, StoresInvHolds, RefreshSafeHolds, PTL

(* What memory knows of creators and wallets, the database knows or a task   *)
(* is about to tell it: a restart loses nothing that was not failed.         *)
THEOREM MemoryBehindStoreHolds == Spec => []MemoryBehindStore
<1>1. StoresInv /\ RefreshSafe => MemoryBehindStore
  BY SnapshotsInvShows DEF StoresInv, RefreshSafe, MemoryBehindStore
<1>2. QED BY <1>1, StoresInvHolds, RefreshSafeHolds, PTL

(* A creator the database knew as bad when the gate began does not pass it,  *)
(* with as many permits as gates or with fewer, unless the gate has no key   *)
(* to Helius or its last read of the database has failed.                    *)
THEOREM KnownBadStoppedHolds == Spec => []KnownBadStopped
<1>1. RefreshSafe => KnownBadStopped
  BY DEF RefreshSafe, KnownBadStopped
<1>2. QED BY <1>1, RefreshSafeHolds, PTL

(* Gate 1 lets no token of a factory pass, nor as many of a creator from one *)
(* template as the limit, within the window and since it began to count.     *)
THEOREM LaunchesLimitedHolds == Spec => []LaunchesLimited
<1>1. StoresInv => LaunchesLimited
  BY LaunchInvShows DEF StoresInv
<1>2. QED BY <1>1, StoresInvHolds, PTL

(* Outcomes merged in pieces, of which any may fail, leave the last of the   *)
(* best results and stages in their order: record_token_outcome's upserts.   *)
THEOREM RecordsMergeHolds == Spec => []RecordsMerge
<1>1. StoresInv => RecordsMerge
  BY RecordsInvShows DEF StoresInv
<1>2. QED BY <1>1, StoresInvHolds, PTL

(* A funder is charged with every buyer that has been linked to him, save    *)
(* those whose stored profile has lost the funder to a later one, wherever a *)
(* restart cuts the worker's statements; until one of them fails.            *)
THEOREM CountCoversBuyersHolds == Spec => []CountCoversBuyers
<1>1. StoresInv => CountCoversBuyers
  BY GraphInvShows DEF StoresInv
<1>2. QED BY <1>1, StoresInvHolds, PTL

(* Memory calls no term confirmed that was not found on chain within the     *)
(* time its row may live, through collections, reloads, files and restarts.  *)
THEOREM TierJustifiedHolds == Spec => []TierJustified
<1>1. StoresInv => TierJustified
  BY TermsInvShows DEF StoresInv
<1>2. QED BY <1>1, StoresInvHolds, PTL

(* For every limit, cap and bonus: a creator turned away early is turned     *)
(* away again, none is charged uncounted, the cap holds whatever is cut      *)
(* first, and penalties take away quality at most.                           *)
THEOREM ScoringConsistentHolds == Spec => []ScoringConsistent
<1>1. StoresInv => ScoringConsistent
  BY ScoresInvShows DEF StoresInv
<1>2. QED BY <1>1, StoresInvHolds, PTL

(* No step replaces a profile by an older one, forgets a funder, takes back  *)
(* a count of repeats it has read, uncharges a funder or empties the terms.  *)
THEOREM NothingForgottenHolds == Spec => NothingForgotten
<1>1. Spec => Snapshots!FunderKept
  <2>1. StoresInv /\ [Next]_vars =>
           [\A a \in Addresses : snapshotRows[a].funder => snapshotRows'[a].funder]_lookupVars
    BY StoreSteps, LookupRowsGrow DEF StoresInv, SnapshotsInv
  <2>2. QED BY <2>1, StoresInvHolds, PTL DEF Spec, Snapshots!FunderKept, Snapshots!vars, lookupVars
<1>2. Spec => Launches!StoredGrows
  <2>1. StoresInv /\ [Next]_vars =>
           [\A k \in Launches!Keys : repeatRows'[k] < repeatRows[k] => lost[k] > 0]_gate1Vars
    BY StoreSteps, RowsGrow DEF StoresInv
  <2>2. QED BY <2>1, StoresInvHolds, PTL DEF Spec, Launches!StoredGrows, Launches!vars, gate1Vars
<1>3. Spec => Graph!GraphGrows
  <2>1. StoresInv /\ [Next]_vars =>
           [walletCount' >= walletCount /\ rugExposure' >= rugExposure]_graphVars
    BY StoreSteps, ChargesStay DEF StoresInv
  <2>2. QED BY <2>1, StoresInvHolds, PTL DEF Spec, Graph!GraphGrows, Graph!vars, graphVars
<1>4. Spec => Keywords!TermsKept
  <2>1. StoresInv /\ [Next]_vars =>
           [whole /\ termStarts' = termStarts /\ (\E k \in Terms : terms[k] # "none")
               => \E k \in Terms : terms'[k] # "none"]_termVars
    BY StoreSteps, TermsStay DEF StoresInv
  <2>2. QED BY <2>1, StoresInvHolds, PTL DEF Spec, Keywords!TermsKept, Keywords!vars, termVars
<1>5. QED BY <1>1, <1>2, <1>3, <1>4, ProfilesKept DEF NothingForgotten

(* A candidate that gate 4 would let pass is not turned away for what is     *)
(* known better of it, for every setting of the filter for single buyers.    *)
THEOREM EvidenceHelpsHolds == Spec => EvidenceHelps
<1>1. StoresInv /\ [Next]_vars =>
         [scoreStep = "gate4" /\ scoreStep' = "gate4" /\ ~ Scores!SingleBuyerReject(evidence)
             => ~ Scores!SingleBuyerReject(evidence')]_scoreVars
  <2> SUFFICES ASSUME StoresInv, [Next]_vars, scoreStep = "gate4", scoreStep' = "gate4",
                      Scores!SingleBuyerReject(evidence')
               PROVE  Scores!SingleBuyerReject(evidence) \/ UNCHANGED scoreVars
    OBVIOUS
  <2>1. ScoresInv /\ ScoresInv' /\ [Scores!Next]_scoreVars
    BY StoreSteps, ScoresInvKept DEF StoresInv
  <2>2. evidence \in Scores!Evidence /\ evidence' \in Scores!Evidence
    BY <2>1 DEF ScoresInv, Scores!TypeOK, Scores!Evidence
  <2>3. CASE evidence' \in Scores!Better(evidence)
    BY <2>2, <2>3, BetterHelps
  <2>4. CASE UNCHANGED scoreVars
    BY <2>4
  <2>5. QED
    BY <2>1, <2>3, <2>4
    DEF Scores!Next, Scores!Fetch, Scores!Judge, Scores!EntityRules, Scores!Grow, Scores!Score
<1>2. QED BY <1>1, StoresInvHolds, PTL DEF Spec, EvidenceHelps, Scores!EvidenceHelps, Scores!vars, scoreVars

=============================================================================
