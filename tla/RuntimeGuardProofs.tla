------------------------ MODULE RuntimeGuardProofs -------------------------
(***************************************************************************)
(* What TLAPS proves of RuntimeGuard, for any number of slots and of       *)
(* starts, and whatever crashes and wherever.                              *)
(***************************************************************************)
EXTENDS RuntimeGuard, FiniteSetTheorems, TLAPS

Live(p)    == step[p] \notin {"down", "refused"}
Running(p) == step[p] = "running"

(* A process has its pid for itself: none is given twice. *)
OwnPid ==
    /\ \A p \in Processes : pid[p] <= starts /\ (Live(p) => pid[p] > 0)
    /\ \A p, q \in Processes : Live(p) /\ Live(q) /\ pid[p] = pid[q] => p = q

(* The file holds its creator's pid or none, and is not that of a process    *)
(* that has yet to create one.                                               *)
FileSound ==
    /\ file.holds \in {NoPid, file.owner} /\ file.owner <= starts
    /\ \A p \in Processes : step[p] \in {"create", "check"} => file.owner # pid[p]

(* Where no two start at a time, what a starting process has found holds on  *)
(* until it acts: nobody else creates a file or begins to run.               *)
AloneAt(p) ==
    /\ \A q \in Processes : step[q] \in Starting => q = p
    /\ step[p] \in {"write", "remove"} => \A q \in Processes : ~ Running(q)
    /\ step[p] = "write" => file.owner = pid[p]
    /\ step[p] \in {"check", "remove"} => tries[p] < Attempts
    /\ step[p] = "create" /\ tries[p] >= Attempts => file = NoFile

NamedByFile ==
    /\ \A p \in Processes : step[p] \in Starting => AloneAt(p)
    /\ \A p \in Processes : Running(p) => file.holds = pid[p]

GuardInv == OwnPid /\ FileSound /\ (~ overlapped => NamedByFile)

-----------------------------------------------------------------------------
LEMMA TypeInit == ASSUME MaxStarts \in Nat PROVE Init => TypeOK
<1> SUFFICES ASSUME Init PROVE TypeOK
  OBVIOUS
<1>1. NoFile \in [owner : 0..MaxStarts, holds : 0..MaxStarts]
  BY DEF NoFile
<1>2. pid \in [Processes -> 0..MaxStarts] /\ tries \in [Processes -> 0..Attempts]
  BY DEF Init, NoPid, Attempts
<1>3. step \in [Processes -> Steps]
  BY DEF Init, Steps
<1>4. starts \in 0..MaxStarts
  BY DEF Init
<1>5. file = NoFile /\ overlapped \in BOOLEAN
  BY Zenon DEF Init
<1>6. QED BY <1>1, <1>2, <1>3, <1>4, <1>5 DEF TypeOK

LEMMA TypeStep ==
    ASSUME MaxStarts \in Nat, TypeOK, [Next]_vars PROVE TypeOK'
<1> USE DEF TypeOK, Goes
<1>1. CASE UNCHANGED vars
  BY <1>1 DEF vars
<1>2. ASSUME NEW p \in Processes, Start(p) PROVE TypeOK'
  BY <1>2 DEF Start, Steps, Attempts
<1>3. ASSUME NEW p \in Processes, Create(p) PROVE TypeOK'
  BY <1>3 DEF Create, Steps, NoPid
<1>4. ASSUME NEW p \in Processes, Write(p) PROVE TypeOK'
  BY <1>4 DEF Write, Steps
<1>5. ASSUME NEW p \in Processes, Check(p) PROVE TypeOK'
  BY <1>5 DEF Check, Steps
<1>6. ASSUME NEW p \in Processes, Remove(p) PROVE TypeOK'
  BY <1>6 DEF Remove, Steps, Attempts, NoFile
<1>7. ASSUME NEW p \in Processes, Exit(p) PROVE TypeOK'
  BY <1>7 DEF Exit, Steps, NoFile
<1>8. ASSUME NEW p \in Processes, Crash(p) PROVE TypeOK'
  BY <1>8 DEF Crash, Steps
<1>9. QED BY <1>1, <1>2, <1>3, <1>4, <1>5, <1>6, <1>7, <1>8 DEF Next

THEOREM GuardTypes == ASSUME MaxStarts \in Nat PROVE Spec => []TypeOK
BY TypeInit, TypeStep, PTL DEF Spec

-----------------------------------------------------------------------------
LEMMA GuardInit == Init => GuardInv
BY DEF Init, GuardInv, OwnPid, FileSound, NamedByFile, Live, Running, Starting, NoFile, NoPid

LEMMA GuardStep ==
    ASSUME MaxStarts \in Nat, TypeOK, GuardInv, NEW p \in Processes,
           Start(p) \/ Create(p) \/ Write(p) \/ Check(p) \/ Remove(p) \/ Exit(p) \/ Crash(p)
    PROVE  GuardInv'
<1> USE DEF GuardInv, Live, Running, NoPid, NoFile
<1>1. /\ \A q \in Processes \ {p} : /\ step'[q] = step[q] /\ pid'[q] = pid[q]
                                    /\ tries'[q] = tries[q] /\ pid[q] \in Nat
      /\ starts \in Nat /\ pid[p] \in Nat /\ tries[p] \in Nat
      /\ file.owner \in Nat /\ file.holds \in Nat
  BY DEF TypeOK, Start, Create, Write, Check, Remove, Exit, Crash, Goes, Attempts
<1>2. CASE Start(p)
  <2>1. /\ step'[p] = "create" /\ pid'[p] = starts + 1 /\ tries'[p] = 1 /\ file' = file
        /\ starts' = starts + 1
        /\ ~ overlapped' => ~ overlapped /\ \A q \in Processes : step[q] \notin Starting
    BY <1>2 DEF Start, Goes, TypeOK
  <2>2. OwnPid'
    BY <1>1, <2>1 DEF OwnPid
  <2>3. FileSound'
    BY <1>1, <2>1 DEF FileSound
  <2>4. ~ overlapped' => NamedByFile'
    BY <1>1, <1>2, <2>1 DEF NamedByFile, AloneAt, Starting, Start, Attempts
  <2>5. QED BY <2>2, <2>3, <2>4
<1>3. CASE Create(p)
  <2>1. /\ step[p] = "create" /\ UNCHANGED <<pid, tries, starts, overlapped>>
        /\ \/ file = NoFile /\ step'[p] = "write"
              /\ file' = [owner |-> pid[p], holds |-> NoPid]
           \/ file # NoFile /\ step'[p] = "check" /\ file' = file
    BY <1>3 DEF Create, Goes, TypeOK
  <2>2. OwnPid'
    BY <1>1, <2>1 DEF OwnPid
  <2>3. FileSound'
    BY <1>1, <2>1, <2>2 DEF FileSound, OwnPid
  <2>4. ~ overlapped' => NamedByFile'
    BY <1>1, <2>1 DEF NamedByFile, AloneAt, Starting, OwnPid, Attempts
  <2>5. QED BY <2>2, <2>3, <2>4
<1>4. CASE Write(p)
  <2>1. /\ step[p] = "write" /\ step'[p] = "running" /\ UNCHANGED <<pid, tries, starts, overlapped>>
        /\ file'.owner = file.owner
        /\ file'.holds = IF file.owner = pid[p] THEN pid[p] ELSE file.holds
    BY <1>4 DEF Write, Goes, TypeOK
  <2>2. OwnPid'
    BY <1>1, <2>1 DEF OwnPid
  <2>3. FileSound'
    BY <1>1, <2>1 DEF FileSound
  <2>4. ~ overlapped' => NamedByFile'
    BY <1>1, <2>1 DEF NamedByFile, AloneAt, Starting
  <2>5. QED BY <2>2, <2>3, <2>4
<1>5. CASE Check(p)
  <2>1. /\ step[p] = "check" /\ step'[p] = IF Stale(p) THEN "remove" ELSE "refused"
        /\ UNCHANGED <<pid, tries, file, starts, overlapped>>
    BY <1>5 DEF Check, Goes, TypeOK
  <2>2. Stale(p) /\ ~ overlapped => \A q \in Processes : ~ Running(q)
    BY DEF Stale, Alive, NamedByFile
  <2>3. OwnPid'
    BY <1>1, <2>1 DEF OwnPid
  <2>4. FileSound'
    BY <1>1, <2>1 DEF FileSound
  <2>5. ~ overlapped' => NamedByFile'
    BY <1>1, <2>1, <2>2 DEF NamedByFile, AloneAt, Starting
  <2>6. QED BY <2>3, <2>4, <2>5
<1>6. CASE Remove(p)
  <2>1. /\ step[p] = "remove" /\ file' = NoFile /\ UNCHANGED <<pid, starts, overlapped>>
        /\ \/ tries[p] < Attempts /\ step'[p] = "create"
           \/ tries[p] >= Attempts /\ step'[p] = "refused"
    BY <1>1, <1>6 DEF Remove, Goes, TypeOK, Attempts
  <2>2. OwnPid'
    BY <1>1, <2>1 DEF OwnPid
  <2>3. FileSound'
    BY <1>1, <2>1, <2>2 DEF FileSound, OwnPid
  <2>4. ~ overlapped' => NamedByFile'
    BY <1>1, <2>1 DEF NamedByFile, AloneAt, Starting
  <2>5. QED BY <2>2, <2>3, <2>4
<1>7. CASE Exit(p)
  <2>1. /\ step[p] = "running" /\ step'[p] = "down" /\ file' = NoFile
        /\ UNCHANGED <<pid, tries, starts, overlapped>>
    BY <1>7 DEF Exit, Goes, TypeOK
  <2>2. OwnPid'
    BY <1>1, <2>1 DEF OwnPid
  <2>3. FileSound'
    BY <1>1, <2>1, <2>2 DEF FileSound, OwnPid
  <2>4. ~ overlapped' => NamedByFile'
    BY <1>1, <2>1 DEF NamedByFile, AloneAt, Starting, OwnPid
  <2>5. QED BY <2>2, <2>3, <2>4
<1>8. CASE Crash(p)
  <2>1. /\ step[p] \notin {"down", "refused"} /\ step'[p] = "down"
        /\ UNCHANGED <<pid, tries, file, starts, overlapped>>
    BY <1>8 DEF Crash, Goes, TypeOK
  <2>2. OwnPid'
    BY <1>1, <2>1 DEF OwnPid
  <2>3. FileSound'
    BY <1>1, <2>1 DEF FileSound
  <2>4. ~ overlapped' => NamedByFile'
    BY <1>1, <2>1 DEF NamedByFile, AloneAt, Starting
  <2>5. QED BY <2>2, <2>3, <2>4
<1>9. QED BY <1>2, <1>3, <1>4, <1>5, <1>6, <1>7, <1>8

THEOREM GuardInvHolds == ASSUME MaxStarts \in Nat PROVE Spec => []GuardInv
<1>1. TypeOK /\ GuardInv /\ [Next]_vars => GuardInv'
  <2>1. GuardInv /\ UNCHANGED vars => GuardInv'
    BY DEF GuardInv, OwnPid, FileSound, NamedByFile, AloneAt, Live, Running, vars
  <2>2. QED BY <2>1, GuardStep DEF Next
<1>2. QED BY <1>1, GuardInit, GuardTypes, PTL DEF Spec

-----------------------------------------------------------------------------
LEMMA AtMostOne ==
    ASSUME NEW S, \A x, y \in S : x = y PROVE Cardinality(S) <= 1
<1>1. CASE S = {}
  BY <1>1, FS_EmptySet
<1>2. CASE S # {}
  <2>1. PICK x : S = {x}
    BY <1>2
  <2>2. QED BY <2>1, FS_Singleton
<1>3. QED BY <1>1, <1>2

(* However often processes crash, exit and are started again, one runs at    *)
(* most and the file names it, if none is started while another is starting. *)
THEOREM OneInstanceHolds == ASSUME MaxStarts \in Nat PROVE Spec => []OneInstance
<1>1. TypeOK /\ GuardInv => OneInstance
  <2> SUFFICES ASSUME TypeOK, GuardInv, ~ overlapped
               PROVE  /\ Cardinality({p \in Processes : step[p] = "running"}) <= 1
                      /\ \A p \in Processes : step[p] = "running" => file.holds = pid[p]
    BY DEF OneInstance
  <2>1. \A p \in Processes : step[p] = "running" => file.holds = pid[p]
    BY DEF GuardInv, NamedByFile, Running
  <2>2. \A p, q \in {r \in Processes : step[r] = "running"} : p = q
    BY <2>1 DEF GuardInv, OwnPid, Live
  <2>3. QED BY <2>1, <2>2, AtMostOne
<1>2. QED BY <1>1, GuardInvHolds, GuardTypes, PTL

(* And then none is turned away by a file that a process now gone has left:  *)
(* of a refusal another process is the reason, and it runs.                  *)
THEOREM RefusedForAnotherHolds ==
    ASSUME MaxStarts \in Nat PROVE Spec => [][RefusedForAnother]_vars
<1>1. TypeOK /\ GuardInv /\ [Next]_vars => [RefusedForAnother]_vars
  <2> SUFFICES ASSUME TypeOK, GuardInv, Next, NEW p \in Processes,
                      ~ overlapped, step[p] \in Starting, step'[p] = "refused"
               PROVE  \E q \in Processes \ {p} : step[q] = "running"
    BY DEF RefusedForAnother
  <2>1. AloneAt(p)
    BY DEF GuardInv, NamedByFile
  <2>2. PICK r \in Processes :
           Start(r) \/ Create(r) \/ Write(r) \/ Check(r) \/ Remove(r) \/ Exit(r) \/ Crash(r)
    BY DEF Next
  <2>3. Check(p) /\ ~ Stale(p)
    BY <2>1, <2>2
    DEF Start, Create, Write, Check, Remove, Exit, Crash, Goes, TypeOK, AloneAt, Starting, Attempts
  <2>4. PICK q \in Processes : step[q] \notin {"down", "refused"} /\ file.holds = pid[q]
    BY <2>3 DEF Stale, Alive
  <2>5. q # p
    BY <2>3, <2>4 DEF GuardInv, FileSound, OwnPid, Check, Live, NoPid
  <2>6. step[q] = "running"
    BY <2>1, <2>4, <2>5 DEF AloneAt, Starting, TypeOK, Steps
  <2>7. QED BY <2>5, <2>6
<1>2. QED BY <1>1, GuardInvHolds, GuardTypes, PTL DEF Spec

=============================================================================
