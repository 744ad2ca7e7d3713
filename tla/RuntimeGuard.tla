---------------------------- MODULE RuntimeGuard ----------------------------
(***************************************************************************)
(* The single-instance guard (RuntimeGuard of main.rs): a file is created  *)
(* for the process alone, its pid is written into it, and it is removed    *)
(* when the process ends.  A process that finds the file decides whether   *)
(* it is left over from one that is gone, and then removes it and tries    *)
(* once more.  Processes crash anywhere, and the supervisor starts them    *)
(* again; whether it may start one while another is starting is recorded,  *)
(* for the guard does not exclude that.                                    *)
(***************************************************************************)
EXTENDS Integers, FiniteSets

CONSTANTS
    Processes,      \* slots in which the program is started
    MaxStarts       \* bound: starts

VARIABLES
    step,           \* per slot: where its process is
    pid,            \* per slot: its process, a number never used before
    tries,          \* per slot: attempts to create the file
    file,           \* the file: who created it, and the pid it holds
    starts,         \* starts so far
    overlapped      \* a process was started while another was starting

vars == <<step, pid, tries, file, starts, overlapped>>

Steps    == {"down", "create", "write", "check", "remove", "running", "refused"}
Starting == {"create", "write", "check", "remove"}
NoFile   == [owner |-> 0, holds |-> 0]
NoPid    == 0

Attempts == 2

Alive == {pid[p] : p \in {q \in Processes : step[q] \notin {"down", "refused"}}}

TypeOK ==
    /\ step \in [Processes -> Steps]
    /\ pid \in [Processes -> 0..MaxStarts] /\ tries \in [Processes -> 0..Attempts]
    /\ file \in [owner : 0..MaxStarts, holds : 0..MaxStarts]
    /\ starts \in 0..MaxStarts /\ overlapped \in BOOLEAN

Init ==
    /\ step = [p \in Processes |-> "down"] /\ pid = [p \in Processes |-> NoPid]
    /\ tries = [p \in Processes |-> 0] /\ file = NoFile
    /\ starts = 0 /\ overlapped = FALSE

Goes(p, to) == step' = [step EXCEPT ![p] = to]

Start(p) ==
    /\ step[p] \in {"down", "refused"} /\ starts < MaxStarts
    /\ starts' = starts + 1
    /\ pid' = [pid EXCEPT ![p] = starts + 1] /\ tries' = [tries EXCEPT ![p] = 1]
    /\ overlapped' = (overlapped \/ \E q \in Processes : step[q] \in Starting)
    /\ Goes(p, "create")
    /\ UNCHANGED file

(* open with create_new *)
Create(p) ==
    /\ step[p] = "create"
    /\ IF file = NoFile
       THEN /\ file' = [owner |-> pid[p], holds |-> NoPid]
            /\ Goes(p, "write")
       ELSE Goes(p, "check") /\ UNCHANGED file
    /\ UNCHANGED <<pid, tries, starts, overlapped>>

(* The write goes to the file that was opened, although another process may  *)
(* have removed it.                                                          *)
Write(p) ==
    /\ step[p] = "write"
    /\ file' = IF file.owner = pid[p] THEN [file EXCEPT !.holds = pid[p]] ELSE file
    /\ Goes(p, "running")
    /\ UNCHANGED <<pid, tries, starts, overlapped>>

(* as it would be for a file that is older than the process                  *)
StaleIfOlder(p) == file.holds # pid[p]

(* runtime_guard_is_stale: no file, no pid in it, no such process, or one    *)
(* of another program.                                                       *)
Stale(p) == file.holds \notin Alive

Check(p) ==
    /\ step[p] = "check"
    /\ Goes(p, IF Stale(p) THEN "remove" ELSE "refused")
    /\ UNCHANGED <<pid, tries, file, starts, overlapped>>

(* What is there by now is removed, and the loop runs twice at most.         *)
Remove(p) ==
    /\ step[p] = "remove"
    /\ file' = NoFile
    /\ IF tries[p] < Attempts
       THEN Goes(p, "create") /\ tries' = [tries EXCEPT ![p] = @ + 1]
       ELSE Goes(p, "refused") /\ UNCHANGED tries
    /\ UNCHANGED <<pid, starts, overlapped>>

(* Drop removes the file without looking whose it is.                        *)
Exit(p) ==
    /\ step[p] = "running"
    /\ file' = NoFile
    /\ Goes(p, "down")
    /\ UNCHANGED <<pid, tries, starts, overlapped>>

Crash(p) ==
    /\ step[p] \notin {"down", "refused"}
    /\ Goes(p, "down")
    /\ UNCHANGED <<pid, tries, file, starts, overlapped>>

Next ==
    \E p \in Processes :
        Start(p) \/ Create(p) \/ Write(p) \/ Check(p) \/ Remove(p) \/ Exit(p) \/ Crash(p)

Spec == Init /\ [][Next]_vars

-----------------------------------------------------------------------------
(* Two processes never run at a time, whatever crashed before and wherever,  *)
(* as long as none is started while another is starting; and then the one    *)
(* that runs is named by the file, so that the next is refused.              *)
OneInstance ==
    ~overlapped =>
        /\ Cardinality({p \in Processes : step[p] = "running"}) <= 1
        /\ \A p \in Processes : step[p] = "running" => file.holds = pid[p]

(* A step refuses a process only while another one runs.                     *)
RefusedForAnother ==
    \A p \in Processes :
        ~overlapped /\ step[p] \in Starting /\ step'[p] = "refused"
            => \E q \in Processes \ {p} : step[q] = "running"

=============================================================================
