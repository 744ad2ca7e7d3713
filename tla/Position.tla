------------------------------ MODULE Position ------------------------------
(***************************************************************************)
(* One copied position (autosell/position.rs): the state it is in and the  *)
(* token amount the program believes it holds.  Each operator below is one *)
(* method of `impl Position`; a method whose guard fails returns the       *)
(* position unchanged, as the code does when it returns false.  Prices,    *)
(* names and signatures are left out: no method reads them to choose a     *)
(* state.                                                                  *)
(***************************************************************************)
EXTENDS Integers

CONSTANT MaxTokens   \* the largest token amount of the model

Amounts == 0 .. MaxTokens

(* "none" is the absence of a table entry. *)
LiveStates     == {"Pending", "Submitted", "Confirming", "Active", "Selling"}
TerminalStates == {"Closed", "Failed"}
PositionState  == LiveStates \cup TerminalStates

PositionRecord == [state : PositionState \cup {"none"}, tokens : Amounts]
NoPosition     == [state |-> "none", tokens |-> 0]

Exists(p) == p.state # "none"
IsOpen(p) == p.state \in LiveStates

-----------------------------------------------------------------------------

NewPosition(estimate) == [state |-> "Pending", tokens |-> estimate]

(* p after `to` is entered, if its state is one the method accepts *)
Advance(p, from, to) == IF p.state \in from THEN [p EXCEPT !.state = to] ELSE p

MarkSubmitted(p)  == Advance(p, {"Pending"}, "Submitted")
MarkConfirming(p) == Advance(p, {"Submitted"}, "Confirming")

MarkActive(p, actual) ==
    IF p.state \in {"Confirming", "Submitted"}
    THEN [state |-> "Active", tokens |-> actual]
    ELSE p

(* what the executor believes of any entry it finds *)
AcceptsAnyState(p) == Exists(p)

AcceptsSelling(p) == p.state \in {"Active", "Confirming", "Submitted"}

MarkSelling(p) == IF AcceptsSelling(p) THEN [p EXCEPT !.state = "Selling"] ELSE p
MarkClosed(p)  == Advance(p, {"Selling"}, "Closed")

(* unconditional: any entry of the table *)
MarkFailed(p) == Advance(p, PositionState, "Failed")

(* unconditional: the state the executor read before the attempt *)
RestoreAfterSellAttempt(p, previous) == Advance(p, PositionState, previous)

(* refuses a sale of the whole amount, too                                   *)
ApplyPartialSellBelow(p, sold) ==
    IF Exists(p) /\ 0 < sold /\ sold < p.tokens
    THEN [state |-> "Active", tokens |-> p.tokens - sold]
    ELSE p

ApplyPartialSell(p, sold) ==
    IF Exists(p) /\ 0 < sold /\ sold <= p.tokens
    THEN [state |-> "Active", tokens |-> p.tokens - sold]
    ELSE p

CanSell(p) == p.state \in {"Active", "Confirming"}

=============================================================================
