----------------------------- MODULE Lifecycle -----------------------------
(***************************************************************************)
(* What the comments on the states and methods of position.rs promise of   *)
(* every position, whichever tasks act on it: the arrows it may follow.    *)
(***************************************************************************)
CONSTANT Keys

VARIABLE state

Arrows ==
    { <<"none", "Confirming">>,       \* Pending -> Submitted -> Confirming, then added
      <<"Confirming", "Active">>,     \* confirmed on chain
      <<"Confirming", "Selling">>,    \* a sale starts
      <<"Active", "Selling">>,
      <<"Selling", "Closed">>,        \* the sale succeeded
      <<"Selling", "Active">>,        \* the sale failed, and may be tried again
      <<"Closed", "none">>,           \* forgotten after a while
      <<"Failed", "none">> }
    \cup {"Confirming", "Active", "Selling"} \X {"Failed"}

Init == state = [k \in Keys |-> "none"]

(* Any number of positions take an arrow each. *)
Next ==
    /\ DOMAIN state' = Keys
    /\ \A k \in Keys : state'[k] # state[k] => <<state[k], state'[k]>> \in Arrows

Spec == Init /\ [][Next]_state

=============================================================================
