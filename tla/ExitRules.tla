----------------------------- MODULE ExitRules -----------------------------
(***************************************************************************)
(* When a position is sold (autosell/manager.rs, autosell/position.rs).    *)
(* Every change of the token's curve is cached and sent to the manager;    *)
(* the manager's update task and its monitor, which runs now and then,     *)
(* both put prices into the position and look whether its group wants it   *)
(* sold.  The update task may be behind the cache, so prices may go back.  *)
(* A signal makes the sell executor try, and a position that could not be  *)
(* sold goes back to where it was.  One monitor looks at all positions, and *)
(* it may come to wait for ever for a lock it holds itself.                *)
(***************************************************************************)
EXTENDS Integers, Sequences

CONSTANTS
    Prices,         \* the prices of the curve
    StopLoss, TakeProfit, Trailing,     \* percentages of the group
    MaxHold,        \* max_hold_seconds, 0 for none
    ConfirmTimeout, \* CONFIRM_TIMEOUT_SECS
    MaxQueue,       \* bound: updates under way to the manager
    MaxTime         \* bound: seconds the position is held

VARIABLES
    follow,         \* the group's follow_sell_mode
    held,           \* held_seconds
    state,          \* of the position
    entry, highest, current,    \* its prices
    cached,         \* the price in the cache of curves
    updates,        \* the queue of the update task
    before,         \* the state the executor found
    confirmer,      \* the confirmer looks for the buy, then for what was paid
    signalled,      \* a signal is under way to the executor
    wedged          \* where the monitor waits for ever for a lock of its own, if it does

vars == <<follow, confirmer, held, state, entry, highest, current, cached, updates, before,
          signalled, wedged>>

States == {"Confirming", "Active", "Selling", "Gone"}

Higher(a, b) == IF a > b THEN a ELSE b

TypeOK ==
    /\ {follow, signalled} \subseteq BOOLEAN /\ wedged \in {"no", "here", "elsewhere"}
    /\ confirmer \in {"buy", "paid", "done"}
    /\ held \in 0..MaxTime /\ {state, before} \subseteq States
    /\ {entry, highest, current, cached} \subseteq Prices
    /\ updates \in Seq(Prices) /\ Len(updates) <= MaxQueue

(* Position::new: the entry price is that of the quote.                      *)
Init ==
    /\ follow \in BOOLEAN /\ held = 0 /\ state = "Confirming" /\ signalled = FALSE
    /\ confirmer = "buy" /\ wedged = "no"
    /\ cached \in Prices /\ entry \in Prices /\ highest = entry /\ current = entry
    /\ updates = <<>> /\ before = "Confirming"

-----------------------------------------------------------------------------
(* The percentages, without dividing.                                        *)
Gain(percent) == 100 * (current' - entry) >= percent * entry

(* as it would be with the drop compared strictly                            *)
DownBeyond(percent) == 100 * (entry - current') > percent * entry

Down(percent) == 100 * (entry - current') >= percent * entry

Drawdown(percent) == 100 * (highest' - current') >= percent * highest'

HeldTooLong == MaxHold > 0 /\ held >= MaxHold /\ state \in {"Confirming", "Active"}

(* check_exit_conditions: the group's percentages count only once the buy is *)
(* confirmed, and not if the group sells when the wallet it follows does.    *)
WantsOut ==
    \/ HeldTooLong
    \/ /\ ~follow /\ state = "Active"
       /\ \/ Down(StopLoss)
          \/ Gain(TakeProfit)
          \/ Trailing > 0 /\ current' > entry /\ Drawdown(Trailing)

(* update_price *)
Put(price) ==
    /\ current' = price
    /\ highest' = Higher(highest, price)

(* The curve changes: the subscriber caches it, then tells the manager.      *)
Trade(price) ==
    /\ state # "Gone" /\ Len(updates) < MaxQueue /\ price # cached
    /\ cached' = price /\ updates' = Append(updates, price)
    /\ UNCHANGED <<follow, confirmer, held, state, before, entry, highest, current, signalled,
                   wedged>>

(* Nobody changes the position any more once the shard of the table that has *)
(* its entry is locked for ever; if another is, only the monitor stops.      *)
Reachable == wedged # "here"

(* The manager's update task.                                                *)
Update ==
    /\ Reachable
    /\ updates # <<>> /\ updates' = Tail(updates)
    /\ Put(Head(updates))
    /\ signalled' = (signalled \/ WantsOut)
    /\ UNCHANGED <<follow, confirmer, held, state, before, entry, cached, wedged>>

(* mark_active: the cached price is the cost from now on.                    *)
Activate(price) ==
    /\ state' = "Active"
    /\ entry' = price /\ highest' = price /\ current' = price

(* The buy confirmer finds the tokens; a position being sold stays as it is. *)
Confirmed ==
    /\ Reachable /\ confirmer = "buy" /\ confirmer' = "paid"
    /\ IF state = "Confirming" THEN Activate(cached)
       ELSE UNCHANGED <<state, entry, highest, current>>
    /\ UNCHANGED <<follow, held, before, cached, updates, signalled, wedged>>

(* Its second task: the price becomes what was paid, if the transaction can  *)
(* be read, and if it is above the highest, that too.                        *)
Correct(price) ==
    /\ Reachable /\ confirmer = "paid" /\ confirmer' = "done"
    /\ entry' \in {entry, price}
    /\ highest' = Higher(highest, entry')
    /\ UNCHANGED <<follow, held, state, before, current, cached, updates, signalled, wedged>>

(* The monitor looks an unconfirmed buy up.  If no tokens came, the position *)
(* has failed; if they did, the monitor goes over the table while it holds   *)
(* its own guard of the entry, and never comes back (AutoSell, run           *)
(* AutoSell_wedge): the position stays Confirming.                           *)
LookUp ==
    /\ state = "Confirming" /\ held >= ConfirmTimeout
    /\ \/ state' = "Gone" /\ UNCHANGED wedged
       \/ wedged' = "here" /\ UNCHANGED state
    /\ UNCHANGED <<follow, confirmer, held, before, entry, highest, current, cached, updates,
                   signalled>>

(* Any other is looked at with the cached price, unless it has been held for *)
(* too long.                                                                 *)
Look ==
    /\ state \in {"Confirming", "Active", "Selling"}
    /\ state = "Confirming" => held < ConfirmTimeout
    /\ IF HeldTooLong THEN UNCHANGED <<highest, current>> ELSE Put(cached)
    /\ signalled' = (signalled \/ WantsOut)
    /\ UNCHANGED <<follow, confirmer, held, state, before, entry, cached, updates, wedged>>

(* A round of the monitor, as far as this position goes.                     *)
Monitor == wedged = "no" /\ (LookUp \/ Look)

(* The same look-up of another position, whose entry may be in this one's    *)
(* shard.                                                                    *)
OtherWedges ==
    /\ wedged = "no" /\ wedged' \in {"here", "elsewhere"}
    /\ UNCHANGED <<follow, confirmer, held, state, before, entry, highest, current, cached,
                   updates, signalled>>

(* The sell executor takes the signal, and sells or puts back what it found. *)
Take ==
    /\ Reachable /\ signalled /\ signalled' = FALSE
    /\ IF state \in {"Confirming", "Active"}
       THEN state' = "Selling" /\ before' = state
       ELSE UNCHANGED <<state, before>>
    /\ UNCHANGED <<follow, confirmer, held, entry, highest, current, cached, updates, wedged>>

Sold(done) ==
    /\ Reachable /\ state = "Selling"
    /\ state' = IF done THEN "Gone" ELSE before
    /\ UNCHANGED <<follow, confirmer, held, before, entry, highest, current, cached, updates,
                   signalled, wedged>>

Elapse ==
    /\ held < MaxTime /\ state # "Gone"
    /\ held' = held + 1
    /\ UNCHANGED <<follow, confirmer, state, before, entry, highest, current, cached, updates,
                   signalled, wedged>>

Next ==
    \/ \E p \in Prices : Trade(p) \/ Correct(p)
    \/ Update \/ Confirmed \/ Monitor \/ OtherWedges \/ Take \/ Elapse
    \/ \E done \in BOOLEAN : Sold(done)

Spec == Init /\ [][Next]_vars

(* The monitor's loop goes on until it waits for itself.                     *)
FairSpec == Spec /\ WF_vars(Monitor)

-----------------------------------------------------------------------------
Stopped == wedged # "no"

(* While the cached price is past the stop or the target of an active        *)
(* position, a signal goes out, or the price recovers; if not, the position  *)
(* has been taken on, or the one monitor has stopped for ever.  It does not  *)
(* depend on further trades.                                                 *)
PastLimit ==
    /\ state = "Active" /\ ~follow
    /\ \/ 100 * (entry - cached) >= StopLoss * entry
       \/ 100 * (cached - entry) >= TakeProfit * entry

BreachSignalled == PastLimit ~> (signalled \/ ~PastLimit \/ Stopped)

(* A position that is held for as long as its group allows is offered for    *)
(* sale, also in follow mode, unless the monitor has stopped; a position     *)
(* whose own look-up stopped it stays held too long, unsold.                 *)
HoldLimited == HeldTooLong ~> (signalled \/ ~HeldTooLong \/ Stopped)

=============================================================================
