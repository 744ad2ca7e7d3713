------------------------- MODULE AccountSubscriber -------------------------
(***************************************************************************)
(* The account subscriber (grpc/account_subscriber.rs) and the three tasks *)
(* that share its maps: the buy loop, which tracks the bonding curve and   *)
(* the token account of a mint; the sell executor, which untracks a mint   *)
(* without open positions; and the subscriber itself, which keeps the      *)
(* server's filter in step with the tracked accounts and stores what the   *)
(* server sends.  The tasks run on several threads: each action is one     *)
(* operation on one map.  Balances and curve states are left out; a cache  *)
(* entry is who wrote it.                                                  *)
(***************************************************************************)
EXTENDS Integers, FiniteSets

CONSTANTS
    Mints,     \* the mints bought
    NoMint,    \* no mint
    Untracks   \* whether positions are closed and their mints untracked

ASSUME SubscriberAssumption ==
    NoMint \notin Mints /\ IsFiniteSet(Mints) /\ Untracks \in BOOLEAN

Kinds    == {"curve", "ata"}
Accounts == Mints \X Kinds
Curve(m) == <<m, "curve">>

VARIABLES
    routed,      \* keys of bonding_curve_to_mint and of ata_to_mint
    subscribed,  \* subscribed_accounts
    permit,      \* subscription_notify holds a permit
    tracker,     \* the buy loop, in track_bonding_curve or track_ata
    untracker,   \* the sell executor, in cleanup_mint_if_unused
    prefetching, \* mints whose curve a task of the buy loop reads by RPC
    cached,      \* BondingCurveCache and AtaBalanceCache: the entry's writer
    stream       \* the subscriber

vars == <<routed, subscribed, permit, tracker, untracker, prefetching, cached, stream>>

Resting     == [mint |-> NoMint, kind |-> "curve", step |-> "rest"]
At(m, k, s) == [mint |-> m, kind |-> k, step |-> s]
WorkAt(steps) == {Resting} \cup [mint : Mints, kind : Kinds, step : steps]

Disconnected(pc) == [pc |-> pc, accounts |-> {}, filter |-> {}, count |-> 0, held |-> {}]

Waiting == {"check", "dozing", "asleep", "listing", "backoff"}
Linked  == {"connecting", "streaming", "handling", "broken"}

(* `accounts` is the list last taken of the tracked ones, `filter` what the *)
(* server sends, `count` last_subscribed_count, and `held` the account whose *)
(* entry of subscribed_accounts is locked while its update is handled.  All  *)
(* are locals of subscribe: nothing of them outlives a connection.           *)
StreamState ==
    {Disconnected(pc) : pc \in Waiting}
    \cup [pc : Linked, accounts : SUBSET Accounts, filter : SUBSET Accounts, count : Nat,
          held : SUBSET Accounts]

TypeOK ==
    /\ routed \in SUBSET Accounts
    /\ subscribed \in SUBSET Accounts
    /\ permit \in BOOLEAN
    /\ tracker \in WorkAt({"route", "subscribe", "notify"})
    /\ untracker \in WorkAt({"unroute", "unsubscribe", "forget"})
    /\ prefetching \in SUBSET Mints
    /\ cached \in [Accounts -> {"none", "stream", "rpc"}]
    /\ stream \in StreamState

Init ==
    /\ routed = {}
    /\ subscribed = {}
    /\ permit = FALSE
    /\ tracker = Resting
    /\ untracker = Resting
    /\ prefetching = {}
    /\ cached = [a \in Accounts |-> "none"]
    /\ stream = Disconnected("check")

-----------------------------------------------------------------------------
(* The buy loop tracks the curve, then the token account, and has the curve  *)
(* read by RPC where it is not cached.                                       *)

Track(m) ==
    /\ tracker = Resting
    /\ untracker.mint # m
    /\ tracker' = At(m, "curve", "route")
    /\ UNCHANGED <<routed, subscribed, permit, untracker, prefetching, cached, stream>>

Tracked == <<tracker.mint, tracker.kind>>

Route ==
    /\ tracker.step = "route"
    /\ routed' = routed \cup {Tracked}
    /\ tracker' = [tracker EXCEPT !.step = "subscribe"]
    /\ UNCHANGED <<subscribed, permit, untracker, prefetching, cached, stream>>

SubscribeAccount ==
    /\ tracker.step = "subscribe"
    /\ Tracked \notin stream.held
    /\ subscribed' = subscribed \cup {Tracked}
    /\ tracker' = [tracker EXCEPT !.step = "notify"]
    /\ UNCHANGED <<routed, permit, untracker, prefetching, cached, stream>>

(* What the buy loop does after an account is tracked *)
AfterTracking ==
    IF tracker.kind = "curve"
    THEN /\ tracker' = At(tracker.mint, "ata", "route")
         /\ UNCHANGED prefetching
    ELSE /\ tracker' = Resting
         /\ prefetching' = prefetching \cup
                {m \in {tracker.mint} : cached[Curve(m)] = "none"}

(* waking only a task that is already waiting: notify_waiters() *)
NotifyWaiting ==
    /\ tracker.step = "notify"
    /\ permit' = (permit \/ stream.pc = "asleep")
    /\ AfterTracking
    /\ UNCHANGED <<routed, subscribed, untracker, cached, stream>>

Notify ==
    /\ tracker.step = "notify"
    /\ permit' = TRUE
    /\ AfterTracking
    /\ UNCHANGED <<routed, subscribed, untracker, cached, stream>>

(* The fetch may fail, and may answer long after the mint is untracked. *)
Prefetched(m) ==
    /\ m \in prefetching
    /\ prefetching' = prefetching \ {m}
    /\ \E writer \in {"rpc", cached[Curve(m)]} :
          cached' = [cached EXCEPT ![Curve(m)] = writer]
    /\ UNCHANGED <<routed, subscribed, permit, tracker, untracker, stream>>

-----------------------------------------------------------------------------
(* The sell executor has seen that a mint has no open position: it forgets   *)
(* the cached balance, then both accounts, then the cached curve.            *)

Untrack(m) ==
    /\ Untracks
    /\ untracker = Resting
    /\ tracker.mint # m
    /\ {m} \X Kinds \subseteq subscribed
    /\ untracker' = At(m, "curve", "unroute")
    /\ cached' = [cached EXCEPT ![<<m, "ata">>] = "none"]
    /\ UNCHANGED <<routed, subscribed, permit, tracker, prefetching, stream>>

Untracked == <<untracker.mint, untracker.kind>>

Unroute ==
    /\ untracker.step = "unroute"
    /\ routed' = routed \ {Untracked}
    /\ untracker' = [untracker EXCEPT !.step = "unsubscribe"]
    /\ UNCHANGED <<subscribed, permit, tracker, prefetching, cached, stream>>

(* A removal waits for the handler to release the entry. *)
Unsubscribe ==
    /\ untracker.step = "unsubscribe"
    /\ Untracked \notin stream.held
    /\ subscribed' = subscribed \ {Untracked}
    /\ untracker' = IF untracker.kind = "curve"
                    THEN At(untracker.mint, "ata", "unroute")
                    ELSE [untracker EXCEPT !.step = "forget"]
    /\ UNCHANGED <<routed, permit, tracker, prefetching, cached, stream>>

(* the cached curve is left behind *)
ForgetNothing ==
    /\ untracker.step = "forget"
    /\ untracker' = Resting
    /\ UNCHANGED <<routed, subscribed, permit, tracker, prefetching, cached, stream>>

ForgetCurve ==
    /\ untracker.step = "forget"
    /\ cached' = [cached EXCEPT ![Curve(untracker.mint)] = "none"]
    /\ untracker' = Resting
    /\ UNCHANGED <<routed, subscribed, permit, tracker, prefetching, stream>>

-----------------------------------------------------------------------------
(* The subscriber waits for an account to follow, connects with the list it  *)
(* has then taken, and from then on compares sizes five times a second.      *)

Stays == UNCHANGED <<routed, subscribed, tracker, untracker, prefetching>>

Check ==
    /\ stream.pc = "check"
    /\ stream' = [stream EXCEPT !.pc = IF subscribed = {} THEN "dozing" ELSE "listing"]
    /\ Stays /\ UNCHANGED <<permit, cached>>

(* notified() is created, and then polled *)
Doze ==
    /\ stream.pc = "dozing"
    /\ stream' = [stream EXCEPT !.pc = "asleep"]
    /\ Stays /\ UNCHANGED <<permit, cached>>

Wake ==
    /\ stream.pc = "asleep"
    /\ permit
    /\ permit' = FALSE
    /\ stream' = [stream EXCEPT !.pc = "check"]
    /\ Stays /\ UNCHANGED cached

List ==
    /\ stream.pc = "listing"
    /\ stream' = [stream EXCEPT !.pc = "connecting", !.accounts = subscribed]
    /\ Stays /\ UNCHANGED <<permit, cached>>

(* counted when the connection stands *)
ConnectCountingLate ==
    /\ stream.pc = "connecting"
    /\ stream' = [stream EXCEPT !.pc = "streaming", !.filter = stream.accounts,
                                !.count = Cardinality(subscribed)]
    /\ Stays /\ UNCHANGED <<permit, cached>>

Connect ==
    /\ stream.pc = "connecting"
    /\ stream' = [stream EXCEPT !.pc = "streaming", !.filter = stream.accounts,
                                !.count = Cardinality(stream.accounts)]
    /\ Stays /\ UNCHANGED <<permit, cached>>

(* Connecting fails, the stream reports an error or it ends. *)
Disconnect ==
    /\ stream.pc \in {"connecting", "streaming", "broken"}
    /\ stream' = Disconnected("backoff")
    /\ Stays /\ UNCHANGED <<permit, cached>>

Reconnect ==
    /\ stream.pc = "backoff"
    /\ stream' = [stream EXCEPT !.pc = "check"]
    /\ Stays /\ UNCHANGED <<permit, cached>>

OutOfStep == Cardinality(subscribed) # stream.count

Resubscribe ==
    /\ stream.pc = "streaming"
    /\ OutOfStep
    /\ stream' = [stream EXCEPT !.accounts = subscribed, !.filter = subscribed,
                                !.count = Cardinality(subscribed)]
    /\ Stays /\ UNCHANGED <<permit, cached>>

(* A request that cannot be sent is counted all the same; the connection is  *)
(* then broken, and will end (updates it has yet to deliver are left out).   *)
ResubscribeFails ==
    /\ stream.pc = "streaming"
    /\ OutOfStep
    /\ stream' = [stream EXCEPT !.pc = "broken", !.accounts = subscribed,
                                !.count = Cardinality(subscribed)]
    /\ Stays /\ UNCHANGED <<permit, cached>>

(* An update is handled with the account's entry locked; one of an account   *)
(* that is no longer tracked is dropped.                                     *)
Receive(a) ==
    /\ stream.pc = "streaming"
    /\ a \in stream.filter \cap subscribed
    /\ stream' = [stream EXCEPT !.pc = "handling", !.held = {a}]
    /\ Stays /\ UNCHANGED <<permit, cached>>

Store ==
    /\ stream.pc = "handling"
    /\ cached' = [a \in Accounts |->
                    IF a \in stream.held \cap routed THEN "stream" ELSE cached[a]]
    /\ stream' = [stream EXCEPT !.pc = "streaming", !.held = {}]
    /\ Stays /\ UNCHANGED permit

-----------------------------------------------------------------------------

Tracker   == (\E m \in Mints : Track(m)) \/ Route \/ SubscribeAccount \/ Notify
Untracker == (\E m \in Mints : Untrack(m)) \/ Unroute \/ Unsubscribe \/ ForgetCurve

(* what the subscriber does by itself, whatever the server does *)
Subscriber == Check \/ Doze \/ Wake \/ List \/ Reconnect \/ Resubscribe \/ Store

Next ==
    \/ Tracker \/ Untracker \/ Subscriber
    \/ Connect \/ Disconnect \/ ResubscribeFails
    \/ \E m \in Mints : Prefetched(m)
    \/ \E a \in Accounts : Receive(a)

Spec == Init /\ [][Next]_vars

(* A track that has begun ends, the subscriber keeps running, a broken       *)
(* connection ends and connecting succeeds in the end.  Updates do not keep  *)
(* the subscriber from its timer for ever, nor do failures keep it from      *)
(* resubscribing: select! polls its branches in random order.                *)
Fairness ==
    /\ WF_vars(Route \/ SubscribeAccount \/ Notify)
    /\ WF_vars(Check \/ Doze \/ Wake \/ List \/ Reconnect \/ Store)
    /\ WF_vars(stream.pc = "broken" /\ Disconnect)
    /\ SF_vars(Connect) /\ SF_vars(Resubscribe)

FairSpec == Spec /\ Fairness

-----------------------------------------------------------------------------

(* untrack_mint leaves no curve behind that the stream has written, even when *)
(* an update of the curve is being handled while the mint is untracked.       *)
CurveForgotten ==
    \A m \in Mints :
        cached[Curve(m)] = "stream" => Curve(m) \in subscribed \/ untracker.mint = m

(* Where the timer finds nothing to do, it misses as many new accounts as the  *)
(* server still sends that are no longer tracked: although only sizes are     *)
(* compared, and the list was taken before the connection was made, nothing   *)
(* is missed but in exchange for what was untracked since the last request.   *)
NewAccountsNoticed ==
    stream.pc = "streaming" /\ ~ OutOfStep =>
        Cardinality(subscribed \ stream.filter) = Cardinality(stream.filter \ subscribed)

(* Every tracked account is, in the end, among those the server sends, while  *)
(* positions are only opened.                                                 *)
AccountsStreamed ==
    \A a \in Accounts : a \in subscribed ~> (a \in stream.filter \/ a \notin subscribed)

(* Why no curve is left behind: what is being stored is tracked, and stays so *)
(* while it is stored.                                                        *)
HeldSubscribed ==
    /\ stream.held \subseteq subscribed
    /\ stream.held # {} => stream.pc = "handling"

=============================================================================
