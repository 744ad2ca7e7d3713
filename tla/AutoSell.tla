------------------------------ MODULE AutoSell ------------------------------
(***************************************************************************)
(* The life of a copied position: the buy task that opens it, the          *)
(* confirmer that waits for the buy, the gRPC price monitor and the        *)
(* fallback monitor that ask for a sale, the one sell executor, and the    *)
(* chain they all observe.  All of them share one table of positions.      *)
(*                                                                         *)
(* A task holds no lock across an await, so everything it read before one  *)
(* may be stale after it: each action is the code between two awaits.      *)
(* The table is a DashMap; an operation on one key takes the lock of that  *)
(* key's shard and an iteration takes every shard's lock in turn.  The     *)
(* model gives every mint a shard of its own.                              *)
(***************************************************************************)
EXTENDS Position, Sequences, FiniteSets

CONSTANTS
    Mints,           \* the mints bought, each at most once
    NoMint,          \* no mint
    ConfirmTimeout,  \* age at which the fallback monitor checks a buy itself
    ConfirmDeadline, \* age at which the confirmer gives up
    MaxHold,         \* age at which a position is to be sold whatever its price
    Retention,       \* age at which a closed or failed position leaves the table
    MaxAge,          \* bound: ages stop here
    MaxSignals,      \* bound: length of the (unbounded) queue of sell signals
    MaxSellRetries,  \* MAX_SELL_RETRIES: sell transactions sent for one signal
    RpcErrors,       \* whether an RPC call may fail
    LandBy,          \* age after which a buy no longer lands
    Prompt           \* whether every RPC call answers within a tick

ASSUME AutoSellAssumption ==
    /\ NoMint \notin Mints
    /\ MaxTokens \in Nat \ {0} /\ MaxSellRetries \in Nat \ {0}
    /\ MaxAge \in Nat /\ MaxSignals \in Nat /\ LandBy \in Nat
    /\ ConfirmTimeout \in Nat /\ ConfirmDeadline \in Nat
    /\ MaxHold \in Nat /\ Retention \in Nat
    /\ RpcErrors \in BOOLEAN /\ Prompt \in BOOLEAN

Uncached == -1       \* the ATA cache has no entry for the mint

VARIABLES
    pos,        \* AutoSellManager.positions
    age,        \* seconds (in ticks) since Position::new
    buyer,      \* progress of execute_buy
    confirmer,  \* the task spawned by spawn_confirm_task
    fallback,   \* the task of start_fallback_monitor
    monitor,    \* the task of start_grpc_monitor
    signals,    \* the channel from the two monitors to the executor
    seller,     \* the sell executor
    wedged,     \* the mint whose shard the fallback monitor holds for ever
    ata,        \* AtaBalanceCache
    tracked,    \* mints whose accounts the subscriber follows
    buyTx,      \* chain: what became of the buy transaction
    bought,     \* chain: the tokens it bought
    wallet,     \* chain: the balance of the token account
    sellTxs     \* chain: amounts of the sell transactions that may yet land

tasks == <<buyer, confirmer, fallback, monitor, seller>>
chain == <<buyTx, bought, wallet, sellTxs>>
cache == <<ata, tracked>>
vars  == <<pos, age, tasks, signals, wedged, cache, chain>>

-----------------------------------------------------------------------------
(* The states of the tasks *)

BuyerState     == {"idle", "sending", "sent", "added", "failed", "hung"}
(* "polled": a poll has completed in this tick *)
Polling        == {"poll", "polled"}
ConfirmerState == [pc : {"idle", "found", "landed", "failed", "hung"} \cup Polling,
                   signature : {"unseen", "confirmed"},   \* signature_confirmed
                   balance : Amounts]  \* token_balance
(* the mint a task is at work on, where it is at work *)
FallbackState  ==
    [pc : {"sleep", "scan"}, mint : {NoMint}, todo : SUBSET Mints, seen : BOOLEAN]
    \cup [pc : {"reading", "read", "hung"}, mint : Mints, todo : SUBSET Mints,
          seen : BOOLEAN]                  \* balance > pre_buy_ata_balance
MonitorState   == [pc : {"idle", "dead"}, mint : {NoMint}] \cup [pc : {"emit"}, mint : Mints]
SellerRecord(pcs, mints) ==
    [pc       : pcs,
     mint     : mints,
     previous : PositionState, \* previous_state
     amount   : Amounts,       \* token_amount
     left     : Amounts,       \* expected_after_balance
     tries    : 0 .. MaxSellRetries]
Selling      == {"send", "wait", "sold", "unsold"}
SellerState  == SellerRecord({"idle", "hung"}, {NoMint})
                \cup SellerRecord({"size"} \cup Selling, Mints)

TypeOK ==
    /\ pos \in [Mints -> PositionRecord]
    /\ age \in [Mints -> 0 .. MaxAge]
    /\ buyer \in [Mints -> BuyerState]
    /\ confirmer \in [Mints -> ConfirmerState]
    /\ fallback \in FallbackState
    /\ monitor \in MonitorState
    /\ signals \in Seq(Mints)
    /\ seller \in SellerState
    /\ wedged \in Mints \cup {NoMint}
    /\ ata \in [Mints -> Amounts \cup {Uncached}]
    /\ tracked \in SUBSET Mints
    /\ buyTx \in [Mints -> {"none", "inflight", "landed", "failed"}]
    /\ bought \in [Mints -> Amounts]
    /\ wallet \in [Mints -> Amounts]
    /\ sellTxs \in [Mints -> SUBSET Amounts]

RestingSeller(pc)    == [pc |-> pc, mint |-> NoMint, previous |-> "Closed",
                         amount |-> 0, left |-> 0, tries |-> 0]
ConfirmerAt(pc, signature, balance) ==
    [pc |-> pc, signature |-> signature, balance |-> balance]
RestingConfirmer(pc)    == ConfirmerAt(pc, "unseen", 0)
ConfirmerFound(balance) == ConfirmerAt("found", "confirmed", balance)
IdleSeller   == RestingSeller("idle")
IdleFallback == [pc |-> "sleep", todo |-> {}, mint |-> NoMint, seen |-> FALSE]
IdleMonitor  == [pc |-> "idle", mint |-> NoMint]

Init ==
    /\ pos = [m \in Mints |-> NoPosition]
    /\ age = [m \in Mints |-> 0]
    /\ buyer = [m \in Mints |-> "idle"]
    /\ confirmer = [m \in Mints |-> RestingConfirmer("idle")]
    /\ fallback = IdleFallback
    /\ monitor = IdleMonitor
    /\ signals = <<>>
    /\ seller = IdleSeller
    /\ wedged = NoMint
    /\ ata = [m \in Mints |-> Uncached]
    /\ tracked = {}
    /\ buyTx = [m \in Mints |-> "none"]
    /\ bought = [m \in Mints |-> 0]
    /\ wallet = [m \in Mints |-> 0]
    /\ sellTxs = [m \in Mints |-> {}]

-----------------------------------------------------------------------------
(* The table's locks.  A task blocked by a lock that is never released      *)
(* takes no further step; the two operators below are guards.  A method     *)
(* that changes its key and then saves the table (an iteration) does the    *)
(* first even when it hangs on the second.                                  *)

KeyFree(m) == wedged # m
TableFree  == wedged = NoMint

AfterSave(pc) == IF TableFree THEN pc ELSE "hung"

(* What an RPC read of the token account may yield where an error reads as 0 *)
RpcBalance(m) == IF RpcErrors THEN {wallet[m], 0} ELSE {wallet[m]}

-----------------------------------------------------------------------------
(* The chain *)

LandBuy(m) ==
    /\ buyTx[m] = "inflight"
    /\ age[m] <= LandBy
    /\ \E a \in Amounts \ {0} :
          /\ bought' = [bought EXCEPT ![m] = a]
          /\ wallet' = [wallet EXCEPT ![m] = a]
    /\ buyTx' = [buyTx EXCEPT ![m] = "landed"]
    /\ UNCHANGED <<pos, age, tasks, signals, wedged, cache, sellTxs>>

FailBuy(m) ==
    /\ buyTx[m] = "inflight"
    /\ buyTx' = [buyTx EXCEPT ![m] = "failed"]
    /\ UNCHANGED <<pos, age, tasks, signals, wedged, cache, bought, wallet, sellTxs>>

(* Several transactions of the same amount may be under way, so that one    *)
(* landing may leave another.                                               *)
LandSell(m) ==
    \E a \in sellTxs[m] :
        /\ a <= wallet[m]
        /\ wallet' = [wallet EXCEPT ![m] = @ - a]
        /\ \E rest \in {sellTxs[m], sellTxs[m] \ {a}} :
              sellTxs' = [sellTxs EXCEPT ![m] = rest]
        /\ UNCHANGED <<pos, age, tasks, signals, wedged, cache, buyTx, bought>>

ExpireSell(m) ==
    \E a \in sellTxs[m] :
        /\ sellTxs' = [sellTxs EXCEPT ![m] = @ \ {a}]
        /\ UNCHANGED <<pos, age, tasks, signals, wedged, cache, buyTx, bought, wallet>>

(* The subscription delivers the account's latest balance to the cache; how   *)
(* the mint comes to be followed is the subject of AccountSubscriber.         *)
AtaUpdate(m) ==
    /\ m \in tracked
    /\ buyTx[m] = "landed"
    /\ ata[m] # wallet[m]
    /\ ata' = [ata EXCEPT ![m] = wallet[m]]
    /\ UNCHANGED <<pos, age, tasks, signals, wedged, tracked, chain>>

(* Where RPC calls are prompt, a tick does not overtake a poll of 25 to 80 ms *)
Overtaken(m) ==
    \/ buyer[m] \in {"sending", "sent"}
    \/ confirmer[m].pc = "poll"
    \/ confirmer[m].pc = "found"

Tick ==
    /\ \E m \in Mints : buyer[m] # "idle" /\ age[m] < MaxAge
    /\ Prompt /\ TableFree => \A m \in Mints : ~ Overtaken(m)
    /\ age' = [m \in Mints |-> IF buyer[m] # "idle" /\ age[m] < MaxAge
                               THEN age[m] + 1 ELSE age[m]]
    /\ confirmer' = [m \in Mints |->
                        [confirmer[m] EXCEPT !.pc = IF @ = "polled" THEN "poll" ELSE @]]
    /\ UNCHANGED <<pos, buyer, fallback, monitor, seller, signals, wedged, cache, chain>>

-----------------------------------------------------------------------------
(* The buy task *)

BuySignal(m) ==
    /\ buyer[m] = "idle"
    /\ buyer' = [buyer EXCEPT ![m] = "sending"]
    /\ tracked' = tracked \cup {m}
    /\ UNCHANGED <<pos, age, confirmer, fallback, monitor, seller, signals, wedged,
                   ata, chain>>

SendBuy(m) ==
    /\ buyer[m] = "sending"
    /\ buyer' = [buyer EXCEPT ![m] = "sent"]
    /\ buyTx' = [buyTx EXCEPT ![m] = "inflight"]
    /\ UNCHANGED <<pos, age, confirmer, fallback, monitor, seller, signals, wedged,
                   cache, bought, wallet, sellTxs>>

(* Building or sending fails and the position is dropped; a send that        *)
(* reports an error may all the same have reached the chain.                 *)
SendBuyFails(m) ==
    /\ buyer[m] = "sending"
    /\ buyer' = [buyer EXCEPT ![m] = "failed"]
    /\ \E t \in IF RpcErrors THEN {"none", "inflight"} ELSE {"none"} :
          buyTx' = [buyTx EXCEPT ![m] = t]
    /\ UNCHANGED <<pos, age, confirmer, fallback, monitor, seller, signals, wedged,
                   cache, bought, wallet, sellTxs>>

AddPosition(m) ==
    /\ buyer[m] = "sent"
    /\ KeyFree(m)
    /\ \E estimate \in Amounts :
          pos' = [pos EXCEPT ![m] = MarkConfirming(MarkSubmitted(NewPosition(estimate)))]
    /\ buyer' = [buyer EXCEPT ![m] = AfterSave("added")]
    /\ confirmer' = IF TableFree THEN [confirmer EXCEPT ![m] = RestingConfirmer("poll")]
                    ELSE confirmer
    /\ UNCHANGED <<age, fallback, monitor, seller, signals, wedged, cache, chain>>

-----------------------------------------------------------------------------
(* The confirmer.  The balance before the buy is 0: a mint is bought once,  *)
(* seconds after its creation.                                              *)

ConfirmerSeesCache(m) ==
    /\ confirmer[m].pc \in Polling
    /\ ata[m] > 0
    /\ confirmer' = [confirmer EXCEPT ![m] = ConfirmerFound(ata[m])]
    /\ UNCHANGED <<pos, age, buyer, fallback, monitor, seller, signals, wedged, cache, chain>>

(* What getSignatureStatuses may yield where an error reads as unconfirmed *)
Status(m)         == IF buyTx[m] = "landed" THEN "confirmed" ELSE "unseen"
SignatureStatus(m) == IF RpcErrors THEN {Status(m), "unseen"} ELSE {Status(m)}

ConfirmerPolls(m) ==
    /\ confirmer[m].pc \in Polling
    /\ buyTx[m] = "failed" => RpcErrors
    /\ \E balance \in RpcBalance(m), status \in SignatureStatus(m) :
          confirmer' = [confirmer EXCEPT ![m] =
              IF balance > 0 THEN ConfirmerFound(balance)
              ELSE ConfirmerAt("polled", IF @.signature = "unseen" THEN status ELSE @.signature, 0)]
    /\ UNCHANGED <<pos, age, buyer, fallback, monitor, seller, signals, wedged, cache, chain>>

(* confirm_failed, its save, and the receipt *)
FailConfirmation(m) ==
    /\ KeyFree(m)
    /\ pos' = [pos EXCEPT ![m] = MarkFailed(@)]
    /\ confirmer' = [confirmer EXCEPT ![m] = RestingConfirmer(AfterSave("failed"))]
    /\ UNCHANGED <<age, buyer, fallback, monitor, seller, signals, wedged, cache, chain>>

ConfirmerSeesFailure(m) ==
    /\ confirmer[m].pc \in Polling
    /\ buyTx[m] = "failed"
    /\ FailConfirmation(m)

(* A poll ends past the deadline: without a signature, or with one but no    *)
(* balance and no answer to getTransaction, the buy is written off.          *)
ConfirmerGivesUp(m) ==
    /\ confirmer[m].pc = "polled"
    /\ age[m] >= ConfirmDeadline
    /\ confirmer[m].signature = "confirmed" => RpcErrors
    /\ FailConfirmation(m)

(* without a signature *)
ConfirmerReadsAnyTransaction(m) ==
    /\ confirmer[m].pc = "polled"
    /\ age[m] >= ConfirmDeadline
    /\ confirmer' = [confirmer EXCEPT ![m] = ConfirmerFound(bought[m])]
    /\ UNCHANGED <<pos, age, buyer, fallback, monitor, seller, signals, wedged, cache, chain>>

ConfirmerReadsTransaction(m) ==
    /\ confirmer[m].pc = "polled"
    /\ age[m] >= ConfirmDeadline
    /\ confirmer[m].signature = "confirmed"
    /\ confirmer' = [confirmer EXCEPT ![m] = ConfirmerFound(bought[m])]
    /\ UNCHANGED <<pos, age, buyer, fallback, monitor, seller, signals, wedged, cache, chain>>

ConfirmSuccess(m) ==
    /\ confirmer[m].pc = "found"
    /\ TableFree
    /\ pos' = [pos EXCEPT ![m] = MarkActive(@, confirmer[m].balance)]
    /\ confirmer' = [confirmer EXCEPT ![m] = RestingConfirmer("landed")]
    /\ UNCHANGED <<age, buyer, fallback, monitor, seller, signals, wedged, cache, chain>>

-----------------------------------------------------------------------------
(* check_exit_conditions: the position has expired, or it is active and the *)
(* price has reached a stop, a target or a trailing stop, which it may at   *)
(* any time.                                                                *)

ExitDue(m) ==
    \/ age[m] >= MaxHold /\ CanSell(pos[m])
    \/ pos[m].state = "Active"

Emit(m) ==
    /\ Len(signals) < MaxSignals
    /\ signals' = Append(signals, m)

(* A bonding curve update: the conditions are checked under the lock, which  *)
(* is released before the position is looked up again for the log line.      *)
MonitorChecks(m) ==
    /\ monitor.pc = "idle"
    /\ m \in tracked
    /\ TableFree
    /\ ExitDue(m)
    /\ monitor' = [pc |-> "emit", mint |-> m]
    /\ UNCHANGED <<pos, age, buyer, confirmer, fallback, seller, signals, wedged, cache, chain>>

MonitorEmits ==
    /\ monitor.pc = "emit"
    /\ KeyFree(monitor.mint)
    /\ Exists(pos[monitor.mint])
    /\ Emit(monitor.mint)
    /\ monitor' = IdleMonitor
    /\ UNCHANGED <<pos, age, buyer, confirmer, fallback, seller, wedged, cache, chain>>

(* the unwrap() of the second look-up *)
MonitorPanics ==
    /\ monitor.pc = "emit"
    /\ KeyFree(monitor.mint)
    /\ ~ Exists(pos[monitor.mint])
    /\ monitor' = [pc |-> "dead", mint |-> NoMint]
    /\ UNCHANGED <<pos, age, buyer, confirmer, fallback, seller, signals, wedged, cache, chain>>

-----------------------------------------------------------------------------
(* The fallback monitor *)

FallbackWakes ==
    /\ fallback.pc = "sleep"
    /\ TableFree
    /\ \E m \in Mints : Exists(pos[m])
    /\ fallback' = [fallback EXCEPT !.pc = "scan", !.todo = {m \in Mints : Exists(pos[m])}]
    /\ UNCHANGED <<pos, age, buyer, confirmer, monitor, seller, signals, wedged, cache, chain>>

(* without the wait for confirm_timeout_secs *)
NeedsConfirmCheckAtOnce(m) == pos[m].state \in {"Submitted", "Confirming"}

NeedsConfirmCheck(m) ==
    pos[m].state \in {"Submitted", "Confirming"} /\ age[m] >= ConfirmTimeout

FallbackChecksBuy(m) ==
    /\ fallback.pc = "scan" /\ m \in fallback.todo
    /\ NeedsConfirmCheck(m)
    /\ fallback' = [fallback EXCEPT !.pc = "reading", !.todo = @ \ {m}, !.mint = m]
    /\ UNCHANGED <<pos, age, buyer, confirmer, monitor, seller, signals, wedged, cache, chain>>

FallbackEmits(m) ==
    /\ fallback.pc = "scan" /\ m \in fallback.todo
    /\ ~ NeedsConfirmCheck(m)
    /\ ExitDue(m)
    /\ Emit(m)
    /\ fallback' = [fallback EXCEPT !.todo = @ \ {m}]
    /\ UNCHANGED <<pos, age, buyer, confirmer, monitor, seller, wedged, cache, chain>>

FallbackSkips(m) ==
    /\ fallback.pc = "scan" /\ m \in fallback.todo
    /\ ~ NeedsConfirmCheck(m)
    /\ ~ (age[m] >= MaxHold /\ CanSell(pos[m]))
    /\ fallback' = [fallback EXCEPT !.todo = @ \ {m}]
    /\ UNCHANGED <<pos, age, buyer, confirmer, monitor, seller, signals, wedged, cache, chain>>

FallbackReadsBalance ==
    /\ fallback.pc = "reading"
    /\ \E balance \in RpcBalance(fallback.mint) :
          fallback' = [fallback EXCEPT !.pc = "read", !.seen = balance > 0]
    /\ UNCHANGED <<pos, age, buyer, confirmer, monitor, seller, signals, wedged, cache, chain>>

(* The position is locked again, in whatever state it now is. *)
FallbackFailsBuy ==
    /\ fallback.pc = "read"
    /\ ~ fallback.seen
    /\ pos' = [pos EXCEPT ![fallback.mint] = MarkFailed(@)]
    /\ fallback' = [fallback EXCEPT !.pc = "scan", !.mint = NoMint]
    /\ UNCHANGED <<age, buyer, confirmer, monitor, seller, signals, wedged, cache, chain>>

(* With the balance seen the monitor counts the mint's open positions while  *)
(* it holds the entry's write lock: it waits for itself.                     *)
FallbackConfirmsBuy ==
    /\ fallback.pc = "read"
    /\ fallback.seen
    /\ IF Exists(pos[fallback.mint])
       THEN /\ wedged' = fallback.mint
            /\ fallback' = [fallback EXCEPT !.pc = "hung"]
       ELSE /\ wedged' = wedged
            /\ fallback' = [fallback EXCEPT !.pc = "scan", !.mint = NoMint, !.seen = FALSE]
    /\ UNCHANGED <<pos, age, buyer, confirmer, monitor, seller, signals, cache, chain>>

(* whatever the state of the old position *)
FallbackSweepsAll ==
    /\ fallback.pc = "scan" /\ fallback.todo = {}
    /\ pos' = [m \in Mints |-> IF age[m] >= Retention THEN NoPosition ELSE pos[m]]
    /\ fallback' = IdleFallback
    /\ UNCHANGED <<age, buyer, confirmer, monitor, seller, signals, wedged, cache, chain>>

FallbackSweeps ==
    /\ fallback.pc = "scan" /\ fallback.todo = {}
    /\ pos' = [m \in Mints |-> IF pos[m].state \in TerminalStates /\ age[m] >= Retention
                               THEN NoPosition ELSE pos[m]]
    /\ fallback' = IdleFallback
    /\ UNCHANGED <<age, buyer, confirmer, monitor, seller, signals, wedged, cache, chain>>

-----------------------------------------------------------------------------
(* The sell executor: one task, one signal at a time *)

(* The position is cloned; `amount` keeps the clone's token_amount until the *)
(* sale is sized.                                                            *)
SellerTakes ==
    /\ seller.pc = "idle"
    /\ signals # <<>>
    /\ KeyFree(Head(signals))
    /\ signals' = Tail(signals)
    /\ LET m == Head(signals) IN
       seller' = IF Exists(pos[m])
                 THEN [pc |-> "size", mint |-> m, previous |-> pos[m].state,
                       amount |-> pos[m].tokens, left |-> 0, tries |-> 0]
                 ELSE IdleSeller
    /\ UNCHANGED <<pos, age, buyer, confirmer, fallback, monitor, wedged, cache, chain>>

SellerBalance(m) == IF ata[m] # Uncached THEN {ata[m]} ELSE RpcBalance(m)

(* not capped by the balance *)
SaleSizeUncapped(believed, balance) == IF believed = 0 THEN balance ELSE believed

SaleSize(believed, balance) ==
    IF believed = 0 \/ balance < believed THEN balance ELSE believed

SellerSizes ==
    /\ seller.pc = "size"
    /\ LET m == seller.mint IN
       \E balance \in SellerBalance(m) :
          LET amount == SaleSize(seller.amount, balance) IN
          /\ amount = 0 \/ KeyFree(m)
          /\ IF amount > 0 /\ AcceptsSelling(pos[m])
             THEN /\ pos' = [pos EXCEPT ![m] = MarkSelling(@)]
                  /\ seller' = [seller EXCEPT !.pc = "send", !.amount = amount,
                                              !.left = balance - amount]
             ELSE seller' = IdleSeller /\ UNCHANGED pos
    /\ UNCHANGED <<age, buyer, confirmer, fallback, monitor, signals, wedged, cache, chain>>

(* attempts are not counted *)
SellerSendsWithoutEnd ==
    /\ seller.pc = "send"
    /\ sellTxs' = [sellTxs EXCEPT ![seller.mint] = @ \cup {seller.amount}]
    /\ seller' = [seller EXCEPT !.pc = "wait"]
    /\ UNCHANGED <<pos, age, buyer, confirmer, fallback, monitor, signals, wedged, cache,
                   buyTx, bought, wallet>>

(* Pump.fun, or Jupiter when building the Pump.fun sale fails *)
SellerSends ==
    /\ seller.pc = "send"
    /\ seller.tries < MaxSellRetries
    /\ sellTxs' = [sellTxs EXCEPT ![seller.mint] = @ \cup {seller.amount}]
    /\ seller' = [seller EXCEPT !.pc = "wait", !.tries = @ + 1]
    /\ UNCHANGED <<pos, age, buyer, confirmer, fallback, monitor, signals, wedged, cache,
                   buyTx, bought, wallet>>

SellerCannotSend ==
    /\ seller.pc = "send"
    /\ seller.tries < MaxSellRetries
    /\ seller' = [seller EXCEPT !.tries = @ + 1]
    /\ UNCHANGED <<pos, age, buyer, confirmer, fallback, monitor, signals, wedged, cache, chain>>

(* satisfied by the signature, whatever the balance *)
SellerConfirmsUnseen ==
    /\ seller.pc = "wait"
    /\ seller' = [seller EXCEPT !.pc = "sold"]
    /\ UNCHANGED <<pos, age, buyer, confirmer, fallback, monitor, signals, wedged, cache, chain>>

(* wait_sell_confirm: a cached or an RPC balance no larger than expected *)
SellerConfirms ==
    /\ seller.pc = "wait"
    /\ \E balance \in RpcBalance(seller.mint) \cup ({ata[seller.mint]} \ {Uncached}) :
          balance <= seller.left
    /\ seller' = [seller EXCEPT !.pc = "sold"]
    /\ UNCHANGED <<pos, age, buyer, confirmer, fallback, monitor, signals, wedged, cache, chain>>

(* ... or the transaction is seen to fail, or time is up *)
SellerTimesOut ==
    /\ seller.pc = "wait"
    /\ seller' = [seller EXCEPT !.pc = "send"]
    /\ UNCHANGED <<pos, age, buyer, confirmer, fallback, monitor, signals, wedged, cache, chain>>

SellerExhausted ==
    /\ seller.pc = "send"
    /\ seller.tries = MaxSellRetries
    /\ seller' = [seller EXCEPT !.pc = "unsold"]
    /\ UNCHANGED <<pos, age, buyer, confirmer, fallback, monitor, signals, wedged, cache, chain>>

(* The position after a confirmed sale *)
AfterSale(p) ==
    IF seller.left = 0 THEN MarkClosed(p) ELSE ApplyPartialSell(p, seller.amount)

(* whatever the mint's positions *)
CleanupAlways(m, p) ==
    /\ ata' = [ata EXCEPT ![m] = Uncached]
    /\ tracked' = tracked \ {m}

(* cleanup_mint_if_unused: forget the accounts of a mint with no open         *)
(* position.  The two removals are one step here: an update that fell between *)
(* them would leave a cached balance of a mint no task reads again.  The      *)
(* count of open positions is an iteration of the table.                      *)
Cleanup(m, p) ==
    IF TableFree /\ ~ IsOpen(p)
    THEN /\ ata' = [ata EXCEPT ![m] = Uncached]
         /\ tracked' = tracked \ {m}
    ELSE UNCHANGED cache

SellerSucceeds ==
    /\ seller.pc = "sold"
    /\ KeyFree(seller.mint)
    /\ pos' = [pos EXCEPT ![seller.mint] = AfterSale(@)]
    /\ Cleanup(seller.mint, pos'[seller.mint])
    /\ seller' = RestingSeller(AfterSave("idle"))
    /\ UNCHANGED <<age, buyer, confirmer, fallback, monitor, signals, wedged, chain>>

(* without restoring the position *)
SellerFailsUnrestored ==
    /\ seller.pc = "unsold"
    /\ KeyFree(seller.mint)
    /\ seller' = RestingSeller(AfterSave("idle"))
    /\ UNCHANGED <<pos, age, buyer, confirmer, fallback, monitor, signals, wedged, cache, chain>>

(* a failed sale fails the position *)
SellerFailsForGood ==
    /\ seller.pc = "unsold"
    /\ KeyFree(seller.mint)
    /\ pos' = [pos EXCEPT ![seller.mint] = MarkFailed(@)]
    /\ seller' = RestingSeller(AfterSave("idle"))
    /\ UNCHANGED <<age, buyer, confirmer, fallback, monitor, signals, wedged, cache, chain>>

SellerFails ==
    /\ seller.pc = "unsold"
    /\ KeyFree(seller.mint)
    /\ pos' = [pos EXCEPT ![seller.mint] = RestoreAfterSellAttempt(@, seller.previous)]
    /\ seller' = RestingSeller(AfterSave("idle"))
    /\ UNCHANGED <<age, buyer, confirmer, fallback, monitor, signals, wedged, cache, chain>>

-----------------------------------------------------------------------------

Chain(m) == LandBuy(m) \/ FailBuy(m) \/ LandSell(m) \/ ExpireSell(m) \/ AtaUpdate(m)

Buyer(m) == BuySignal(m) \/ SendBuy(m) \/ SendBuyFails(m) \/ AddPosition(m)

Confirmer(m) ==
    \/ ConfirmerSeesCache(m) \/ ConfirmerPolls(m) \/ ConfirmerSeesFailure(m)
    \/ ConfirmerGivesUp(m) \/ ConfirmerReadsTransaction(m) \/ ConfirmSuccess(m)

Monitor == (\E m \in Mints : MonitorChecks(m)) \/ MonitorEmits \/ MonitorPanics

Fallback ==
    \/ FallbackWakes \/ FallbackReadsBalance \/ FallbackFailsBuy
    \/ FallbackConfirmsBuy \/ FallbackSweeps
    \/ \E m \in Mints : FallbackChecksBuy(m) \/ FallbackEmits(m) \/ FallbackSkips(m)

Seller ==
    \/ SellerTakes \/ SellerSizes \/ SellerSends \/ SellerCannotSend \/ SellerConfirms
    \/ SellerTimesOut \/ SellerExhausted \/ SellerSucceeds \/ SellerFails

Next ==
    \/ \E m \in Mints : Chain(m) \/ Buyer(m) \/ Confirmer(m)
    \/ Tick \/ Monitor \/ Fallback \/ Seller

Spec == Init /\ [][Next]_vars

(* Every task the runtime has spawned keeps running, the clock advances,     *)
(* sends do not fail for ever and one of the sales sent again and again is   *)
(* included in a block.  Nothing is assumed of buy signals, of buys landing, *)
(* of account updates or of price updates.                                   *)
Fairness ==
    /\ WF_vars(Tick) /\ WF_vars(Fallback) /\ WF_vars(Seller) /\ SF_vars(SellerSends)
    /\ \A m \in Mints :
          /\ WF_vars(SendBuy(m) \/ SendBuyFails(m)) /\ WF_vars(AddPosition(m))
          /\ WF_vars(Confirmer(m))
          /\ SF_vars(LandSell(m))

FairSpec == Spec /\ Fairness

-----------------------------------------------------------------------------
(* Safety *)

(* handle_sell_signal marks a position Selling, where no other signal is      *)
(* acted on, and takes it out again whatever comes of the sale.  It leaves   *)
(* one behind for ever only by a partial sale that apply_partial_sell         *)
(* refuses: the executor went by the estimate of an unconfirmed position,    *)
(* which the confirmer has lowered below the amount of the sale since.  An   *)
(* Active position, which knows its amount, is never left behind.            *)
Executing(m) == seller.mint = m /\ seller.pc \in Selling

SellingReleased ==
    [][\A m \in Mints :
          pos'[m].state = "Selling" /\ ~ Executing(m)' =>
              /\ pos[m].state = "Selling"
              /\ Executing(m) => /\ seller.previous \in {"Submitted", "Confirming"}
                                /\ pos[m].tokens < seller.amount]_vars

(* cleanup_mint_if_unused never takes the account subscription away from a   *)
(* position that is, or may again become, open.                              *)
OpenIsTracked == \A m \in Mints : IsOpen(pos[m]) => m \in tracked

(* Whatever RPC answers, caches and stale clones the tasks act on, a         *)
(* position is never taken for a holding unless its buy landed.              *)
HeldOnlyIfBought ==
    \A m \in Mints : pos[m].state \in {"Active", "Selling", "Closed"} => bought[m] > 0

(* A closed position is never opened again, although the executor restores   *)
(* an earlier state without looking at the present one.                      *)
ClosedStaysClosed ==
    [][\A m \in Mints : pos[m].state = "Closed" => ~ IsOpen(pos'[m])]_vars

(* A position is closed only when the tokens it bought are gone.             *)
ClosedMeansSold == \A m \in Mints : pos[m].state = "Closed" => wallet[m] = 0

(* Tokens in the wallet belong to a position that will be sold.              *)
HeldTokensManaged ==
    \A m \in Mints : wallet[m] > 0 => IsOpen(pos[m]) \/ buyer[m] = "sent"

(* Where buys land and calls answer in time, every position follows the       *)
(* documented arrows.                                                        *)
Documented == INSTANCE Lifecycle WITH Keys <- Mints, state <- [m \in Mints |-> pos[m].state]
FollowsLifecycle == Documented!Spec

-----------------------------------------------------------------------------
(* Liveness, of FairSpec *)

(* The executor's attempts on a position come to an end.                     *)
SellAttemptEnds == \A m \in Mints : pos[m].state = "Selling" ~> pos[m].state # "Selling"

(* Bought tokens do not stay in the wallet.                                  *)
HeldTokensSold == \A m \in Mints : wallet[m] > 0 ~> wallet[m] = 0

(* A buy whose tokens the fallback monitor has seen becomes an active        *)
(* position (or has moved on by itself).                                     *)
FallbackConfirms ==
    \A m \in Mints :
        (fallback.pc = "read" /\ fallback.mint = m /\ fallback.seen
            /\ pos[m].state = "Confirming") ~> pos[m].state # "Confirming"

-----------------------------------------------------------------------------
(* Why the safety properties hold.  Each task acts on what it has read; what *)
(* it has read, even when stale, still proves that the buy landed.           *)

Holding == {"Active", "Selling", "Closed"}

BuyEvidence ==
    \A m \in Mints :
        /\ buyer[m] \in {"idle", "sending"} => buyTx[m] = "none"
        /\ buyTx[m] = "landed" <=> bought[m] > 0
        /\ wallet[m] > 0 \/ ata[m] > 0 => bought[m] > 0
        /\ confirmer[m].pc = "found" \/ confirmer[m].signature = "confirmed" => bought[m] > 0
        /\ pos[m].state \in Holding => bought[m] > 0

(* The subscription is made before the position, and outlives it. *)
SubscribedFirst ==
    \A m \in Mints :
        /\ Exists(pos[m]) => buyer[m] \in {"added", "hung"}
        /\ buyer[m] \in {"sending", "sent"} => m \in tracked
        /\ IsOpen(pos[m]) => m \in tracked

(* What the executor remembers of the position it is selling. *)
SellerEvidence ==
    /\ seller.pc \in {"size"} \cup Selling =>
          /\ buyer[seller.mint] \in {"added", "hung"}
          /\ seller.previous \in Holding => bought[seller.mint] > 0
          /\ seller.previous = "Closed" => ~ IsOpen(pos[seller.mint])
    /\ seller.pc \in Selling =>
          /\ bought[seller.mint] > 0
          /\ seller.mint \in tracked
          /\ pos[seller.mint].state # "Closed"
          /\ seller.previous # "Closed"

Evidence == BuyEvidence /\ SubscribedFirst /\ SellerEvidence

(* Where RPC calls do not fail, a cached balance may be stale but never too  *)
(* low, and a confirmed sale has left no more than it meant to leave.        *)
SaleEvidence ==
    /\ \A m \in Mints : ata[m] # Uncached => buyTx[m] = "landed" /\ wallet[m] <= ata[m]
    /\ seller.pc = "sold" => wallet[seller.mint] <= seller.left

=============================================================================
