--------------------------- MODULE AutoSellProofs ---------------------------
(***************************************************************************)
(* What TLAPS proves of AutoSell for every set of mints, every amount and  *)
(* every bound: first whatever the chain and the timeouts do, then where   *)
(* RPC calls answer in time and without errors and a buy lands early       *)
(* enough or not at all.  How early, each theorem says.                    *)
(***************************************************************************)
EXTENDS AutoSell, TLAPS

(* Every method of Position returns a position. *)
LEMMA PositionTypes ==
    ASSUME NEW p \in PositionRecord
    PROVE  /\ NoPosition \in PositionRecord
           /\ MarkFailed(p) \in PositionRecord
           /\ MarkSelling(p) \in PositionRecord
           /\ MarkClosed(p) \in PositionRecord
           /\ \A e \in Amounts :
                 /\ MarkConfirming(MarkSubmitted(NewPosition(e))) \in PositionRecord
                 /\ MarkActive(p, e) \in PositionRecord
                 /\ ApplyPartialSell(p, e) \in PositionRecord
           /\ \A s \in PositionState : RestoreAfterSellAttempt(p, s) \in PositionRecord
<1> USE AutoSellAssumption
    DEF PositionRecord, PositionState, LiveStates, TerminalStates, Amounts, Advance
<1>1. NoPosition \in PositionRecord
  BY DEF NoPosition
<1>2. MarkFailed(p) \in PositionRecord /\ MarkSelling(p) \in PositionRecord
      /\ MarkClosed(p) \in PositionRecord
  BY DEF MarkFailed, MarkSelling, MarkClosed, AcceptsSelling
<1>3. ASSUME NEW e \in Amounts
      PROVE  MarkConfirming(MarkSubmitted(NewPosition(e))) \in PositionRecord
  BY DEF MarkConfirming, MarkSubmitted, NewPosition
<1>4. ASSUME NEW e \in Amounts
      PROVE  MarkActive(p, e) \in PositionRecord /\ ApplyPartialSell(p, e) \in PositionRecord
  BY DEF MarkActive, ApplyPartialSell, Exists
<1>5. ASSUME NEW s \in PositionState
      PROVE  RestoreAfterSellAttempt(p, s) \in PositionRecord
  BY DEF RestoreAfterSellAttempt
<1>6. QED BY <1>1, <1>2, <1>3, <1>4, <1>5

(* What the tasks are set to is among their states. *)
LEMMA RestingTypes ==
    /\ \A pc \in {"idle", "poll", "landed", "failed", "hung"} :
          RestingConfirmer(pc) \in ConfirmerState
    /\ \A signature \in {"unseen", "confirmed"}, balance \in Amounts :
          /\ ConfirmerFound(balance) \in ConfirmerState
          /\ ConfirmerAt("polled", signature, 0) \in ConfirmerState
    /\ \A pc \in {"idle", "hung"} : RestingSeller(pc) \in SellerState
BY AutoSellAssumption
DEF RestingConfirmer, ConfirmerAt, ConfirmerFound, ConfirmerState, Polling, RestingSeller, SellerState, SellerRecord, Amounts,
    PositionState, TerminalStates

LEMMA TypeInit == Init => TypeOK
BY AutoSellAssumption
DEF Init, TypeOK, PositionRecord, NoPosition, Amounts, PositionState, LiveStates,
    TerminalStates, BuyerState, ConfirmerState, Polling, FallbackState, MonitorState, SellerState,
    IdleSeller, IdleFallback, IdleMonitor, RestingConfirmer, ConfirmerAt, RestingSeller,
    SellerRecord, Selling, Uncached

LEMMA ChainTypes == ASSUME TypeOK, NEW m \in Mints, Chain(m) PROVE TypeOK'
<1> USE AutoSellAssumption DEF Amounts
<1>1. CASE LandBuy(m)
  <2>1. bought' \in [Mints -> Amounts] /\ wallet' \in [Mints -> Amounts]
    BY <1>1 DEF LandBuy, TypeOK
  <2>2. buyTx' \in [Mints -> {"none", "inflight", "landed", "failed"}]
    BY <1>1 DEF LandBuy, TypeOK
  <2>3. QED BY <1>1, <2>1, <2>2 DEF LandBuy, TypeOK, tasks, cache
<1>2. CASE FailBuy(m)
  BY <1>2 DEF FailBuy, TypeOK, tasks, cache
<1>3. CASE LandSell(m)
  <2>1. PICK a \in sellTxs[m] : LandSell(m)!(a)
    BY <1>3 DEF LandSell
  <2>2. wallet' \in [Mints -> Amounts]
    BY <2>1 DEF TypeOK
  <2>3. sellTxs' \in [Mints -> SUBSET Amounts]
    BY <2>1 DEF TypeOK
  <2>4. QED BY <2>1, <2>2, <2>3 DEF TypeOK, tasks, cache
<1>4. CASE ExpireSell(m)
  BY <1>4 DEF ExpireSell, TypeOK, tasks, cache
<1>5. CASE AtaUpdate(m)
  BY <1>5 DEF AtaUpdate, TypeOK, tasks, chain
<1>6. QED BY <1>1, <1>2, <1>3, <1>4, <1>5 DEF Chain

LEMMA TickTypes == TypeOK /\ Tick => TypeOK'
<1> SUFFICES ASSUME TypeOK, Tick PROVE TypeOK'
  OBVIOUS
<1>1. age' \in [Mints -> 0 .. MaxAge]
  BY AutoSellAssumption DEF Tick, TypeOK
<1>2. confirmer' \in [Mints -> ConfirmerState]
  <2>1. ASSUME NEW m \in Mints
        PROVE [confirmer[m] EXCEPT !.pc = IF @ = "polled" THEN "poll" ELSE @] \in ConfirmerState
    BY <2>1, Zenon DEF TypeOK, ConfirmerState, Polling
  <2>2. QED BY <2>1, Zenon DEF Tick
<1>3. QED BY <1>1, <1>2 DEF Tick, TypeOK, cache, chain

LEMMA BuyerTypes == ASSUME TypeOK, NEW m \in Mints, Buyer(m) PROVE TypeOK'
<1>1. CASE BuySignal(m)
  BY <1>1 DEF BuySignal, TypeOK, BuyerState, chain
<1>2. CASE SendBuy(m)
  BY <1>2 DEF SendBuy, TypeOK, BuyerState, cache
<1>3. CASE SendBuyFails(m)
  BY <1>3 DEF SendBuyFails, TypeOK, BuyerState, cache
<1>4. CASE AddPosition(m)
  <2>1. pos' \in [Mints -> PositionRecord]
    BY <1>4, PositionTypes DEF AddPosition, TypeOK
  <2>2. buyer' \in [Mints -> BuyerState]
    BY <1>4 DEF AddPosition, TypeOK, BuyerState, AfterSave
  <2>3. confirmer' \in [Mints -> ConfirmerState]
    BY <1>4, RestingTypes DEF AddPosition, TypeOK
  <2>4. QED BY <1>4, <2>1, <2>2, <2>3 DEF AddPosition, TypeOK, cache, chain
<1>5. QED BY <1>1, <1>2, <1>3, <1>4 DEF Buyer

LEMMA ConfirmerTypes == ASSUME TypeOK, NEW m \in Mints, Confirmer(m) PROVE TypeOK'
<1> USE DEF TypeOK
<1>1. CASE ConfirmerSeesCache(m)
  <2>1. ata[m] \in Amounts
    BY <1>1 DEF ConfirmerSeesCache, Uncached
  <2>2. confirmer' \in [Mints -> ConfirmerState]
    BY <1>1, <2>1, RestingTypes DEF ConfirmerSeesCache
  <2>3. QED BY <1>1, <2>2 DEF ConfirmerSeesCache, cache, chain
<1>2. CASE ConfirmerPolls(m)
  <2>1. PICK balance \in RpcBalance(m), status \in SignatureStatus(m) :
           confirmer' = [confirmer EXCEPT ![m] =
              IF balance > 0 THEN ConfirmerFound(balance)
              ELSE ConfirmerAt("polled", IF @.signature = "unseen" THEN status ELSE @.signature, 0)]
    BY <1>2 DEF ConfirmerPolls
  <2>2. balance \in Amounts /\ status \in {"unseen", "confirmed"}
    BY AutoSellAssumption DEF RpcBalance, Amounts, SignatureStatus, Status
  <2>3. confirmer' \in [Mints -> ConfirmerState]
    <3>1. confirmer[m].signature \in {"unseen", "confirmed"}
      BY DEF ConfirmerState
    <3>2. QED BY <2>1, <2>2, <3>1, RestingTypes
  <2>4. QED BY <1>2, <2>3 DEF ConfirmerPolls, cache, chain
<1>3. ASSUME FailConfirmation(m) PROVE TypeOK'
  <2>1. pos' \in [Mints -> PositionRecord]
    BY <1>3, PositionTypes DEF FailConfirmation
  <2>2. confirmer' \in [Mints -> ConfirmerState]
    <3>1. AfterSave("failed") \in {"landed", "failed", "hung"}
      BY DEF AfterSave
    <3>2. QED BY <1>3, <3>1, RestingTypes DEF FailConfirmation
  <2>3. QED BY <1>3, <2>1, <2>2 DEF FailConfirmation, cache, chain
<1>4. CASE ConfirmerSeesFailure(m) \/ ConfirmerGivesUp(m)
  BY <1>3, <1>4 DEF ConfirmerSeesFailure, ConfirmerGivesUp
<1>5. CASE ConfirmerReadsTransaction(m)
  <2>1. confirmer' \in [Mints -> ConfirmerState]
    BY <1>5, RestingTypes DEF ConfirmerReadsTransaction
  <2>2. QED BY <1>5, <2>1 DEF ConfirmerReadsTransaction, cache, chain
<1>6. CASE ConfirmSuccess(m)
  <2>1. confirmer[m].balance \in Amounts
    BY DEF ConfirmerState, Polling
  <2>2. pos' \in [Mints -> PositionRecord]
    BY <1>6, <2>1, PositionTypes DEF ConfirmSuccess
  <2>3. confirmer' \in [Mints -> ConfirmerState]
    BY <1>6, RestingTypes DEF ConfirmSuccess
  <2>4. QED BY <1>6, <2>2, <2>3 DEF ConfirmSuccess, cache, chain
<1>7. QED BY <1>1, <1>2, <1>4, <1>5, <1>6 DEF Confirmer

LEMMA MonitorTypes == TypeOK /\ Monitor => TypeOK'
<1> SUFFICES ASSUME TypeOK, Monitor PROVE TypeOK'
  OBVIOUS
<1> USE DEF TypeOK, MonitorState
<1>1. ASSUME NEW m \in Mints, MonitorChecks(m) PROVE TypeOK'
  BY <1>1 DEF MonitorChecks, cache, chain
<1>2. CASE MonitorEmits
  <2>1. monitor.mint \in Mints
    BY <1>2 DEF MonitorEmits
  <2>2. signals' \in Seq(Mints)
    BY <1>2, <2>1 DEF MonitorEmits, Emit
  <2>3. QED BY <1>2, <2>2 DEF MonitorEmits, IdleMonitor, cache, chain
<1>3. CASE MonitorPanics
  BY <1>3 DEF MonitorPanics, cache, chain
<1>4. QED BY <1>1, <1>2, <1>3 DEF Monitor

LEMMA FallbackTypes == TypeOK /\ Fallback => TypeOK'
<1> SUFFICES ASSUME TypeOK, Fallback PROVE TypeOK'
  OBVIOUS
<1> USE DEF TypeOK
<1>1. CASE FallbackWakes
  <2>1. fallback' \in FallbackState
    BY <1>1 DEF FallbackWakes, FallbackState
  <2>2. QED BY <1>1, <2>1 DEF FallbackWakes, cache, chain
<1>2. ASSUME NEW m \in Mints, FallbackChecksBuy(m) PROVE TypeOK'
  <2>1. fallback' \in FallbackState
    BY <1>2 DEF FallbackChecksBuy, FallbackState
  <2>2. QED BY <1>2, <2>1 DEF FallbackChecksBuy, cache, chain
<1>3. ASSUME NEW m \in Mints, FallbackEmits(m) PROVE TypeOK'
  <2>1. fallback' \in FallbackState
    BY <1>3 DEF FallbackEmits, FallbackState
  <2>2. signals' \in Seq(Mints)
    BY <1>3 DEF FallbackEmits, Emit
  <2>3. QED BY <1>3, <2>1, <2>2 DEF FallbackEmits, cache, chain
<1>4. ASSUME NEW m \in Mints, FallbackSkips(m) PROVE TypeOK'
  <2>1. fallback' \in FallbackState
    BY <1>4 DEF FallbackSkips, FallbackState
  <2>2. QED BY <1>4, <2>1 DEF FallbackSkips, cache, chain
<1>5. CASE FallbackReadsBalance
  <2>1. fallback' \in FallbackState
    <3>1. fallback.mint \in Mints /\ fallback.todo \in SUBSET Mints
      BY <1>5 DEF FallbackReadsBalance, FallbackState
    <3>2. PICK balance : fallback' = [fallback EXCEPT !.pc = "read", !.seen = balance > 0]
      BY <1>5 DEF FallbackReadsBalance
    <3>3. fallback' = [pc |-> "read", mint |-> fallback.mint, todo |-> fallback.todo,
                       seen |-> balance > 0]
      BY <3>2 DEF FallbackState
    <3>4. QED BY <3>1, <3>3 DEF FallbackState
  <2>2. QED BY <1>5, <2>1 DEF FallbackReadsBalance, cache, chain
<1>6. CASE FallbackFailsBuy
  <2>1. fallback' \in FallbackState
    <3>1. fallback.todo \in SUBSET Mints /\ fallback.seen \in BOOLEAN
      BY DEF FallbackState
    <3>2. fallback' = [pc |-> "scan", mint |-> NoMint, todo |-> fallback.todo,
                       seen |-> fallback.seen]
      BY <1>6 DEF FallbackFailsBuy, FallbackState
    <3>3. QED BY <3>1, <3>2 DEF FallbackState
  <2>2. fallback.mint \in Mints
    BY <1>6 DEF FallbackFailsBuy, FallbackState
  <2>3. pos' \in [Mints -> PositionRecord]
    BY <1>6, <2>2, PositionTypes DEF FallbackFailsBuy
  <2>4. QED BY <1>6, <2>1, <2>3 DEF FallbackFailsBuy, cache, chain
<1>7. CASE FallbackConfirmsBuy
  <2>1. fallback' \in FallbackState
    BY <1>7 DEF FallbackConfirmsBuy, FallbackState
  <2>2. wedged' \in Mints \cup {NoMint}
    BY <1>7 DEF FallbackConfirmsBuy, FallbackState
  <2>3. QED BY <1>7, <2>1, <2>2 DEF FallbackConfirmsBuy, cache, chain
<1>8. CASE FallbackSweeps
  <2>1. fallback' \in FallbackState
    BY <1>8 DEF FallbackSweeps, FallbackState, IdleFallback
  <2>2. NoPosition \in PositionRecord
    BY AutoSellAssumption DEF NoPosition, PositionRecord, Amounts
  <2>3. pos' \in [Mints -> PositionRecord]
    BY <1>8, <2>2 DEF FallbackSweeps
  <2>4. QED BY <1>8, <2>1, <2>3 DEF FallbackSweeps, cache, chain
<1>9. QED BY <1>1, <1>2, <1>3, <1>4, <1>5, <1>6, <1>7, <1>8 DEF Fallback

LEMMA SellerTypes == TypeOK /\ Seller => TypeOK'
<1> SUFFICES ASSUME TypeOK, Seller PROVE TypeOK'
  OBVIOUS
<1> USE AutoSellAssumption DEF TypeOK
<1>1. CASE SellerTakes
  <2> DEFINE m == Head(signals)
  <2>1. m \in Mints /\ signals' \in Seq(Mints)
    BY <1>1 DEF SellerTakes
  <2>2. pos[m] \in PositionRecord
    BY <2>1
  <2>3. CASE Exists(pos[m])
    <3>1. pos[m].state \in PositionState /\ pos[m].tokens \in Amounts
      BY <2>2, <2>3 DEF PositionRecord, Exists
    <3>2. seller' \in SellerState
      BY <1>1, <2>1, <2>3, <3>1 DEF SellerTakes, SellerState, SellerRecord, Amounts
    <3>3. QED BY <1>1, <2>1, <3>2 DEF SellerTakes, cache, chain
  <2>4. CASE ~ Exists(pos[m])
    <3>1. seller' \in SellerState
      BY <1>1, <2>4, RestingTypes DEF SellerTakes, IdleSeller
    <3>2. QED BY <1>1, <2>1, <3>1 DEF SellerTakes, cache, chain
  <2>5. QED BY <2>3, <2>4
<1>2. CASE SellerSizes
  <2> DEFINE m == seller.mint
  <2>1. m \in Mints /\ seller \in SellerRecord({"size"}, Mints)
    BY <1>2 DEF SellerSizes, SellerState, SellerRecord, Selling
  <2>2. PICK balance \in SellerBalance(m) :
          LET amount == SaleSize(seller.amount, balance) IN
          IF amount > 0 /\ AcceptsSelling(pos[m])
          THEN /\ pos' = [pos EXCEPT ![m] = MarkSelling(@)]
               /\ seller' = [seller EXCEPT !.pc = "send", !.amount = amount,
                                           !.left = balance - amount]
          ELSE seller' = IdleSeller /\ UNCHANGED pos
    BY <1>2 DEF SellerSizes
  <2>3. balance \in Amounts
    BY SMTT(60), <2>1, <2>2 DEF SellerBalance, RpcBalance, Amounts
  <2> DEFINE amount == SaleSize(seller.amount, balance)
  <2>4. amount \in Amounts /\ balance - amount \in Amounts
    BY <2>1, <2>3 DEF SaleSize, SellerRecord, Amounts
  <2> HIDE DEF amount
  <2>5. pos' \in [Mints -> PositionRecord]
    <3>1. MarkSelling(pos[m]) \in PositionRecord
      BY <2>1, PositionTypes
    <3>2. pos' = pos \/ pos' = [pos EXCEPT ![m] = MarkSelling(pos[m])]
      BY <2>2 DEF amount
    <3>3. QED BY <3>1, <3>2
  <2>6. seller' \in SellerState
    <3>1. CASE seller' = IdleSeller
      BY <3>1, RestingTypes DEF IdleSeller
    <3>2. CASE seller' = [seller EXCEPT !.pc = "send", !.amount = amount,
                                        !.left = balance - amount]
      <4>1. seller' \in SellerRecord({"send"}, Mints)
        BY <2>1, <2>4, <3>2 DEF SellerRecord
      <4>2. QED BY <4>1 DEF SellerState, SellerRecord, Selling
    <3>3. QED BY <2>2, <3>1, <3>2 DEF amount
  <2>7. QED BY <1>2, <2>5, <2>6 DEF SellerSizes, cache, chain
<1>3. CASE SellerSends
  <2>1. seller \in SellerRecord({"send"}, Mints)
    BY <1>3 DEF SellerSends, SellerState, SellerRecord
  <2>2. seller' \in SellerState
    <3>1. seller.tries + 1 \in 0 .. MaxSellRetries
      BY <1>3, <2>1 DEF SellerSends, SellerRecord
    <3>2. seller' = [seller EXCEPT !.pc = "wait", !.tries = seller.tries + 1]
      BY <1>3 DEF SellerSends
    <3>3. seller' \in SellerRecord({"wait"}, Mints)
      BY <2>1, <3>1, <3>2 DEF SellerRecord
    <3>4. QED BY <3>3 DEF SellerState, SellerRecord, Selling
  <2>3. sellTxs' \in [Mints -> SUBSET Amounts]
    BY <1>3, <2>1 DEF SellerSends, SellerRecord
  <2>4. QED BY <1>3, <2>2, <2>3 DEF SellerSends, cache
<1>4. CASE SellerCannotSend
  <2>1. seller' \in SellerState
    <3>1. seller \in SellerRecord({"send"}, Mints)
      BY <1>4 DEF SellerCannotSend, SellerState, SellerRecord
    <3>2. seller.tries + 1 \in 0 .. MaxSellRetries
      BY <1>4, <3>1 DEF SellerCannotSend, SellerRecord
    <3>3. seller' = [seller EXCEPT !.tries = seller.tries + 1]
      BY <1>4 DEF SellerCannotSend
    <3>4. seller' \in SellerRecord({"send"}, Mints)
      BY <3>1, <3>2, <3>3 DEF SellerRecord
    <3>5. QED BY <3>4 DEF SellerState, SellerRecord, Selling
  <2>2. QED BY <1>4, <2>1 DEF SellerCannotSend, cache, chain
<1>5. CASE SellerConfirms
  <2>1. seller' \in SellerState
    BY <1>5 DEF SellerConfirms, SellerState, SellerRecord, Selling
  <2>2. QED BY <1>5, <2>1 DEF SellerConfirms, cache, chain
<1>6. CASE SellerTimesOut
  <2>1. seller' \in SellerState
    BY <1>6 DEF SellerTimesOut, SellerState, SellerRecord, Selling
  <2>2. QED BY <1>6, <2>1 DEF SellerTimesOut, cache, chain
<1>7. CASE SellerExhausted
  <2>1. seller' \in SellerState
    BY <1>7 DEF SellerExhausted, SellerState, SellerRecord, Selling
  <2>2. QED BY <1>7, <2>1 DEF SellerExhausted, cache, chain
<1>8. CASE SellerSucceeds
  <2>1. seller.mint \in Mints /\ seller.amount \in Amounts
    BY <1>8 DEF SellerSucceeds, SellerState, SellerRecord
  <2>2. pos' \in [Mints -> PositionRecord]
    BY <1>8, <2>1, PositionTypes DEF SellerSucceeds, AfterSale
  <2>3. seller' \in SellerState
    BY <1>8, RestingTypes DEF SellerSucceeds, AfterSave
  <2>4. ata' \in [Mints -> Amounts \cup {Uncached}] /\ tracked' \in SUBSET Mints
    BY <1>8 DEF SellerSucceeds, Cleanup, cache
  <2>5. QED BY <1>8, <2>2, <2>3, <2>4 DEF SellerSucceeds, chain
<1>9. CASE SellerFails
  <2>1. seller.mint \in Mints /\ seller.previous \in PositionState
    BY <1>9 DEF SellerFails, SellerState, SellerRecord
  <2>2. pos' \in [Mints -> PositionRecord]
    BY <1>9, <2>1, PositionTypes DEF SellerFails
  <2>3. seller' \in SellerState
    BY <1>9, RestingTypes DEF SellerFails, AfterSave
  <2>4. QED BY <1>9, <2>2, <2>3 DEF SellerFails, cache, chain
<1>10. QED BY <1>1, <1>2, <1>3, <1>4, <1>5, <1>6, <1>7, <1>8, <1>9 DEF Seller

LEMMA TypeStep == TypeOK /\ [Next]_vars => TypeOK'
<1>1. TypeOK /\ UNCHANGED vars => TypeOK'
  BY DEF TypeOK, vars, tasks, cache, chain
<1>2. QED BY <1>1, ChainTypes, BuyerTypes, ConfirmerTypes, TickTypes, MonitorTypes,
             FallbackTypes, SellerTypes DEF Next

(* Every position, every task and every amount is what its declaration says, *)
(* for any mints, bounds and order of the timeouts: no subtraction of the    *)
(* executor underflows.                                                      *)
THEOREM TypeCorrect == Spec => []TypeOK
BY TypeInit, TypeStep, PTL DEF Spec

-----------------------------------------------------------------------------
(* The evidence each task goes by.  The three parts of Evidence are preserved *)
(* together: the executor's needs the table's and the table's needs it.      *)

(* The state each method of Position leads to *)
LEMMA PositionStates ==
    ASSUME NEW p \in PositionRecord
    PROVE  /\ NoPosition.state = "none"
           /\ MarkFailed(p).state = IF p.state = "none" THEN "none" ELSE "Failed"
           /\ MarkSelling(p).state = IF AcceptsSelling(p) THEN "Selling" ELSE p.state
           /\ MarkClosed(p).state = IF p.state = "Selling" THEN "Closed" ELSE p.state
           /\ \A e \in Amounts :
                 /\ MarkConfirming(MarkSubmitted(NewPosition(e))).state = "Confirming"
                 /\ MarkActive(p, e).state = IF p.state \in {"Confirming", "Submitted"}
                                             THEN "Active" ELSE p.state
                 /\ ApplyPartialSell(p, e).state \in
                       {p.state} \cup (IF p.state = "none" THEN {} ELSE {"Active"})
           /\ \A s \in PositionState :
                 RestoreAfterSellAttempt(p, s).state = IF p.state = "none" THEN "none" ELSE s
<1> USE DEF PositionRecord, PositionState, LiveStates, TerminalStates, Advance
<1>1. NoPosition.state = "none"
  BY DEF NoPosition
<1>2. MarkFailed(p).state = IF p.state = "none" THEN "none" ELSE "Failed"
  BY DEF MarkFailed
<1>3. MarkSelling(p).state = IF AcceptsSelling(p) THEN "Selling" ELSE p.state
  BY DEF MarkSelling
<1>4. MarkClosed(p).state = IF p.state = "Selling" THEN "Closed" ELSE p.state
  BY DEF MarkClosed
<1>5. ASSUME NEW e \in Amounts
      PROVE  /\ MarkConfirming(MarkSubmitted(NewPosition(e))).state = "Confirming"
             /\ MarkActive(p, e).state = IF p.state \in {"Confirming", "Submitted"}
                                         THEN "Active" ELSE p.state
  BY DEF MarkConfirming, MarkSubmitted, NewPosition, MarkActive
<1>6. ASSUME NEW e \in Amounts
      PROVE  ApplyPartialSell(p, e).state \in
                 {p.state} \cup (IF p.state = "none" THEN {} ELSE {"Active"})
  BY DEF ApplyPartialSell, Exists
<1>7. ASSUME NEW s \in PositionState
      PROVE  RestoreAfterSellAttempt(p, s).state = IF p.state = "none" THEN "none" ELSE s
  BY DEF RestoreAfterSellAttempt
<1>8. QED BY <1>1, <1>2, <1>3, <1>4, <1>5, <1>6, <1>7

LEMMA EvidenceInit == Init => Evidence
BY AutoSellAssumption
DEF Init, Evidence, BuyEvidence, SubscribedFirst, SellerEvidence, NoPosition, Exists, IsOpen,
    Holding, LiveStates, IdleSeller, RestingSeller, RestingConfirmer, ConfirmerAt, Selling, Uncached

LEMMA ChainEvidence == ASSUME TypeOK, Evidence, NEW m \in Mints, Chain(m) PROVE Evidence'
<1> USE AutoSellAssumption
    DEF Amounts, Evidence, BuyEvidence, SubscribedFirst, SellerEvidence, TypeOK, tasks, cache,
        chain
<1>1. CASE LandBuy(m)
  BY SMTT(60), <1>1 DEF LandBuy
<1>2. CASE FailBuy(m)
  BY <1>2 DEF FailBuy
<1>3. CASE LandSell(m)
  <2>1. PICK a \in sellTxs[m] : LandSell(m)!(a)
    BY <1>3 DEF LandSell
  <2>2. QED BY <2>1
<1>4. CASE ExpireSell(m)
  BY <1>4 DEF ExpireSell
<1>5. CASE AtaUpdate(m)
  BY <1>5 DEF AtaUpdate
<1>6. QED BY <1>1, <1>2, <1>3, <1>4, <1>5 DEF Chain

LEMMA SellerAtWork ==
    TypeOK /\ seller.pc \in {"size"} \cup Selling =>
        /\ seller.mint \in Mints
        /\ seller.previous \in PositionState
        /\ seller.amount \in Amounts /\ seller.left \in Amounts
BY DEF TypeOK, SellerState, SellerRecord, Selling

LEMMA TickEvidence == TypeOK /\ Evidence /\ Tick => Evidence'
<1> SUFFICES ASSUME TypeOK, Evidence, Tick PROVE Evidence'
  OBVIOUS
<1>1. \A m \in Mints : /\ confirmer'[m].pc = "found" => confirmer[m].pc = "found"
                       /\ confirmer'[m].signature = confirmer[m].signature
  BY DEF Tick, TypeOK, ConfirmerState, Polling
<1>2. BuyEvidence'
  BY <1>1 DEF Tick, Evidence, BuyEvidence, cache, chain
<1>3. SubscribedFirst' /\ SellerEvidence'
  BY DEF Tick, Evidence, SubscribedFirst, SellerEvidence, cache, chain
<1>4. QED BY <1>2, <1>3 DEF Evidence

LEMMA BuyerEvidence == ASSUME TypeOK, Evidence, NEW m \in Mints, Buyer(m) PROVE Evidence'
<1> USE SellerAtWork
    DEF Evidence, TypeOK, tasks, cache, chain, BuyerState
<1>1. CASE BuySignal(m)
  <2>1. BuyEvidence'
    BY <1>1 DEF BuySignal, BuyEvidence
  <2>2. SubscribedFirst'
    BY <1>1 DEF BuySignal, SubscribedFirst
  <2>3. SellerEvidence'
    BY <1>1 DEF BuySignal, SellerEvidence
  <2>4. QED BY <2>1, <2>2, <2>3
<1>2. CASE SendBuy(m)
  <2>1. BuyEvidence'
    BY <1>2 DEF SendBuy, BuyEvidence
  <2>2. SubscribedFirst'
    BY <1>2 DEF SendBuy, SubscribedFirst
  <2>3. SellerEvidence'
    BY <1>2 DEF SendBuy, SellerEvidence
  <2>4. QED BY <2>1, <2>2, <2>3
<1>3. CASE SendBuyFails(m)
  <2>1. BuyEvidence'
    BY <1>3 DEF SendBuyFails, BuyEvidence
  <2>2. SubscribedFirst'
    BY <1>3 DEF SendBuyFails, SubscribedFirst
  <2>3. SellerEvidence'
    BY <1>3 DEF SendBuyFails, SellerEvidence
  <2>4. QED BY <2>1, <2>2, <2>3
<1>4. CASE AddPosition(m)
  <2>1. PICK e \in Amounts :
           pos' = [pos EXCEPT ![m] = MarkConfirming(MarkSubmitted(NewPosition(e)))]
    BY <1>4 DEF AddPosition
  <2>2. MarkConfirming(MarkSubmitted(NewPosition(e))).state = "Confirming"
    BY PositionStates
  <2>3. pos'[m].state = "Confirming" /\ \A n \in Mints \ {m} : pos'[n] = pos[n]
    BY <2>1, <2>2
  <2>4. \A n \in Mints : confirmer'[n] = confirmer[n] \/ confirmer'[n] = RestingConfirmer("poll")
    BY <1>4 DEF AddPosition
  <2>5. BuyEvidence'
    BY <1>4, <2>3, <2>4
    DEF AddPosition, AfterSave, RestingConfirmer, ConfirmerAt, Holding, BuyEvidence
  <2>6. SubscribedFirst'
    BY <1>4, <2>3 DEF AddPosition, AfterSave, SubscribedFirst
  <2>7. SellerEvidence'
    BY <1>4, <2>3 DEF AddPosition, SellerEvidence
  <2>8. QED BY <2>5, <2>6, <2>7
<1>5. QED BY <1>1, <1>2, <1>3, <1>4 DEF Buyer

LEMMA ConfirmerEvidence ==
    ASSUME TypeOK, Evidence, NEW m \in Mints, Confirmer(m) PROVE Evidence'
<1> USE SellerAtWork DEF Evidence, TypeOK, tasks, cache, chain
<1>1. CASE ConfirmerSeesCache(m)
  <2>1. \A n \in Mints : confirmer'[n] = confirmer[n] \/ bought[n] > 0
    BY <1>1 DEF ConfirmerSeesCache, BuyEvidence
  <2>2. BuyEvidence'
    BY <1>1, <2>1 DEF ConfirmerSeesCache, BuyEvidence
  <2>3. SubscribedFirst' /\ SellerEvidence'
    BY <1>1 DEF ConfirmerSeesCache, SubscribedFirst, SellerEvidence
  <2>4. QED BY <2>2, <2>3
<1>2. CASE ConfirmerPolls(m)
  <2>1. PICK balance \in RpcBalance(m), status \in SignatureStatus(m) :
           confirmer' = [confirmer EXCEPT ![m] =
              IF balance > 0 THEN ConfirmerFound(balance)
              ELSE ConfirmerAt("polled", IF @.signature = "unseen" THEN status ELSE @.signature, 0)]
    BY <1>2 DEF ConfirmerPolls
  <2>2. balance > 0 \/ status = "confirmed" => bought[m] > 0
    BY DEF RpcBalance, SignatureStatus, Status, BuyEvidence
  <2>3. confirmer'[m].pc = "found" \/ confirmer'[m].signature = "confirmed" => bought[m] > 0
    <3>1. CASE balance > 0
      BY <2>2, <3>1
    <3>2. CASE ~ balance > 0
      BY <2>1, <2>2, <3>2 DEF ConfirmerState, ConfirmerAt, BuyEvidence
    <3>3. QED BY <3>1, <3>2
  <2>4. \A n \in Mints \ {m} : confirmer'[n] = confirmer[n]
    BY <2>1
  <2>5. BuyEvidence'
    BY <1>2, <2>3, <2>4 DEF ConfirmerPolls, BuyEvidence
  <2>6. SubscribedFirst' /\ SellerEvidence'
    BY <1>2 DEF ConfirmerPolls, SubscribedFirst, SellerEvidence
  <2>7. QED BY <2>5, <2>6
<1>3. ASSUME FailConfirmation(m) PROVE Evidence'
  <2>1. /\ pos'[m].state = IF pos[m].state = "none" THEN "none" ELSE "Failed"
        /\ \A n \in Mints \ {m} : pos'[n] = pos[n]
    BY <1>3, PositionStates DEF FailConfirmation
  <2>2. \A n \in Mints :
          confirmer'[n] = confirmer[n]
            \/ (confirmer'[n].pc # "found" /\ confirmer'[n].signature = "unseen")
    BY <1>3 DEF FailConfirmation, RestingConfirmer, ConfirmerAt, AfterSave
  <2>3. BuyEvidence'
    BY <1>3, <2>1, <2>2 DEF FailConfirmation, BuyEvidence, Holding
  <2>4. SubscribedFirst'
    BY <1>3, <2>1 DEF FailConfirmation, SubscribedFirst, Exists, IsOpen, LiveStates
  <2>5. SellerEvidence'
    BY <1>3, <2>1 DEF FailConfirmation, SellerEvidence, IsOpen, LiveStates
  <2>6. QED BY <2>3, <2>4, <2>5
<1>4. CASE ConfirmerSeesFailure(m) \/ ConfirmerGivesUp(m)
  BY <1>3, <1>4 DEF ConfirmerSeesFailure, ConfirmerGivesUp
<1>5. CASE ConfirmerReadsTransaction(m)
  <2>1. \A n \in Mints : confirmer'[n] = confirmer[n] \/ bought[n] > 0
    BY <1>5 DEF ConfirmerReadsTransaction, BuyEvidence
  <2>2. BuyEvidence'
    BY <1>5, <2>1 DEF ConfirmerReadsTransaction, BuyEvidence
  <2>3. SubscribedFirst' /\ SellerEvidence'
    BY <1>5 DEF ConfirmerReadsTransaction, SubscribedFirst, SellerEvidence
  <2>4. QED BY <2>2, <2>3
<1>6. CASE ConfirmSuccess(m)
  <2>1. confirmer[m].balance \in Amounts /\ bought[m] > 0
    BY <1>6 DEF ConfirmSuccess, ConfirmerState, Polling, BuyEvidence
  <2>2. /\ pos'[m].state = IF pos[m].state \in {"Confirming", "Submitted"}
                           THEN "Active" ELSE pos[m].state
        /\ \A n \in Mints \ {m} : pos'[n] = pos[n]
    BY <1>6, <2>1, PositionStates DEF ConfirmSuccess
  <2>3. \A n \in Mints :
          confirmer'[n] = confirmer[n]
            \/ (confirmer'[n].pc # "found" /\ confirmer'[n].signature = "unseen")
    BY <1>6 DEF ConfirmSuccess, RestingConfirmer, ConfirmerAt
  <2>4. BuyEvidence'
    BY <1>6, <2>1, <2>2, <2>3 DEF ConfirmSuccess, BuyEvidence, Holding
  <2>5. SubscribedFirst'
    BY <1>6, <2>2 DEF ConfirmSuccess, SubscribedFirst, Exists, IsOpen, LiveStates
  <2>6. SellerEvidence'
    BY <1>6, <2>2 DEF ConfirmSuccess, SellerEvidence, IsOpen, LiveStates
  <2>7. QED BY <2>4, <2>5, <2>6
<1>7. QED BY <1>1, <1>2, <1>4, <1>5, <1>6 DEF Confirmer

LEMMA MonitorEvidence == TypeOK /\ Evidence /\ Monitor => Evidence'
<1> SUFFICES ASSUME Evidence, Monitor
             PROVE  UNCHANGED <<pos, buyer, confirmer, seller, cache, chain>>
  BY DEF Evidence, BuyEvidence, SubscribedFirst, SellerEvidence, cache, chain
<1>1. QED BY DEF Monitor, MonitorChecks, MonitorEmits, MonitorPanics

LEMMA FallbackEvidence == TypeOK /\ Evidence /\ Fallback => Evidence'
<1> SUFFICES ASSUME TypeOK, Evidence, Fallback PROVE Evidence'
  OBVIOUS
<1>1. ASSUME UNCHANGED <<pos, buyer, confirmer, seller, cache, chain>> PROVE Evidence'
  BY <1>1 DEF Evidence, BuyEvidence, SubscribedFirst, SellerEvidence, cache, chain
(* A step of this task that writes the table takes a position out of it, or *)
(* fails it.                                                               *)
<1>2. ASSUME UNCHANGED <<buyer, confirmer, seller, cache, chain>>,
             \A m \in Mints : pos'[m] = pos[m] \/ pos'[m].state \in {"none", "Failed"},
             \A m \in Mints : pos[m].state = "none" => pos'[m].state = "none"
      PROVE  Evidence'
  <2>1. BuyEvidence'
    BY <1>2 DEF Evidence, BuyEvidence, Holding, cache, chain
  <2>2. SubscribedFirst'
    BY <1>2 DEF Evidence, SubscribedFirst, Exists, IsOpen, LiveStates, cache
  <2>3. SellerEvidence'
    BY <1>2, SellerAtWork DEF Evidence, SellerEvidence, IsOpen, LiveStates, cache, chain
  <2>4. QED BY <2>1, <2>2, <2>3 DEF Evidence
<1>3. CASE FallbackFailsBuy
  <2>1. fallback.mint \in Mints
    BY <1>3 DEF FallbackFailsBuy, TypeOK, FallbackState
  <2>2. \A m \in Mints : pos'[m] = pos[m] \/ pos'[m] = MarkFailed(pos[m])
    BY <1>3, <2>1 DEF FallbackFailsBuy, TypeOK
  <2>3. QED BY <1>2, <1>3, <2>2, PositionStates DEF FallbackFailsBuy, TypeOK
<1>4. CASE FallbackSweeps
  <2>1. \A m \in Mints : pos'[m] = pos[m] \/ pos'[m] = NoPosition
    BY <1>4 DEF FallbackSweeps
  <2>2. QED BY <1>2, <1>4, <2>1 DEF FallbackSweeps, NoPosition
<1>5. QED
  BY <1>1, <1>3, <1>4
  DEF Fallback, FallbackWakes, FallbackReadsBalance, FallbackConfirmsBuy, FallbackChecksBuy,
      FallbackEmits, FallbackSkips

LEMMA SellerStepEvidence == TypeOK /\ Evidence /\ Seller => Evidence'
<1> SUFFICES ASSUME TypeOK, Evidence, Seller PROVE Evidence'
  OBVIOUS
<1> USE AutoSellAssumption DEF TypeOK, Evidence, Selling, cache, chain
<1>1. CASE SellerTakes
  <2>1. BuyEvidence' /\ SubscribedFirst'
    BY <1>1 DEF SellerTakes, BuyEvidence, SubscribedFirst
  <2> DEFINE m == Head(signals)
  <2>2. CASE Exists(pos[m])
    <3>1. m \in Mints
      BY <1>1 DEF SellerTakes
    <3>2. seller'.pc = "size" /\ seller'.mint = m /\ seller'.previous = pos[m].state
      BY <1>1, <2>2 DEF SellerTakes
    <3>3. SellerEvidence'
      BY <1>1, <2>2, <3>1, <3>2
      DEF SellerTakes, SellerEvidence, BuyEvidence, SubscribedFirst, IsOpen, LiveStates
    <3>4. QED BY <2>1, <3>3
  <2>3. CASE ~ Exists(pos[m])
    BY <1>1, <2>1, <2>3 DEF SellerTakes, SellerEvidence, IdleSeller, RestingSeller
  <2>4. QED BY <2>2, <2>3
<1>2. CASE SellerSizes
  <2> DEFINE m == seller.mint
  <2>1. m \in Mints /\ seller.amount \in Amounts /\ seller.previous \in PositionState
    BY <1>2, SellerAtWork DEF SellerSizes
  <2>2. PICK balance \in SellerBalance(m) :
          LET amount == SaleSize(seller.amount, balance) IN
          IF amount > 0 /\ AcceptsSelling(pos[m])
          THEN /\ pos' = [pos EXCEPT ![m] = MarkSelling(@)]
               /\ seller' = [seller EXCEPT !.pc = "send", !.amount = amount,
                                           !.left = balance - amount]
          ELSE seller' = IdleSeller /\ UNCHANGED pos
    BY <1>2 DEF SellerSizes
  <2>3. CASE SaleSize(seller.amount, balance) > 0 /\ AcceptsSelling(pos[m])
    <3>1. balance \in Nat /\ (balance > 0 => bought[m] > 0)
      BY SMTT(60), <2>1, <2>2 DEF SellerBalance, RpcBalance, BuyEvidence, Amounts
    <3>2. bought[m] > 0
      BY <2>1, <2>3, <3>1 DEF SaleSize, Amounts
    <3>3. /\ pos'[m].state = "Selling"
          /\ \A n \in Mints \ {m} : pos'[n] = pos[n]
      BY <2>1, <2>2, <2>3, PositionStates
    <3>4. /\ seller'.mint = m /\ seller'.previous = seller.previous
          /\ seller'.pc = "send"
      BY <2>2, <2>3 DEF SellerState, SellerRecord
    <3>5. Exists(pos[m]) /\ IsOpen(pos[m])
      BY <2>3 DEF AcceptsSelling, Exists, IsOpen, LiveStates
    <3>6. BuyEvidence'
      BY <1>2, <3>2, <3>3 DEF SellerSizes, BuyEvidence
    <3>7. SubscribedFirst'
      BY <1>2, <2>1, <3>3, <3>5 DEF SellerSizes, SubscribedFirst
    <3>8. SellerEvidence'
      BY <1>2, <2>1, <3>2, <3>3, <3>4, <3>5 DEF SellerSizes, SellerEvidence, SubscribedFirst
    <3>9. QED BY <3>6, <3>7, <3>8
  <2>4. CASE ~ (SaleSize(seller.amount, balance) > 0 /\ AcceptsSelling(pos[m]))
    <3>1. seller' = IdleSeller /\ UNCHANGED pos
      BY <2>2, <2>4
    <3>2. QED
      BY <1>2, <3>1
      DEF SellerSizes, BuyEvidence, SubscribedFirst, SellerEvidence, IdleSeller, RestingSeller
  <2>5. QED BY <2>3, <2>4
(* A step of the transaction's own: the attempt goes on. *)
<1>3. ASSUME UNCHANGED <<pos, buyer, confirmer, cache, buyTx, bought, wallet>>,
             seller.pc \in Selling, seller'.mint = seller.mint,
             seller'.previous = seller.previous
      PROVE  Evidence'
  BY <1>3 DEF BuyEvidence, SubscribedFirst, SellerEvidence
<1>4. CASE SellerSends \/ SellerCannotSend \/ SellerConfirms \/ SellerTimesOut
           \/ SellerExhausted
  <2>1. seller.pc \in Selling /\ seller'.mint = seller.mint
        /\ seller'.previous = seller.previous
    BY <1>4
    DEF SellerSends, SellerCannotSend, SellerConfirms, SellerTimesOut, SellerExhausted,
        SellerState, SellerRecord
  <2>2. UNCHANGED <<pos, buyer, confirmer, cache, buyTx, bought, wallet>>
    BY <1>4
    DEF SellerSends, SellerCannotSend, SellerConfirms, SellerTimesOut, SellerExhausted
  <2>3. QED BY <1>3, <2>1, <2>2
<1>5. CASE SellerSucceeds
  <2> DEFINE m == seller.mint
  <2>1. /\ m \in Mints /\ bought[m] > 0 /\ m \in tracked
        /\ buyer[m] \in {"added", "hung"} /\ seller.amount \in Amounts
    BY <1>5, SellerAtWork DEF SellerSucceeds, SellerEvidence
  <2>2. /\ pos'[m].state = "none" <=> pos[m].state = "none"
        /\ \A n \in Mints \ {m} : pos'[n] = pos[n]
    BY <1>5, <2>1, PositionStates DEF SellerSucceeds, AfterSale
  <2>3. /\ \A n \in Mints \ {m} : ata'[n] = ata[n] /\ (n \in tracked' <=> n \in tracked)
        /\ IsOpen(pos'[m]) => m \in tracked'
    BY <1>5, <2>1 DEF SellerSucceeds, Cleanup
  <2>4. seller'.pc \in {"idle", "hung"}
    BY <1>5 DEF SellerSucceeds, RestingSeller, AfterSave
  <2>5. BuyEvidence'
    BY <1>5, <2>1, <2>2, <2>3 DEF SellerSucceeds, BuyEvidence
  <2>6. SubscribedFirst'
    BY <1>5, <2>1, <2>2, <2>3 DEF SellerSucceeds, SubscribedFirst, Exists
  <2>7. SellerEvidence'
    BY <2>4 DEF SellerEvidence
  <2>8. QED BY <2>5, <2>6, <2>7
<1>6. CASE SellerFails
  <2> DEFINE m == seller.mint
  <2>1. /\ m \in Mints /\ bought[m] > 0 /\ m \in tracked
        /\ buyer[m] \in {"added", "hung"} /\ seller.previous \in PositionState
    BY <1>6, SellerAtWork DEF SellerFails, SellerEvidence
  <2>2. \A n \in Mints \ {m} : pos'[n] = pos[n]
    BY <1>6, <2>1 DEF SellerFails
  <2>3. seller'.pc \in {"idle", "hung"}
    BY <1>6 DEF SellerFails, RestingSeller, AfterSave
  <2>4. BuyEvidence'
    BY <1>6, <2>1, <2>2 DEF SellerFails, BuyEvidence
  <2>5. SubscribedFirst'
    BY <1>6, <2>1, <2>2 DEF SellerFails, SubscribedFirst
  <2>6. SellerEvidence'
    BY <2>3 DEF SellerEvidence
  <2>7. QED BY <2>4, <2>5, <2>6
<1>7. QED BY <1>1, <1>2, <1>4, <1>5, <1>6 DEF Seller

LEMMA EvidenceStep == TypeOK /\ Evidence /\ [Next]_vars => Evidence'
<1>1. Evidence /\ UNCHANGED vars => Evidence'
  BY DEF Evidence, BuyEvidence, SubscribedFirst, SellerEvidence, vars, tasks, cache, chain
<1>2. QED BY <1>1, ChainEvidence, BuyerEvidence, ConfirmerEvidence, TickEvidence,
             MonitorEvidence, FallbackEvidence, SellerStepEvidence DEF Next

(* What every task goes by is evidence of a landed buy, however stale. *)
THEOREM EvidenceHolds == Spec => []Evidence
BY EvidenceInit, EvidenceStep, TypeCorrect, PTL DEF Spec

(* No position is held whose buy did not land, for every interleaving of the *)
(* tasks, every order of the timeouts and whatever RPC answers.              *)
THEOREM HeldOnlyIfBoughtHolds == Spec => []HeldOnlyIfBought
<1>1. Evidence => HeldOnlyIfBought
  BY DEF Evidence, BuyEvidence, HeldOnlyIfBought, Holding
<1>2. QED BY <1>1, EvidenceHolds, PTL

(* An open position never loses its account subscription.                    *)
THEOREM OpenIsTrackedHolds == Spec => []OpenIsTracked
<1>1. Evidence => OpenIsTracked
  BY DEF Evidence, SubscribedFirst, OpenIsTracked
<1>2. QED BY <1>1, EvidenceHolds, PTL

-----------------------------------------------------------------------------
(* Closed positions *)

LEMMA ClosedStep ==
    ASSUME TypeOK, Evidence, Next, NEW m \in Mints, pos[m].state = "Closed"
    PROVE  ~ IsOpen(pos'[m])
<1> USE DEF TypeOK, IsOpen, LiveStates
<1>1. CASE UNCHANGED pos
  BY <1>1
<1>2. ASSUME NEW n \in Mints, Chain(n) PROVE UNCHANGED pos
  BY <1>2 DEF Chain, LandBuy, FailBuy, LandSell, ExpireSell, AtaUpdate
<1>3. ASSUME NEW n \in Mints, Buyer(n) PROVE ~ IsOpen(pos'[m])
  <2>1. CASE AddPosition(n)
    <3>1. n # m
      BY <2>1 DEF AddPosition, Evidence, SubscribedFirst, Exists
    <3>2. QED BY <2>1, <3>1 DEF AddPosition
  <2>2. CASE ~ AddPosition(n)
    BY <1>3, <2>2 DEF Buyer, BuySignal, SendBuy, SendBuyFails
  <2>3. QED BY <2>1, <2>2
<1>4. ASSUME NEW n \in Mints, Confirmer(n) PROVE ~ IsOpen(pos'[m])
  <2>1. CASE FailConfirmation(n)
    BY <2>1, PositionStates DEF FailConfirmation
  <2>2. CASE ConfirmSuccess(n)
    <3>1. confirmer[n].balance \in Amounts
      BY DEF ConfirmerState
    <3>2. QED BY <2>2, <3>1, PositionStates DEF ConfirmSuccess
  <2>3. QED
    BY <1>1, <1>4, <2>1, <2>2
    DEF Confirmer, ConfirmerSeesCache, ConfirmerPolls, ConfirmerSeesFailure, ConfirmerGivesUp,
        ConfirmerReadsTransaction
<1>5. CASE Fallback
  <2>1. CASE FallbackFailsBuy
    BY <2>1, PositionStates DEF FallbackFailsBuy, FallbackState
  <2>2. CASE FallbackSweeps
    BY <2>2 DEF FallbackSweeps, NoPosition
  <2>3. QED
    BY <1>1, <1>5, <2>1, <2>2
    DEF Fallback, FallbackWakes, FallbackReadsBalance, FallbackConfirmsBuy, FallbackChecksBuy,
        FallbackEmits, FallbackSkips
<1>6. CASE Seller
  <2>1. CASE SellerSizes
    BY <2>1, PositionStates DEF SellerSizes, AcceptsSelling
  <2>2. CASE SellerSucceeds
    BY <2>2, SellerAtWork DEF SellerSucceeds, Evidence, SellerEvidence, Selling
  <2>3. CASE SellerFails
    BY <2>3, SellerAtWork DEF SellerFails, Evidence, SellerEvidence, Selling
  <2>4. QED
    BY <1>1, <1>6, <2>1, <2>2, <2>3
    DEF Seller, SellerTakes, SellerSends, SellerCannotSend, SellerConfirms, SellerTimesOut,
        SellerExhausted
<1>7. CASE Tick \/ Monitor
  BY <1>1, <1>7 DEF Tick, Monitor, MonitorChecks, MonitorEmits, MonitorPanics
<1>8. QED BY <1>1, <1>2, <1>3, <1>4, <1>5, <1>6, <1>7 DEF Next

(* No task opens a closed position again, although the confirmer and both    *)
(* paths of the executor write the table without reading it first.           *)
THEOREM ClosedStaysClosedHolds == Spec => ClosedStaysClosed
<1>1. TypeOK /\ Evidence /\ [Next]_vars
        => [\A m \in Mints : pos[m].state = "Closed" => ~ IsOpen(pos'[m])]_vars
  BY ClosedStep
<1>2. QED BY <1>1, TypeCorrect, EvidenceHolds, PTL DEF Spec, ClosedStaysClosed

(* What the executor's clone still tells when the sale is sized and when it  *)
(* is over: nothing but the confirmer, of an unconfirmed position, changes   *)
(* the amount of a position that may be sold.                                *)
Unconfirmed == {"Submitted", "Confirming"}   \* what the confirmer may confirm

CloneKept ==
    /\ seller.pc = "size" /\ AcceptsSelling(pos[seller.mint]) =>
          \/ seller.previous \in Unconfirmed
          \/ /\ seller.previous = "Active" /\ pos[seller.mint].state = "Active"
             /\ seller.amount = pos[seller.mint].tokens
    /\ seller.pc \in Selling =>
          /\ seller.previous \in Unconfirmed \cup {"Active"}
          /\ pos[seller.mint].state \in {"Selling", "Failed", "none"}
          /\ 0 < seller.amount
          /\ pos[seller.mint].state = "Selling" /\ seller.left > 0 /\ seller.previous = "Active"
                => seller.amount <= pos[seller.mint].tokens

(* What becomes of a position without the executor.                          *)
Fate(m) ==
    \/ pos'[m] = pos[m]
    \/ pos'[m].state \in {"Failed", "none"}
    \/ pos[m].state \in Unconfirmed /\ pos'[m].state = "Active"
    \/ ~ Exists(pos[m]) /\ buyer[m] = "sent" /\ pos'[m].state = "Confirming"

LEMMA WithoutExecutor ==
    ASSUME TypeOK, Evidence,
           \/ \E n \in Mints : Chain(n) \/ Buyer(n) \/ Confirmer(n)
           \/ Tick \/ Monitor \/ Fallback
    PROVE  UNCHANGED seller /\ \A m \in Mints : Fate(m)
<1> USE DEF TypeOK, Fate
<1>1. ASSUME NEW n \in Mints, Chain(n) PROVE UNCHANGED <<pos, seller>>
  BY <1>1 DEF Chain, LandBuy, FailBuy, LandSell, ExpireSell, AtaUpdate, tasks
<1>2. ASSUME NEW n \in Mints, AddPosition(n)
      PROVE  UNCHANGED seller /\ \A m \in Mints : Fate(m)
  <2>1. PICK estimate \in Amounts :
          pos' = [pos EXCEPT ![n] = MarkConfirming(MarkSubmitted(NewPosition(estimate)))]
    BY <1>2 DEF AddPosition
  <2>2. MarkConfirming(MarkSubmitted(NewPosition(estimate))).state = "Confirming"
    BY DEF MarkConfirming, MarkSubmitted, NewPosition, Advance
  <2>3. ~ Exists(pos[n]) /\ buyer[n] = "sent" /\ UNCHANGED seller
    BY <1>2 DEF AddPosition, Evidence, SubscribedFirst
  <2>4. QED BY <2>1, <2>2, <2>3
<1>3. ASSUME NEW n \in Mints, Buyer(n), ~ AddPosition(n) PROVE UNCHANGED <<pos, seller>>
  BY <1>3 DEF Buyer, BuySignal, SendBuy, SendBuyFails
<1>4. ASSUME NEW n \in Mints, FailConfirmation(n)
      PROVE  UNCHANGED seller /\ \A m \in Mints : Fate(m)
  <2>1. MarkFailed(pos[n]).state \in {"Failed", "none"}
    BY PositionStates
  <2>2. QED BY <1>4, <2>1 DEF FailConfirmation
<1>5. ASSUME NEW n \in Mints, ConfirmSuccess(n)
      PROVE  UNCHANGED seller /\ \A m \in Mints : Fate(m)
  <2>1. pos' = [pos EXCEPT ![n] = MarkActive(@, confirmer[n].balance)] /\ UNCHANGED seller
    BY <1>5 DEF ConfirmSuccess
  <2>2. \/ MarkActive(pos[n], confirmer[n].balance) = pos[n]
        \/ /\ pos[n].state \in Unconfirmed
           /\ MarkActive(pos[n], confirmer[n].balance).state = "Active"
    BY DEF MarkActive, Unconfirmed
  <2>3. QED BY <2>1, <2>2
<1>6. ASSUME NEW n \in Mints, Confirmer(n), ~ FailConfirmation(n), ~ ConfirmSuccess(n)
      PROVE  UNCHANGED <<pos, seller>>
  BY <1>6
  DEF Confirmer, ConfirmerSeesCache, ConfirmerPolls, ConfirmerSeesFailure, ConfirmerGivesUp,
      ConfirmerReadsTransaction
<1>7. CASE FallbackFailsBuy
  <2>1. fallback.mint \in Mints
    BY <1>7 DEF FallbackFailsBuy, FallbackState
  <2>2. MarkFailed(pos[fallback.mint]).state \in {"Failed", "none"}
    BY <2>1, PositionStates
  <2>3. QED BY <1>7, <2>1, <2>2 DEF FallbackFailsBuy
<1>8. CASE FallbackSweeps
  BY <1>8 DEF FallbackSweeps, NoPosition
<1>9. CASE Fallback /\ ~ FallbackFailsBuy /\ ~ FallbackSweeps
  BY <1>9
  DEF Fallback, FallbackWakes, FallbackReadsBalance, FallbackConfirmsBuy, FallbackChecksBuy,
      FallbackEmits, FallbackSkips
<1>10. CASE Tick \/ Monitor
  BY <1>10 DEF Tick, Monitor, MonitorChecks, MonitorEmits, MonitorPanics
<1>11. QED BY <1>1, <1>2, <1>3, <1>4, <1>5, <1>6, <1>7, <1>8, <1>9, <1>10

(* What one step of the executor does to the clone and leaves behind.        *)
LEMMA ExecutorReleases ==
    ASSUME TypeOK, Evidence, CloneKept, Seller
    PROVE  /\ CloneKept'
           /\ \A m \in Mints :
                 pos'[m].state = "Selling" /\ ~ Executing(m)' =>
                     /\ pos[m].state = "Selling"
                     /\ Executing(m) => /\ seller.previous \in Unconfirmed
                                        /\ pos[m].tokens < seller.amount
<1> DEFINE n == seller.mint
           Left(m) == pos'[m].state = "Selling" /\ ~ Executing(m)' =>
                          /\ pos[m].state = "Selling"
                          /\ Executing(m) => /\ seller.previous \in Unconfirmed
                                             /\ pos[m].tokens < seller.amount
<1>1. CASE SellerTakes
  <2>1. UNCHANGED pos /\ seller.pc = "idle" /\ seller'.pc \in {"idle", "size"}
    BY <1>1 DEF SellerTakes, IdleSeller, RestingSeller
  <2>2. seller'.pc = "size" =>
            /\ seller'.previous = pos[seller'.mint].state
            /\ seller'.amount = pos[seller'.mint].tokens
    BY <1>1 DEF SellerTakes, IdleSeller, RestingSeller
  <2>3. CloneKept'
    BY <2>1, <2>2 DEF CloneKept, Selling, AcceptsSelling, Unconfirmed
  <2>4. QED BY <2>1, <2>3 DEF Executing, Selling
<1>2. CASE SellerSizes
  <2>1. n \in Mints /\ seller.pc = "size" /\ seller.amount \in Amounts
    BY <1>2, SellerAtWork DEF SellerSizes
  <2>2. PICK balance \in SellerBalance(n) :
          LET amount == SaleSize(seller.amount, balance) IN
          IF amount > 0 /\ AcceptsSelling(pos[n])
          THEN /\ pos' = [pos EXCEPT ![n] = MarkSelling(@)]
               /\ seller' = [seller EXCEPT !.pc = "send", !.amount = amount,
                                           !.left = balance - amount]
          ELSE seller' = IdleSeller /\ UNCHANGED pos
    BY <1>2 DEF SellerSizes
  <2> DEFINE amount == SaleSize(seller.amount, balance)
  <2>3. CASE ~ (amount > 0 /\ AcceptsSelling(pos[n]))
    <3>1. seller'.pc = "idle" /\ UNCHANGED pos
      BY <2>2, <2>3 DEF IdleSeller, RestingSeller
    <3>2. QED BY <2>1, <3>1 DEF CloneKept, Executing, Selling
  <2>4. CASE amount > 0 /\ AcceptsSelling(pos[n])
    <3>1. balance \in Nat
      BY <2>1, AutoSellAssumption DEF SellerBalance, RpcBalance, Amounts, TypeOK, Uncached
    <3>2. amount \in Nat /\ (balance - amount > 0 => amount = seller.amount)
      BY <2>1, <3>1, AutoSellAssumption DEF SaleSize, Amounts
    <3> HIDE DEF amount
    <3>3. /\ pos' = [pos EXCEPT ![n] = MarkSelling(@)]
          /\ seller' = [seller EXCEPT !.pc = "send", !.amount = amount, !.left = balance - amount]
      BY <2>2, <2>4 DEF amount
    <3>4. /\ pos'[n].state = "Selling" /\ pos'[n].tokens = pos[n].tokens
          /\ \A m \in Mints \ {n} : pos'[m] = pos[m]
      BY <2>1, <2>4, <3>3 DEF TypeOK, MarkSelling, PositionRecord
    <3>5. /\ seller'.pc = "send" /\ seller'.mint = n /\ seller'.previous = seller.previous
          /\ seller'.amount = amount /\ seller'.left = balance - amount
      BY <3>3 DEF TypeOK, SellerState, SellerRecord
    <3>6. pos[n].tokens \in Nat
      BY <2>1, AutoSellAssumption DEF TypeOK, PositionRecord, Amounts
    <3>7. \/ seller.previous \in Unconfirmed
          \/ seller.previous = "Active" /\ seller.amount = pos[n].tokens
      BY <2>1, <2>4 DEF CloneKept
    <3>8. CloneKept'
      <4>1. seller'.previous \in Unconfirmed \cup {"Active"} /\ seller'.amount > 0
        BY <2>4, <3>2, <3>5, <3>7 DEF amount
      <4>2. seller'.left > 0 /\ seller'.previous = "Active"
                => seller'.amount <= pos'[seller'.mint].tokens
        BY <3>2, <3>4, <3>5, <3>6, <3>7 DEF Unconfirmed
      <4>3. QED BY <3>4, <3>5, <4>1, <4>2 DEF CloneKept
    <3>9. \A m \in Mints : Left(m)
      BY <2>1, <3>4, <3>5 DEF Executing, Selling
    <3>10. QED BY <3>8, <3>9
  <2>5. QED BY <2>3, <2>4
<1>3. CASE SellerSends \/ SellerCannotSend \/ SellerConfirms \/ SellerTimesOut \/ SellerExhausted
  <2>1. UNCHANGED pos /\ seller.pc \in Selling
    BY <1>3
    DEF SellerSends, SellerCannotSend, SellerConfirms, SellerTimesOut, SellerExhausted, Selling
  <2>2. /\ seller'.pc \in Selling /\ seller'.mint = n /\ seller'.previous = seller.previous
        /\ seller'.amount = seller.amount /\ seller'.left = seller.left
    BY <1>3
    DEF SellerSends, SellerCannotSend, SellerConfirms, SellerTimesOut, SellerExhausted, Selling,
        TypeOK, SellerState, SellerRecord
  <2>3. CloneKept'
    BY <2>1, <2>2 DEF CloneKept, Selling
  <2>4. QED BY <2>1, <2>2, <2>3 DEF Executing
<1>4. CASE SellerSucceeds
  <2>1. n \in Mints /\ seller.amount \in Nat /\ seller.left \in Nat /\ seller.pc = "sold"
    BY <1>4, SellerAtWork, AutoSellAssumption DEF SellerSucceeds, Selling, Amounts
  <2>2. seller'.pc \in {"idle", "hung"} /\ pos' = [pos EXCEPT ![n] = AfterSale(@)]
    BY <1>4 DEF SellerSucceeds, RestingSeller, AfterSave
  <2>3. pos[n] \in PositionRecord /\ pos[n].tokens \in Nat
    BY <2>1, AutoSellAssumption DEF TypeOK, PositionRecord, Amounts
  <2>4. AfterSale(pos[n]).state = "Selling" =>
            /\ pos[n].state = "Selling" /\ seller.left > 0
            /\ ~ (0 < seller.amount /\ seller.amount <= pos[n].tokens)
    BY <2>1, <2>3
    DEF AfterSale, MarkClosed, Advance, ApplyPartialSell, Exists, PositionRecord
  <2>5. seller.amount > 0
    BY <2>1 DEF CloneKept, Selling
  <2>6. QED
    BY <2>1, <2>2, <2>3, <2>4, <2>5 DEF CloneKept, Executing, Selling, TypeOK
<1>5. CASE SellerFails
  <2>1. n \in Mints /\ seller.previous \in Unconfirmed \cup {"Active"}
    BY <1>5, SellerAtWork DEF SellerFails, Selling, CloneKept
  <2>2. /\ seller'.pc \in {"idle", "hung"}
        /\ pos' = [pos EXCEPT ![n] = RestoreAfterSellAttempt(@, seller.previous)]
    BY <1>5 DEF SellerFails, RestingSeller, AfterSave
  <2>3. pos[n] \in PositionRecord /\ seller.previous \in PositionState
        /\ seller.previous # "Selling"
    BY <2>1 DEF TypeOK, Unconfirmed, PositionState, LiveStates
  <2>4. RestoreAfterSellAttempt(pos[n], seller.previous).state # "Selling"
    BY <2>3, PositionStates
  <2>5. QED BY <2>1, <2>2, <2>4 DEF CloneKept, Executing, Selling, TypeOK
<1>6. QED BY <1>1, <1>2, <1>3, <1>4, <1>5 DEF Seller

LEMMA CloneStep ==
    ASSUME TypeOK, Evidence, CloneKept, Next
    PROVE  /\ CloneKept'
           /\ \A m \in Mints :
                 pos'[m].state = "Selling" /\ ~ Executing(m)' =>
                     /\ pos[m].state = "Selling"
                     /\ Executing(m) => /\ seller.previous \in Unconfirmed
                                        /\ pos[m].tokens < seller.amount
<1>1. CASE Seller
  BY <1>1, ExecutorReleases
<1>2. CASE \/ \E n \in Mints : Chain(n) \/ Buyer(n) \/ Confirmer(n)
           \/ Tick \/ Monitor \/ Fallback
  <2>1. UNCHANGED seller /\ \A m \in Mints : Fate(m)
    BY <1>2, WithoutExecutor
  <2>2. seller.pc \in {"size"} \cup Selling =>
            seller.mint \in Mints /\ buyer[seller.mint] \in {"added", "hung"}
    BY SellerAtWork DEF Evidence, SellerEvidence
  <2>3. CloneKept'
    BY <2>1, <2>2 DEF CloneKept, AcceptsSelling, Unconfirmed, Fate, Selling
  <2>4. \A m \in Mints : pos'[m].state = "Selling" => pos[m].state = "Selling"
    BY <2>1 DEF Fate
  <2>5. QED BY <2>1, <2>3, <2>4 DEF Executing
<1>3. QED BY <1>1, <1>2 DEF Next

THEOREM CloneKeptHolds == Spec => []CloneKept
<1>1. Init => CloneKept
  BY DEF Init, CloneKept, IdleSeller, RestingSeller, Selling
<1>2. CloneKept /\ UNCHANGED vars => CloneKept'
  BY DEF CloneKept, vars, tasks
<1>3. TypeOK /\ Evidence /\ CloneKept /\ [Next]_vars => CloneKept'
  BY <1>2, CloneStep
<1>4. QED BY <1>1, <1>3, TypeCorrect, EvidenceHolds, PTL DEF Spec

(* The executor leaves a position Selling behind only when it sold an        *)
(* unconfirmed one by an estimate that the confirmer has lowered below the   *)
(* sale since (the refusal of apply_partial_sell): for any number of mints,  *)
(* whatever fails, comes late or is stale, and however often it retries.     *)
THEOREM SellingReleasedHolds == Spec => SellingReleased
<1>1. TypeOK /\ Evidence /\ CloneKept /\ [Next]_vars
        => [\A m \in Mints :
              pos'[m].state = "Selling" /\ ~ Executing(m)' =>
                  /\ pos[m].state = "Selling"
                  /\ Executing(m) => /\ seller.previous \in {"Submitted", "Confirming"}
                                    /\ pos[m].tokens < seller.amount]_vars
  BY CloneStep DEF Unconfirmed
<1>2. QED
  BY <1>1, TypeCorrect, EvidenceHolds, CloneKeptHolds, PTL DEF Spec, SellingReleased

(* Where RPC errors are read as errors, a closed position is a sold one.     *)
SoldEvidence == SaleEvidence /\ ClosedMeansSold

LEMMA SoldStep ==
    ASSUME RpcErrors = FALSE, TypeOK, TypeOK', Evidence, SoldEvidence, Next
    PROVE  SoldEvidence'
<1> USE AutoSellAssumption DEF SoldEvidence, Uncached, Amounts
<1>1. ASSUME UNCHANGED <<cache, chain>>,
             seller'.pc = "sold" => UNCHANGED seller,
             \A m \in Mints : pos'[m].state = "Closed" => pos[m].state = "Closed"
      PROVE  SoldEvidence'
  BY <1>1 DEF SaleEvidence, ClosedMeansSold, cache, chain
<1>2. ASSUME NEW n \in Mints, Chain(n) PROVE SoldEvidence'
  <2>1. CASE LandBuy(n)
    <3>1. bought[n] = 0
      BY <2>1 DEF LandBuy, Evidence, BuyEvidence, TypeOK
    <3>2. seller.pc = "sold" => seller.mint # n
      BY <3>1 DEF Evidence, SellerEvidence, Selling
    <3>3. pos[n].state # "Closed" /\ ata[n] = Uncached
      BY <2>1, <3>1 DEF LandBuy, Evidence, BuyEvidence, Holding, SaleEvidence
    <3>4. \A m \in Mints \ {n} : wallet'[m] = wallet[m] /\ buyTx'[m] = buyTx[m]
      BY <2>1 DEF LandBuy, TypeOK
    <3>5. SaleEvidence'
      BY <2>1, <3>2, <3>3, <3>4, SellerAtWork
      DEF LandBuy, SaleEvidence, TypeOK, tasks, cache, Selling
    <3>6. ClosedMeansSold'
      BY <2>1, <3>3, <3>4 DEF LandBuy, ClosedMeansSold
    <3>7. QED BY <3>5, <3>6
  <2>2. CASE FailBuy(n)
    <3>1. SaleEvidence'
      BY <2>2 DEF FailBuy, SaleEvidence, TypeOK, tasks, cache
    <3>2. QED BY <2>2, <3>1 DEF FailBuy, ClosedMeansSold
  <2>3. CASE LandSell(n)
    <3>1. PICK a \in sellTxs[n] : LandSell(n)!(a)
      BY <2>3 DEF LandSell
    <3>2. a \in Nat
      BY <3>1 DEF TypeOK
    <3>3. \A m \in Mints : wallet[m] \in Nat /\ wallet'[m] \in Nat /\ wallet'[m] <= wallet[m]
      BY <3>1, <3>2 DEF TypeOK
    <3>4. SaleEvidence'
      <4>1. \A m \in Mints : ata[m] \in Int
        BY DEF TypeOK
      <4>2. \A m \in Mints : ata'[m] # Uncached => buyTx'[m] = "landed" /\ wallet'[m] <= ata'[m]
        BY <3>1, <3>3, <4>1 DEF SaleEvidence, cache
      <4>3. seller.pc = "sold" => seller.mint \in Mints /\ seller.left \in Nat
        BY SellerAtWork DEF Selling
      <4>4. seller'.pc = "sold" => wallet'[seller'.mint] <= seller'.left
        BY <3>1, <3>3, <4>3 DEF SaleEvidence, tasks
      <4>5. QED BY <4>2, <4>4 DEF SaleEvidence
    <3>5. ClosedMeansSold'
      BY <3>1, <3>3 DEF ClosedMeansSold
    <3>6. QED BY <3>4, <3>5
  <2>4. CASE ExpireSell(n)
    BY <2>4 DEF ExpireSell, SaleEvidence, ClosedMeansSold, tasks, cache
  <2>5. CASE AtaUpdate(n)
    BY <2>5 DEF AtaUpdate, SaleEvidence, ClosedMeansSold, TypeOK, tasks, chain
  <2>6. QED BY <1>2, <2>1, <2>2, <2>3, <2>4, <2>5 DEF Chain
<1>3. ASSUME NEW n \in Mints, Buyer(n) PROVE SoldEvidence'
  <2>1. CASE BuySignal(n)
    BY <2>1 DEF BuySignal, SaleEvidence, ClosedMeansSold, chain
  <2>2. CASE SendBuy(n) \/ SendBuyFails(n)
    <3>1. buyTx[n] = "none"
      BY <2>2 DEF SendBuy, SendBuyFails, Evidence, BuyEvidence
    <3>2. \A m \in Mints : buyTx[m] = "landed" => buyTx'[m] = "landed"
      BY <2>2, <3>1 DEF SendBuy, SendBuyFails, TypeOK
    <3>3. QED BY <2>2, <3>2 DEF SendBuy, SendBuyFails, SaleEvidence, ClosedMeansSold, cache
  <2>3. CASE AddPosition(n)
    <3>1. \A m \in Mints : pos'[m].state = "Closed" => pos[m].state = "Closed"
      BY <2>3, PositionStates DEF AddPosition, TypeOK
    <3>2. QED BY <1>1, <2>3, <3>1 DEF AddPosition
  <2>4. QED BY <1>3, <2>1, <2>2, <2>3 DEF Buyer
<1>4. ASSUME NEW n \in Mints, Confirmer(n) PROVE SoldEvidence'
  <2>1. CASE FailConfirmation(n)
    <3>1. \A m \in Mints : pos'[m].state = "Closed" => pos[m].state = "Closed"
      BY <2>1, PositionStates DEF FailConfirmation, TypeOK
    <3>2. QED BY <1>1, <2>1, <3>1 DEF FailConfirmation
  <2>2. CASE ConfirmSuccess(n)
    <3>1. confirmer[n].balance \in Amounts
      BY DEF TypeOK, ConfirmerState
    <3>2. \A m \in Mints : pos'[m].state = "Closed" => pos[m].state = "Closed"
      <4>1. \A m \in Mints :
               pos'[m] = pos[m] \/ pos'[m] = MarkActive(pos[m], confirmer[n].balance)
        BY <2>2 DEF ConfirmSuccess, TypeOK
      <4>2. \A m \in Mints : MarkActive(pos[m], confirmer[n].balance).state
                              \in {pos[m].state, "Active"}
        BY <3>1, PositionStates DEF TypeOK
      <4>3. QED BY <4>1, <4>2
    <3>3. QED BY <1>1, <2>2, <3>2 DEF ConfirmSuccess
  <2>3. QED
    BY <1>1, <1>4, <2>1, <2>2
    DEF Confirmer, ConfirmerSeesCache, ConfirmerPolls, ConfirmerSeesFailure, ConfirmerGivesUp,
        ConfirmerReadsTransaction
<1>5. CASE Fallback
  <2>1. CASE FallbackFailsBuy
    <3>1. fallback.mint \in Mints
      BY <2>1 DEF FallbackFailsBuy, TypeOK, FallbackState
    <3>2. \A m \in Mints : pos'[m].state = "Closed" => pos[m].state = "Closed"
      <4>1. \A m \in Mints : pos'[m] = pos[m] \/ pos'[m] = MarkFailed(pos[m])
        BY <2>1, <3>1 DEF FallbackFailsBuy, TypeOK
      <4>2. QED BY <4>1, PositionStates DEF TypeOK
    <3>3. QED BY <1>1, <2>1, <3>2 DEF FallbackFailsBuy
  <2>2. CASE FallbackSweeps
    BY <1>1, <2>2 DEF FallbackSweeps, NoPosition
  <2>3. QED
    BY <1>1, <1>5, <2>1, <2>2
    DEF Fallback, FallbackWakes, FallbackReadsBalance, FallbackConfirmsBuy, FallbackChecksBuy,
        FallbackEmits, FallbackSkips
<1>6. CASE Tick \/ Monitor
  BY <1>1, <1>6 DEF Tick, Monitor, MonitorChecks, MonitorEmits, MonitorPanics
<1>7. CASE Seller
  <2>1. CASE SellerTakes
    <3>1. seller'.pc # "sold"
      BY <2>1 DEF SellerTakes, IdleSeller, RestingSeller
    <3>2. QED BY <1>1, <2>1, <3>1 DEF SellerTakes
  <2>2. CASE SellerSizes
    <3>1. seller'.pc # "sold"
      <4>1. seller'.pc = "send" \/ seller' = IdleSeller
        BY <2>2 DEF SellerSizes, TypeOK, SellerState, SellerRecord
      <4>2. QED BY <4>1 DEF IdleSeller, RestingSeller
    <3>2. seller.mint \in Mints
      BY <2>2, SellerAtWork DEF SellerSizes
    <3>3. \A m \in Mints : pos'[m].state = "Closed" => pos[m].state = "Closed"
      <4>1. \A m \in Mints : pos'[m] = pos[m] \/ pos'[m] = MarkSelling(pos[m])
        BY SMTT(60), <2>2, <3>2 DEF SellerSizes, TypeOK
      <4>2. \A m \in Mints : MarkSelling(pos[m]).state \in {pos[m].state, "Selling"}
        BY PositionStates DEF TypeOK
      <4>3. QED BY <4>1, <4>2
    <3>4. QED BY <1>1, <2>2, <3>1, <3>3 DEF SellerSizes
  <2>3. CASE SellerSends
    <3>1. seller'.pc # "sold"
      BY <2>3 DEF SellerSends, TypeOK, SellerState, SellerRecord
    <3>2. QED BY <2>3, <3>1 DEF SellerSends, SaleEvidence, ClosedMeansSold, cache
  <2>4. CASE SellerCannotSend \/ SellerTimesOut \/ SellerExhausted
    <3>1. seller'.pc # "sold"
      BY <2>4
      DEF SellerCannotSend, SellerTimesOut, SellerExhausted, TypeOK, SellerState, SellerRecord
    <3>2. QED BY <1>1, <2>4, <3>1 DEF SellerCannotSend, SellerTimesOut, SellerExhausted
  <2>5. CASE SellerConfirms
    <3>1. seller.mint \in Mints /\ seller.left \in Nat
      BY <2>5, SellerAtWork DEF SellerConfirms, Selling
    <3>2. wallet[seller.mint] <= seller.left
      <4>1. wallet[seller.mint] \in Nat /\ ata[seller.mint] \in Int
        BY <3>1 DEF TypeOK
      <4>2. \/ wallet[seller.mint] <= seller.left
            \/ ata[seller.mint] # Uncached /\ ata[seller.mint] <= seller.left
        BY <2>5 DEF SellerConfirms, RpcBalance
      <4>3. QED BY <3>1, <4>1, <4>2 DEF SaleEvidence
    <3>3. seller'.mint = seller.mint /\ seller'.left = seller.left
      BY <2>5 DEF SellerConfirms, TypeOK, SellerState, SellerRecord
    <3>4. QED BY <2>5, <3>2, <3>3 DEF SellerConfirms, SaleEvidence, ClosedMeansSold, cache, chain
  <2>6. CASE SellerSucceeds
    <3> DEFINE n == seller.mint
    <3>1. n \in Mints /\ seller.amount \in Amounts
      BY <2>6, SellerAtWork DEF SellerSucceeds, Selling
    <3>2. seller'.pc # "sold"
      BY <2>6 DEF SellerSucceeds, RestingSeller, AfterSave
    <3>3. pos'[n].state = "Closed" => wallet[n] = 0
      <4>1. CASE seller.left = 0
        BY SMTT(60), <2>6, <3>1, <4>1 DEF SellerSucceeds, SaleEvidence, TypeOK
      <4>2. CASE seller.left # 0
        BY <2>6, <3>1, <4>2, PositionStates
        DEF SellerSucceeds, AfterSale, TypeOK, Evidence, SellerEvidence, Selling
      <4>3. QED BY <4>1, <4>2
    <3>4. \A m \in Mints \ {n} : pos'[m] = pos[m]
      BY <2>6, <3>1 DEF SellerSucceeds, TypeOK
    <3>5. \A m \in Mints : ata'[m] = ata[m] \/ ata'[m] = Uncached
      BY <2>6 DEF SellerSucceeds, Cleanup, cache, TypeOK
    <3>6. QED
      BY <2>6, <3>2, <3>3, <3>4, <3>5 DEF SellerSucceeds, SaleEvidence, ClosedMeansSold, chain
  <2>7. CASE SellerFails
    <3>1. seller.mint \in Mints /\ seller.previous \in PositionState
          /\ seller.previous # "Closed"
      BY <2>7, SellerAtWork DEF SellerFails, Evidence, SellerEvidence, Selling
    <3>2. seller'.pc # "sold"
      BY <2>7 DEF SellerFails, RestingSeller, AfterSave
    <3>3. \A m \in Mints : pos'[m].state = "Closed" => pos[m].state = "Closed"
      BY <2>7, <3>1, PositionStates DEF SellerFails, TypeOK
    <3>4. QED BY <1>1, <2>7, <3>2, <3>3 DEF SellerFails
  <2>8. QED BY <1>7, <2>1, <2>2, <2>3, <2>4, <2>5, <2>6, <2>7 DEF Seller
<1>8. QED BY <1>2, <1>3, <1>4, <1>5, <1>6, <1>7 DEF Next

(* Where RPC calls do not fail, caches are never too low and a confirmed sale *)
(* has left no more than was meant to be left.                               *)
THEOREM SoldEvidenceHolds ==
    ASSUME RpcErrors = FALSE
    PROVE  Spec => []SoldEvidence
<1>1. Init => SoldEvidence
  BY AutoSellAssumption
  DEF Init, SoldEvidence, SaleEvidence, ClosedMeansSold, NoPosition, IdleSeller, RestingSeller
<1>2. TypeOK /\ TypeOK' /\ Evidence /\ SoldEvidence /\ [Next]_vars => SoldEvidence'
  <2>1. SoldEvidence /\ UNCHANGED vars => SoldEvidence'
    BY DEF SoldEvidence, SaleEvidence, ClosedMeansSold, vars, tasks, cache, chain
  <2>2. QED BY <2>1, SoldStep
<1>3. QED BY <1>1, <1>2, TypeCorrect, EvidenceHolds, PTL DEF Spec

(* Where RPC calls do not fail, a position is closed only when its tokens    *)
(* have left the wallet, whatever else is stale or late.                     *)
THEOREM ClosedMeansSoldHolds ==
    ASSUME RpcErrors = FALSE
    PROVE  Spec => []ClosedMeansSold
<1>1. SoldEvidence => ClosedMeansSold
  BY DEF SoldEvidence
<1>2. QED BY <1>1, SoldEvidenceHolds, PTL

-----------------------------------------------------------------------------
(* Calls that answer in time.                                                *)

Landed(m) == buyTx[m] = "landed"

(* The buy has not landed and no longer will. *)
Dead(m) == ~ Landed(m) /\ age[m] > LandBy

(* A sale of the mint has been asked for, and is not yet over. *)
Wanted(m) ==
    \/ monitor.mint = m
    \/ \E i \in 1 .. Len(signals) : signals[i] = m
    \/ seller.pc \in {"size"} \cup Selling /\ seller.mint = m

(* A poll completes in every tick, so a landed buy is soon confirmed. *)
SoonConfirmed(m) ==
    /\ pos[m].state \in Unconfirmed /\ TableFree =>
          /\ confirmer[m].pc \in {"poll", "polled", "found"}
          /\ Landed(m) => \/ age[m] <= LandBy
                          \/ age[m] = LandBy + 1 /\ confirmer[m].pc \in {"poll", "found"}
    /\ buyer[m] = "sent" /\ TableFree /\ Landed(m) => age[m] <= LandBy
    /\ (pos[m].state \in Unconfirmed \/ buyer[m] = "sent") /\ Landed(m) => wallet[m] > 0

(* No sale is asked for of a position whose buy may still be confirmed. *)
WantedConfirmed(m) ==
    /\ Wanted(m) => /\ buyer[m] \in {"added", "hung"}
                    /\ Dead(m) \/ pos[m].state \notin Unconfirmed
    /\ sellTxs[m] # {} => buyer[m] \in {"added", "hung"} /\ pos[m].state \notin Unconfirmed

WedgedByFallback == wedged # NoMint => fallback.pc = "hung"

(* So the amount the executor goes by is the position's own. *)
SaleBelieved ==
    /\ seller.pc = "size" /\ pos[seller.mint].state = "Active" =>
          seller.previous = "Active" /\ seller.amount = pos[seller.mint].tokens
    /\ seller.pc \in Selling =>
          /\ seller.previous = "Active" /\ seller.amount > 0
          /\ pos[seller.mint].state \in {"Selling", "Failed", "none"}
          /\ pos[seller.mint].state = "Selling" /\ seller.left > 0
                => seller.amount <= pos[seller.mint].tokens

(* and no sale is refused, so that nothing stays Selling behind. *)
SellingHasExecutor == \A m \in Mints : pos[m].state = "Selling" => Executing(m)

Orderly ==
    /\ \A m \in Mints : SoonConfirmed(m) /\ WantedConfirmed(m)
    /\ WedgedByFallback /\ SaleBelieved /\ SellingHasExecutor

LEMMA OrderlyInit == Init => Orderly
BY AutoSellAssumption
DEF Init, Orderly, SoonConfirmed, WantedConfirmed, WedgedByFallback, SaleBelieved,
    SellingHasExecutor, Executing, Wanted, Landed, Unconfirmed, Selling, NoPosition, IdleMonitor,
    IdleSeller, RestingSeller

LEMMA OrderlyChain ==
    ASSUME TypeOK, Evidence, Orderly, NEW n \in Mints, Chain(n) PROVE Orderly'
<1>1. UNCHANGED <<pos, age, buyer, confirmer, fallback, monitor, seller, signals, wedged>>
  BY DEF Chain, LandBuy, FailBuy, LandSell, ExpireSell, AtaUpdate, tasks
<1>2. WedgedByFallback' /\ SaleBelieved' /\ SellingHasExecutor'
  BY <1>1 DEF Orderly, WedgedByFallback, SaleBelieved, SellingHasExecutor, Executing
<1>3. ASSUME NEW m \in Mints
      PROVE  /\ Landed(m)' => /\ Landed(m) \/ age[m] <= LandBy
                              /\ wallet[m] > 0 \/ ~ Landed(m) => wallet'[m] > 0 \/ sellTxs[m] # {}
             /\ Landed(m) => Landed(m)'
             /\ sellTxs'[m] # {} => sellTxs[m] # {}
  <2>1. CASE LandBuy(n)
    BY <2>1, AutoSellAssumption DEF LandBuy, Landed, TypeOK, Amounts
  <2>2. CASE FailBuy(n)
    BY <2>2 DEF FailBuy, Landed, TypeOK
  <2>3. CASE LandSell(n)
    <3>1. PICK a \in sellTxs[n] : LandSell(n)!(a)
      BY <2>3 DEF LandSell
    <3>2. \A k \in Mints \ {n} : wallet'[k] = wallet[k] /\ sellTxs'[k] = sellTxs[k]
      BY <3>1 DEF TypeOK
    <3>3. UNCHANGED buyTx
      BY <3>1
    <3>4. QED BY <3>1, <3>2, <3>3 DEF Landed
  <2>4. CASE ExpireSell(n)
    BY <2>4 DEF ExpireSell, Landed, TypeOK
  <2>5. CASE AtaUpdate(n)
    BY <2>5 DEF AtaUpdate, Landed, chain
  <2>6. QED BY <2>1, <2>2, <2>3, <2>4, <2>5 DEF Chain
<1>4. ASSUME NEW m \in Mints PROVE SoonConfirmed(m)'
  BY <1>1, <1>3 DEF Orderly, SoonConfirmed, WantedConfirmed, TableFree
<1>5. ASSUME NEW m \in Mints PROVE WantedConfirmed(m)'
  <2>1. Dead(m) => Dead(m)'
    BY <1>1, <1>3, AutoSellAssumption DEF Dead, TypeOK
  <2>2. Wanted(m)' => Wanted(m)
    BY <1>1 DEF Wanted
  <2>3. QED BY <1>1, <1>3, <2>1, <2>2 DEF Orderly, WantedConfirmed
<1>6. QED BY <1>2, <1>4, <1>5 DEF Orderly

LEMMA OrderlyTick ==
    ASSUME Prompt, TypeOK, Evidence, Orderly, Tick PROVE Orderly'
<1>1. UNCHANGED <<pos, buyer, fallback, monitor, seller, signals, wedged, chain>>
  BY DEF Tick
<1>2. WedgedByFallback' /\ SaleBelieved' /\ SellingHasExecutor'
  BY <1>1 DEF Orderly, WedgedByFallback, SaleBelieved, SellingHasExecutor, Executing
<1>3. \A m \in Mints : age[m] \in Int /\ age'[m] \in Int /\ age'[m] \in {age[m], age[m] + 1}
  BY AutoSellAssumption DEF Tick, TypeOK
<1>4. \A m \in Mints : confirmer'[m].pc = IF confirmer[m].pc = "polled" THEN "poll"
                                          ELSE confirmer[m].pc
  BY DEF Tick, TypeOK, ConfirmerState
<1>5. TableFree => \A m \in Mints : buyer[m] # "sent" /\ confirmer[m].pc \notin {"poll", "found"}
  BY DEF Tick, Overtaken
<1>6. ASSUME NEW m \in Mints PROVE SoonConfirmed(m)'
  <2>1. TableFree' <=> TableFree
    BY <1>1 DEF TableFree
  <2>2. LandBy \in Int /\ (Landed(m)' <=> Landed(m)) /\ wallet'[m] = wallet[m]
    BY <1>1, AutoSellAssumption DEF Landed, chain
  <2>3. QED BY <1>1, <1>3, <1>4, <1>5, <2>1, <2>2 DEF Orderly, SoonConfirmed
<1>7. ASSUME NEW m \in Mints PROVE WantedConfirmed(m)'
  <2>1. Dead(m) => Dead(m)'
    BY <1>1, <1>3, AutoSellAssumption DEF Dead, Landed, chain
  <2>2. QED BY <1>1, <2>1 DEF Orderly, WantedConfirmed, Wanted, chain
<1>8. QED BY <1>2, <1>6, <1>7 DEF Orderly

LEMMA OrderlyBuyer ==
    ASSUME TypeOK, Evidence, Orderly, NEW n \in Mints, Buyer(n) PROVE Orderly'
<1>1. UNCHANGED <<age, fallback, monitor, seller, signals, wedged, bought, wallet, sellTxs>>
  BY DEF Buyer, BuySignal, SendBuy, SendBuyFails, AddPosition, chain
<1>2. /\ buyer[n] \notin {"added", "hung"}
      /\ \A m \in Mints \ {n} : /\ buyer'[m] = buyer[m] /\ buyTx'[m] = buyTx[m]
                                /\ confirmer'[m] = confirmer[m] /\ pos'[m] = pos[m]
  BY DEF Buyer, BuySignal, SendBuy, SendBuyFails, AddPosition, TypeOK, chain
<1>3. pos[n].state = "none" /\ ~ Wanted(n) /\ ~ Wanted(n)' /\ sellTxs[n] = {}
  BY <1>1, <1>2 DEF Evidence, SubscribedFirst, Exists, Orderly, WantedConfirmed, Wanted
<1>4. \A m \in Mints : pos'[m].state \in {"Active", "Selling"} => pos'[m] = pos[m]
  BY <1>2, <1>3, PositionStates DEF Buyer, BuySignal, SendBuy, SendBuyFails, AddPosition, TypeOK
<1>5. WedgedByFallback' /\ SaleBelieved' /\ SellingHasExecutor'
  <2>1. seller.pc \in {"size"} \cup Selling => seller.mint \in Mints \ {n}
    BY <1>2, SellerAtWork DEF Evidence, SellerEvidence
  <2>2. WedgedByFallback'
    BY <1>1 DEF Orderly, WedgedByFallback
  <2>3. SaleBelieved'
    BY <1>1, <1>2, <2>1 DEF Orderly, SaleBelieved
  <2>4. SellingHasExecutor'
    BY <1>1, <1>4 DEF Orderly, SellingHasExecutor, Executing
  <2>5. QED BY <2>2, <2>3, <2>4
<1>6. ASSUME NEW m \in Mints PROVE SoonConfirmed(m)'
  <2>1. CASE m # n
    BY <1>1, <1>2, <2>1 DEF Orderly, SoonConfirmed, Landed, TableFree
  <2>2. CASE m = n /\ (BuySignal(n) \/ SendBuy(n) \/ SendBuyFails(n))
    <3>1. pos'[n].state = "none" /\ ~ Landed(n)'
      BY <1>3, <2>2
      DEF BuySignal, SendBuy, SendBuyFails, Landed, TypeOK, Evidence, BuyEvidence, chain
    <3>2. QED BY <2>2, <3>1 DEF SoonConfirmed, Unconfirmed
  <2>3. CASE m = n /\ AddPosition(n)
    <3>1. buyer[n] = "sent" /\ buyer'[n] # "sent" /\ UNCHANGED buyTx
          /\ (TableFree => confirmer'[n].pc = "poll")
      BY <2>3 DEF AddPosition, AfterSave, RestingConfirmer, ConfirmerAt, TypeOK, chain
    <3>2. QED BY <1>1, <2>3, <3>1 DEF Orderly, SoonConfirmed, Landed, TableFree
  <2>4. QED BY <2>1, <2>2, <2>3 DEF Buyer
<1>7. ASSUME NEW m \in Mints PROVE WantedConfirmed(m)'
  <2>1. CASE m = n
    BY <1>1, <1>3, <2>1 DEF WantedConfirmed
  <2>2. CASE m # n
    BY <1>1, <1>2, <2>2 DEF Orderly, WantedConfirmed, Wanted, Dead, Landed
  <2>3. QED BY <2>1, <2>2
<1>8. QED BY <1>5, <1>6, <1>7 DEF Orderly

LEMMA OrderlyConfirmer ==
    ASSUME RpcErrors = FALSE, TypeOK, Evidence, Orderly, NEW n \in Mints, Confirmer(n)
    PROVE  Orderly'
<1>1. UNCHANGED <<age, buyer, fallback, monitor, seller, signals, wedged, cache, chain>>
  BY DEF Confirmer, ConfirmerSeesCache, ConfirmerPolls, ConfirmerSeesFailure, ConfirmerGivesUp,
         FailConfirmation, ConfirmerReadsTransaction, ConfirmSuccess
<1>2. \A m \in Mints \ {n} : confirmer'[m] = confirmer[m] /\ pos'[m] = pos[m]
  BY DEF Confirmer, ConfirmerSeesCache, ConfirmerPolls, ConfirmerSeesFailure, ConfirmerGivesUp,
         FailConfirmation, ConfirmerReadsTransaction, ConfirmSuccess, TypeOK
(* What becomes of the position itself *)
<1>3. \/ pos'[n] = pos[n] /\ (TableFree /\ pos[n].state \in Unconfirmed =>
             /\ confirmer'[n].pc \in {"poll", "polled", "found"}
             /\ Landed(n) => confirmer'[n].pc = "found")
      \/ pos'[n].state \in {"none", "Failed"}
      \/ pos[n].state \in Unconfirmed /\ pos'[n].state = "Active" /\ ~ Dead(n)
  <2>1. CASE ConfirmerSeesCache(n) \/ ConfirmerReadsTransaction(n)
    BY <2>1 DEF ConfirmerSeesCache, ConfirmerReadsTransaction, ConfirmerFound, ConfirmerAt, TypeOK
  <2>2. CASE ConfirmerPolls(n)
    <3>1. PICK balance \in RpcBalance(n), status \in SignatureStatus(n) :
             confirmer' = [confirmer EXCEPT ![n] =
                IF balance > 0 THEN ConfirmerFound(balance)
                ELSE ConfirmerAt("polled", IF @.signature = "unseen" THEN status ELSE @.signature, 0)]
      BY <2>2 DEF ConfirmerPolls
    <3>2. balance = wallet[n]
      BY <3>1 DEF RpcBalance
    <3>3. confirmer'[n].pc = IF wallet[n] > 0 THEN "found" ELSE "polled"
      BY <3>1, <3>2 DEF TypeOK, ConfirmerFound, ConfirmerAt
    <3>4. QED BY <2>2, <3>3 DEF ConfirmerPolls, Orderly, SoonConfirmed
  <2>3. CASE ConfirmerSeesFailure(n) \/ ConfirmerGivesUp(n)
    BY <2>3, PositionStates DEF ConfirmerSeesFailure, ConfirmerGivesUp, FailConfirmation, TypeOK
  <2>4. CASE ConfirmSuccess(n)
    <3>1. confirmer[n].balance \in Amounts /\ pos' = [pos EXCEPT ![n] = MarkActive(@, confirmer[n].balance)]
      BY <2>4 DEF ConfirmSuccess, TypeOK, ConfirmerState, Polling
    <3>2. Landed(n)
      BY <2>4 DEF ConfirmSuccess, Evidence, BuyEvidence, Landed
    <3>3. CASE pos[n].state \in {"Confirming", "Submitted"}
      BY <3>1, <3>2, <3>3, PositionStates DEF Dead, TypeOK, Unconfirmed
    <3>4. CASE pos[n].state \notin {"Confirming", "Submitted"}
      BY <3>1, <3>4 DEF MarkActive, TypeOK, Unconfirmed
    <3>5. QED BY <3>3, <3>4
  <2>5. QED BY <2>1, <2>2, <2>3, <2>4 DEF Confirmer
<1>4. SaleBelieved'
  <2>1. CASE seller.mint = n /\ seller.pc \in {"size"} \cup Selling
    <3>1. Wanted(n) /\ (pos[n].state \in Unconfirmed => Dead(n))
      BY <2>1 DEF Wanted, Orderly, WantedConfirmed
    <3>2. pos'[n] = pos[n] \/ pos'[n].state \in {"none", "Failed"}
      BY <1>3, <3>1
    <3>3. QED BY <1>1, <2>1, <3>2 DEF Orderly, SaleBelieved, Selling
  <2>2. CASE ~ (seller.mint = n /\ seller.pc \in {"size"} \cup Selling)
    <3>1. seller.pc \in {"size"} \cup Selling => seller.mint \in Mints \ {n}
      BY <2>2, SellerAtWork
    <3>2. QED BY <1>1, <1>2, <3>1 DEF Orderly, SaleBelieved
  <2>3. QED BY <2>1, <2>2
<1>5. WedgedByFallback' /\ SellingHasExecutor'
  <2>1. \A m \in Mints : pos'[m].state = "Selling" => pos[m].state = "Selling"
    BY <1>2, <1>3
  <2>2. QED BY <1>1, <2>1 DEF Orderly, WedgedByFallback, SellingHasExecutor, Executing
<1>6. ASSUME NEW m \in Mints PROVE SoonConfirmed(m)'
  <2>1. CASE m = n
    <3>1. CASE pos'[n] = pos[n]
      BY <1>1, <1>3, <2>1, <3>1 DEF Orderly, SoonConfirmed, Landed, TableFree, Unconfirmed, chain
    <3>2. CASE pos'[n].state \notin Unconfirmed
      BY <1>1, <2>1, <3>2 DEF Orderly, SoonConfirmed, Landed, TableFree, chain
    <3>3. QED BY <1>3, <3>1, <3>2 DEF Unconfirmed
  <2>2. CASE m # n
    BY <1>1, <1>2, <2>2 DEF Orderly, SoonConfirmed, Landed, TableFree, chain
  <2>3. QED BY <2>1, <2>2
<1>7. ASSUME NEW m \in Mints PROVE WantedConfirmed(m)'
  <2>1. pos'[m].state \in Unconfirmed => pos[m].state \in Unconfirmed
    BY <1>2, <1>3 DEF Unconfirmed
  <2>2. QED BY <1>1, <2>1 DEF Orderly, WantedConfirmed, Wanted, Dead, Landed, chain
<1>8. QED BY <1>4, <1>5, <1>6, <1>7 DEF Orderly

(* When a monitor asks for a sale, the buy has been confirmed or never will be. *)
LEMMA ExitIsConfirmed ==
    ASSUME TypeOK, Evidence, Orderly, LandBy + 2 <= MaxHold, NEW n \in Mints, TableFree, ExitDue(n)
    PROVE  buyer[n] \in {"added", "hung"} /\ (Dead(n) \/ pos[n].state \notin Unconfirmed)
<1>1. Exists(pos[n])
  BY DEF ExitDue, CanSell, Exists
<1>2. buyer[n] \in {"added", "hung"}
  BY <1>1 DEF Evidence, SubscribedFirst
<1>3. CASE pos[n].state \in Unconfirmed
  <2>1. age[n] >= MaxHold
    BY <1>3 DEF ExitDue, Unconfirmed
  <2>2. age[n] \in Int /\ LandBy \in Int /\ MaxHold \in Int
    BY AutoSellAssumption DEF TypeOK
  <2>3. ~ Landed(n)
    BY <1>3, <2>1, <2>2 DEF Orderly, SoonConfirmed
  <2>4. QED BY <1>2, <2>1, <2>2, <2>3 DEF Dead
<1>4. QED BY <1>2, <1>3

LEMMA OrderlyMonitor ==
    ASSUME TypeOK, Evidence, Orderly, LandBy + 2 <= MaxHold, Monitor
    PROVE  Orderly'
<1>1. UNCHANGED <<pos, age, buyer, confirmer, fallback, seller, wedged, cache, chain>>
  BY DEF Monitor, MonitorChecks, MonitorEmits, MonitorPanics
<1>2. WedgedByFallback' /\ SaleBelieved' /\ SellingHasExecutor'
  BY <1>1 DEF Orderly, WedgedByFallback, SaleBelieved, SellingHasExecutor, Executing
<1>3. \A m \in Mints : SoonConfirmed(m)'
  BY <1>1 DEF Orderly, SoonConfirmed, Landed, TableFree, chain
<1>4. ASSUME NEW m \in Mints
      PROVE  Wanted(m)' => Wanted(m) \/ (TableFree /\ ExitDue(m))
  <2>1. ASSUME NEW n \in Mints, MonitorChecks(n) PROVE Wanted(m)' => Wanted(m) \/ (TableFree /\ ExitDue(m))
    BY <2>1 DEF MonitorChecks, Wanted
  <2>2. CASE MonitorEmits
    <3>1. signals' = Append(signals, monitor.mint) /\ signals \in Seq(Mints) /\ monitor.mint \in Mints
          /\ monitor' = IdleMonitor
      BY <2>2 DEF MonitorEmits, Emit, TypeOK, MonitorState
    <3>2. ASSUME NEW i \in 1 .. Len(signals'), signals'[i] = m
          PROVE  m = monitor.mint \/ (i \in 1 .. Len(signals) /\ signals[i] = m)
      BY <3>1, <3>2
    <3>3. QED BY <1>1, <3>1, <3>2, AutoSellAssumption DEF Wanted, IdleMonitor
  <2>3. CASE MonitorPanics
    BY <1>1, <2>3, AutoSellAssumption DEF MonitorPanics, Wanted
  <2>4. QED BY <2>1, <2>2, <2>3 DEF Monitor
<1>5. ASSUME NEW m \in Mints PROVE WantedConfirmed(m)'
  <2>1. Wanted(m)' => buyer[m] \in {"added", "hung"} /\ (Dead(m) \/ pos[m].state \notin Unconfirmed)
    BY <1>4, ExitIsConfirmed DEF Orderly, WantedConfirmed
  <2>2. QED BY <1>1, <2>1 DEF Orderly, WantedConfirmed, Dead, Landed, chain
<1>6. QED BY <1>2, <1>3, <1>5 DEF Orderly

LEMMA OrderlyFallback ==
    ASSUME TypeOK, Evidence, Orderly, LandBy + 2 <= MaxHold, Fallback
    PROVE  Orderly'
<1>1. UNCHANGED <<age, buyer, confirmer, monitor, seller, cache, chain>>
  BY DEF Fallback, FallbackWakes, FallbackReadsBalance, FallbackConfirmsBuy, FallbackChecksBuy,
         FallbackEmits, FallbackSkips, FallbackFailsBuy, FallbackSweeps
<1>2. fallback.pc # "hung" /\ TableFree
  BY DEF Fallback, FallbackWakes, FallbackReadsBalance, FallbackConfirmsBuy, FallbackChecksBuy,
         FallbackEmits, FallbackSkips, FallbackFailsBuy, FallbackSweeps, Orderly,
         WedgedByFallback, TableFree
<1>3. \A m \in Mints : pos'[m] = pos[m] \/ pos'[m].state \in {"none", "Failed"}
  <2>1. CASE FallbackFailsBuy
    <3>1. fallback.mint \in Mints
      BY <2>1 DEF FallbackFailsBuy, TypeOK, FallbackState
    <3>2. \A m \in Mints : pos'[m] = pos[m] \/ pos'[m] = MarkFailed(pos[m])
      BY <2>1, <3>1 DEF FallbackFailsBuy, TypeOK
    <3>3. QED BY <3>2, PositionStates DEF TypeOK
  <2>2. CASE FallbackSweeps
    BY <2>2 DEF FallbackSweeps, NoPosition
  <2>3. QED BY <2>1, <2>2
    DEF Fallback, FallbackWakes, FallbackReadsBalance, FallbackConfirmsBuy, FallbackChecksBuy,
        FallbackEmits, FallbackSkips
<1>4. SaleBelieved'
  <2>1. CASE seller.pc \in {"size"} \cup Selling
    <3>1. seller.mint \in Mints
      BY <2>1, SellerAtWork
    <3>2. QED BY <1>1, <1>3, <2>1, <3>1 DEF Orderly, SaleBelieved, Selling
  <2>2. QED BY <1>1, <2>1 DEF SaleBelieved
<1>5. WedgedByFallback' /\ SellingHasExecutor'
  <2>1. WedgedByFallback'
    BY <1>2
    DEF Fallback, FallbackWakes, FallbackReadsBalance, FallbackConfirmsBuy, FallbackChecksBuy,
        FallbackEmits, FallbackSkips, FallbackFailsBuy, FallbackSweeps, WedgedByFallback,
        TableFree, TypeOK, FallbackState
  <2>2. \A m \in Mints : pos'[m].state = "Selling" => pos[m].state = "Selling"
    BY <1>3
  <2>3. QED BY <1>1, <2>1, <2>2 DEF Orderly, SellingHasExecutor, Executing
<1>6. ASSUME NEW m \in Mints PROVE SoonConfirmed(m)'
  <2>1. pos'[m].state \in Unconfirmed => pos'[m] = pos[m]
    BY <1>3 DEF Unconfirmed
  <2>2. QED BY <1>1, <1>2, <2>1 DEF Orderly, SoonConfirmed, Landed, chain
<1>7. ASSUME NEW m \in Mints PROVE Wanted(m)' => Wanted(m) \/ ExitDue(m)
  <2>1. CASE UNCHANGED signals
    BY <1>1, <2>1 DEF Wanted
  <2>2. ASSUME NEW n \in Mints, FallbackEmits(n) PROVE Wanted(m)' => Wanted(m) \/ ExitDue(m)
    <3>1. signals' = Append(signals, n) /\ signals \in Seq(Mints) /\ ExitDue(n)
      BY <2>2 DEF FallbackEmits, Emit, TypeOK
    <3>2. ASSUME NEW i \in 1 .. Len(signals'), signals'[i] = m
          PROVE  m = n \/ (i \in 1 .. Len(signals) /\ signals[i] = m)
      BY <3>1, <3>2
    <3>3. QED BY <1>1, <3>1, <3>2 DEF Wanted
  <2>3. QED BY <2>1, <2>2
    DEF Fallback, FallbackWakes, FallbackReadsBalance, FallbackConfirmsBuy, FallbackChecksBuy,
        FallbackSkips, FallbackFailsBuy, FallbackSweeps
<1>8. ASSUME NEW m \in Mints PROVE WantedConfirmed(m)'
  <2>1. Wanted(m)' => buyer[m] \in {"added", "hung"} /\ (Dead(m) \/ pos[m].state \notin Unconfirmed)
    BY <1>2, <1>7, ExitIsConfirmed DEF Orderly, WantedConfirmed
  <2>2. pos'[m].state \in Unconfirmed => pos[m].state \in Unconfirmed
    BY <1>3 DEF Unconfirmed
  <2>3. QED BY <1>1, <2>1, <2>2 DEF Orderly, WantedConfirmed, Dead, Landed, chain
<1>9. QED BY <1>4, <1>5, <1>6, <1>8 DEF Orderly

(* Once a mint is wanted no more, the rest of Orderly says nothing of it. *)
LEMMA WantedFades ==
    ASSUME Orderly, NEW m \in Mints,
           UNCHANGED <<age, buyer, buyTx>>,
           Wanted(m)' => Wanted(m),
           sellTxs'[m] # {} => sellTxs[m] # {} \/ (Wanted(m) /\ ~ Dead(m)),
           pos'[m].state \in Unconfirmed => pos[m].state \in Unconfirmed
    PROVE  WantedConfirmed(m)'
BY DEF Orderly, WantedConfirmed, Dead, Landed

(* A sale that is sized is the sale of an active position, at its own amount or *)
(* at the whole balance.                                                        *)
LEMMA SizesActive ==
    ASSUME TypeOK, Evidence, Orderly, SellerSizes
    PROVE  LET n == seller.mint IN
           \/ seller' = IdleSeller /\ UNCHANGED pos
           \/ /\ pos[n].state = "Active" /\ pos'[n].state = "Selling"
              /\ \A m \in Mints \ {n} : pos'[m] = pos[m]
              /\ seller'.pc = "send" /\ seller'.mint = n /\ seller'.previous = "Active"
              /\ seller'.amount > 0
              /\ seller'.left > 0 => seller'.amount = pos'[n].tokens
              /\ seller'.amount \in Amounts
<1> DEFINE n == seller.mint
<1>1. n \in Mints /\ seller.amount \in Amounts /\ seller.pc = "size"
  BY SellerAtWork DEF SellerSizes
<1>2. PICK balance \in SellerBalance(n) :
        LET amount == SaleSize(seller.amount, balance) IN
        IF amount > 0 /\ AcceptsSelling(pos[n])
        THEN /\ pos' = [pos EXCEPT ![n] = MarkSelling(@)]
             /\ seller' = [seller EXCEPT !.pc = "send", !.amount = amount,
                                         !.left = balance - amount]
        ELSE seller' = IdleSeller /\ UNCHANGED pos
  BY DEF SellerSizes
<1> DEFINE amount == SaleSize(seller.amount, balance)
<1>3. CASE ~ (amount > 0 /\ AcceptsSelling(pos[n]))
  BY <1>2, <1>3
<1>4. CASE amount > 0 /\ AcceptsSelling(pos[n])
  <2>1. balance \in Amounts /\ (balance > 0 => bought[n] > 0)
    BY SMTT(60), <1>1, <1>2, AutoSellAssumption
    DEF SellerBalance, RpcBalance, Evidence, BuyEvidence, Amounts, TypeOK
  <2>2. balance > 0 /\ amount \in Amounts
        /\ (balance - amount > 0 => amount = seller.amount)
    BY <1>1, <1>4, <2>1, AutoSellAssumption DEF SaleSize, Amounts
  <2>3. Landed(n)
    BY <1>1, <2>1, <2>2 DEF Evidence, BuyEvidence, Landed
  <2>4. pos[n].state \notin Unconfirmed
    BY <1>1, <2>3 DEF Orderly, WantedConfirmed, Wanted, Dead
  <2>5. pos[n].state = "Active" /\ seller.previous = "Active" /\ seller.amount = pos[n].tokens
    BY <1>1, <1>4, <2>4 DEF AcceptsSelling, Unconfirmed, Orderly, SaleBelieved
  <2> HIDE DEF amount
  <2>6. /\ pos' = [pos EXCEPT ![n] = MarkSelling(@)]
        /\ seller' = [seller EXCEPT !.pc = "send", !.amount = amount, !.left = balance - amount]
    BY <1>2, <1>4 DEF amount
  <2>7. /\ pos'[n].state = "Selling" /\ pos'[n].tokens = pos[n].tokens
        /\ \A m \in Mints \ {n} : pos'[m] = pos[m]
    BY <1>1, <1>4, <2>6 DEF TypeOK, MarkSelling, PositionRecord
  <2>8. /\ seller'.pc = "send" /\ seller'.mint = n /\ seller'.previous = "Active"
        /\ seller'.amount = amount /\ seller'.left = balance - amount
    BY <2>5, <2>6 DEF TypeOK, SellerState, SellerRecord
  <2>9. QED BY <1>4, <2>2, <2>5, <2>7, <2>8
<1>5. QED BY <1>3, <1>4

LEMMA OrderlySizes ==
    ASSUME TypeOK, Evidence, Orderly, SellerSizes
    PROVE  Orderly'
<1> DEFINE n == seller.mint
<1>1. /\ n \in Mints /\ seller.pc = "size"
      /\ UNCHANGED <<age, buyer, confirmer, fallback, monitor, signals, wedged, cache, chain>>
  BY SellerAtWork DEF SellerSizes
<1>2. \A m \in Mints : pos[m].state # "Selling"
  BY <1>1 DEF Orderly, SellingHasExecutor, Executing, Selling
<1>3. CASE seller' = IdleSeller /\ UNCHANGED pos
  <2>1. SellingHasExecutor' /\ SaleBelieved' /\ WedgedByFallback'
    BY <1>1, <1>2, <1>3
    DEF SellingHasExecutor, Executing, SaleBelieved, Orderly, WedgedByFallback, IdleSeller,
        RestingSeller, Selling
  <2>2. \A m \in Mints : SoonConfirmed(m)'
    BY <1>1, <1>3 DEF Orderly, SoonConfirmed, Landed, TableFree, chain
  <2>3. \A m \in Mints : WantedConfirmed(m)'
    BY <1>1, <1>3, WantedFades DEF Wanted, IdleSeller, RestingSeller, Selling, chain
  <2>4. QED BY <2>1, <2>2, <2>3 DEF Orderly
<1>4. CASE /\ pos[n].state = "Active" /\ pos'[n].state = "Selling"
           /\ \A m \in Mints \ {n} : pos'[m] = pos[m]
           /\ seller'.pc = "send" /\ seller'.mint = n /\ seller'.previous = "Active"
           /\ seller'.amount > 0
           /\ seller'.left > 0 => seller'.amount = pos'[n].tokens
           /\ seller'.amount \in Amounts
  <2>1. SaleBelieved'
    BY <1>4 DEF SaleBelieved, Amounts
  <2>2. SellingHasExecutor' /\ WedgedByFallback'
    BY <1>1, <1>2, <1>4 DEF SellingHasExecutor, Executing, Selling, Orderly, WedgedByFallback
  <2>3. \A m \in Mints : pos'[m].state \in Unconfirmed => pos'[m] = pos[m]
    BY <1>4 DEF Unconfirmed
  <2>4. \A m \in Mints : SoonConfirmed(m)'
    BY <1>1, <2>3 DEF Orderly, SoonConfirmed, Landed, TableFree, chain
  <2>5. \A m \in Mints : WantedConfirmed(m)'
    BY <1>1, <1>4, <2>3, WantedFades DEF Wanted, Selling, chain
  <2>6. QED BY <2>1, <2>2, <2>4, <2>5 DEF Orderly
<1>5. QED BY <1>3, <1>4, SizesActive

LEMMA OrderlySeller ==
    ASSUME TypeOK, Evidence, Orderly, Seller
    PROVE  Orderly'
<1>1. CASE SellerTakes
  <2> DEFINE n == Head(signals)
  <2>1. UNCHANGED <<pos, age, buyer, confirmer, fallback, monitor, wedged, cache, chain>>
        /\ seller.pc = "idle" /\ signals # <<>> /\ signals' = Tail(signals)
    BY <1>1 DEF SellerTakes
  <2>2. n \in Mints /\ n = signals[1] /\ Len(signals) \in Nat /\ Len(signals) >= 1
    BY <2>1 DEF TypeOK
  <2>3. seller'.pc \in {"size", "idle"} /\ (seller'.pc = "size" =>
             /\ seller'.mint = n /\ seller'.previous = pos[n].state
             /\ seller'.amount = pos[n].tokens)
    BY <1>1 DEF SellerTakes, IdleSeller, RestingSeller
  <2>4. SaleBelieved' /\ SellingHasExecutor' /\ WedgedByFallback'
    BY <2>1, <2>3
    DEF SaleBelieved, SellingHasExecutor, Executing, Selling, Orderly, WedgedByFallback
  <2>5. \A m \in Mints : SoonConfirmed(m)'
    BY <2>1 DEF Orderly, SoonConfirmed, Landed, TableFree, chain
  <2>6. ASSUME NEW m \in Mints PROVE Wanted(m)' => Wanted(m)
    <3>1. Wanted(n)
      BY <2>2 DEF Wanted
    <3>2. ASSUME NEW i \in 1 .. Len(signals'), signals'[i] = m
          PROVE  i + 1 \in 1 .. Len(signals) /\ signals[i + 1] = m
      BY <2>1, <3>2 DEF TypeOK
    <3>3. QED BY <2>1, <2>3, <3>1, <3>2 DEF Wanted, Selling
  <2>7. \A m \in Mints : WantedConfirmed(m)'
    BY <2>1, <2>6, WantedFades DEF chain
  <2>8. QED BY <2>4, <2>5, <2>7 DEF Orderly
<1>2. CASE SellerSizes
  BY <1>2, OrderlySizes
<1>3. CASE SellerSends \/ SellerCannotSend \/ SellerConfirms \/ SellerTimesOut \/ SellerExhausted
  <2>1. /\ UNCHANGED <<pos, age, buyer, confirmer, fallback, monitor, signals, wedged, cache,
                       buyTx, bought, wallet>>
        /\ seller.pc \in Selling /\ seller'.pc \in Selling
        /\ seller'.mint = seller.mint /\ seller'.previous = seller.previous
        /\ seller'.amount = seller.amount /\ seller'.left = seller.left
        /\ \A m \in Mints : m # seller.mint => sellTxs'[m] = sellTxs[m]
    BY <1>3
    DEF SellerSends, SellerCannotSend, SellerConfirms, SellerTimesOut, SellerExhausted, TypeOK,
        SellerState, SellerRecord, Selling, chain
  <2>2. SaleBelieved' /\ SellingHasExecutor' /\ WedgedByFallback'
    BY <2>1 DEF SaleBelieved, SellingHasExecutor, Executing, Selling, Orderly, WedgedByFallback
  <2>3. \A m \in Mints : SoonConfirmed(m)'
    BY <2>1 DEF Orderly, SoonConfirmed, Landed, TableFree
  <2>4. ASSUME NEW m \in Mints PROVE WantedConfirmed(m)'
    <3>1. m = seller.mint => Wanted(m) /\ ~ Dead(m)
      BY <2>1 DEF Wanted, Evidence, SellerEvidence, BuyEvidence, Dead, Landed
    <3>2. Wanted(m)' => Wanted(m)
      BY <2>1 DEF Wanted
    <3>3. UNCHANGED <<age, buyer, buyTx>>
      BY <2>1
    <3>4. sellTxs'[m] # {} => sellTxs[m] # {} \/ (Wanted(m) /\ ~ Dead(m))
      BY <2>1, <3>1
    <3>5. pos'[m].state \in Unconfirmed => pos[m].state \in Unconfirmed
      BY <2>1
    <3>6. QED BY <3>2, <3>3, <3>4, <3>5, WantedFades
  <2>5. QED BY <2>2, <2>3, <2>4 DEF Orderly
(* The attempt ends: the position is no longer Selling. *)
<1>4. ASSUME seller.pc \in Selling, seller'.pc \in {"idle", "hung"},
             UNCHANGED <<age, buyer, confirmer, fallback, monitor, signals, wedged, chain>>,
             pos'[seller.mint].state \notin Unconfirmed \cup {"Selling"},
             \A m \in Mints : m # seller.mint => pos'[m] = pos[m]
      PROVE  Orderly'
  <2>1. SellingHasExecutor' /\ SaleBelieved' /\ WedgedByFallback'
    BY <1>4 DEF SellingHasExecutor, Executing, SaleBelieved, Selling, Orderly, WedgedByFallback
  <2>2. \A m \in Mints : pos'[m].state \in Unconfirmed => pos'[m] = pos[m]
    BY <1>4
  <2>3. \A m \in Mints : SoonConfirmed(m)'
    BY <1>4, <2>2 DEF Orderly, SoonConfirmed, Landed, TableFree, chain
  <2>4. \A m \in Mints : WantedConfirmed(m)'
    BY <1>4, <2>2, WantedFades DEF Wanted, Selling, chain
  <2>5. QED BY <2>1, <2>3, <2>4 DEF Orderly
<1>5. CASE SellerSucceeds
  <2> DEFINE n == seller.mint
             p == pos[n]
  <2>1. /\ n \in Mints /\ seller.pc \in Selling /\ seller.left \in Nat
        /\ seller.amount \in Amounts /\ p \in PositionRecord
    BY <1>5, SellerAtWork DEF SellerSucceeds, Selling, TypeOK, Amounts
  <2>2. /\ seller.amount > 0 /\ p.state \in {"Selling", "Failed", "none"}
        /\ p.state = "Selling" /\ seller.left > 0 => seller.amount <= p.tokens
    BY <2>1 DEF Orderly, SaleBelieved
  <2>3. AfterSale(p).state \notin Unconfirmed \cup {"Selling"}
    <3>1. CASE seller.left = 0
      BY <2>1, <2>2, <3>1, PositionStates DEF AfterSale, Unconfirmed
    <3>2. CASE seller.left > 0 /\ p.state = "Selling"
      BY <2>2, <3>2 DEF AfterSale, ApplyPartialSell, Exists, Unconfirmed
    <3>3. CASE seller.left > 0 /\ p.state # "Selling"
      BY <2>1, <2>2, <3>3, PositionStates DEF AfterSale, Unconfirmed
    <3>4. QED BY <2>1, <3>1, <3>2, <3>3
  <2>4. pos'[n] = AfterSale(p) /\ \A m \in Mints : m # n => pos'[m] = pos[m]
    BY <1>5, <2>1 DEF SellerSucceeds, TypeOK
  <2>5. seller'.pc \in {"idle", "hung"}
    BY <1>5 DEF SellerSucceeds, RestingSeller, AfterSave
  <2>6. QED BY <1>4, <1>5, <2>1, <2>3, <2>4, <2>5 DEF SellerSucceeds
<1>6. CASE SellerFails
  <2> DEFINE n == seller.mint
  <2>1. n \in Mints /\ seller.pc \in Selling /\ seller.previous = "Active"
        /\ pos[n] \in PositionRecord
    BY <1>6, SellerAtWork DEF SellerFails, Selling, TypeOK, Orderly, SaleBelieved
  <2>2. RestoreAfterSellAttempt(pos[n], "Active").state \in {"none", "Active"}
    BY <2>1, PositionStates DEF PositionState, LiveStates
  <2>3. pos'[n].state \in {"none", "Active"} /\ \A m \in Mints : m # n => pos'[m] = pos[m]
    BY <1>6, <2>1, <2>2 DEF SellerFails, TypeOK
  <2>4. seller'.pc \in {"idle", "hung"}
    BY <1>6 DEF SellerFails, RestingSeller, AfterSave
  <2>5. QED BY <1>4, <1>6, <2>1, <2>3, <2>4 DEF SellerFails, Unconfirmed
<1>7. QED BY <1>1, <1>2, <1>3, <1>5, <1>6 DEF Seller

LEMMA OrderlyStep ==
    ASSUME RpcErrors = FALSE, Prompt, LandBy + 2 <= MaxHold, TypeOK, Evidence, Orderly, [Next]_vars
    PROVE  Orderly'
<1>1. CASE UNCHANGED vars
  BY <1>1 DEF vars, tasks, cache, chain, Orderly, SoonConfirmed, WantedConfirmed, WedgedByFallback,
              SaleBelieved, SellingHasExecutor, Executing, Wanted, Dead, Landed, TableFree
<1>2. CASE Next
  BY <1>2, OrderlyChain, OrderlyBuyer, OrderlyConfirmer, OrderlyTick, OrderlyMonitor,
     OrderlyFallback, OrderlySeller DEF Next
<1>3. QED BY <1>1, <1>2

THEOREM OrderlyHolds ==
    ASSUME RpcErrors = FALSE, Prompt, LandBy + 2 <= MaxHold
    PROVE  Spec => []Orderly
<1>1. TypeOK /\ Evidence /\ Orderly /\ [Next]_vars => Orderly'
  BY OrderlyStep
<1>2. QED BY <1>1, OrderlyInit, TypeCorrect, EvidenceHolds, PTL DEF Spec

-----------------------------------------------------------------------------
(* Where a buy also lands two ticks before the fallback monitor looks for it *)
(* and before the confirmer gives up, what the two find missing is missing   *)
(* for good.                                                                 *)

CheckedIsDead ==
    fallback.pc \in {"reading", "read"} =>
        Dead(fallback.mint) /\ (fallback.pc = "read" => ~ fallback.seen)

Answered(m) ==
    /\ confirmer[m].pc = "polled" /\ confirmer[m].signature = "unseen" /\ age[m] > LandBy
          => ~ Landed(m)
    /\ confirmer[m].pc \in {"poll", "polled", "found"}
          => pos[m].state \in {"none", "Confirming", "Failed"}
    /\ pos[m].state \notin {"Pending", "Submitted"}

(* A buy that may yet land has a position to land in. *)
Expected(m) ==
    (buyTx[m] = "inflight" /\ age[m] <= LandBy) \/ wallet[m] > 0
        => IsOpen(pos[m]) \/ buyer[m] = "sent"

SellerHasPosition == seller.pc \in Selling => pos[seller.mint].state = "Selling"

Timely ==
    /\ fallback.pc # "hung" /\ CheckedIsDead
    /\ \A m \in Mints : Answered(m) /\ Expected(m)
    /\ SellerHasPosition

(* A position stays in its state or takes a documented arrow. *)
Follows(m) == pos'[m].state # pos[m].state => <<pos[m].state, pos'[m].state>> \in Documented!Arrows

LEMMA TimelyInit == Init => Timely
BY DEF Init, Timely, CheckedIsDead, Answered, Expected, SellerHasPosition, NoPosition, IdleSeller,
       IdleFallback, RestingSeller, RestingConfirmer, ConfirmerAt, Selling

LEMMA ArrowsTaken ==
    /\ \A from \in {"Confirming", "Active", "Selling"} : <<from, "Failed">> \in Documented!Arrows
    /\ <<"Confirming", "Active">> \in Documented!Arrows
    /\ \A to \in {"Closed", "Active"} : <<"Selling", to>> \in Documented!Arrows
    /\ <<"Active", "Selling">> \in Documented!Arrows
BY DEF Documented!Arrows

(* Without a landed buy there is nothing in the wallet. *)
LEMMA DeadIsEmpty ==
    ASSUME TypeOK, Evidence, NEW m \in Mints, ~ Landed(m)
    PROVE  wallet[m] = 0 /\ bought[m] = 0 /\ pos[m].state \notin Holding
BY AutoSellAssumption DEF Evidence, BuyEvidence, Landed, TypeOK, Amounts

LEMMA TimelyFree == ASSUME Orderly, Timely PROVE TableFree
BY DEF Orderly, Timely, WedgedByFallback, TableFree

LEMMA TimelyChain ==
    ASSUME TypeOK, Evidence, Timely, NEW n \in Mints, Chain(n)
    PROVE  Timely' /\ \A m \in Mints : Follows(m)
<1>1. UNCHANGED <<pos, age, buyer, confirmer, fallback, monitor, seller, signals, wedged>>
  BY DEF Chain, LandBuy, FailBuy, LandSell, ExpireSell, AtaUpdate, tasks
<1>2. ASSUME NEW m \in Mints
      PROVE  /\ Landed(m)' => Landed(m) \/ (age[m] <= LandBy /\ buyTx[m] = "inflight")
             /\ buyTx'[m] = "inflight" => buyTx[m] = "inflight"
             /\ wallet'[m] > 0 => wallet[m] > 0 \/ (buyTx[m] = "inflight" /\ age[m] <= LandBy)
  <2>1. CASE LandBuy(n)
    BY <2>1 DEF LandBuy, Landed, TypeOK
  <2>2. CASE FailBuy(n)
    BY <2>2 DEF FailBuy, Landed, TypeOK
  <2>3. CASE LandSell(n)
    <3>1. PICK a \in sellTxs[n] : LandSell(n)!(a)
      BY <2>3 DEF LandSell
    <3>2. a \in Nat /\ wallet[m] \in Nat /\ wallet'[m] \in Nat /\ wallet'[m] <= wallet[m]
      BY <3>1 DEF TypeOK, Amounts
    <3>3. UNCHANGED buyTx
      BY <3>1
    <3>4. QED BY <3>2, <3>3 DEF Landed
  <2>4. CASE ExpireSell(n) \/ AtaUpdate(n)
    BY <2>4 DEF ExpireSell, AtaUpdate, Landed, chain
  <2>5. QED BY <2>1, <2>2, <2>3, <2>4 DEF Chain
<1>3. \A m \in Mints : Dead(m) => Dead(m)'
  BY <1>1, <1>2, AutoSellAssumption DEF Dead, TypeOK
<1>4. CheckedIsDead' /\ SellerHasPosition'
  BY <1>1, <1>3 DEF Timely, CheckedIsDead, SellerHasPosition, TypeOK, FallbackState
<1>5. ASSUME NEW m \in Mints PROVE Answered(m)' /\ Expected(m)'
  <2>1. age[m] \in Int /\ LandBy \in Int
    BY AutoSellAssumption DEF TypeOK
  <2>2. QED BY <1>1, <1>2, <2>1 DEF Timely, Answered, Expected
<1>6. QED BY <1>1, <1>4, <1>5 DEF Timely, Follows

LEMMA TimelyTick ==
    ASSUME TypeOK, Evidence, Timely, Tick
    PROVE  Timely' /\ \A m \in Mints : Follows(m)
<1>1. UNCHANGED <<pos, buyer, fallback, monitor, seller, signals, wedged, chain>>
  BY DEF Tick
<1>2. \A m \in Mints : age[m] \in Int /\ age'[m] \in Int /\ age[m] <= age'[m]
  BY AutoSellAssumption DEF Tick, TypeOK
<1>3. \A m \in Mints : confirmer'[m].pc = IF confirmer[m].pc = "polled" THEN "poll"
                                          ELSE confirmer[m].pc
  BY DEF Tick, TypeOK, ConfirmerState
<1>4. \A m \in Mints : Dead(m) => Dead(m)'
  BY <1>1, <1>2, AutoSellAssumption DEF Dead, Landed, chain
<1>5. CheckedIsDead' /\ SellerHasPosition'
  BY <1>1, <1>4 DEF Timely, CheckedIsDead, SellerHasPosition, TypeOK, FallbackState
<1>6. ASSUME NEW m \in Mints PROVE Answered(m)' /\ Expected(m)'
  BY <1>1, <1>2, <1>3, AutoSellAssumption DEF Timely, Answered, Expected, chain
<1>7. QED BY <1>1, <1>5, <1>6 DEF Timely, Follows

LEMMA TimelyBuyer ==
    ASSUME RpcErrors = FALSE, TypeOK, Evidence, Orderly, Timely, NEW n \in Mints, Buyer(n)
    PROVE  Timely' /\ \A m \in Mints : Follows(m)
<1>1. UNCHANGED <<age, fallback, monitor, seller, signals, wedged, bought, wallet, sellTxs>>
  BY DEF Buyer, BuySignal, SendBuy, SendBuyFails, AddPosition, chain
<1>2. /\ buyer[n] \notin {"added", "hung"}
      /\ \A m \in Mints \ {n} : /\ buyer'[m] = buyer[m] /\ buyTx'[m] = buyTx[m]
                                /\ confirmer'[m] = confirmer[m] /\ pos'[m] = pos[m]
  BY DEF Buyer, BuySignal, SendBuy, SendBuyFails, AddPosition, TypeOK, chain
<1>3. pos[n].state = "none"
  BY <1>2 DEF Evidence, SubscribedFirst, Exists
<1>4. /\ Landed(n)' => Landed(n)
      /\ pos'[n].state \in {"none", "Confirming"}
      /\ confirmer'[n] = confirmer[n] \/ confirmer'[n].pc # "polled"
      /\ buyTx'[n] = "inflight" \/ wallet[n] > 0 => IsOpen(pos'[n]) \/ buyer'[n] = "sent"
  <2>1. CASE BuySignal(n)
    BY <1>3, <2>1, DeadIsEmpty
    DEF BuySignal, TypeOK, Landed, Evidence, BuyEvidence, chain
  <2>2. CASE SendBuy(n)
    BY <1>3, <2>2 DEF SendBuy, TypeOK, Landed
  <2>3. CASE SendBuyFails(n)
    <3>1. buyTx'[n] = "none" /\ ~ Landed(n)
      BY <2>3 DEF SendBuyFails, TypeOK, Landed, Evidence, BuyEvidence
    <3>2. QED BY <1>3, <2>3, <3>1, DeadIsEmpty DEF SendBuyFails, Landed
  <2>4. CASE AddPosition(n)
    <3>1. pos'[n].state = "Confirming"
      BY <2>4, PositionStates DEF AddPosition, TypeOK
    <3>2. confirmer'[n] = confirmer[n] \/ confirmer'[n].pc = "poll"
      BY <2>4 DEF AddPosition, TypeOK, RestingConfirmer, ConfirmerAt
    <3>3. QED BY <2>4, <3>1, <3>2 DEF AddPosition, Landed, IsOpen, LiveStates, chain
  <2>5. QED BY <2>1, <2>2, <2>3, <2>4 DEF Buyer
<1>5. \A m \in Mints : Landed(m)' => Landed(m)
  BY <1>2, <1>4 DEF Landed
<1>6. CheckedIsDead'
  BY <1>1, <1>5 DEF Timely, CheckedIsDead, Dead, TypeOK, FallbackState
<1>7. SellerHasPosition'
  <2>1. seller.pc \in Selling => seller.mint \in Mints \ {n}
    BY <1>2, SellerAtWork DEF Evidence, SellerEvidence
  <2>2. QED BY <1>1, <1>2, <2>1 DEF Timely, SellerHasPosition
<1>8. ASSUME NEW m \in Mints PROVE Answered(m)' /\ Expected(m)' /\ Follows(m)
  <2>1. CASE m = n
    <3>1. Answered(n)'
      BY <1>1, <1>4 DEF Timely, Answered
    <3>2. Expected(n)'
      BY <1>1, <1>4 DEF Expected
    <3>3. Follows(n)
      BY <1>3, <1>4 DEF Follows, Documented!Arrows
    <3>4. QED BY <2>1, <3>1, <3>2, <3>3
  <2>2. CASE m # n
    BY <1>1, <1>2, <2>2 DEF Timely, Answered, Expected, Follows, Landed
  <2>3. QED BY <2>1, <2>2
<1>9. QED BY <1>1, <1>6, <1>7, <1>8 DEF Timely

LEMMA TimelyConfirmer ==
    ASSUME RpcErrors = FALSE, LandBy < ConfirmDeadline, TypeOK, Evidence, Timely,
           NEW n \in Mints, Confirmer(n)
    PROVE  Timely' /\ \A m \in Mints : Follows(m)
<1>1. UNCHANGED <<age, buyer, fallback, monitor, seller, signals, wedged, cache, chain>>
  BY DEF Confirmer, ConfirmerSeesCache, ConfirmerPolls, ConfirmerSeesFailure, ConfirmerGivesUp,
         FailConfirmation, ConfirmerReadsTransaction, ConfirmSuccess
<1>2. \A m \in Mints \ {n} : confirmer'[m] = confirmer[m] /\ pos'[m] = pos[m]
  BY DEF Confirmer, ConfirmerSeesCache, ConfirmerPolls, ConfirmerSeesFailure, ConfirmerGivesUp,
         FailConfirmation, ConfirmerReadsTransaction, ConfirmSuccess, TypeOK
<1>3. pos[n].state \in {"none", "Confirming", "Failed"}
  BY DEF Confirmer, ConfirmerSeesCache, ConfirmerPolls, ConfirmerSeesFailure, ConfirmerGivesUp,
         FailConfirmation, ConfirmerReadsTransaction, ConfirmSuccess, Polling, Timely, Answered
(* What the confirmer fails has no tokens and will have none. *)
<1>4. \/ /\ pos'[n] = pos[n] /\ confirmer'[n].pc \in {"found", "polled"}
         /\ confirmer'[n].pc = "polled" /\ confirmer'[n].signature = "unseen" => ~ Landed(n)
      \/ /\ pos'[n].state = IF pos[n].state = "none" THEN "none" ELSE "Failed"
         /\ ~ Landed(n) /\ (buyTx[n] = "inflight" => age[n] > LandBy)
         /\ confirmer'[n].pc \notin Polling \cup {"found"}
      \/ /\ pos'[n].state = IF pos[n].state = "Confirming" THEN "Active" ELSE pos[n].state
         /\ confirmer'[n].pc \notin Polling \cup {"found"}
  <2>1. CASE ConfirmerSeesCache(n) \/ ConfirmerReadsTransaction(n)
    BY <2>1 DEF ConfirmerSeesCache, ConfirmerReadsTransaction, ConfirmerFound, ConfirmerAt, TypeOK
  <2>2. CASE ConfirmerPolls(n)
    <3>1. PICK balance \in RpcBalance(n), status \in SignatureStatus(n) :
             confirmer' = [confirmer EXCEPT ![n] =
                IF balance > 0 THEN ConfirmerFound(balance)
                ELSE ConfirmerAt("polled", IF @.signature = "unseen" THEN status ELSE @.signature, 0)]
      BY <2>2 DEF ConfirmerPolls
    <3>2. Landed(n) => status = "confirmed"
      BY <3>1 DEF SignatureStatus, Status, Landed
    <3>3. \/ confirmer'[n].pc = "found"
          \/ /\ confirmer'[n].pc = "polled"
             /\ confirmer'[n].signature = "unseen" => status = "unseen"
      <4>1. CASE balance > 0
        BY <3>1, <4>1 DEF TypeOK, ConfirmerFound, ConfirmerAt
      <4>2. CASE ~ (balance > 0)
        BY <3>1, <4>2 DEF TypeOK, ConfirmerAt
      <4>3. QED BY <4>1, <4>2
    <3>4. QED BY <2>2, <3>2, <3>3 DEF ConfirmerPolls
  <2>3. CASE FailConfirmation(n) /\ ~ Landed(n) /\ (buyTx[n] = "inflight" => age[n] > LandBy)
    <3>1. pos'[n] = MarkFailed(pos[n]) /\ confirmer'[n].pc \in {"failed", "hung"}
      BY <2>3 DEF FailConfirmation, RestingConfirmer, ConfirmerAt, AfterSave, TypeOK
    <3>2. QED BY <2>3, <3>1, PositionStates DEF TypeOK, Polling
  <2>4. CASE ConfirmerSeesFailure(n)
    BY <2>3, <2>4 DEF ConfirmerSeesFailure, Landed
  <2>5. CASE ConfirmerGivesUp(n)
    <3>1. age[n] > LandBy
      BY <2>5, AutoSellAssumption DEF ConfirmerGivesUp, TypeOK
    <3>2. confirmer[n].signature = "unseen"
      BY <2>5 DEF ConfirmerGivesUp, TypeOK, ConfirmerState
    <3>3. QED BY <2>3, <2>5, <3>1, <3>2 DEF ConfirmerGivesUp, Timely, Answered
  <2>6. CASE ConfirmSuccess(n)
    <3>1. confirmer[n].balance \in Amounts
      BY DEF TypeOK, ConfirmerState, Polling
    <3>2. confirmer'[n].pc = "landed"
      BY <2>6 DEF ConfirmSuccess, TypeOK, RestingConfirmer, ConfirmerAt
    <3>3. pos'[n] = MarkActive(pos[n], confirmer[n].balance)
      BY <2>6 DEF ConfirmSuccess, TypeOK
    <3>4. QED BY <1>3, <3>1, <3>2, <3>3, PositionStates DEF TypeOK, Polling
  <2>7. QED BY <2>1, <2>2, <2>4, <2>5, <2>6 DEF Confirmer
<1>5. CheckedIsDead'
  BY <1>1 DEF Timely, CheckedIsDead, Dead, Landed, chain
<1>6. SellerHasPosition'
  BY <1>1, <1>2, <1>3, SellerAtWork DEF Timely, SellerHasPosition
<1>7. ASSUME NEW m \in Mints PROVE Answered(m)' /\ Expected(m)' /\ Follows(m)
  <2>1. CASE m = n
    <3>1. Answered(n)'
      BY <1>1, <1>3, <1>4 DEF Timely, Answered, Landed, chain, Polling
    <3>2. Expected(n)'
      <4>1. ~ Landed(n) => wallet[n] = 0
        BY DeadIsEmpty
      <4>2. age[n] > LandBy => ~ (age[n] <= LandBy)
        BY AutoSellAssumption DEF TypeOK
      <4>3. (buyTx[n] = "inflight" /\ age[n] <= LandBy) \/ wallet[n] > 0
              => IsOpen(pos'[n]) \/ buyer[n] = "sent"
        BY <1>3, <1>4, <4>1, <4>2 DEF Timely, Expected, IsOpen, LiveStates
      <4>4. QED BY <1>1, <4>3 DEF Expected, chain
    <3>3. Follows(n)
      <4>1. pos'[n].state # pos[n].state
              => pos[n].state = "Confirming" /\ pos'[n].state \in {"Failed", "Active"}
        BY <1>3, <1>4
      <4>2. QED BY <4>1, ArrowsTaken DEF Follows
    <3>4. QED BY <2>1, <3>1, <3>2, <3>3
  <2>2. CASE m # n
    BY <1>1, <1>2, <2>2 DEF Timely, Answered, Expected, Follows, Landed, chain
  <2>3. QED BY <2>1, <2>2
<1>8. QED BY <1>1, <1>5, <1>6, <1>7 DEF Timely

LEMMA TimelyFallback ==
    ASSUME RpcErrors = FALSE, LandBy + 2 <= ConfirmTimeout, TypeOK, Evidence, Orderly, Timely,
           Fallback
    PROVE  Timely' /\ \A m \in Mints : Follows(m)
<1>1. UNCHANGED <<age, buyer, confirmer, monitor, seller, cache, chain>>
  BY DEF Fallback, FallbackWakes, FallbackReadsBalance, FallbackConfirmsBuy, FallbackChecksBuy,
         FallbackEmits, FallbackSkips, FallbackFailsBuy, FallbackSweeps
<1>2. \A m \in Mints : Dead(m)' <=> Dead(m)
  BY <1>1 DEF Dead, Landed, chain
(* The position a check fails is Confirming, or gone. *)
<1>3. \A m \in Mints :
         \/ pos'[m] = pos[m]
         \/ Dead(m) /\ pos'[m].state = IF pos[m].state = "none" THEN "none" ELSE "Failed"
         \/ pos[m].state \in TerminalStates /\ pos'[m].state = "none"
  <2>1. CASE FallbackFailsBuy
    <3>1. fallback.mint \in Mints /\ Dead(fallback.mint)
      BY <2>1 DEF FallbackFailsBuy, TypeOK, FallbackState, Timely, CheckedIsDead
    <3>2. /\ pos'[fallback.mint] = MarkFailed(pos[fallback.mint])
          /\ \A m \in Mints \ {fallback.mint} : pos'[m] = pos[m]
      BY <2>1, <3>1 DEF FallbackFailsBuy, TypeOK
    <3>3. MarkFailed(pos[fallback.mint]).state =
             IF pos[fallback.mint].state = "none" THEN "none" ELSE "Failed"
      BY <3>1, PositionStates DEF TypeOK
    <3>4. QED BY <3>1, <3>2, <3>3
  <2>2. CASE FallbackSweeps
    BY <2>2 DEF FallbackSweeps, NoPosition
  <2>3. QED BY <2>1, <2>2
    DEF Fallback, FallbackWakes, FallbackReadsBalance, FallbackConfirmsBuy, FallbackChecksBuy,
        FallbackEmits, FallbackSkips
<1>4. \A m \in Mints : Dead(m) => pos[m].state \in {"none", "Confirming", "Failed"}
  <2> SUFFICES ASSUME NEW m \in Mints, Dead(m)
               PROVE  pos[m].state \in {"none", "Confirming", "Failed"}
    OBVIOUS
  <2>1. pos[m].state \notin Holding \cup {"Pending", "Submitted"}
    BY DeadIsEmpty DEF Dead, Timely, Answered
  <2>2. QED
    BY <2>1 DEF TypeOK, PositionRecord, PositionState, LiveStates, TerminalStates, Holding
<1>5. CheckedIsDead' /\ fallback'.pc # "hung"
  <2>1. ASSUME NEW n \in Mints, FallbackChecksBuy(n) PROVE CheckedIsDead' /\ fallback'.pc # "hung"
    <3>1. pos[n].state \in Unconfirmed /\ age[n] >= ConfirmTimeout /\ TableFree
      BY <2>1, TimelyFree DEF FallbackChecksBuy, NeedsConfirmCheck, Unconfirmed
    <3>2. age[n] \in Int /\ LandBy \in Int /\ ConfirmTimeout \in Int
      BY AutoSellAssumption DEF TypeOK
    <3>3. ~ Landed(n)
      BY <3>1, <3>2 DEF Orderly, SoonConfirmed
    <3>4. Dead(n)
      BY <3>1, <3>2, <3>3 DEF Dead
    <3>5. fallback'.pc = "reading" /\ fallback'.mint = n
      BY <2>1 DEF FallbackChecksBuy, TypeOK, FallbackState
    <3>6. QED BY <1>2, <3>4, <3>5 DEF CheckedIsDead
  <2>2. CASE FallbackReadsBalance
    <3>1. fallback.mint \in Mints /\ Dead(fallback.mint) /\ wallet[fallback.mint] = 0
      BY <2>2, DeadIsEmpty
      DEF FallbackReadsBalance, TypeOK, FallbackState, Timely, CheckedIsDead, Dead
    <3>2. PICK balance \in RpcBalance(fallback.mint) :
             fallback' = [fallback EXCEPT !.pc = "read", !.seen = balance > 0]
      BY <2>2 DEF FallbackReadsBalance
    <3>3. /\ fallback'.pc = "read" /\ fallback'.mint = fallback.mint
          /\ fallback'.seen = (balance > 0) /\ balance = 0
      BY <3>1, <3>2 DEF TypeOK, FallbackState, RpcBalance
    <3>4. ~ (balance > 0)
      BY <3>3
    <3>5. ~ fallback'.seen
      BY Zenon, <3>3, <3>4
    <3>6. QED BY <1>2, <3>1, <3>3, <3>5 DEF CheckedIsDead
  <2>3. ~ FallbackConfirmsBuy
    BY DEF FallbackConfirmsBuy, Timely, CheckedIsDead
  <2>4. CASE FallbackWakes \/ FallbackFailsBuy \/ FallbackSweeps
             \/ \E m \in Mints : FallbackEmits(m) \/ FallbackSkips(m)
    <3> USE DEF TypeOK, FallbackState
    <3>1. fallback'.pc \in {"scan", "sleep"}
      <4>1. CASE FallbackWakes
        BY <4>1 DEF FallbackWakes
      <4>2. CASE FallbackFailsBuy
        BY <4>2 DEF FallbackFailsBuy
      <4>3. CASE FallbackSweeps
        BY <4>3 DEF FallbackSweeps, IdleFallback
      <4>4. ASSUME NEW m \in Mints, FallbackEmits(m) \/ FallbackSkips(m)
            PROVE  fallback'.pc = "scan"
        BY <4>4 DEF FallbackEmits, FallbackSkips
      <4>5. QED BY <2>4, <4>1, <4>2, <4>3, <4>4
    <3>2. QED BY <3>1 DEF CheckedIsDead
  <2>5. QED BY <2>1, <2>2, <2>3, <2>4 DEF Fallback
<1>6. SellerHasPosition'
  <2>1. seller.pc \in Selling => seller.mint \in Mints /\ pos[seller.mint].state = "Selling"
    BY SellerAtWork DEF Timely, SellerHasPosition
  <2>2. \A m \in Mints : pos[m].state = "Selling" => pos'[m] = pos[m]
    BY <1>3, <1>4 DEF TerminalStates
  <2>3. QED BY <1>1, <2>1, <2>2 DEF SellerHasPosition
<1>7. ASSUME NEW m \in Mints PROVE Answered(m)' /\ Expected(m)' /\ Follows(m)
  <2>1. Answered(m)'
    BY <1>1, <1>3 DEF Timely, Answered, Landed, TerminalStates, chain
  <2>2. Expected(m)'
    <3>1. Dead(m) => wallet[m] = 0
      BY DeadIsEmpty DEF Dead
    <3>2. Dead(m) => ~ (age[m] <= LandBy)
      BY AutoSellAssumption DEF Dead, TypeOK
    <3>3. QED BY <1>1, <1>3, <3>1, <3>2
         DEF Timely, Expected, IsOpen, LiveStates, TerminalStates, chain
  <2>3. Follows(m)
    BY <1>3, <1>4 DEF Follows, Documented!Arrows, TerminalStates
  <2>4. QED BY <2>1, <2>2, <2>3
<1>8. QED BY <1>5, <1>6, <1>7 DEF Timely

LEMMA TimelyMonitor ==
    ASSUME Timely, Monitor PROVE Timely' /\ \A m \in Mints : Follows(m)
<1>1. UNCHANGED <<pos, age, buyer, confirmer, fallback, seller, chain>>
  BY DEF Monitor, MonitorChecks, MonitorEmits, MonitorPanics
<1>2. QED
  BY <1>1 DEF Timely, CheckedIsDead, Answered, Expected, SellerHasPosition, Dead, Landed, Follows,
              chain

(* What a sale does to a position is no concern of the other tasks. *)
LEMMA TimelySale ==
    ASSUME Timely, NEW n \in Mints, pos[n].state \in {"Active", "Selling"},
           UNCHANGED <<age, buyer, confirmer, fallback, buyTx, wallet>>,
           \A m \in Mints \ {n} : pos'[m] = pos[m],
           \/ pos'[n].state \in {"Active", "Selling"}
           \/ pos'[n].state = "Closed" /\ wallet[n] = 0 /\ buyTx[n] = "landed"
    PROVE  /\ fallback'.pc # "hung" /\ CheckedIsDead'
           /\ \A m \in Mints : Answered(m)' /\ Expected(m)'
<1>1. fallback'.pc # "hung" /\ CheckedIsDead'
  BY DEF Timely, CheckedIsDead, Dead, Landed
<1>2. ASSUME NEW m \in Mints PROVE Answered(m)' /\ Expected(m)'
  <2>1. CASE m # n
    BY <2>1 DEF Timely, Answered, Expected, Landed
  <2>2. CASE m = n
    <3>1. wallet[n] = 0 => ~ (wallet[n] > 0)
      OBVIOUS
    <3>2. QED BY <2>2, <3>1 DEF Timely, Answered, Expected, Landed, IsOpen, LiveStates
  <2>3. QED BY <2>1, <2>2
<1>3. QED BY <1>1, <1>2

LEMMA TimelySeller ==
    ASSUME TypeOK, Evidence, SoldEvidence, Orderly, Timely, Seller
    PROVE  Timely' /\ \A m \in Mints : Follows(m)
<1> DEFINE n == seller.mint
<1>1. UNCHANGED <<age, buyer, confirmer, fallback, buyTx, wallet>>
  BY DEF Seller, SellerTakes, SellerSizes, SellerSends, SellerCannotSend, SellerConfirms,
         SellerTimesOut, SellerExhausted, SellerSucceeds, SellerFails, chain
(* nothing is sold, or nothing yet *)
<1>2. ASSUME UNCHANGED pos, seller'.pc \in Selling => seller.pc \in Selling /\ seller'.mint = n
      PROVE  Timely' /\ \A m \in Mints : Follows(m)
  BY <1>1, <1>2
  DEF Timely, CheckedIsDead, Answered, Expected, SellerHasPosition, Dead, Landed, Follows
(* a sale begins or ends *)
<1>3. ASSUME n \in Mints, \A m \in Mints \ {n} : pos'[m] = pos[m],
             <<pos[n].state, pos'[n].state>> \in
                {<<"Active", "Selling">>, <<"Selling", "Active">>, <<"Selling", "Closed">>},
             pos'[n].state = "Closed" => wallet[n] = 0,
             seller'.pc \in Selling => seller'.mint = n /\ pos'[n].state = "Selling"
      PROVE  Timely' /\ \A m \in Mints : Follows(m)
  <2>1. pos[n].state \in {"Active", "Selling"} /\ pos'[n].state \in {"Active", "Selling", "Closed"}
    BY <1>3
  <2>2. buyTx[n] = "landed"
    BY <1>3, <2>1 DEF Evidence, BuyEvidence, Holding
  <2>3. /\ fallback'.pc # "hung" /\ CheckedIsDead'
        /\ \A m \in Mints : Answered(m)' /\ Expected(m)'
    BY <1>1, <1>3, <2>1, <2>2, TimelySale
  <2>4. SellerHasPosition'
    BY <1>3 DEF SellerHasPosition
  <2>5. \A m \in Mints : Follows(m)
    BY <1>3, ArrowsTaken DEF Follows
  <2>6. QED BY <2>3, <2>4, <2>5 DEF Timely
<1>4. CASE SellerTakes
  BY <1>2, <1>4 DEF SellerTakes, IdleSeller, RestingSeller, Selling
<1>5. CASE SellerSizes
  <2>1. n \in Mints
    BY <1>5, SellerAtWork DEF SellerSizes
  <2>2. CASE seller' = IdleSeller /\ UNCHANGED pos
    BY <1>2, <2>2 DEF IdleSeller, RestingSeller, Selling
  <2>3. CASE ~ (seller' = IdleSeller /\ UNCHANGED pos)
    <3>1. /\ pos[n].state = "Active" /\ pos'[n].state = "Selling"
          /\ \A m \in Mints \ {n} : pos'[m] = pos[m]
          /\ seller'.mint = n
      BY <1>5, <2>3, SizesActive
    <3>2. QED BY <1>3, <2>1, <3>1
  <2>4. QED BY <2>2, <2>3
<1>6. CASE SellerSends \/ SellerCannotSend \/ SellerConfirms \/ SellerTimesOut \/ SellerExhausted
  <2>1. UNCHANGED pos /\ seller.pc \in Selling /\ seller'.mint = n
    BY <1>6
    DEF SellerSends, SellerCannotSend, SellerConfirms, SellerTimesOut, SellerExhausted, TypeOK,
        SellerState, SellerRecord, Selling
  <2>2. QED BY <1>2, <2>1
<1>7. CASE SellerSucceeds
  <2>1. /\ n \in Mints /\ pos[n] \in PositionRecord /\ pos[n].state = "Selling"
        /\ seller.amount \in Nat /\ seller.left \in Nat /\ wallet[n] \in Nat
    BY <1>7, SellerAtWork
    DEF SellerSucceeds, Selling, Timely, SellerHasPosition, TypeOK, Amounts
  <2>2. seller.amount > 0 /\ (seller.left > 0 => seller.amount <= pos[n].tokens)
    BY <1>7, <2>1 DEF SellerSucceeds, Selling, Orderly, SaleBelieved
  <2>3. seller.left = 0 => wallet[n] = 0
    BY <1>7, <2>1 DEF SellerSucceeds, SoldEvidence, SaleEvidence
  <2>4. AfterSale(pos[n]).state = IF seller.left = 0 THEN "Closed" ELSE "Active"
    <3>1. CASE seller.left = 0
      BY <2>1, <3>1, PositionStates DEF AfterSale
    <3>2. CASE seller.left > 0
      BY <2>1, <2>2, <3>2 DEF AfterSale, ApplyPartialSell, Exists
    <3>3. QED BY <2>1, <3>1, <3>2
  <2>5. pos'[n] = AfterSale(pos[n]) /\ \A m \in Mints \ {n} : pos'[m] = pos[m]
    BY <1>7, <2>1 DEF SellerSucceeds, TypeOK
  <2>6. seller'.pc \notin Selling
    BY <1>7 DEF SellerSucceeds, RestingSeller, AfterSave, Selling
  <2>7. QED BY <1>3, <2>1, <2>3, <2>4, <2>5, <2>6
<1>8. CASE SellerFails
  <2>1. /\ n \in Mints /\ pos[n] \in PositionRecord /\ pos[n].state = "Selling"
        /\ seller.previous = "Active"
    BY <1>8, SellerAtWork
    DEF SellerFails, Selling, Timely, SellerHasPosition, TypeOK, Orderly, SaleBelieved
  <2>2. RestoreAfterSellAttempt(pos[n], "Active").state = "Active"
    BY <2>1, PositionStates DEF PositionState, LiveStates
  <2>3. pos'[n].state = "Active" /\ \A m \in Mints \ {n} : pos'[m] = pos[m]
    BY <1>8, <2>1, <2>2 DEF SellerFails, TypeOK
  <2>4. seller'.pc \notin Selling
    BY <1>8 DEF SellerFails, RestingSeller, AfterSave, Selling
  <2>5. QED BY <1>3, <2>1, <2>3, <2>4
<1>9. QED BY <1>4, <1>5, <1>6, <1>7, <1>8 DEF Seller

LEMMA TimelyStep ==
    ASSUME RpcErrors = FALSE, LandBy + 2 <= ConfirmTimeout, LandBy < ConfirmDeadline,
           TypeOK, Evidence, SoldEvidence, Orderly, Timely, [Next]_vars
    PROVE  Timely' /\ \A m \in Mints : Follows(m)
<1>1. CASE UNCHANGED vars
  BY <1>1 DEF vars, tasks, cache, chain, Timely, CheckedIsDead, Answered, Expected,
              SellerHasPosition, Dead, Landed, Follows
<1>2. CASE Next
  BY <1>2, TimelyChain, TimelyBuyer, TimelyConfirmer, TimelyTick, TimelyMonitor, TimelyFallback,
     TimelySeller DEF Next
<1>3. QED BY <1>1, <1>2

THEOREM TimelyHolds ==
    ASSUME RpcErrors = FALSE, Prompt, LandBy + 2 <= MaxHold, LandBy + 2 <= ConfirmTimeout,
           LandBy < ConfirmDeadline
    PROVE  Spec => []Timely
<1>1. TypeOK /\ Evidence /\ SoldEvidence /\ Orderly /\ Timely /\ [Next]_vars => Timely'
  BY TimelyStep
<1>2. QED BY <1>1, TimelyInit, TypeCorrect, EvidenceHolds, SoldEvidenceHolds, OrderlyHolds, PTL
      DEF Spec

(* Where calls answer in time and a buy lands two ticks before anything is    *)
(* decided about it, tokens in the wallet always belong to a position that    *)
(* is open, or about to be: no task writes a position off for good while its  *)
(* tokens are there.                                                          *)
THEOREM HeldTokensManagedHolds ==
    ASSUME RpcErrors = FALSE, Prompt, LandBy + 2 <= MaxHold, LandBy + 2 <= ConfirmTimeout,
           LandBy < ConfirmDeadline
    PROVE  Spec => []HeldTokensManaged
<1>1. Timely => HeldTokensManaged
  BY DEF Timely, Expected, HeldTokensManaged
<1>2. QED BY <1>1, TimelyHolds, PTL

(* Under the same conditions AutoSell implements Lifecycle: every step of     *)
(* every task takes each position along a documented arrow or leaves its      *)
(* state alone.                                                               *)
THEOREM FollowsLifecycleHolds ==
    ASSUME RpcErrors = FALSE, Prompt, LandBy + 2 <= MaxHold, LandBy + 2 <= ConfirmTimeout,
           LandBy < ConfirmDeadline
    PROVE  Spec => FollowsLifecycle
<1>1. Init => Documented!Init
  BY DEF Init, Documented!Init, NoPosition
<1>2. TypeOK /\ Evidence /\ SoldEvidence /\ Orderly /\ Timely /\ [Next]_vars
        => [Documented!Next]_([m \in Mints |-> pos[m].state])
  BY TimelyStep DEF Follows, Documented!Next
<1>3. QED
  BY <1>1, <1>2, TypeCorrect, EvidenceHolds, SoldEvidenceHolds, OrderlyHolds, TimelyHolds, PTL
  DEF Spec, FollowsLifecycle, Documented!Spec

=============================================================================
