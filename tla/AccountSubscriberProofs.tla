---------------------- MODULE AccountSubscriberProofs ----------------------
(***************************************************************************)
(* What TLAPS proves of AccountSubscriber for every finite set of mints.   *)
(***************************************************************************)
EXTENDS AccountSubscriber, FiniteSetTheorems, TLAPS

LEMMA AccountsFinite ==
    ASSUME NEW S \in SUBSET Accounts
    PROVE  IsFiniteSet(S) /\ Cardinality(S) \in Nat
<1>1. IsFiniteSet(Kinds)
  <2>1. IsFiniteSet({"curve"}) /\ IsFiniteSet({"ata"})
    BY FS_Singleton
  <2>2. IsFiniteSet({"curve"} \cup {"ata"})
    BY <2>1, FS_Union
  <2>3. Kinds = {"curve"} \cup {"ata"}
    BY DEF Kinds
  <2>4. QED BY <2>2, <2>3
<1>2. IsFiniteSet(Accounts)
  BY <1>1, FS_Product, SubscriberAssumption DEF Accounts
<1>3. QED BY <1>2, FS_Subset, FS_CardinalityType

LEMMA TypeInit == ASSUME Init PROVE TypeOK
<1>1. Disconnected("check") \in StreamState
  BY DEF StreamState, Waiting
<1>2. cached \in [Accounts -> {"none", "stream", "rpc"}]
  BY DEF Init
<1>3. QED BY <1>1, <1>2 DEF Init, TypeOK, WorkAt

LEMMA TypeTracker == ASSUME TypeOK, Tracker PROVE TypeOK'
<1> USE DEF TypeOK
<1>1. ASSUME NEW m \in Mints, Track(m) PROVE TypeOK'
  BY <1>1 DEF Track, At, WorkAt, Resting, Kinds
<1>2. CASE Route
  BY <1>2 DEF Route, WorkAt, Resting, Tracked, Accounts
<1>3. CASE SubscribeAccount
  BY <1>3 DEF SubscribeAccount, WorkAt, Resting, Tracked, Accounts
<1>4. CASE Notify
  BY <1>4 DEF Notify, AfterTracking, WorkAt, Resting, At, Kinds
<1>5. QED BY <1>1, <1>2, <1>3, <1>4 DEF Tracker

LEMMA TypeUntracker == ASSUME TypeOK, Untracker PROVE TypeOK'
<1> USE DEF TypeOK
<1>1. ASSUME NEW m \in Mints, Untrack(m) PROVE TypeOK'
  BY <1>1 DEF Untrack, At, WorkAt, Resting, Kinds
<1>2. CASE Unroute
  BY <1>2 DEF Unroute, WorkAt, Resting, Untracked
<1>3. CASE Unsubscribe
  BY <1>3 DEF Unsubscribe, WorkAt, Resting, Untracked, At, Kinds
<1>4. CASE ForgetCurve
  BY <1>4 DEF ForgetCurve, WorkAt, Resting
<1>5. QED BY <1>1, <1>2, <1>3, <1>4 DEF Untracker

(* The steps of the subscriber, and of the server it listens to *)
StreamStep ==
    \/ Subscriber \/ Connect \/ Disconnect \/ ResubscribeFails
    \/ \E a \in Accounts : Receive(a)

(* In any state of the subscriber *)
StreamRecord ==
    [pc : Waiting \cup Linked, accounts : SUBSET Accounts, filter : SUBSET Accounts,
     count : Nat, held : SUBSET Accounts]

LEMMA StreamIsRecord == ASSUME TypeOK PROVE stream \in StreamRecord
<1>1. \A pc \in Waiting : Disconnected(pc) \in StreamRecord
  BY DEF Disconnected, StreamRecord
<1>2. QED BY <1>1 DEF TypeOK, StreamState, StreamRecord

LEMMA TypeStream == ASSUME TypeOK, StreamStep PROVE TypeOK'
<1>1. /\ Cardinality(subscribed) \in Nat
      /\ Cardinality(stream.accounts) \in Nat
  BY StreamIsRecord, AccountsFinite DEF TypeOK, StreamRecord
<1>2. /\ stream.pc \in Waiting => stream = Disconnected(stream.pc)
      /\ stream.pc \in Linked => stream \in [pc : Linked, accounts : SUBSET Accounts,
                                 filter : SUBSET Accounts, count : Nat, held : SUBSET Accounts]
  BY DEF TypeOK, StreamState, Disconnected, Waiting, Linked
<1>3. stream' \in StreamState
  <2> USE <1>1, <1>2 DEF StreamState, Waiting, Linked
  <2>1. CASE Check
    BY <2>1 DEF Check, Disconnected
  <2>2. CASE Doze \/ Wake \/ Reconnect
    <3>1. PICK pc \in Waiting : stream' = [stream EXCEPT !.pc = pc]
      BY <2>2 DEF Doze, Wake, Reconnect
    <3>2. stream = Disconnected(stream.pc)
      BY <2>2 DEF Doze, Wake, Reconnect
    <3>3. stream' = Disconnected(pc)
      BY <3>1, <3>2 DEF Disconnected
    <3>4. QED BY <3>3
  <2>3. CASE List
    <3>1. /\ stream = Disconnected("listing")
          /\ stream' = [stream EXCEPT !.pc = "connecting", !.accounts = subscribed]
      BY <2>3 DEF List
    <3>2. stream' = [pc |-> "connecting", accounts |-> subscribed, filter |-> {},
                     count |-> 0, held |-> {}]
      BY <3>1 DEF Disconnected
    <3>3. subscribed \in SUBSET Accounts
      BY DEF TypeOK
    <3>4. QED BY <3>2, <3>3
  <2>4. CASE Connect
    BY <2>4 DEF Connect
  <2>5. CASE Disconnect
    BY <2>5 DEF Disconnect
  <2>6. CASE Resubscribe \/ ResubscribeFails
    BY <2>6 DEF Resubscribe, ResubscribeFails, TypeOK
  <2>7. CASE Store
    BY <2>7 DEF Store
  <2>8. ASSUME NEW a \in Accounts, Receive(a) PROVE stream' \in StreamState
    BY <2>8 DEF Receive
  <2>9. QED BY <2>1, <2>2, <2>3, <2>4, <2>5, <2>6, <2>7, <2>8 DEF StreamStep, Subscriber
<1>4. cached' \in [Accounts -> {"none", "stream", "rpc"}] /\ permit' \in BOOLEAN
  BY DEF StreamStep, Subscriber, Check, Doze, Wake, List, Reconnect, Resubscribe, Store,
     Connect, Disconnect, ResubscribeFails, Receive, TypeOK
<1>5. UNCHANGED <<routed, subscribed, tracker, untracker, prefetching>>
  BY DEF StreamStep, Subscriber, Check, Doze, Wake, List, Reconnect, Resubscribe, Store,
     Connect, Disconnect, ResubscribeFails, Receive, Stays
<1>6. QED BY <1>3, <1>4, <1>5 DEF TypeOK

LEMMA TypeStep == ASSUME TypeOK, [Next]_vars PROVE TypeOK'
<1>1. ASSUME NEW m \in Mints, Prefetched(m) PROVE TypeOK'
  BY <1>1 DEF Prefetched, TypeOK, Accounts, Kinds, Curve
<1>2. CASE UNCHANGED vars
  BY <1>2 DEF vars, TypeOK
<1>3. QED BY <1>1, <1>2, TypeTracker, TypeUntracker, TypeStream DEF Next, StreamStep

(* The maps, the queue of one permit and the tasks stay within their types.  *)
THEOREM SubscriberTypeCorrect == Spec => []TypeOK
BY TypeInit, TypeStep, PTL DEF Spec

-----------------------------------------------------------------------------
(* untrack_mint leaves no curve behind that the stream has written: an        *)
(* update is stored while its account is tracked, and an account ceases to be *)
(* tracked only in the course of untrack_mint, which forgets the curve last.  *)

Tidy == HeldSubscribed /\ CurveForgotten

LEMMA TidyTracker == ASSUME TypeOK, Tidy, Tracker PROVE Tidy'
<1> USE DEF Tidy, HeldSubscribed, CurveForgotten
<1>1. ASSUME NEW m \in Mints, Track(m) PROVE Tidy'
  BY <1>1 DEF Track
<1>2. CASE Route
  BY <1>2 DEF Route
<1>3. CASE SubscribeAccount
  BY <1>3 DEF SubscribeAccount
<1>4. CASE Notify
  BY <1>4 DEF Notify
<1>5. QED BY <1>1, <1>2, <1>3, <1>4 DEF Tracker

LEMMA TidyUntracker == ASSUME TypeOK, Tidy, Untracker PROVE Tidy'
<1> USE DEF Tidy, HeldSubscribed, CurveForgotten, Curve
<1>1. ASSUME NEW m \in Mints, Untrack(m) PROVE Tidy'
  <2>1. untracker.mint \notin Mints /\ untracker'.mint = m
    BY <1>1, SubscriberAssumption DEF Untrack, At, Resting
  <2>2. \A n \in Mints : cached'[<<n, "curve">>] = cached[<<n, "curve">>]
    BY <1>1 DEF Untrack, TypeOK, Accounts, Kinds
  <2>3. QED BY <1>1, <2>1, <2>2 DEF Untrack
<1>2. CASE Unroute
  BY <1>2 DEF Unroute, TypeOK, WorkAt, Resting
<1>3. CASE Unsubscribe
  <2>1. untracker'.mint = untracker.mint /\ subscribed' = subscribed \ {Untracked}
        /\ UNCHANGED <<cached, stream>> /\ Untracked \notin stream.held
    BY <1>3 DEF Unsubscribe, TypeOK, WorkAt, Resting, At
  <2>2. QED BY <2>1 DEF Untracked
<1>4. CASE ForgetCurve
  <2>1. ASSUME NEW m \in Mints, cached'[<<m, "curve">>] = "stream"
        PROVE  <<m, "curve">> \in subscribed
    BY <1>4, <2>1 DEF ForgetCurve, TypeOK, Accounts, Kinds
  <2>2. QED BY <1>4, <2>1 DEF ForgetCurve
<1>5. QED BY <1>1, <1>2, <1>3, <1>4 DEF Untracker

LEMMA TidyStream == ASSUME TypeOK, Tidy, StreamStep PROVE Tidy'
<1>1. CASE Store
  BY <1>1, StreamIsRecord
  DEF Store, Stays, Tidy, HeldSubscribed, CurveForgotten, Curve, TypeOK, StreamRecord,
      Accounts, Kinds
<1>2. ASSUME NEW a \in Accounts, Receive(a) PROVE Tidy'
  BY <1>2, StreamIsRecord
  DEF Receive, Stays, Tidy, HeldSubscribed, CurveForgotten, StreamRecord
<1>3. ASSUME ~ Store, Subscriber \/ Connect \/ Disconnect \/ ResubscribeFails
      PROVE  Tidy'
  <2>1. UNCHANGED <<subscribed, untracker, cached>>
    BY <1>3 DEF Subscriber, Check, Doze, Wake, List, Reconnect, Resubscribe, Connect,
       Disconnect, ResubscribeFails, Stays
  <2>2. stream.held = {}
    BY <1>3 DEF Subscriber, Check, Doze, Wake, List, Reconnect, Resubscribe, Connect,
       Disconnect, ResubscribeFails, Tidy, HeldSubscribed
  <2>3. stream'.held = {}
    <3> USE <2>2, StreamIsRecord DEF StreamRecord
    <3>1. CASE Check \/ Doze \/ Wake \/ List \/ Reconnect
      BY <3>1 DEF Check, Doze, Wake, List, Reconnect
    <3>2. CASE Connect \/ Resubscribe \/ ResubscribeFails
      BY <3>2 DEF Connect, Resubscribe, ResubscribeFails
    <3>3. CASE Disconnect
      BY <3>3 DEF Disconnect, Disconnected
    <3>4. QED BY <1>3, <3>1, <3>2, <3>3 DEF Subscriber
  <2>4. QED BY <2>1, <2>3 DEF Tidy, HeldSubscribed, CurveForgotten
<1>4. QED BY <1>1, <1>2, <1>3 DEF StreamStep

LEMMA TidyStep == ASSUME TypeOK, Tidy, [Next]_vars PROVE Tidy'
<1>1. ASSUME NEW m \in Mints, Prefetched(m) PROVE Tidy'
  BY <1>1 DEF Prefetched, Tidy, HeldSubscribed, CurveForgotten, TypeOK, Accounts, Kinds, Curve
<1>2. CASE UNCHANGED vars
  BY <1>2 DEF vars, Tidy, HeldSubscribed, CurveForgotten
<1>3. QED BY <1>1, <1>2, TidyTracker, TidyUntracker, TidyStream DEF Next, StreamStep

(* No curve written by the stream outlives untrack_mint, whatever update is   *)
(* being handled meanwhile.                                                   *)
THEOREM CurveForgottenHolds == Spec => []CurveForgotten
<1>1. Init => Tidy
  BY DEF Init, Tidy, HeldSubscribed, CurveForgotten, Disconnected, Accounts, Curve, Kinds
<1>2. Tidy => CurveForgotten
  BY DEF Tidy
<1>3. QED BY <1>1, <1>2, TidyStep, SubscriberTypeCorrect, PTL DEF Spec

-----------------------------------------------------------------------------
(* The size that the timer compares is that of what the server sends, so that *)
(* where it equals that of what is tracked, the two miss as many of each       *)
(* other's accounts.                                                          *)

InStep ==
    stream.pc \in {"streaming", "handling"} =>
        stream.filter = stream.accounts /\ stream.count = Cardinality(stream.accounts)

LEMMA InStepStep == ASSUME TypeOK, InStep, [Next]_vars PROVE InStep'
<1>1. CASE Tracker \/ Untracker
  BY <1>1 DEF Tracker, Track, Route, SubscribeAccount, Notify, Untracker, Untrack, Unroute,
     Unsubscribe, ForgetCurve, InStep
<1>2. CASE StreamStep
  <2> USE StreamIsRecord DEF Stays, InStep, StreamRecord
  <2>1. CASE Check \/ Doze \/ Wake \/ List \/ Reconnect
    BY <2>1 DEF Check, Doze, Wake, List, Reconnect
  <2>2. CASE Connect
    BY <2>2 DEF Connect
  <2>3. CASE Disconnect
    BY <2>3 DEF Disconnect, Disconnected
  <2>4. CASE Resubscribe \/ ResubscribeFails
    BY <2>4 DEF Resubscribe, ResubscribeFails
  <2>5. CASE Store \/ \E a \in Accounts : Receive(a)
    BY <2>5 DEF Store, Receive
  <2>6. QED BY <1>2, <2>1, <2>2, <2>3, <2>4, <2>5 DEF StreamStep, Subscriber
<1>3. CASE (\E m \in Mints : Prefetched(m)) \/ UNCHANGED vars
  BY <1>3 DEF Prefetched, vars, InStep
<1>4. QED BY <1>1, <1>2, <1>3 DEF Next, StreamStep

(* Two sets of accounts of one size miss as many accounts of each other.      *)
LEMMA SameSize ==
    ASSUME NEW S \in SUBSET Accounts, NEW T \in SUBSET Accounts,
           Cardinality(S) = Cardinality(T)
    PROVE  Cardinality(S \ T) = Cardinality(T \ S)
<1>1. /\ Cardinality(S \ T) = Cardinality(S) - Cardinality(S \cap T)
      /\ Cardinality(T \ S) = Cardinality(T) - Cardinality(T \cap S)
  BY AccountsFinite, FS_Difference
<1>2. S \cap T = T \cap S
  OBVIOUS
<1>3. QED BY <1>1, <1>2

(* Whatever is tracked and untracked, on however many connections: where the  *)
(* timer finds nothing to do, an account it should follow is missing from the *)
(* server's filter only in exchange for one of the filter that was untracked. *)
THEOREM NewAccountsNoticedHolds == Spec => []NewAccountsNoticed
<1>1. Init => InStep
  BY DEF Init, InStep, Disconnected
<1>2. TypeOK /\ InStep => NewAccountsNoticed
  <2> SUFFICES ASSUME TypeOK, InStep, stream.pc = "streaming", ~ OutOfStep
               PROVE  Cardinality(subscribed \ stream.filter)
                          = Cardinality(stream.filter \ subscribed)
    BY DEF NewAccountsNoticed
  <2>1. Cardinality(subscribed) = Cardinality(stream.filter)
    BY DEF OutOfStep, InStep
  <2>2. subscribed \in SUBSET Accounts /\ stream.filter \in SUBSET Accounts
    BY StreamIsRecord DEF TypeOK, StreamRecord
  <2>3. QED BY <2>1, <2>2, SameSize
<1>3. TypeOK /\ InStep /\ [Next]_vars => InStep'
  BY InStepStep
<1>4. QED BY <1>1, <1>2, <1>3, SubscriberTypeCorrect, PTL DEF Spec

=============================================================================
