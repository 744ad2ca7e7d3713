------------------------------ MODULE Trading ------------------------------
(***************************************************************************)
(* The parts around the filter and the auto-sell manager: the feeds before *)
(* the filter, and what prices, routes and posts the orders after it, with *)
(* the exit rules and the guard of the process.  They share no state that  *)
(* both change, so each is checked on its own: `part` names the one that   *)
(* moves in a behaviour, and the others stay as they start.                *)
(***************************************************************************)
EXTENDS Integers, FiniteSets, Sequences

CONSTANTS
    \* Feeds
    Feed, Token, BuyEvent, TokenOf, DedupTTL, CleanupEvery, MaxKeys, TokenRoom, BuyRoom,
    MaxLag, MaxWait, FeedTime,
    \* TxSender
    Sends, Engines, Relay,
    \* ExecutionRouter
    Confidences, Urgencies, MaxReceipts, MaxConfirming,
    \* Quotes
    StartSol, StartTokens, Amounts, Slippages, MaxSol,
    \* RuntimeGuard
    Processes, MaxStarts,
    \* ExitRules
    Prices, StopLoss, TakeProfit, Trailing, MaxHold, ConfirmTimeout, MaxQueue, HoldTime

VARIABLES
    part,
    \* Feeds
    feedNow, scanning, work, got, born, seen, cleaned, tokenQueue, buyQueue, source, entered, handed,
    open,
    \* TxSender
    routes, sendStep, mode, tip, counter, posted, bundles, outcome,
    \* ExecutionRouter
    route, jito, receipts, feedback, confirming,
    \* Quotes
    solReserve, tokenReserve, cachedCurve, target, order, bought, spent,
    \* RuntimeGuard
    process, pid, tries, file, starts, overlapped,
    \* ExitRules
    follow, held, state, entry, highest, current, cachedPrice, updates, before, confirmer,
    signalled, wedged

feedVars  == <<feedNow, scanning, work, got, born, seen, cleaned, tokenQueue, buyQueue, source,
               entered, handed, open>>
sendVars  == <<routes, sendStep, mode, tip, counter, posted, bundles, outcome>>
routeVars == <<route, jito, receipts, feedback, confirming>>
quoteVars == <<solReserve, tokenReserve, cachedCurve, target, order, bought, spent>>
guardVars == <<process, pid, tries, file, starts, overlapped>>
exitVars  == <<follow, held, state, entry, highest, current, cachedPrice, updates, before,
               confirmer, signalled, wedged>>
vars      == <<part, feedVars, sendVars, routeVars, quoteVars, guardVars, exitVars>>

-----------------------------------------------------------------------------
Scanner == INSTANCE Feeds WITH
    Buy <- BuyEvent, TTL <- DedupTTL, MaxTime <- FeedTime, now <- feedNow, tokens <- tokenQueue,
    buys <- buyQueue

Sender == INSTANCE TxSender WITH step <- sendStep

Router == INSTANCE ExecutionRouter

Curve == INSTANCE Quotes WITH
    sol <- solReserve, tokens <- tokenReserve, cached <- cachedCurve, held <- bought

Guard == INSTANCE RuntimeGuard WITH step <- process

Rules == INSTANCE ExitRules WITH MaxTime <- HoldTime, cached <- cachedPrice

(* Tokens and buys are told apart, and the cache keeps a key for longer than *)
(* the feeds are apart: 120 s.  A third feed's clock may also be behind.     *)
ASSUME FeedsAssumption ==
    /\ Scanner!Idle \notin Token \cup BuyEvent
    /\ Token \cap BuyEvent = {}
    /\ TokenOf \in [BuyEvent -> Token]
    /\ {DedupTTL, MaxLag, MaxWait, FeedTime, TokenRoom, BuyRoom} \subseteq Nat
    /\ MaxLag + (IF \E f, g \in Feed : Feed = {f, g} THEN 0 ELSE MaxWait) <= DedupTTL

ASSUME GuardAssumption == MaxStarts \in Nat

ASSUME ExitAssumption == MaxQueue \in Nat /\ HoldTime \in Nat

ASSUME RouterAssumption == MaxReceipts \in Nat /\ MaxConfirming \in Nat

(* A new curve has reserves, and no later one has more than MaxSol.          *)
ASSUME QuotesAssumption ==
    /\ StartSol \in Nat \ {0} /\ StartTokens \in Nat \ {0}
    /\ MaxSol \in Nat /\ StartSol <= MaxSol
    /\ Amounts \subseteq Nat /\ Slippages \subseteq Nat

ASSUME SenderAssumption ==
    /\ Engines \in Seq({Engines[i] : i \in DOMAIN Engines})
    /\ Relay # Sender!NoUrl

(* No endpoint is configured twice, and there are more than what sends that  *)
(* overlap advance the counter by between two bundles: 2 at most for the     *)
(* first bundle, and 1 for the plain transaction of every other send.        *)
ASSUME SpreadAssumption ==
    /\ IsFiniteSet(Sends) /\ Cardinality(Sends) + 1 < Len(Sender!BundleUrls)
    /\ \A i, j \in DOMAIN Sender!BundleUrls :
          Sender!BundleUrls[i] = Sender!BundleUrls[j] => i = j

-----------------------------------------------------------------------------
Parts == {"feeds", "sender", "router", "quotes", "guard", "exits"}

(* A part that does not move starts in one of its initial states.            *)
Init ==
    /\ part \in Parts
    /\ Scanner!Init /\ Sender!Init /\ Router!Init /\ Curve!Init /\ Guard!Init /\ Rules!Init
    /\ part # "sender" => routes = [zero |-> FALSE, second |-> FALSE, jito |-> FALSE]
    /\ part # "router" => route = "rpc"
    /\ part # "exits"  =>
          LET price == CHOOSE p \in Prices : TRUE
          IN  entry = price /\ cachedPrice = price /\ ~follow

Next ==
    /\ UNCHANGED part
    /\ \/ /\ part = "feeds" /\ Scanner!Next
          /\ UNCHANGED <<sendVars, routeVars, quoteVars, guardVars, exitVars>>
       \/ /\ part = "sender" /\ Sender!Next
          /\ UNCHANGED <<feedVars, routeVars, quoteVars, guardVars, exitVars>>
       \/ /\ part = "router" /\ Router!Next
          /\ UNCHANGED <<feedVars, sendVars, quoteVars, guardVars, exitVars>>
       \/ /\ part = "quotes" /\ Curve!Next
          /\ UNCHANGED <<feedVars, sendVars, routeVars, guardVars, exitVars>>
       \/ /\ part = "guard" /\ Guard!Next
          /\ UNCHANGED <<feedVars, sendVars, routeVars, quoteVars, exitVars>>
       \/ /\ part = "exits" /\ Rules!Next
          /\ UNCHANGED <<feedVars, sendVars, routeVars, quoteVars, guardVars>>

Spec == Init /\ [][Next]_vars

(* A feed's task goes on with the event it handles, the filter with its loop *)
(* and the manager with its monitor, until that waits for itself.            *)
FairSpec ==
    /\ Spec
    /\ \A f \in Feed : WF_feedVars(part = "feeds" /\ Scanner!Step(f))
    /\ WF_feedVars(part = "feeds" /\ Scanner!TakeToken)
    /\ WF_feedVars(part = "feeds" /\ Scanner!TakeBuy)
    /\ WF_exitVars(part = "exits" /\ Rules!Monitor)

-----------------------------------------------------------------------------
(* The types of all parts.                                                   *)
TypeOK ==
    /\ part \in Parts
    /\ Scanner!TypeOK /\ Sender!TypeOK /\ Router!TypeOK /\ Curve!TypeOK /\ Guard!TypeOK
    /\ Rules!TypeOK

(* An event seen by two feeds is forwarded by one, and a feed's buy does not *)
(* overtake the creation of its token.                                       *)
ForwardedOnce == Scanner!ForwardedOnce /\ Scanner!OrderKept

(* A token found new is handed to the filter while that runs.                *)
TokensReachFilter == Scanner!TokensReachFilter

(* Every channel gets a transaction that pays it, each send is posted to all *)
(* channels of its route, and bundles are spread over the endpoints.         *)
TipsMatchChannels ==
    Sender!TipsMatchChannels /\ Sender!AllChannelsTried /\ Sender!BundlesSpread

(* One more failure never makes the next buy cheaper or narrower.            *)
FailuresEscalate == Router!FailuresEscalate

(* A buy asks for what its amount can pay for, and a round trip gains        *)
(* nothing.                                                                  *)
QuotesSound == Curve!AsksWhatItSpends /\ Curve!RoundTripLoses

(* Each step leaves one process running at most, and refuses none for nobody. *)
OneInstance == [][Guard!OneInstance' /\ Guard!RefusedForAnother]_guardVars

(* A position past its stop, its target or its time is offered for sale, or  *)
(* the one monitor of all positions waits for ever for a lock it holds.      *)
BreachSignalled == Rules!BreachSignalled /\ Rules!HoldLimited

=============================================================================
