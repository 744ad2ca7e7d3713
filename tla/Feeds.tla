------------------------------- MODULE Feeds -------------------------------
(***************************************************************************)
(* The scanner's live path (scanner/geyser.rs): one task per feed, which   *)
(* connects, decodes what its stream delivers, asks a cache shared by the  *)
(* feeds whether an event is new, and hands new events to the filter over  *)
(* two bounded channels.  The creation of a token waits for room; a buy    *)
(* that finds no room is dropped.  The filter may end, which ends the       *)
(* scanner.                                                                *)
(*                                                                         *)
(* An event is the creation of a token, named by the token, or a buy.      *)
(***************************************************************************)
EXTENDS Integers, FiniteSets, Sequences

CONSTANTS
    Feed,           \* the feeds of build_processed_endpoints
    Token,          \* tokens, each standing for the event of its creation
    Buy,            \* the buys
    TokenOf,        \* the token of a buy
    TTL,            \* SCANNER_DEDUP_TTL_MS
    CleanupEvery,   \* 30 s
    MaxKeys,        \* SCANNER_DEDUP_MAX_KEYS
    TokenRoom,      \* SCANNER_NEW_TOKEN_CHANNEL_CAPACITY
    BuyRoom,        \* SCANNER_BUY_CHANNEL_CAPACITY
    MaxLag,         \* within which the feeds have both checked an event
    MaxWait,        \* between reading the clock and holding the cache's lock
    MaxTime         \* bound: the clock

VARIABLES
    now,
    scanning,       \* start() has not returned
    work,           \* per feed: the event it hands on
    got,            \* per feed: the events it has received
    born,           \* per event one feed has received and another has not: when
    seen,           \* FastSeenCache.entries: last_seen_ms of each key
    cleaned,        \* FastSeenCache.last_cleanup_ms
    tokens, buys,   \* the channels
    source,         \* per event: the feeds that found it new
    entered,        \* the events put in a channel or dropped for want of room
    handed,         \* the tokens the filter has taken
    open            \* the filter holds the receivers

vars == <<now, scanning, work, got, born, seen, cleaned, tokens, buys, source, entered,
          handed, open>>

Event == Token \cup Buy
Never == -1
Idle  == "idle"

TypeOK ==
    /\ now \in 0..MaxTime /\ cleaned \in 0..MaxTime
    /\ scanning \in BOOLEAN
    /\ work \in [Feed -> Event \cup {Idle}]
    /\ got \in [Feed -> SUBSET Event]
    /\ born \in [Event -> 0..MaxTime \cup {Never}] /\ seen \in [Event -> 0..MaxTime \cup {Never}]
    /\ source \in [Event -> SUBSET Feed]
    /\ tokens \in Seq(Token) /\ Len(tokens) <= TokenRoom
    /\ buys \in Seq(Buy) /\ Len(buys) <= BuyRoom
    /\ entered \subseteq Event /\ handed \subseteq entered
    /\ open \in BOOLEAN

Init ==
    /\ now = 0 /\ cleaned = 0 /\ open = TRUE /\ scanning = TRUE
    /\ work = [f \in Feed |-> Idle] /\ got = [f \in Feed |-> {}]
    /\ born = [e \in Event |-> Never] /\ seen = [e \in Event |-> Never]
    /\ source = [e \in Event |-> {}]
    /\ tokens = <<>> /\ buys = <<>> /\ entered = {} /\ handed = {}

-----------------------------------------------------------------------------
channels == <<tokens, buys, entered, handed, open>>
cache    == <<seen, cleaned, source>>

(* Events.  A feed delivers each event once, in the order of the chain; what *)
(* passes while its task connects again it never delivers, which is like an  *)
(* event that does not come.                                                 *)

(* saturating_sub *)
Since(t, at) == IF at < t THEN 0 ELSE at - t

Known == {e \in Event : seen[e] # Never}

CleanupDue(at) == Since(cleaned, at) >= CleanupEvery \/ Cardinality(Known) > MaxKeys

(* as it would be with entries dropped at their time to live *)
RetainedBefore(at) == [e \in Event |-> IF e \in Known /\ Since(seen[e], at) < TTL
                                       THEN seen[e] ELSE Never]

Retained(at) == [e \in Event |-> IF e \in Known /\ Since(seen[e], at) <= TTL
                                 THEN seen[e] ELSE Never]

(* should_forward_live_event: the clock is read before the lock is taken, so *)
(* times may run backwards under it.                                         *)
Receive(f, e, at) ==
    /\ scanning /\ work[f] = Idle
    /\ e \notin got[f]
    /\ e \in Token => \A b \in got[f] \cap Buy : TokenOf[b] # e
    /\ now - at <= MaxWait
    /\ born[e] # Never => now - born[e] <= MaxLag
    /\ got' = [got EXCEPT ![f] = @ \cup {e}]
    /\ born' = [born EXCEPT ![e] = IF \A g \in Feed \ {f} : e \in got[g] THEN Never
                                  ELSE IF @ = Never THEN at ELSE @]
    /\ LET valid == IF CleanupDue(at) THEN Retained(at) ELSE seen
       IN  /\ seen' = [valid EXCEPT ![e] = at]
           /\ cleaned' = IF CleanupDue(at) THEN at ELSE cleaned
           /\ IF valid[e] = Never
              THEN /\ source' = [source EXCEPT ![e] = @ \cup {f}]
                   /\ work' = [work EXCEPT ![f] = e]
              ELSE UNCHANGED <<source, work>>
    /\ UNCHANGED <<now, scanning, channels>>

Handled(f) ==
    /\ entered' = entered \cup {work[f]}
    /\ work' = [work EXCEPT ![f] = Idle]
    /\ UNCHANGED <<now, scanning, got, born, cache, handed, open>>

(* as it would be over an unbounded channel *)
SendTokenBeyond(f) ==
    /\ work[f] \in Token /\ open
    /\ tokens' = Append(tokens, work[f])
    /\ Handled(f) /\ UNCHANGED buys

(* as it would be if a creation were dropped like a buy *)
SendTokenOrDrop(f) ==
    /\ work[f] \in Token /\ open
    /\ tokens' = IF Len(tokens) < TokenRoom THEN Append(tokens, work[f]) ELSE tokens
    /\ Handled(f) /\ UNCHANGED buys

(* dispatch_live_event: the creation of a token is written to two files and  *)
(* then waits for room.                                                      *)
SendToken(f) ==
    /\ work[f] \in Token /\ open
    /\ Len(tokens) < TokenRoom
    /\ tokens' = Append(tokens, work[f])
    /\ Handled(f) /\ UNCHANGED buys

(* dispatch_live_event: a buy that finds the channel full is counted and     *)
(* dropped; the cache keeps its key, so the other feed's copy is no help.    *)
SendBuy(f) ==
    /\ work[f] \in Buy /\ open
    /\ buys' = IF Len(buys) < BuyRoom THEN Append(buys, work[f]) ELSE buys
    /\ Handled(f) /\ UNCHANGED tokens

(* A send to a closed channel ends the task, and with it start() and every   *)
(* other feed's task, wherever it is.                                        *)
EndFeeds(f) ==
    /\ work[f] # Idle /\ ~open
    /\ scanning' = FALSE
    /\ work' = [g \in Feed |-> Idle]
    /\ UNCHANGED <<now, got, born, cache, channels>>

-----------------------------------------------------------------------------
(* The filter's end of the channels. *)

TakeToken ==
    /\ open /\ tokens # <<>>
    /\ handed' = handed \cup {Head(tokens)}
    /\ tokens' = Tail(tokens)
    /\ UNCHANGED <<now, scanning, work, got, born, cache, buys, entered, open>>

TakeBuy ==
    /\ open /\ buys # <<>>
    /\ buys' = Tail(buys)
    /\ UNCHANGED <<now, scanning, work, got, born, cache, tokens, entered, handed, open>>

(* filter::run returns and drops its receivers. *)
FilterEnds ==
    /\ open
    /\ open' = FALSE /\ tokens' = <<>> /\ buys' = <<>>
    /\ UNCHANGED <<now, scanning, work, got, born, cache, entered, handed>>

Elapse ==
    /\ now < MaxTime
    /\ now' = now + 1
    /\ UNCHANGED <<scanning, work, got, born, cache, channels>>

Step(f) == SendToken(f) \/ SendBuy(f) \/ EndFeeds(f)

Next ==
    \/ \E f \in Feed :
          \/ Step(f)
          \/ \E e \in Event, at \in 0..now : Receive(f, e, at)
    \/ TakeToken \/ TakeBuy \/ FilterEnds \/ Elapse

Spec == Init /\ [][Next]_vars

(* A task goes on with the event it handles, and the filter with its loop.   *)
FairSpec ==
    /\ Spec
    /\ \A f \in Feed : WF_vars(Step(f))
    /\ WF_vars(TakeToken) /\ WF_vars(TakeBuy)

-----------------------------------------------------------------------------
(* One feed only finds an event new, although two may read the clock in one  *)
(* order and take the lock in the other, and the cleanup forgets keys: the   *)
(* other's copy comes within the time to live of the first.                  *)
ForwardedOnce == \A e \in Event : Cardinality(source[e]) <= 1

(* A feed that has found both a token and a buy of it new does not let the   *)
(* buy overtake the token.  The other feed may: it goes on to the buy while  *)
(* the first still waits to hand the token over.                             *)
OrderKept ==
    \A b \in Buy \cap entered :
        source[b] \cap source[TokenOf[b]] # {} => TokenOf[b] \in entered

(* A token that was found new reaches the filter, while that runs, however   *)
(* full the channel is: no other copy of it would be let through.            *)
TokensReachFilter ==
    \A t \in Token : (source[t] # {}) ~> (t \in handed \/ ~open)

=============================================================================
