---------------------------- MODULE FeedsProofs ----------------------------
(***************************************************************************)
(* What TLAPS proves of Feeds: for every number of feeds, tokens and buys, *)
(* channels of any room, and a cache cleaned at any time, an event is let  *)
(* through once and a token before its buys.                               *)
(***************************************************************************)
EXTENDS Feeds, FiniteSetTheorems, TLAPS

(* How far a later copy's clock may be behind the first one's.  With two     *)
(* feeds there is no third copy that could find the second's time in the     *)
(* cache.                                                                    *)
Skew == IF \E f, g \in Feed : Feed = {f, g} THEN 0 ELSE MaxWait

(* The time to live covers the feeds' lag.                                   *)
Settings ==
    /\ Idle \notin Event
    /\ Token \cap Buy = {}
    /\ TokenOf \in [Buy -> Token]
    /\ TTL \in Nat /\ MaxLag \in Nat /\ MaxWait \in Nat /\ MaxTime \in Nat
    /\ TokenRoom \in Nat /\ BuyRoom \in Nat
    /\ MaxLag + Skew <= TTL

(* What is waiting in the channel of the tokens has been put there.          *)
Shape == TypeOK /\ \A i \in 1..Len(tokens) : tokens[i] \in entered

(* The step of Receive by its parts                                          *)
Valid(at)   == IF CleanupDue(at) THEN Retained(at) ELSE seen
New(e, at)  == Valid(at)[e] = Never
Complete(f, e) == \A g \in Feed \ {f} : e \in got[g]

LEMMA Received ==
    ASSUME Settings, TypeOK, NEW f \in Feed, NEW e \in Event, NEW at \in 0..now, Receive(f, e, at)
    PROVE  /\ scanning /\ work[f] = Idle /\ e \notin got[f]
           /\ e \in Token => \A b \in got[f] \cap Buy : TokenOf[b] # e
           /\ now - at <= MaxWait
           /\ born[e] # Never => now - born[e] <= MaxLag
           /\ got' = [got EXCEPT ![f] = got[f] \cup {e}]
           /\ born' = [born EXCEPT ![e] = IF Complete(f, e) THEN Never
                                         ELSE IF born[e] = Never THEN at ELSE born[e]]
           /\ seen' = [Valid(at) EXCEPT ![e] = at]
           /\ cleaned' \in {at, cleaned}
           /\ source' = IF New(e, at) THEN [source EXCEPT ![e] = source[e] \cup {f}] ELSE source
           /\ work' = IF New(e, at) THEN [work EXCEPT ![f] = e] ELSE work
           /\ UNCHANGED <<now, scanning, tokens, buys, entered, handed, open>>
BY DEF Receive, Valid, New, Complete, channels, TypeOK

LEMMA ValidType ==
    ASSUME Settings, TypeOK, NEW at \in 0..now
    PROVE  /\ Valid(at) \in [Event -> 0..MaxTime \cup {Never}]
           /\ \A e \in Event : \/ Valid(at)[e] = seen[e]
                               \/ Valid(at)[e] = Never /\ at - seen[e] > TTL
<1>1. CASE ~ CleanupDue(at)
  BY <1>1 DEF Valid, TypeOK
<1>2. CASE CleanupDue(at)
  <2>1. Valid(at) = [e \in Event |-> IF e \in Known /\ Since(seen[e], at) <= TTL
                                    THEN seen[e] ELSE Never]
    BY <1>2 DEF Valid, Retained
  <2>2. \A e \in Event : seen[e] \in 0..MaxTime \cup {Never}
    BY DEF TypeOK
  <2>3. ASSUME NEW e \in Event, e \in Known, ~ Since(seen[e], at) <= TTL
        PROVE  at - seen[e] > TTL
    BY <2>2, <2>3 DEF Known, Since, Settings, TypeOK, Never
  <2>4. \A e \in Event : e \notin Known => seen[e] = Never
    BY DEF Known
  <2>5. QED BY <2>1, <2>2, <2>3, <2>4
<1>3. QED BY <1>1, <1>2

(* The same for each event and feed                                          *)
LEMMA ReceivedEach ==
    ASSUME Settings, TypeOK, NEW f \in Feed, NEW e \in Event, NEW at \in 0..now, Receive(f, e, at)
    PROVE  /\ \A x \in Event, g \in Feed : x \in got'[g] <=> (x = e /\ g = f) \/ x \in got[g]
           /\ \A x \in Event :
                 /\ born'[x] = IF x # e THEN born[x]
                               ELSE IF Complete(f, e) THEN Never
                               ELSE IF born[e] = Never THEN at ELSE born[e]
                 /\ seen'[x] = IF x = e THEN at ELSE Valid(at)[x]
                 /\ x = e /\ New(e, at) => source'[x] = source[x] \cup {f}
                 /\ x # e \/ ~ New(e, at) => source'[x] = source[x]
           /\ \A g \in Feed : work'[g] = IF g = f /\ New(e, at) THEN e ELSE work[g]
<1>1. \A x \in Event, g \in Feed : x \in got'[g] <=> (x = e /\ g = f) \/ x \in got[g]
  <2>1. got' = [got EXCEPT ![f] = got[f] \cup {e}]
    BY Received
  <2>2. QED BY <2>1 DEF TypeOK
<1>2. \A x \in Event : born'[x] = IF x # e THEN born[x]
                                 ELSE IF Complete(f, e) THEN Never
                                 ELSE IF born[e] = Never THEN at ELSE born[e]
  <2>1. born' = [born EXCEPT ![e] = IF Complete(f, e) THEN Never
                                    ELSE IF born[e] = Never THEN at ELSE born[e]]
    BY Received
  <2>2. QED BY <2>1 DEF TypeOK
<1>3. \A x \in Event : seen'[x] = IF x = e THEN at ELSE Valid(at)[x]
  <2>1. seen' = [Valid(at) EXCEPT ![e] = at]
    BY Received
  <2>2. Valid(at) \in [Event -> 0..MaxTime \cup {Never}]
    BY ValidType
  <2>3. QED BY <2>1, <2>2
<1>4. \A x \in Event : /\ x = e /\ New(e, at) => source'[x] = source[x] \cup {f}
                       /\ x # e \/ ~ New(e, at) => source'[x] = source[x]
  <2>1. source' = IF New(e, at) THEN [source EXCEPT ![e] = source[e] \cup {f}] ELSE source
    BY Received
  <2>2. QED BY <2>1 DEF TypeOK
<1>5. \A g \in Feed : work'[g] = IF g = f /\ New(e, at) THEN e ELSE work[g]
  <2>1. work' = IF New(e, at) THEN [work EXCEPT ![f] = e] ELSE work
    BY Received
  <2>2. QED BY <2>1 DEF TypeOK
<1>6. QED BY <1>1, <1>2, <1>3, <1>4, <1>5

LEMMA ShapeInit == ASSUME Settings, Init PROVE Shape
BY DEF Init, Shape, TypeOK, Settings, Never, Idle

LEMMA ShapeStep == ASSUME Settings, Shape, [Next]_vars PROVE Shape'
<1> USE DEF Shape
<1>1. CASE UNCHANGED vars
  BY <1>1 DEF vars, TypeOK
<1>2. ASSUME NEW f \in Feed, NEW e \in Event, NEW at \in 0..now, Receive(f, e, at) PROVE Shape'
  <2>1. at \in 0..MaxTime /\ Valid(at) \in [Event -> 0..MaxTime \cup {Never}]
    BY ValidType DEF TypeOK, Settings
  <2>2. /\ got' \in [Feed -> SUBSET Event] /\ born' \in [Event -> 0..MaxTime \cup {Never}]
        /\ seen' \in [Event -> 0..MaxTime \cup {Never}] /\ cleaned' \in 0..MaxTime
    <3>1. /\ got' = [got EXCEPT ![f] = got[f] \cup {e}]
          /\ seen' = [Valid(at) EXCEPT ![e] = at] /\ cleaned' \in {at, cleaned}
          /\ born' = [born EXCEPT ![e] = IF Complete(f, e) THEN Never
                                        ELSE IF born[e] = Never THEN at ELSE born[e]]
      BY <1>2, Received
    <3>2. got' \in [Feed -> SUBSET Event]
      BY <3>1 DEF TypeOK
    <3>3. born' \in [Event -> 0..MaxTime \cup {Never}]
      BY <2>1, <3>1 DEF TypeOK
    <3>4. QED BY <2>1, <3>1, <3>2, <3>3 DEF TypeOK
  <2>3. source' \in [Event -> SUBSET Feed] /\ work' \in [Feed -> Event \cup {Idle}]
    <3>1. /\ source' = IF New(e, at) THEN [source EXCEPT ![e] = source[e] \cup {f}] ELSE source
          /\ work' = IF New(e, at) THEN [work EXCEPT ![f] = e] ELSE work
      BY <1>2, Received
    <3>2. QED BY <3>1 DEF TypeOK
  <2>4. UNCHANGED <<now, scanning, tokens, buys, entered, handed, open>>
    BY <1>2, Received
  <2>5. QED BY <2>2, <2>3, <2>4 DEF TypeOK
<1>3. ASSUME NEW f \in Feed, SendToken(f) PROVE Shape'
  <2>1. /\ work[f] \in Token /\ tokens' = Append(tokens, work[f]) /\ Len(tokens) < TokenRoom
        /\ entered' = entered \cup {work[f]}
        /\ work' = [work EXCEPT ![f] = Idle]
        /\ UNCHANGED <<now, scanning, got, born, seen, cleaned, source, handed, open, buys>>
    BY <1>3 DEF SendToken, Handled, cache
  <2>2. tokens' \in Seq(Token) /\ Len(tokens') <= TokenRoom
    BY <2>1 DEF TypeOK, Settings
  <2>3. \A i \in 1..Len(tokens') : tokens'[i] \in entered'
    BY <2>1 DEF TypeOK
  <2>4. QED BY <2>1, <2>2, <2>3 DEF TypeOK, Event
<1>4. ASSUME NEW f \in Feed, SendBuy(f) PROVE Shape'
  <2>1. /\ work[f] \in Buy
        /\ buys' = IF Len(buys) < BuyRoom THEN Append(buys, work[f]) ELSE buys
        /\ entered' = entered \cup {work[f]}
        /\ work' = [work EXCEPT ![f] = Idle]
        /\ UNCHANGED <<now, scanning, got, born, seen, cleaned, source, handed, open, tokens>>
    BY <1>4 DEF SendBuy, Handled, cache
  <2>2. buys' \in Seq(Buy) /\ Len(buys') <= BuyRoom
    BY <2>1 DEF TypeOK, Settings
  <2>3. QED BY <2>1, <2>2 DEF TypeOK, Event
<1>5. ASSUME NEW f \in Feed, EndFeeds(f) PROVE Shape'
  BY <1>5 DEF EndFeeds, channels, cache, TypeOK
<1>6. CASE TakeToken
  <2>1. /\ Head(tokens) \in entered /\ tokens' \in Seq(Token) /\ Len(tokens') <= TokenRoom
        /\ \A i \in 1..Len(tokens') : tokens'[i] \in entered
    BY <1>6 DEF TakeToken, TypeOK, Settings
  <2>2. QED BY <1>6, <2>1 DEF TakeToken, TypeOK, cache
<1>7. CASE TakeBuy
  <2>1. buys' \in Seq(Buy) /\ Len(buys') <= BuyRoom
    BY <1>7 DEF TakeBuy, TypeOK, Settings
  <2>2. QED BY <1>7, <2>1 DEF TakeBuy, TypeOK, cache
<1>8. CASE FilterEnds \/ Elapse
  <2>1. <<>> \in Seq(Token) /\ <<>> \in Seq(Buy) /\ Len(<<>>) = 0
    OBVIOUS
  <2>2. CASE FilterEnds
    <3>1. /\ tokens' = <<>> /\ buys' = <<>> /\ open' = FALSE
          /\ UNCHANGED <<now, scanning, work, got, born, seen, cleaned, source, entered, handed>>
      BY <2>2 DEF FilterEnds, cache
    <3>2. /\ tokens' \in Seq(Token) /\ Len(tokens') <= TokenRoom
          /\ buys' \in Seq(Buy) /\ Len(buys') <= BuyRoom
          /\ \A i \in 1..Len(tokens') : tokens'[i] \in entered
      BY <2>1, <3>1 DEF Settings
    <3>3. open' \in BOOLEAN
      BY <3>1
    <3>4. QED BY <3>1, <3>2, <3>3 DEF TypeOK
  <2>3. CASE Elapse
    BY <2>3 DEF Elapse, TypeOK, channels, cache, Settings
  <2>4. QED BY <1>8, <2>2, <2>3
<1>9. QED BY <1>1, <1>2, <1>3, <1>4, <1>5, <1>6, <1>7, <1>8 DEF Next, Step

-----------------------------------------------------------------------------
(* Once.  While a copy of an event may still come, the cache holds its key,  *)
(* at a time from which the time to live covers the copy.                    *)

Due(e) == born[e] # Never /\ now - born[e] <= MaxLag

Once(e) ==
    /\ \A f \in source[e] : e \in got[f]
    /\ \A f, g \in source[e] : f = g
    /\ born[e] = Never => \A f, g \in Feed : e \in got[f] => e \in got[g]
    /\ born[e] # Never => born[e] <= now /\ \E f \in Feed : e \in got[f]
    /\ Due(e) => seen[e] # Never /\ seen[e] + Skew >= born[e]

LEMMA OnceInit == ASSUME Init PROVE \A e \in Event : Once(e)
BY DEF Init, Once, Due

(* No cleanup drops the key of an event that is due.                         *)
LEMMA KeyStays ==
    ASSUME Settings, TypeOK, NEW e \in Event, NEW at \in 0..now, Once(e), Due(e)
    PROVE  Valid(at)[e] = seen[e] /\ seen[e] # Never
<1>1. /\ seen[e] \in Int /\ born[e] \in Int /\ now \in Int /\ at <= now /\ at \in Int
      /\ Skew \in Int /\ TTL \in Int /\ MaxLag \in Int /\ MaxLag + Skew <= TTL
  BY DEF TypeOK, Settings, Never, Skew
<1>2. seen[e] # Never /\ seen[e] + Skew >= born[e] /\ now - born[e] <= MaxLag
  BY DEF Once, Due
<1>3. at - seen[e] <= TTL
  BY <1>1, <1>2
<1>4. QED BY <1>1, <1>2, <1>3, ValidType

LEMMA OnceStep ==
    ASSUME Settings, TypeOK, \A e \in Event : Once(e), [Next]_vars
    PROVE  \A e \in Event : Once(e)'
<1>1. CASE UNCHANGED <<now, got, born, seen, source>>
  BY <1>1 DEF Once, Due
<1>2. CASE Elapse
  <2>1. now' = now + 1 /\ UNCHANGED <<got, born, seen, source>>
    BY <1>2 DEF Elapse, cache
  <2>2. now \in Int /\ MaxLag \in Int /\ \A e \in Event : born[e] \in Int
    BY DEF TypeOK, Settings, Never
  <2>3. QED BY <2>1, <2>2 DEF Once, Due
<1>3. ASSUME NEW f \in Feed, NEW x \in Event, NEW at \in 0..now, Receive(f, x, at),
             NEW e \in Event
      PROVE  Once(e)'
  <2>1. /\ now \in Int /\ now <= MaxTime /\ born[e] \in Int /\ seen[e] \in Int /\ at \in Int /\ 0 <= at /\ at <= now
        /\ MaxWait \in Int /\ MaxLag \in Int /\ Skew \in Int /\ Skew >= 0
    BY DEF TypeOK, Settings, Never, Skew
  <2>2. UNCHANGED now
    BY <1>3, Received
  <2>3. CASE e # x
    <3>1. /\ born'[e] = born[e] /\ source'[e] = source[e] /\ seen'[e] = Valid(at)[e]
          /\ \A g \in Feed : e \in got'[g] <=> e \in got[g]
      <4>1. \A g \in Feed : e \in got'[g] <=> e \in got[g]
        BY <1>3, <2>3, ReceivedEach
      <4>2. born'[e] = born[e] /\ source'[e] = source[e] /\ seen'[e] = Valid(at)[e]
        BY <1>3, <2>3, ReceivedEach
      <4>3. QED BY <4>1, <4>2
    <3>2. Due(e) => seen'[e] = seen[e]
      BY <3>1, KeyStays
    <3>3. source[e] \subseteq Feed
      BY DEF TypeOK
    <3>4. QED BY <2>2, <3>1, <3>2, <3>3 DEF Once, Due
  <2>4. CASE e = x
    <3>1. /\ e \notin got[f] /\ now - at <= MaxWait /\ seen'[e] = at
          /\ \A g \in Feed : e \in got'[g] <=> g = f \/ e \in got[g]
          /\ born'[e] = IF Complete(f, e) THEN Never ELSE IF born[e] = Never THEN at ELSE born[e]
          /\ New(e, at) => source'[e] = source[e] \cup {f}
          /\ ~ New(e, at) => source'[e] = source[e]
          /\ born[e] # Never => Due(e)
      <4>1. /\ e \notin got[f] /\ now - at <= MaxWait
            /\ born[e] # Never => now - born[e] <= MaxLag
        BY <1>3, <2>4, Received
      <4>2. QED BY <1>3, <2>4, <4>1, ReceivedEach DEF Due
    <3>2. source[e] \subseteq Feed
      BY DEF TypeOK
    <3>3. CASE born[e] = Never
      <4>1. \A g \in Feed : e \notin got[g]
        BY <3>1, <3>3 DEF Once
      <4>2. source[e] = {}
        BY <3>2, <4>1 DEF Once
      <4>3. Complete(f, e) => \A g \in Feed : g = f
        BY <4>1 DEF Complete
      <4>4. source'[e] \subseteq {f}
        BY <3>1, <4>2
      <4>5. at # Never
        BY <2>1 DEF Never
      <4>6. QED BY <2>1, <2>2, <3>1, <3>3, <4>3, <4>4, <4>5 DEF Once, Due
    <3>4. CASE born[e] # Never
      <4>1. ~ New(e, at)
        BY <3>1, <3>4, KeyStays DEF New
      <4>2. source'[e] = source[e] /\ \A g \in source[e] : e \in got'[g]
        BY <3>1, <3>2, <4>1 DEF Once
      <4>3. PICK g \in Feed : e \in got[g]
        BY <3>4 DEF Once
      <4>4. born[e] <= now
        BY <3>4 DEF Once
      <4>5. CASE Complete(f, e)
        BY <2>2, <3>1, <4>2, <4>5 DEF Once, Due, Complete
      <4>6. CASE ~ Complete(f, e)
        <5>1. born'[e] = born[e]
          BY <3>1, <3>4, <4>6
        <5>2. ~ \E a, b \in Feed : Feed = {a, b}
          BY <3>1, <4>3, <4>6 DEF Complete
        <5>3. Skew = MaxWait
          BY <5>2 DEF Skew
        <5>4. at + Skew >= born[e] /\ at # Never
          BY <2>1, <3>1, <4>4, <5>3 DEF Never
        <5>5. QED BY <2>2, <3>1, <3>4, <4>2, <4>3, <4>4, <5>1, <5>4 DEF Once, Due
      <4>7. QED BY <4>5, <4>6
    <3>5. QED BY <3>3, <3>4
  <2>5. QED BY <2>3, <2>4
<1>4. UNCHANGED <<now, got, born, seen, source>> \/ Elapse
         \/ \E f \in Feed, x \in Event, at \in 0..now : Receive(f, x, at)
  BY DEF Next, vars, Step, SendToken, SendBuy, Handled, EndFeeds, TakeToken, TakeBuy, FilterEnds,
         cache
<1>5. QED BY <1>1, <1>2, <1>3, <1>4

-----------------------------------------------------------------------------
(* Order.  What a feed has found new, it has handed on or still handles, one  *)
(* event at a time, unless the scanner has ended.                             *)

InOrder ==
    /\ ~ scanning => \A f \in Feed : work[f] = Idle
    /\ \A f \in Feed, e \in Event :
          f \in source[e] => e \in entered \/ work[f] = e \/ ~ scanning
    /\ \A f \in Feed, b \in Buy :
          f \in source[b] /\ f \in source[TokenOf[b]] => TokenOf[b] \in entered

LEMMA InOrderInit == ASSUME Settings, Init PROVE InOrder
BY DEF Init, InOrder, Event, Settings

LEMMA InOrderStep ==
    ASSUME Settings, TypeOK, \A e \in Event : Once(e), InOrder, [Next]_vars
    PROVE  InOrder'
<1>1. CASE UNCHANGED <<scanning, work, source, entered>>
  BY <1>1 DEF InOrder
<1>2. ASSUME NEW f \in Feed, NEW e \in Event, NEW at \in 0..now, Receive(f, e, at)
      PROVE  InOrder'
  <2>1. CASE ~ New(e, at)
    <3>1. UNCHANGED <<scanning, work, source, entered>>
      BY <1>2, <2>1, Received
    <3>2. QED BY <3>1 DEF InOrder
  <2>2. CASE New(e, at)
    <3>1. /\ scanning /\ scanning' /\ work[f] = Idle /\ UNCHANGED entered
          /\ e \in Token => \A b \in got[f] \cap Buy : TokenOf[b] # e
          /\ source'[e] = source[e] \cup {f}
          /\ \A x \in Event : x # e => source'[x] = source[x]
          /\ \A g \in Feed : work'[g] = IF g = f THEN e ELSE work[g]
      <4>1. /\ scanning /\ work[f] = Idle /\ UNCHANGED <<scanning, entered>>
            /\ e \in Token => \A b \in got[f] \cap Buy : TokenOf[b] # e
        BY <1>2, Received
      <4>2. /\ source'[e] = source[e] \cup {f}
            /\ \A x \in Event : x # e => source'[x] = source[x]
        BY <1>2, <2>2, ReceivedEach
      <4>3. \A g \in Feed : work'[g] = IF g = f THEN e ELSE work[g]
        BY <1>2, <2>2, ReceivedEach
      <4>4. QED BY Zenon, <4>1, <4>2, <4>3
    (* the feed handles nothing now: what it had found new, it has handed on *)
    <3>2. \A x \in Event : f \in source[x] => x \in entered
      BY <3>1 DEF InOrder, Settings
    <3>3. \A x \in Event : f \in source[x] => x \in got[f]
      BY DEF Once
    <3>4. ASSUME NEW b \in Buy, f \in source'[b], f \in source'[TokenOf[b]]
          PROVE  TokenOf[b] \in entered
      <4>1. b \in Event /\ TokenOf[b] \in Event /\ TokenOf[b] \in Token /\ b \notin Token
        BY DEF Event, Settings
      <4>2. CASE TokenOf[b] = e
        <5>1. f \in source[b]
          BY <3>1, <3>4, <4>1, <4>2
        <5>2. QED BY <3>1, <3>3, <4>1, <4>2, <5>1
      <4>3. CASE TokenOf[b] # e
        BY <3>1, <3>2, <3>4, <4>1, <4>3
      <4>4. QED BY <4>2, <4>3
    <3>5. \A b \in Buy : b \in Event /\ TokenOf[b] \in Event
      BY DEF Event, Settings
    <3>6. QED BY <3>1, <3>2, <3>4, <3>5 DEF InOrder
  <2>3. QED BY <2>1, <2>2
<1>3. ASSUME NEW f \in Feed, SendToken(f) \/ SendBuy(f) PROVE InOrder'
  <2>1. /\ entered' = entered \cup {work[f]} /\ UNCHANGED <<scanning, source>>
        /\ \A g \in Feed : work'[g] = IF g = f THEN Idle ELSE work[g]
    BY <1>3 DEF SendToken, SendBuy, Handled, cache, TypeOK
  <2>2. QED BY <2>1 DEF InOrder
<1>4. ASSUME NEW f \in Feed, EndFeeds(f) PROVE InOrder'
  BY <1>4 DEF EndFeeds, InOrder, cache, channels
<1>5. UNCHANGED <<scanning, work, source, entered>>
         \/ (\E f \in Feed : SendToken(f) \/ SendBuy(f) \/ EndFeeds(f))
         \/ \E f \in Feed, x \in Event, at \in 0..now : Receive(f, x, at)
  BY DEF Next, vars, Step, TakeToken, TakeBuy, FilterEnds, Elapse, cache, channels
<1>6. QED BY <1>1, <1>2, <1>3, <1>4, <1>5

-----------------------------------------------------------------------------
FeedInv == Shape /\ (\A e \in Event : Once(e)) /\ InOrder

THEOREM FeedInvHolds == ASSUME Settings PROVE Spec => []FeedInv
<1>1. Init => FeedInv
  BY ShapeInit, OnceInit, InOrderInit DEF FeedInv
<1>2. FeedInv /\ [Next]_vars => FeedInv'
  BY ShapeStep, OnceStep, InOrderStep DEF FeedInv, Shape
<1>3. QED BY <1>1, <1>2, PTL DEF Spec

(* The channels hold no more than they have room for, and what the filter    *)
(* has taken went through them.                                              *)
THEOREM TypeCorrect == ASSUME Settings PROVE Spec => []TypeOK
<1>1. FeedInv => TypeOK
  BY DEF FeedInv, Shape
<1>2. QED BY <1>1, FeedInvHolds, PTL

(* should_forward_live_event lets one copy of an event through, whatever the *)
(* order of clocks and lock and whenever the cache is cleaned.               *)
THEOREM ForwardedOnceHolds == ASSUME Settings PROVE Spec => []ForwardedOnce
<1>1. FeedInv => ForwardedOnce
  <2> SUFFICES ASSUME FeedInv, NEW e \in Event PROVE Cardinality(source[e]) <= 1
    BY DEF ForwardedOnce
  <2>1. CASE source[e] = {}
    BY <2>1, FS_EmptySet
  <2>2. ASSUME NEW f \in source[e] PROVE Cardinality(source[e]) <= 1
    <3>1. source[e] = {f}
      BY <2>2 DEF FeedInv, Once
    <3>2. Cardinality(source[e]) = 1
      BY <3>1, FS_Singleton
    <3>3. QED BY <3>2
  <2>3. QED BY <2>1, <2>2
<1>2. QED BY <1>1, FeedInvHolds, PTL

(* A feed's task hands its events on one after another: a token it has found *)
(* new enters the channel before any of its buys that it has found new.      *)
THEOREM OrderKeptHolds == ASSUME Settings PROVE Spec => []OrderKept
<1>1. Settings /\ FeedInv => OrderKept
  <2> SUFFICES ASSUME Settings, FeedInv, NEW b \in Buy \cap entered,
                      source[b] \cap source[TokenOf[b]] # {}
      PROVE TokenOf[b] \in entered
    BY DEF OrderKept
  <2>1. PICK f : f \in source[b] /\ f \in source[TokenOf[b]]
    OBVIOUS
  <2>2. f \in Feed
    BY <2>1 DEF FeedInv, Shape, TypeOK, Event
  <2>3. QED BY <2>1, <2>2 DEF FeedInv, InOrder
<1>2. QED BY <1>1, FeedInvHolds, PTL

=============================================================================
