--------------------------- MODULE TradingProofs ---------------------------
(***************************************************************************)
(* What TLAPS proves of Trading: the feeds and the guard keep, in the      *)
(* composition, what has been proved of each alone; that of the exit       *)
(* rules, the quotes, the router and the sender is proved here.  A         *)
(* behaviour of the composition is, seen by a part, a behaviour of that    *)
(* part in which it may stand still.                                       *)
(***************************************************************************)
EXTENDS Trading, FiniteSetTheorems, WellFoundedInduction, TLAPS

ScannerT == INSTANCE FeedsProofs WITH
    Buy <- BuyEvent, TTL <- DedupTTL, MaxTime <- FeedTime, now <- feedNow, tokens <- tokenQueue,
    buys <- buyQueue

GuardT == INSTANCE RuntimeGuardProofs WITH step <- process

-----------------------------------------------------------------------------
(* What the feeds do in the composition they do in FeedsProofs.              *)
LEMMA SameFeeds == (Init => ScannerT!Init) /\ ([Next]_vars => [ScannerT!Next]_feedVars)
<1>1. Scanner!Init => ScannerT!Init
  BY DEF Scanner!Init, ScannerT!Init, Scanner!Idle, ScannerT!Idle, Scanner!Event, ScannerT!Event,
         Scanner!Never, ScannerT!Never
<1>2. Scanner!Next => ScannerT!Next
  BY DEF Scanner!Next, ScannerT!Next, Scanner!Step, ScannerT!Step, Scanner!SendToken,
         ScannerT!SendToken, Scanner!SendBuy, ScannerT!SendBuy, Scanner!Handled, ScannerT!Handled,
         Scanner!EndFeeds, ScannerT!EndFeeds, Scanner!Receive, ScannerT!Receive,
         Scanner!TakeToken, ScannerT!TakeToken, Scanner!TakeBuy, ScannerT!TakeBuy,
         Scanner!FilterEnds, ScannerT!FilterEnds, Scanner!Elapse, ScannerT!Elapse,
         Scanner!cache, ScannerT!cache, Scanner!channels, ScannerT!channels,
         Scanner!CleanupDue, ScannerT!CleanupDue, Scanner!Retained, ScannerT!Retained,
         Scanner!Known, ScannerT!Known, Scanner!Since, ScannerT!Since, Scanner!Never,
         ScannerT!Never, Scanner!Idle, ScannerT!Idle, Scanner!Event, ScannerT!Event,
         Scanner!Cardinality, ScannerT!Cardinality
<1>3. [Next]_vars => [Scanner!Next]_feedVars
  BY DEF Next, vars, feedVars
<1>4. QED BY <1>1, <1>2, <1>3 DEF Init

(* What the processes do in the composition they do in RuntimeGuardProofs.   *)
LEMMA SameGuard == (Init => GuardT!Init) /\ ([Next]_vars => [GuardT!Next]_guardVars)
<1>1. Guard!Init => GuardT!Init
  BY DEF Guard!Init, GuardT!Init, Guard!NoFile, GuardT!NoFile, Guard!NoPid, GuardT!NoPid
<1>2. Guard!Next => GuardT!Next
  BY DEF Guard!Next, GuardT!Next, Guard!Start, GuardT!Start, Guard!Create, GuardT!Create,
         Guard!Write, GuardT!Write, Guard!Check, GuardT!Check, Guard!Remove, GuardT!Remove,
         Guard!Exit, GuardT!Exit, Guard!Crash, GuardT!Crash, Guard!Goes, GuardT!Goes,
         Guard!Stale, GuardT!Stale, Guard!Alive, GuardT!Alive, Guard!Attempts, GuardT!Attempts,
         Guard!Starting, GuardT!Starting, Guard!NoFile, GuardT!NoFile, Guard!NoPid, GuardT!NoPid
<1>3. [Next]_vars => [Guard!Next]_guardVars
  BY DEF Next, vars, guardVars
<1>4. QED BY <1>1, <1>2, <1>3 DEF Init

-----------------------------------------------------------------------------
(* A quotient of integers is the greatest number that fits.                  *)
LEMMA Quotient ==
    ASSUME NEW a \in Nat, NEW b \in Nat \ {0}
    PROVE  /\ a \div b \in Nat
           /\ b * (a \div b) <= a
           /\ a < b * (a \div b) + b
OBVIOUS

(* Products are numbers, commute, keep the order, and distribute.            *)
LEMMA Ordered ==
    ASSUME NEW a \in Nat, NEW b \in Nat, NEW c \in Nat
    PROVE  /\ a * b \in Nat
           /\ a * b = b * a
           /\ a <= b => a * c <= b * c
           /\ a * c < b * c => a < b
           /\ a * (b + c) = a * b + a * c
OBVIOUS

(* A common factor can be left out of an inequality.                         *)
LEMMA Divided ==
    ASSUME NEW a \in Nat, NEW b \in Nat, NEW c \in Nat \ {0}, a * c <= b * c
    PROVE  a <= b
<1>1. (b + 1) * c = b * c + c
  OBVIOUS
<1>2. a * c \in Nat /\ b * c \in Nat
  BY Ordered
<1>3. a * c < (b + 1) * c
  BY <1>1, <1>2
<1>4. a < b + 1
  BY <1>3, Ordered
<1>5. QED BY <1>4

(* The parts' copies of Cardinality are that of FiniteSets.                  *)
LEMMA Counting ==
    \A S : Router!Cardinality(S) = Cardinality(S) /\ Sender!Cardinality(S) = Cardinality(S)
BY DEF Router!Cardinality, Sender!Cardinality, Cardinality

-----------------------------------------------------------------------------
(* The exit rules keep their types: prices come from the curve only.         *)
LEMMA RulesInit == ASSUME Rules!Init PROVE Rules!TypeOK
<1>1. <<>> \in Seq(Prices) /\ Len(<<>>) = 0
  OBVIOUS
<1>2. follow \in BOOLEAN /\ signalled \in BOOLEAN
  BY DEF Rules!Init
<1>3. QED BY <1>1, <1>2, ExitAssumption DEF Rules!Init, Rules!TypeOK, Rules!States

(* A position has the prices of the curve, at every step.                    *)
LEMMA RulesStep == ASSUME Rules!TypeOK, Rules!Next PROVE Rules!TypeOK'
<1> USE ExitAssumption DEF Rules!TypeOK, Rules!States, Rules!Put, Rules!Higher
<1>1. ASSUME NEW price \in Prices, Rules!Trade(price) PROVE Rules!TypeOK'
  BY <1>1 DEF Rules!Trade
<1>2. ASSUME NEW price \in Prices, Rules!Correct(price) PROVE Rules!TypeOK'
  BY <1>2 DEF Rules!Correct
<1>3. CASE Rules!Update
  BY <1>3 DEF Rules!Update
<1>4. CASE Rules!Confirmed
  BY <1>4 DEF Rules!Confirmed, Rules!Activate
<1>5. CASE Rules!Monitor
  <2>1. CASE Rules!LookUp
    BY <2>1 DEF Rules!LookUp
  <2>2. CASE Rules!Look
    BY <2>2 DEF Rules!Look
  <2>3. QED BY <1>5, <2>1, <2>2 DEF Rules!Monitor
<1>6. CASE Rules!Take
  BY <1>6 DEF Rules!Take
<1>7. CASE Rules!Elapse
  BY <1>7 DEF Rules!Elapse
<1>8. ASSUME NEW done \in BOOLEAN, Rules!Sold(done) PROVE Rules!TypeOK'
  BY <1>8 DEF Rules!Sold
<1>9. CASE Rules!OtherWedges
  BY <1>9 DEF Rules!OtherWedges
<1>10. QED BY <1>1, <1>2, <1>3, <1>4, <1>5, <1>6, <1>7, <1>8, <1>9 DEF Rules!Next

-----------------------------------------------------------------------------
(* Reserves of a curve that has been started.                                *)
Reserves == [sol : Nat \ {0}, tokens : Nat]

(* sol_to_token_quote gives less than all tokens, and no more than what      *)
(* keeps the product of the reserves.                                        *)
LEMMA Given ==
    ASSUME NEW c \in Reserves, NEW paid \in Nat
    PROVE  /\ Curve!TokensFor(c, paid) \in 0..c.tokens
           /\ Curve!TokensFor(c, paid) * (c.sol + paid) <= c.tokens * paid
           /\ c.tokens > 0 => Curve!TokensFor(c, paid) < c.tokens
<1> DEFINE a == Curve!TokensFor(c, paid)
<1>1. c.sol \in Nat \ {0} /\ c.tokens \in Nat /\ c.tokens * paid \in Nat
  BY Ordered DEF Reserves
<1>2. a = (c.tokens * paid) \div (c.sol + paid)
  BY <1>1 DEF Curve!TokensFor
<1>3. a \in Nat /\ (c.sol + paid) * a <= c.tokens * paid
  BY <1>1, <1>2, Quotient
<1>4. a * (c.sol + paid) <= c.tokens * paid
  BY <1>1, <1>3, Ordered
<1>5. paid * c.tokens <= (c.sol + paid) * c.tokens
  BY <1>1, Ordered
<1>6. c.tokens > 0 => a < c.tokens
  <2>1. SUFFICES ASSUME c.tokens > 0 PROVE a < c.tokens
    OBVIOUS
  <2>2. c.sol * c.tokens > 0
    BY <1>1, <2>1
  <2>3. c.tokens * (c.sol + paid) = c.tokens * c.sol + c.tokens * paid
    BY <1>1, Ordered
  <2>4. a * (c.sol + paid) < c.tokens * (c.sol + paid)
    BY <1>1, <1>3, <1>4, <2>2, <2>3, Ordered
  <2>5. QED BY <1>1, <1>3, <2>4, Ordered
<1>7. c.tokens = 0 => a = 0
  BY <1>1, <1>2, Quotient
<1>8. QED BY <1>1, <1>3, <1>4, <1>6, <1>7

(* CostOf is the least price at which the product of the reserves is kept.   *)
LEMMA Charged ==
    ASSUME NEW c \in Reserves, NEW n \in Nat, n < c.tokens
    PROVE  /\ Curve!CostOf(c, n) \in Nat
           /\ c.sol * n <= Curve!CostOf(c, n) * (c.tokens - n)
           /\ \A paid \in Nat : c.sol * n <= paid * (c.tokens - n)
                                   => Curve!CostOf(c, n) <= paid
<1> DEFINE left == c.tokens - n
           due  == c.sol * n
           cost == Curve!CostOf(c, n)
<1>1. c.sol \in Nat \ {0} /\ c.tokens \in Nat /\ due \in Nat /\ left \in Nat \ {0}
  BY Ordered DEF Reserves
<1>2. cost = (due + left - 1) \div left
  BY <1>1 DEF Curve!CostOf
<1>3. due + left - 1 \in Nat
  BY <1>1
<1> HIDE DEF left, due, cost
<1>4. cost \in Nat /\ left * cost <= due + left - 1 /\ due + left - 1 < left * cost + left
  BY <1>1, <1>2, <1>3, Quotient
<1>5. cost * left = left * cost /\ left * cost \in Nat
  BY <1>1, <1>4, Ordered
<1>6. due <= cost * left
  BY <1>1, <1>4, <1>5
<1>7. ASSUME NEW paid \in Nat, due <= paid * left PROVE cost <= paid
  <2>1. (paid + 1) * left = paid * left + left /\ paid * left \in Nat
    BY <1>1
  <2>2. cost * left < (paid + 1) * left
    BY <1>1, <1>4, <1>5, <1>7, <2>1
  <2>3. cost < paid + 1
    BY <1>1, <1>4, <2>2, Ordered
  <2>4. QED BY <1>4, <2>3
<1>8. QED BY <1>4, <1>6, <1>7 DEF left, due, cost

(* token_to_sol_quote pays no more than what keeps the product of the        *)
(* reserves.                                                                 *)
LEMMA Paid ==
    ASSUME NEW c \in Reserves, NEW sold \in Nat \ {0}
    PROVE  /\ Curve!SolFor(c, sold) \in 0..c.sol
           /\ Curve!SolFor(c, sold) * (c.tokens + sold) <= c.sol * sold
           /\ c.sol * c.tokens <= (c.sol - Curve!SolFor(c, sold)) * (c.tokens + sold)
<1> DEFINE s == Curve!SolFor(c, sold)
           all == c.tokens + sold
<1>1. c.sol \in Nat \ {0} /\ c.tokens \in Nat /\ c.sol * sold \in Nat /\ all \in Nat \ {0}
  BY Ordered DEF Reserves
<1>2. s \in Nat /\ all * s <= c.sol * sold
  <2>1. CASE c.tokens = 0
    BY <1>1, <2>1, Ordered DEF Curve!SolFor
  <2>2. CASE c.tokens # 0
    <3>1. s = (c.sol * sold) \div all
      BY <2>2 DEF Curve!SolFor
    <3> HIDE DEF s, all
    <3>2. QED BY <1>1, <3>1, Quotient
  <2>3. QED BY <2>1, <2>2
<1>3. s * all <= c.sol * sold
  BY <1>1, <1>2, Ordered
<1>4. c.sol * all = c.sol * c.tokens + c.sol * sold
  BY <1>1, Ordered
<1>5. sold * c.sol <= all * c.sol
  BY <1>1, Ordered
<1>6. s <= c.sol
  <2>1. s * all <= c.sol * all
    BY <1>1, <1>2, <1>3, <1>5, Ordered
  <2>2. QED BY <1>1, <1>2, <2>1, Divided
<1>7. (c.sol - s) * all + s * all = c.sol * all
  BY <1>1, <1>2, <1>6
<1>8. c.sol * c.tokens <= (c.sol - s) * all
  BY <1>1, <1>2, <1>3, <1>4, <1>7, Ordered
<1>9. QED BY <1>2, <1>3, <1>6, <1>8

(* A curve guessed from a quote q that p bought on the curve c: the tokens   *)
(* g laid over the start reserve s0 are no more, in proportion, than those   *)
(* of c.                                                                     *)
LEMMA GuessedTokens ==
    ASSUME NEW s0 \in Nat, NEW c \in Reserves,
           NEW p \in Nat \ {0}, NEW q \in Nat, q * (c.sol + p) <= c.tokens * p,
           NEW m \in Nat, p <= m, NEW g \in Nat, g * m <= s0 * q
    PROVE  g * (c.sol + p) <= s0 * c.tokens
<1> DEFINE s == c.sol
           t == c.tokens
<1>1. s \in Nat /\ t \in Nat
  BY DEF Reserves
<1>2. q * (s + p) <= t * p
  OBVIOUS
<1> HIDE DEF s, t
<1>3. g * p <= s0 * q
  <2>1. p * g <= m * g
    BY Ordered
  <2>2. QED BY <2>1, Ordered
<1>4. /\ g * p \in Nat /\ s0 * q \in Nat /\ q * (s + p) \in Nat /\ t * p \in Nat
      /\ g * (s + p) \in Nat /\ s0 * t \in Nat
  BY <1>1, Ordered
<1>5. (g * p) * (s + p) <= (s0 * q) * (s + p)
  BY <1>1, <1>3, <1>4, Ordered
<1>6. (q * (s + p)) * s0 <= (t * p) * s0
  BY <1>2, <1>4, Ordered
<1>7. /\ (g * p) * (s + p) = (g * (s + p)) * p
      /\ (s0 * q) * (s + p) = (q * (s + p)) * s0
      /\ (t * p) * s0 = (s0 * t) * p
  BY <1>1
<1>8. (g * (s + p)) * p <= (s0 * t) * p
  <2>1. /\ (g * p) * (s + p) \in Nat /\ (s0 * q) * (s + p) \in Nat /\ (t * p) * s0 \in Nat
    BY <1>1, <1>4, Ordered
  <2>2. QED BY <2>1, <1>5, <1>6, <1>7
<1>9. g * (s + p) <= s0 * t
  BY <1>4, <1>8, Divided
<1>10. QED BY <1>9 DEF s, t

(* So what r buys on the guessed curve, it buys on c.                        *)
LEMMA GuessedLow ==
    ASSUME NEW s0 \in Nat \ {0}, NEW c \in Reserves, s0 <= c.sol, NEW p \in Nat,
           NEW g \in Nat, g * (c.sol + p) <= s0 * c.tokens,
           NEW r \in Nat, NEW a \in Nat, a * (s0 + r) <= g * r
    PROVE  a * (c.sol + r) <= c.tokens * r
<1> DEFINE s == c.sol
           t == c.tokens
<1>1. s \in Nat /\ t \in Nat /\ s0 <= s
  BY DEF Reserves
<1>2. g * (s + p) <= s0 * t
  OBVIOUS
<1> HIDE DEF s, t
<1>3. /\ a * (s0 + r) \in Nat /\ g * r \in Nat /\ g * (s + p) \in Nat /\ s0 * t \in Nat
      /\ s0 * (s + r) \in Nat /\ (s0 + r) * (s + p) \in Nat
      /\ a * (s + r) \in Nat /\ t * r \in Nat
  BY <1>1, Ordered
<1>4. (a * (s0 + r)) * (s + p) <= (s0 * t) * r
  <2>1. (a * (s0 + r)) * (s + p) <= (g * r) * (s + p)
    BY <1>1, <1>3, Ordered
  <2>2. (g * (s + p)) * r <= (s0 * t) * r
    BY <1>2, <1>3, Ordered
  <2>3. (g * r) * (s + p) = (g * (s + p)) * r
    BY <1>1
  <2>4. (a * (s0 + r)) * (s + p) \in Nat /\ (g * r) * (s + p) \in Nat /\ (s0 * t) * r \in Nat
    BY <1>1, <1>3, Ordered
  <2>5. QED BY <2>1, <2>2, <2>3, <2>4
<1>5. s0 * (s + r) <= (s0 + r) * (s + p)
  <2>1. s0 * r <= s * r
    BY <1>1, Ordered
  <2>2. /\ (s0 + r) * (s + p) = s0 * s + s0 * p + r * s + r * p
        /\ s0 * (s + r) = s0 * s + s0 * r
    BY <1>1
  <2>3. s0 * p \in Nat /\ r * p \in Nat /\ r * s = s * r /\ s * r \in Nat /\ s0 * s \in Nat
    BY <1>1, Ordered
  <2>4. QED BY <1>1, <2>1, <2>2, <2>3
<1>6. (a * (s + r)) * s0 <= (t * r) * s0
  <2>1. (s0 * (s + r)) * a <= ((s0 + r) * (s + p)) * a
    BY <1>3, <1>5, Ordered
  <2>2. /\ (s0 * (s + r)) * a = (a * (s + r)) * s0
        /\ ((s0 + r) * (s + p)) * a = (a * (s0 + r)) * (s + p)
        /\ (s0 * t) * r = (t * r) * s0
    BY <1>1
  <2>3. /\ (s0 * (s + r)) * a \in Nat /\ ((s0 + r) * (s + p)) * a \in Nat /\ (s0 * t) * r \in Nat
    BY <1>1, <1>3, Ordered
  <2>4. QED BY <1>4, <2>1, <2>2, <2>3
<1>7. a * (s + r) <= t * r
  BY <1>3, <1>6, Divided
<1>8. QED BY <1>7 DEF s, t

(* What the reserves on chain can be.                                        *)
OnChain == [sol : StartSol..MaxSol, tokens : 1..StartTokens]

(* What the followed wallet asks for is what the curve gives for its amount. *)
Quoted(t, c) ==
    \E paid \in Nat \ {0} : paid <= t.max /\ t.tokens * (c.sol + paid) <= c.tokens * paid

(* The product of the reserves never falls below that of the start, so the   *)
(* reserve of SOL does not either; what the followed wallet and the buy ask  *)
(* for is what their amounts buy on the curve that was seen.                 *)
CurveInv ==
    /\ Curve!Curve \in OnChain
    /\ bought \in Nat /\ tokenReserve + bought <= StartTokens
    /\ StartSol * StartTokens <= solReserve * tokenReserve
    /\ cachedCurve \in OnChain \cup {Curve!NoCurve}
    /\ target \in [tokens : Nat, max : Nat]
    /\ order \in [asked : 0..StartTokens, max : Nat, spend : Nat,
                  seen : OnChain \cup {Curve!NoCurve}]
    /\ spent \in 0..MaxSol
    /\ target # Curve!NoTarget => order.seen \in OnChain
    /\ target # Curve!NoTarget /\ order.asked = 0 => Quoted(target, order.seen)
    /\ order.asked > 0 => target # Curve!NoTarget
    /\ order.asked > 1 => order.asked * (order.seen.sol + order.spend)
                             <= order.seen.tokens * order.spend

(* A new curve, and no order.                                                *)
LEMMA CurveInit == ASSUME Curve!Init PROVE CurveInv
BY Ordered, QuotesAssumption
DEF Curve!Init, CurveInv, OnChain, Curve!Curve, Curve!NoCurve, Curve!NoTarget, Curve!NoOrder

(* max_sol_cost is no less than the amount.                                  *)
LEMMA SlipAdds ==
    ASSUME NEW paid \in Nat, NEW slip \in Nat
    PROVE  Curve!MostPaid(paid, slip) \in Nat /\ paid <= Curve!MostPaid(paid, slip)
<1>1. paid * slip \in Nat
  BY Ordered
<1>2. (paid * slip) \div 100 \in Nat
  BY <1>1, Quotient
<1>3. QED BY <1>2 DEF Curve!MostPaid, Curve!Scale

(* A factor that is smaller on one side is greater on the other.             *)
LEMMA Shrunk ==
    ASSUME NEW a \in Nat, NEW b \in Nat \ {0}, NEW c \in Nat, NEW d \in 0..b, a * b <= c * d
    PROVE  a <= c
<1>1. d * c <= b * c /\ a * b \in Nat /\ c * d \in Nat /\ c * b \in Nat
  BY Ordered
<1>2. a * b <= c * b
  BY <1>1, Ordered
<1>3. QED BY <1>2, Divided

(* What the curve can be on chain are reserves.                              *)
LEMMA OnChainReserves == OnChain \subseteq Reserves
BY QuotesAssumption DEF OnChain, Reserves

(* Others buy: the product of the reserves does not shrink.                  *)
LEMMA OtherBuysStep ==
    ASSUME CurveInv, NEW paid \in Amounts, Curve!OtherBuys(paid)
    PROVE  CurveInv'
<1> DEFINE c == Curve!Curve
           a == Curve!TokensFor(c, paid)
<1>1. paid \in Nat /\ c \in Reserves /\ c.tokens > 0
      /\ c.sol = solReserve /\ c.tokens = tokenReserve
      /\ solReserve \in Nat /\ tokenReserve \in Nat
  BY OnChainReserves, QuotesAssumption DEF CurveInv, Curve!Curve, OnChain
<1>2. /\ a \in 0..c.tokens /\ a < c.tokens
      /\ a * (solReserve + paid) <= tokenReserve * paid
  BY <1>1, Given
<1>3. /\ solReserve + paid <= MaxSol
      /\ solReserve' = solReserve + paid
      /\ tokenReserve' = tokenReserve - a
      /\ UNCHANGED <<cachedCurve, target, order, bought, spent>>
  BY DEF Curve!OtherBuys
<1>4. solReserve * tokenReserve <= (solReserve + paid) * (tokenReserve - a)
  <2>1. (solReserve + paid) * (tokenReserve - a)
           = solReserve * tokenReserve + tokenReserve * paid - a * (solReserve + paid)
    BY <1>1, <1>2
  <2>2. tokenReserve * paid \in Nat /\ a * (solReserve + paid) \in Nat
        /\ solReserve * tokenReserve \in Nat
    BY <1>1, <1>2, Ordered
  <2>3. QED BY <1>2, <2>1, <2>2
<1> HIDE DEF a
<1>5. Curve!Curve' \in OnChain
  BY <1>1, <1>2, <1>3, QuotesAssumption DEF Curve!Curve, OnChain, CurveInv
<1>6. StartSol * StartTokens <= solReserve' * tokenReserve'
  <2>1. StartSol * StartTokens \in Nat /\ solReserve * tokenReserve \in Nat
        /\ solReserve' * tokenReserve' \in Nat
    BY <1>1, <1>2, <1>3, Ordered, QuotesAssumption
  <2>2. StartSol * StartTokens <= solReserve * tokenReserve
    BY DEF CurveInv
  <2>3. solReserve * tokenReserve <= solReserve' * tokenReserve'
    BY <1>3, <1>4
  <2>4. QED BY <2>1, <2>2, <2>3
<1>7. tokenReserve' + bought' <= StartTokens
  BY <1>1, <1>2, <1>3, QuotesAssumption DEF CurveInv
<1>8. QED BY <1>3, <1>5, <1>6, <1>7 DEF CurveInv

(* The others sell all they have, and the reserve of SOL does not fall       *)
(* below that of the start, since the product of the reserves has not        *)
(* shrunk.                                                                   *)
LEMMA OthersSellStep ==
    ASSUME CurveInv, Curve!OthersSell
    PROVE  CurveInv'
<1> DEFINE c == Curve!Curve
           sold == StartTokens - tokenReserve - bought
           s == Curve!SolFor(c, sold)
<1>1. c \in Reserves /\ c.sol = solReserve /\ c.tokens = tokenReserve
      /\ solReserve \in Nat \ {0} /\ tokenReserve \in Nat \ {0} /\ sold \in Nat \ {0}
      /\ solReserve <= MaxSol /\ StartSol \in Nat \ {0} /\ StartTokens \in Nat \ {0}
      /\ bought \in Nat
  BY OnChainReserves, QuotesAssumption DEF CurveInv, Curve!Curve, OnChain, Curve!OthersSell
<1>2. /\ solReserve' = solReserve - s
      /\ tokenReserve' = tokenReserve + sold
      /\ UNCHANGED <<cachedCurve, target, order, bought, spent>>
  BY DEF Curve!OthersSell
<1>3. /\ s \in 0..solReserve
      /\ solReserve * tokenReserve <= (solReserve - s) * (tokenReserve + sold)
  <2>1. /\ s \in 0..c.sol
        /\ c.sol * c.tokens <= (c.sol - s) * (c.tokens + sold)
    BY <1>1, Paid
  <2>2. QED BY <1>1, <2>1
<1> HIDE DEF s
<1>4. StartSol * StartTokens <= solReserve' * tokenReserve'
  <2>1. StartSol * StartTokens \in Nat /\ solReserve * tokenReserve \in Nat
        /\ solReserve' * tokenReserve' \in Nat
    BY <1>1, <1>2, <1>3, Ordered
  <2>2. StartSol * StartTokens <= solReserve * tokenReserve
    BY DEF CurveInv
  <2>3. solReserve * tokenReserve <= solReserve' * tokenReserve'
    BY <1>2, <1>3
  <2>4. QED BY <2>1, <2>2, <2>3
<1>5. tokenReserve' \in 1..StartTokens /\ tokenReserve' + bought <= StartTokens
  BY <1>1, <1>2
<1>6. solReserve' >= StartSol
  <2>1. solReserve' \in Nat
    BY <1>1, <1>2, <1>3
  <2>2. StartSol \in Nat /\ StartTokens \in Nat \ {0} /\ tokenReserve' \in 0..StartTokens
    BY <1>1, <1>5
  <2>3. StartSol <= solReserve'
    BY <1>4, <2>1, <2>2, Shrunk, Zenon
  <2>4. QED BY <2>1, <2>2, <2>3
<1>7. Curve!Curve' \in OnChain
  BY <1>1, <1>2, <1>3, <1>5, <1>6, QuotesAssumption DEF Curve!Curve, OnChain
<1>8. QED BY <1>2, <1>4, <1>5, <1>7 DEF CurveInv

(* The reserves of the curve, and what is assumed of the constants.          *)
LEMMA CurveTypes ==
    ASSUME CurveInv
    PROVE  /\ Curve!Curve \in Reserves /\ Curve!Curve.tokens > 0
           /\ Curve!Curve.sol = solReserve /\ Curve!Curve.tokens = tokenReserve
           /\ solReserve \in StartSol..MaxSol /\ tokenReserve \in 1..StartTokens
           /\ solReserve \in Nat \ {0} /\ tokenReserve \in Nat \ {0}
           /\ StartSol \in Nat \ {0} /\ StartTokens \in Nat \ {0} /\ MaxSol \in Nat
BY OnChainReserves, QuotesAssumption DEF CurveInv, Curve!Curve, OnChain

(* The cache gets the curve.                                                 *)
LEMMA ObserveStep == ASSUME CurveInv, Curve!Observe PROVE CurveInv'
BY DEF CurveInv, Curve!Observe, Curve!Curve

(* The followed transaction asks what its amount buys.                       *)
LEMMA FollowStep ==
    ASSUME CurveInv, NEW paid \in Amounts, NEW slip \in Slippages,
           Curve!Follow(paid, slip)
    PROVE  CurveInv'
<1> DEFINE q == Curve!TokensFor(Curve!Curve, paid)
<1>1. paid \in Nat /\ slip \in Nat
  BY QuotesAssumption
<1>2. /\ q \in Nat
      /\ q * (Curve!Curve.sol + paid) <= Curve!Curve.tokens * paid
  BY <1>1, CurveTypes, Given
<1>3. q > 0 /\ target = Curve!NoTarget
      /\ target' = [tokens |-> q, max |-> Curve!MostPaid(paid, slip)]
      /\ order' = [order EXCEPT !.seen = Curve!Curve]
      /\ UNCHANGED <<solReserve, tokenReserve, cachedCurve, bought, spent>>
  BY DEF Curve!Follow
<1>4. paid # 0
  <2>1. SUFFICES ASSUME paid = 0 PROVE FALSE
    OBVIOUS
  <2>2. Curve!Curve.tokens * paid = 0 /\ q * Curve!Curve.sol = q * (Curve!Curve.sol + paid)
    BY <2>1, CurveTypes
  <2>3. q * Curve!Curve.sol > 0
    BY <1>2, <1>3, CurveTypes
  <2>4. QED BY <1>2, <2>1, <2>2, <2>3, CurveTypes
<1>5. Curve!MostPaid(paid, slip) \in Nat /\ paid <= Curve!MostPaid(paid, slip)
  BY <1>1, SlipAdds
<1> HIDE DEF q
<1>6. target' \in [tokens : Nat, max : Nat]
  BY <1>2, <1>3, <1>5
<1>7. Curve!Curve \in OnChain /\ Curve!Curve' = Curve!Curve
  BY <1>3 DEF CurveInv, Curve!Curve
<1>8. order' \in [asked : 0..StartTokens, max : Nat, spend : Nat,
                   seen : OnChain \cup {Curve!NoCurve}]
      /\ order'.seen = Curve!Curve /\ order'.asked = order.asked /\ order.asked = 0
  BY <1>3, <1>7 DEF CurveInv
<1>9. Quoted(target', order'.seen)
  BY <1>1, <1>2, <1>3, <1>4, <1>5, <1>8 DEF Quoted
<1>10. QED BY <1>3, <1>6, <1>7, <1>8, <1>9 DEF CurveInv

(* What a buy asks, from the cache or guessed from the followed              *)
(* transaction, its amount buys on the curve that was seen.                  *)
LEMMA BuyStep ==
    ASSUME CurveInv, NEW paid \in Amounts, NEW slip \in Slippages,
           Curve!Buy(paid, slip)
    PROVE  CurveInv'
<1> DEFINE known == cachedCurve # Curve!NoCurve
           on  == IF known THEN cachedCurve ELSE order.seen
           asked == IF known THEN Curve!TokensFor(cachedCurve, paid)
                    ELSE Curve!FromTarget(target, paid)
<1>1. paid \in Nat /\ slip \in Nat /\ Curve!MostPaid(paid, slip) \in Nat
  BY SlipAdds, QuotesAssumption
<1>2. /\ target # Curve!NoTarget /\ order.asked = 0 /\ asked > 0
      /\ order' = [asked |-> asked, max |-> Curve!MostPaid(paid, slip), spend |-> paid,
                   seen |-> on]
      /\ UNCHANGED <<solReserve, tokenReserve, cachedCurve, target, bought, spent>>
  BY DEF Curve!Buy
<1>3. on \in OnChain
  BY <1>2 DEF CurveInv
<1>4. asked \in Nat /\ (asked > 1 => asked * (on.sol + paid) <= on.tokens * paid)
  <2>1. CASE known
    <3>1. cachedCurve \in Reserves
      BY <1>3, <2>1, OnChainReserves
    <3>2. QED BY <1>1, <2>1, <3>1, Given
  <2>2. CASE ~known
    <3>1. PICK p \in Nat \ {0} : p <= target.max /\ target.tokens * (on.sol + p) <= on.tokens * p
      BY <1>2, <2>2 DEF CurveInv, Quoted
    <3> DEFINE g == (StartSol * target.tokens) \div target.max
               a == Curve!TokensFor(Curve!TargetCurve(target), paid)
    <3>2. /\ StartSol \in Nat \ {0} /\ StartSol <= on.sol /\ on.sol \in Nat /\ on.tokens \in Nat
          /\ target.tokens \in Nat /\ target.max \in Nat \ {0} /\ target.max \in Nat
      BY <1>3, <3>1, QuotesAssumption DEF OnChain, CurveInv
    <3>3. StartSol * target.tokens \in Nat
      BY <3>2, Ordered
    <3>4. g \in Nat /\ target.max * g <= StartSol * target.tokens
      BY <3>2, <3>3, Quotient
    <3>5. g * target.max <= StartSol * target.tokens
      BY <3>2, <3>4, Ordered
    <3>6. Curve!TargetCurve(target) \in Reserves /\ Curve!TargetCurve(target).sol = StartSol
          /\ Curve!TargetCurve(target).tokens = g
      BY <3>2, <3>4 DEF Curve!TargetCurve, Reserves
    <3> HIDE DEF g
    <3>7. a \in Nat /\ a * (StartSol + paid) <= g * paid
      BY <1>1, <3>6, Given
    <3> HIDE DEF a, on
    <3>8. a * (on.sol + paid) <= on.tokens * paid
      <4>1. on \in Reserves /\ g * (on.sol + p) <= StartSol * on.tokens
        BY <1>3, <3>1, <3>2, <3>4, <3>5, OnChainReserves, GuessedTokens
      <4>2. QED BY <1>1, <3>1, <3>2, <3>4, <3>7, <4>1, GuessedLow
    <3>9. asked = IF a < 1 THEN 1 ELSE a
      BY <2>2 DEF Curve!FromTarget, Curve!AtLeastOne, a
    <3>10. QED BY <3>7, <3>8, <3>9
  <2>3. QED BY <2>1, <2>2
<1> HIDE DEF asked, on
<1>5. asked \in 0..StartTokens
  <2>1. StartTokens \in Nat \ {0}
    BY QuotesAssumption
  <2>2. CASE asked <= 1
    BY <1>4, <2>1, <2>2
  <2>3. CASE asked > 1
    <3>1. on.sol \in Nat \ {0} /\ on.tokens \in 1..StartTokens
      BY <1>3, QuotesAssumption DEF OnChain
    <3>2. on.sol + paid \in Nat \ {0} /\ paid * on.tokens <= (on.sol + paid) * on.tokens
      BY <1>1, <3>1, Ordered
    <3>3. asked * (on.sol + paid) <= on.tokens * (on.sol + paid)
      BY <1>1, <1>4, <2>3, <3>1, <3>2, Ordered
    <3>4. asked <= on.tokens
      BY <1>4, <3>1, <3>2, <3>3, Divided
    <3>5. QED BY <1>4, <2>1, <3>1, <3>4
  <2>4. QED BY <1>4, <2>2, <2>3
<1>6. order' \in [asked : 0..StartTokens, max : Nat, spend : Nat,
                   seen : OnChain \cup {Curve!NoCurve}]
      /\ order'.asked = asked /\ order'.seen = on /\ order'.spend = paid
  BY <1>1, <1>2, <1>3, <1>5
<1>7. Curve!Curve' = Curve!Curve
  BY <1>2 DEF Curve!Curve
<1>8. QED BY <1>2, <1>3, <1>4, <1>5, <1>6, <1>7 DEF CurveInv

(* The buy lands and pays what keeps the product of the reserves.            *)
LEMMA LandStep == ASSUME CurveInv, Curve!Land PROVE CurveInv'
<1> DEFINE a == order.asked
           cost == Curve!CostOf(Curve!Curve, a)
<1>1. a \in Nat \ {0} /\ a < tokenReserve /\ bought = 0 /\ solReserve + cost <= MaxSol
      /\ spent' = cost /\ bought' = a
      /\ solReserve' = solReserve + cost /\ tokenReserve' = tokenReserve - a
      /\ UNCHANGED <<cachedCurve, target, order>>
  BY DEF Curve!Land, CurveInv
<1>2. cost \in Nat /\ solReserve * a <= cost * (tokenReserve - a)
  <2>1. a < Curve!Curve.tokens /\ Curve!Curve \in Reserves /\ a \in Nat
    BY <1>1, CurveTypes
  <2>2. cost \in Nat /\ Curve!Curve.sol * a <= cost * (Curve!Curve.tokens - a)
    BY <2>1, Charged
  <2>3. QED BY <2>2, CurveTypes
<1> HIDE DEF cost, a
<1>3. solReserve * tokenReserve <= solReserve' * tokenReserve'
  <2>1. (solReserve + cost) * (tokenReserve - a)
            = solReserve * tokenReserve + cost * (tokenReserve - a) - solReserve * a
    BY <1>1, <1>2, CurveTypes
  <2>2. tokenReserve - a \in Nat
    BY <1>1, CurveTypes
  <2>3. cost * (tokenReserve - a) \in Nat /\ solReserve * a \in Nat
        /\ solReserve * tokenReserve \in Nat
    BY <1>1, <1>2, <2>2, CurveTypes, Ordered
  <2>4. QED BY <1>1, <1>2, <2>1, <2>3
<1>4. StartSol * StartTokens <= solReserve' * tokenReserve'
  <2>1. solReserve' \in Nat /\ tokenReserve' \in Nat
    BY <1>1, <1>2, CurveTypes
  <2>2. StartSol * StartTokens \in Nat /\ solReserve * tokenReserve \in Nat
        /\ solReserve' * tokenReserve' \in Nat
    BY <2>1, CurveTypes, Ordered
  <2>3. QED BY <1>3, <2>2 DEF CurveInv
<1>5. Curve!Curve' \in OnChain
  BY <1>1, <1>2, CurveTypes DEF OnChain, Curve!Curve
<1>6. bought' \in Nat /\ tokenReserve' + bought' <= StartTokens /\ spent' \in 0..MaxSol
  BY <1>1, <1>2, CurveTypes
<1>7. QED BY <1>1, <1>4, <1>5, <1>6 DEF CurveInv

(* Every step of the quotes keeps their invariant.                           *)
LEMMA CurveStep == ASSUME CurveInv, Curve!Next PROVE CurveInv'
BY OtherBuysStep, OthersSellStep, ObserveStep, FollowStep, BuyStep, LandStep DEF Curve!Next

(* The invariant gives the types, and what the run checks.                   *)
LEMMA CurveSound ==
    ASSUME CurveInv
    PROVE  Curve!TypeOK /\ Curve!AsksWhatItSpends /\ Curve!RoundTripLoses
<1>1. Curve!TypeOK
  <2>1. 0 \in 0..StartTokens /\ StartTokens \in Nat
        /\ cachedCurve.sol \in 0..MaxSol /\ cachedCurve.tokens \in 0..StartTokens
    BY CurveTypes DEF CurveInv, OnChain, Curve!NoCurve
  <2>2. spent \in 0..Curve!MostPaid(MaxSol, Curve!Scale)
    <3>1. 100 \in Nat /\ MaxSol \in Nat
      BY CurveTypes
    <3>2. Curve!MostPaid(MaxSol, 100) \in Nat /\ MaxSol <= Curve!MostPaid(MaxSol, 100)
      BY <3>1, SlipAdds
    <3>3. QED BY <3>1, <3>2 DEF CurveInv, Curve!Scale
  <2>3. QED BY <2>1, <2>2, CurveTypes DEF Curve!TypeOK, CurveInv
<1>2. Curve!AsksWhatItSpends
  <2> DEFINE a == order.asked
             c == order.seen
             p == order.spend
  <2>1. SUFFICES ASSUME a > 1 PROVE Curve!CostOf(c, a) <= p
    BY DEF Curve!AsksWhatItSpends
  <2>2. a \in Nat /\ p \in Nat /\ c \in OnChain /\ c \in Reserves
        /\ a * (c.sol + p) <= c.tokens * p
    BY <2>1, OnChainReserves, CurveTypes DEF CurveInv
  <2>3. c.sol \in Nat \ {0} /\ c.tokens \in Nat
    BY <2>2 DEF Reserves
  <2> HIDE DEF a, c, p
  <2>4. a * (c.sol + p) = c.sol * a + a * p /\ a * p = p * a /\ c.tokens * p = p * c.tokens
    BY <2>2, <2>3
  <2>5. c.sol * a \in Nat /\ a * p \in Nat /\ c.sol * a > 0
    BY <2>1, <2>2, <2>3, Ordered
  <2>6. a < c.tokens
    BY <2>2, <2>3, <2>4, <2>5, Ordered
  <2>7. p * (c.tokens - a) = p * c.tokens - p * a
    BY <2>2, <2>3, <2>6
  <2>8. c.sol * a <= p * (c.tokens - a)
    BY <2>2, <2>3, <2>4, <2>5, <2>7, Ordered
  <2>9. QED BY <2>2, <2>6, <2>8, Charged
<1>3. Curve!RoundTripLoses
  <2> DEFINE a    == order.asked
             cost == Curve!CostOf(Curve!Curve, a)
             left == [sol |-> solReserve + cost, tokens |-> tokenReserve - a]
             q    == Curve!SolFor(left, a)
  <2>1. SUFFICES ASSUME a \in 1..(tokenReserve - 1), NEW slip \in Slippages
                 PROVE  Curve!LeastGot(left, a, slip) <= cost
    BY DEF Curve!RoundTripLoses
  <2>2. a \in Nat \ {0} /\ a < tokenReserve /\ slip \in Nat
    BY <2>1, CurveTypes, QuotesAssumption
  <2>3. cost \in Nat /\ solReserve * a <= cost * (tokenReserve - a)
    <3>1. cost \in Nat /\ Curve!Curve.sol * a <= cost * (Curve!Curve.tokens - a)
      BY <2>2, CurveTypes, Charged
    <3>2. QED BY <3>1, CurveTypes
  <2>4. left \in Reserves /\ left.sol = solReserve + cost /\ left.tokens = tokenReserve - a
    <3> HIDE DEF cost, a
    <3>1. QED BY <2>2, <2>3, CurveTypes DEF Reserves
  <2>5. q \in Nat /\ q * tokenReserve <= (solReserve + cost) * a
    <3>1. q \in 0..left.sol /\ q * (left.tokens + a) <= left.sol * a
      BY <2>2, <2>4, Paid
    <3> HIDE DEF q, left
    <3>2. left.tokens + a = tokenReserve /\ left.sol \in Nat
      BY <2>2, <2>3, <2>4, CurveTypes
    <3>3. QED BY <2>4, <3>1, <3>2
  <2> HIDE DEF cost, a, left, q
  <2>6. q <= cost
    <3>1. (solReserve + cost) * a = solReserve * a + cost * a
      BY <2>2, <2>3, CurveTypes
    <3>2. cost * (tokenReserve - a) + cost * a = cost * tokenReserve
      BY <2>2, <2>3, CurveTypes
    <3>3. tokenReserve - a \in Nat
      BY <2>2, CurveTypes
    <3>4. solReserve * a \in Nat /\ cost * a \in Nat /\ cost * tokenReserve \in Nat
          /\ cost * (tokenReserve - a) \in Nat /\ q * tokenReserve \in Nat
      BY <2>2, <2>3, <2>5, <3>3, CurveTypes, Ordered
    <3>5. q * tokenReserve <= cost * tokenReserve
      BY <2>3, <2>5, <3>1, <3>2, <3>4
    <3>6. QED BY <2>3, <2>5, <3>5, CurveTypes, Divided
  <2>7. (q * slip) \div 100 \in Nat
    BY <2>2, <2>5, Ordered, Quotient
  <2>8. Curve!LeastGot(left, a, slip) = q - (q * slip) \div 100
    BY DEF Curve!LeastGot, Curve!Scale, q
  <2>9. QED BY <2>3, <2>5, <2>6, <2>7, <2>8
<1>4. QED BY <1>1, <1>2, <1>3

-----------------------------------------------------------------------------
(* Some positions of a log are no more than its length.                      *)
LEMMA Positions ==
    ASSUME NEW log \in Seq(Router!Kinds), NEW S \in SUBSET DOMAIN log
    PROVE  /\ IsFiniteSet(S) /\ Cardinality(S) \in 0..Len(log)
<1>1. DOMAIN log = 1..Len(log) /\ Len(log) \in Nat
  OBVIOUS
<1>2. IsFiniteSet(1..Len(log)) /\ Cardinality(1..Len(log)) = Len(log)
  <2>1. 1 \in Int /\ Len(log) \in Int
    BY <1>1
  <2>2. IsFiniteSet(1..Len(log))
        /\ Cardinality(1..Len(log)) = IF 1 > Len(log) THEN 0 ELSE Len(log) - 1 + 1
    BY <2>1, FS_Interval, Zenon
  <2>3. QED BY <1>1, <2>2
<1>3. IsFiniteSet(S) /\ Cardinality(S) <= Len(log)
  BY <1>1, <1>2, FS_Subset
<1>4. QED BY <1>1, <1>3, FS_CardinalityType

(* What is counted in a log are numbers.                                     *)
LEMMA Numbers ==
    ASSUME NEW log \in Seq(Router!Kinds)
    PROVE  /\ \A kind : Router!Number(log, kind) \in Nat
           /\ Router!Samples(log) \in Nat
           /\ Router!Streak(log) \in 0..Len(log)
           /\ Router!Rate(log) \in Nat
<1>1. ASSUME NEW kind PROVE Router!Number(log, kind) \in Nat
  BY Positions, Counting DEF Router!Number
<1>2. Router!Samples(log) \in Nat
  BY <1>1 DEF Router!Samples
<1>3. Router!Streak(log) \in 0..Len(log)
  BY Positions, Counting DEF Router!Streak, Router!SinceSuccess
<1>4. Router!Rate(log) \in Nat
  <2>1. Router!Number(log, "success") * 10000 \in Nat
    BY <1>1
  <2>2. QED BY <1>2, <2>1, Quotient DEF Router!Rate, Router!Full
<1>5. QED BY <1>1, <1>2, <1>3, <1>4

(* One more failure: one sample more, a longer streak, and no higher rate.   *)
LEMMA OneMoreFailure ==
    ASSUME NEW log \in Seq(Router!Kinds)
    PROVE  LET worse == Append(log, "failure")
           IN  /\ Router!Number(worse, "success") = Router!Number(log, "success")
               /\ Router!Samples(worse) = Router!Samples(log) + 1
               /\ Router!Streak(worse) = Router!Streak(log) + 1
               /\ Router!Rate(worse) <= Router!Rate(log)
<1> DEFINE worse == Append(log, "failure")
           n     == Len(log) + 1
           At(l, kind) == {i \in DOMAIN l : l[i] = kind}
<1>1. /\ n \in Nat /\ n \notin DOMAIN log /\ DOMAIN log = 1..Len(log) /\ Len(log) \in Nat
      /\ DOMAIN worse = 1..n /\ Len(worse) = n /\ DOMAIN worse = DOMAIN log \cup {n}
      /\ worse[n] = "failure" /\ \A i \in DOMAIN log : worse[i] = log[i]
      /\ worse \in Seq(Router!Kinds)
  BY DEF Router!Kinds
<1> HIDE DEF worse
<1>2. At(worse, "success") = At(log, "success")
  BY <1>1
<1>3. At(worse, "failure") = At(log, "failure") \cup {n} /\ n \notin At(log, "failure")
  BY <1>1
<1>4. Router!SinceSuccess(worse) = Router!SinceSuccess(log) \cup {n}
      /\ n \notin Router!SinceSuccess(log)
  BY <1>1 DEF Router!SinceSuccess
<1>5. Router!Number(worse, "success") = Router!Number(log, "success")
  BY <1>2 DEF Router!Number
<1>6. Router!Number(worse, "failure") = Router!Number(log, "failure") + 1
  <2>1. Cardinality(At(log, "failure") \cup {n}) = Cardinality(At(log, "failure")) + 1
    BY <1>3, Positions, FS_AddElement
  <2>2. QED BY <1>3, <2>1, Counting DEF Router!Number
<1>7. Router!Streak(worse) = Router!Streak(log) + 1
  <2>1. IsFiniteSet(Router!SinceSuccess(log))
    BY Positions DEF Router!SinceSuccess
  <2>2. QED BY <1>4, <2>1, FS_AddElement, Counting DEF Router!Streak
<1>8. Router!Samples(worse) = Router!Samples(log) + 1
  BY <1>5, <1>6, Numbers DEF Router!Samples
<1>9. Router!Rate(worse) <= Router!Rate(log)
  <2> DEFINE s == Router!Samples(log)
             k == Router!Number(log, "success")
             all == k * 10000
             q == all \div (s + 1)
  <2>1. s \in Nat /\ k \in Nat /\ all \in Nat /\ k <= s
    BY Numbers DEF Router!Samples
  <2>a. s = 0 => all = 0
    BY <2>1
  <2> HIDE DEF s, k, all
  <2>2. q \in Nat /\ (s + 1) * q <= all
    <3>1. s + 1 \in Nat \ {0}
      BY <2>1
    <3>2. QED BY <2>1, <3>1, Quotient, Zenon
  <2>3. Router!Rate(worse) = q
    BY <1>5, <1>8, <2>1 DEF Router!Rate, Router!Full, s, k, all
  <2>4. CASE s = 0
    BY <2>1, <2>a, <2>2, <2>3, <2>4 DEF Router!Rate, Router!Full, s
  <2>5. CASE s # 0
    <3> DEFINE r == all \div s
    <3>1. r \in Nat /\ all < s * r + s
      BY <2>1, <2>5, Quotient
    <3>2. Router!Rate(log) = r
      BY <2>5 DEF Router!Rate, Router!Full, s, k, all
    <3> HIDE DEF r, q
    <3>3. s * r + s = (r + 1) * s /\ q * (s + 1) = (s + 1) * q
          /\ (r + 1) * (s + 1) = (r + 1) * s + (r + 1)
      BY <2>1, <2>2, <3>1
    <3>4. (r + 1) * s \in Nat /\ q * (s + 1) \in Nat
      BY <2>1, <2>2, <3>1, Ordered
    <3>5. q * (s + 1) < (r + 1) * (s + 1)
      BY <2>1, <2>2, <3>1, <3>3, <3>4
    <3>6. q < r + 1
      BY <2>1, <2>2, <3>1, <3>5, Ordered
    <3>7. QED BY <2>2, <2>3, <3>1, <3>2, <3>6
  <2>6. QED BY <2>4, <2>5
<1>10. QED BY <1>5, <1>7, <1>8, <1>9 DEF worse

(* The boost does not shrink with a lower rate, a longer streak and one      *)
(* sample more.                                                              *)
LEMMA BoostGrows ==
    ASSUME NEW rate \in Nat, NEW lower \in 0..rate, NEW streak \in Nat, NEW samples \in Nat,
           NEW low \in Nat, NEW middle \in Nat, NEW high \in Nat,
           10000 <= low, low <= middle, middle <= high
    PROVE  /\ Router!Boost(rate, streak, samples, low, middle, high) \in 10000..high
           /\ Router!Boost(rate, streak, samples, low, middle, high)
                 <= Router!Boost(lower, streak + 1, samples + 1, low, middle, high)
BY DEF Router!Boost, Router!Full

(* The tier does not fall with a longer streak.                              *)
LEMMA TierGrows ==
    ASSUME NEW path, NEW u, NEW c, NEW streak \in Nat
    PROVE  LET tier == Router!TierOf(path, u, c)
           IN  /\ Router!Raised(tier, streak) \in 1..3
               /\ Router!Raised(tier, streak + 1) \in 1..3
               /\ Router!Raised(tier, streak) <= Router!Raised(tier, streak + 1)
<1>1. Router!TierOf(path, u, c) \in 1..3
  BY DEF Router!TierOf
<1>2. QED BY <1>1 DEF Router!Raised

(* The fee and the tip of a tier do not shrink with the tier and the boost.  *)
LEMMA CombinedGrows ==
    ASSUME NEW t \in 1..3, NEW higher \in t..3, NEW boost \in Nat, NEW more \in Nat, boost <= more
    PROVE  /\ Router!Combined(Router!FeeOf[t], boost) \in Nat
           /\ Router!Combined(Router!FeeOf[higher], more) \in Nat
           /\ Router!Combined(Router!TipOf[t], boost) \in Nat
           /\ Router!Combined(Router!TipOf[higher], more) \in Nat
           /\ Router!Combined(Router!FeeOf[t], boost) <= Router!Combined(Router!FeeOf[higher], more)
           /\ Router!Combined(Router!TipOf[t], boost) <= Router!Combined(Router!TipOf[higher], more)
BY DEF Router!Combined, Router!FeeOf, Router!TipOf, Router!Full

(* Whatever the log is, a failure more does not lower what a buy pays, nor   *)
(* take away channels.                                                       *)
LEMMA Escalates == ASSUME receipts \in Seq(Router!Kinds) PROVE Router!FailuresEscalate
<1> DEFINE worse == Append(receipts, "failure")
           fb    == Router!Feedback(receipts)
           fw    == Router!Feedback(worse)
<1>1. worse \in Seq(Router!Kinds)
  BY DEF Router!Kinds
<1>2. /\ Router!Rate(receipts) \in Nat /\ Router!Rate(worse) \in 0..Router!Rate(receipts)
      /\ Router!Streak(receipts) \in Nat /\ Router!Samples(receipts) \in Nat
      /\ Router!Streak(worse) = Router!Streak(receipts) + 1
      /\ Router!Samples(worse) = Router!Samples(receipts) + 1
  <2>1. /\ Router!Rate(receipts) \in Nat /\ Router!Rate(worse) \in Nat
        /\ Router!Streak(receipts) \in Nat /\ Router!Samples(receipts) \in Nat
    <3>1. Len(receipts) \in Nat
      OBVIOUS
    <3>2. Router!Rate(receipts) \in Nat /\ Router!Rate(worse) \in Nat
      BY <1>1, Numbers
    <3>3. Router!Streak(receipts) \in 0..Len(receipts) /\ Router!Samples(receipts) \in Nat
      BY Numbers
    <3>4. QED BY <3>1, <3>2, <3>3
  <2>2. /\ Router!Streak(worse) = Router!Streak(receipts) + 1
        /\ Router!Samples(worse) = Router!Samples(receipts) + 1
        /\ Router!Rate(worse) <= Router!Rate(receipts)
    BY OneMoreFailure
  <2>3. QED BY <2>1, <2>2
<1> HIDE DEF worse
<1> DEFINE r == Router!Rate(receipts)
           l == Router!Rate(worse)
           k == Router!Streak(receipts)
           m == Router!Samples(receipts)
           fee1 == Router!Boost(r, k, m, 11500, 12000, 13500)
           fee2 == Router!Boost(l, k + 1, m + 1, 11500, 12000, 13500)
           tip1 == Router!Boost(r, k, m, 11500, 12500, 14000)
           tip2 == Router!Boost(l, k + 1, m + 1, 11500, 12500, 14000)
<1>a. /\ fb.streak = k /\ fw.streak = k + 1
      /\ fb.fee = fee1 /\ fw.fee = fee2
      /\ fb.tip = tip1 /\ fw.tip = tip2
  BY <1>2 DEF Router!Feedback
<1>b. r \in Nat /\ l \in 0..r /\ k \in Nat /\ m \in Nat
  BY <1>2
<1>c. fee1 \in Nat /\ fee2 \in Nat /\ fee1 <= fee2
  BY <1>b, BoostGrows DEF Router!Boost, Router!Full
<1>d. tip1 \in Nat /\ tip2 \in Nat /\ tip1 <= tip2
  BY <1>b, BoostGrows DEF Router!Boost, Router!Full
<1>4. fb.fanout => fw.fanout
  <2> DEFINE now  == jito /\ m >= 4 /\ r < 8000
             then == jito /\ Router!Samples(worse) >= 4 /\ l < 8000
             fee3 == Router!Boost(l, Router!Streak(worse), Router!Samples(worse),
                                  11500, 12000, 13500)
             tip3 == Router!Boost(l, Router!Streak(worse), Router!Samples(worse),
                                  11500, 12500, 14000)
  <2>1. /\ fb = [streak |-> k, fanout |-> now, fee |-> fee1, tip |-> tip1]
        /\ fw = [streak |-> Router!Streak(worse), fanout |-> then, fee |-> fee3, tip |-> tip3]
    BY DEF Router!Feedback
  <2> HIDE DEF now, then, fb, fw, fee1, tip1, fee3, tip3
  <2>2. fb.fanout = now /\ fw.fanout = then
    BY <2>1
  <2>3. now => then
    BY <1>2, <1>b DEF now, then, r, l, m
  <2>4. QED BY <2>2, <2>3
<1> HIDE DEF fb, fw, r, l, k, fee1, fee2, tip1, tip2
<1>3. fb.streak \in Nat /\ fw.streak = fb.streak + 1
  BY <1>a, <1>b
<1>5. fb.fee \in Nat /\ fw.fee \in Nat /\ fb.fee <= fw.fee
  BY <1>a, <1>c
<1>6. fb.tip \in Nat /\ fw.tip \in Nat /\ fb.tip <= fw.tip
  BY <1>a, <1>d
<1> HIDE DEF fb, fw
<1>7. ASSUME NEW path \in {"fast", "slow"}, NEW u \in Urgencies, NEW c \in Confidences
      PROVE  LET p == Router!Profile(path, u, c, fb)
                 q == Router!Profile(path, u, c, fw)
             IN  q.fee >= p.fee /\ q.tip >= p.tip /\ (p.all => q.all)
  <2> DEFINE t == Router!Raised(Router!TierOf(path, u, c), fb.streak)
             h == Router!Raised(Router!TierOf(path, u, c), fw.streak)
             p == Router!Profile(path, u, c, fb)
             q == Router!Profile(path, u, c, fw)
  <2>1. t \in 1..3 /\ h \in t..3
    <3>1. /\ t \in 1..3
          /\ Router!Raised(Router!TierOf(path, u, c), fb.streak + 1) \in 1..3
          /\ t <= Router!Raised(Router!TierOf(path, u, c), fb.streak + 1)
      BY <1>3, TierGrows, Zenon
    <3>2. h = Router!Raised(Router!TierOf(path, u, c), fb.streak + 1)
      BY <1>3
    <3> HIDE DEF t, h
    <3>3. QED BY <3>1, <3>2
  <2>2. /\ p.fee = Router!Combined(Router!FeeOf[t], fb.fee)
        /\ p.tip = Router!Combined(Router!TipOf[t], fb.tip)
        /\ q.fee = Router!Combined(Router!FeeOf[h], fw.fee)
        /\ q.tip = Router!Combined(Router!TipOf[h], fw.tip)
    BY DEF Router!Profile
  <2>7. /\ p.all <=> route # "zero_slot" /\ jito /\ (t > 1 \/ fb.fanout)
        /\ q.all <=> route # "zero_slot" /\ jito /\ (h > 1 \/ fw.fanout)
    BY DEF Router!Profile
  <2> HIDE DEF t, h, p, q
  <2>8. /\ Router!Combined(Router!FeeOf[t], fb.fee) \in Nat
        /\ Router!Combined(Router!FeeOf[h], fw.fee) \in Nat
        /\ Router!Combined(Router!FeeOf[t], fb.fee) <= Router!Combined(Router!FeeOf[h], fw.fee)
    BY <1>5, <2>1, CombinedGrows
  <2>9. /\ Router!Combined(Router!TipOf[t], fb.tip) \in Nat
        /\ Router!Combined(Router!TipOf[h], fw.tip) \in Nat
        /\ Router!Combined(Router!TipOf[t], fb.tip) <= Router!Combined(Router!TipOf[h], fw.tip)
    BY <1>6, <2>1, CombinedGrows
  <2>3. p.fee <= q.fee /\ p.tip <= q.tip
    BY <2>2, <2>8, <2>9
  <2>4. p.all => q.all
    BY <1>4, <2>1, <2>7
  <2>5. p.fee \in Int /\ q.fee \in Int /\ p.tip \in Int /\ q.tip \in Int
    BY <2>2, <2>8, <2>9
  <2>6. QED BY <2>3, <2>4, <2>5 DEF p, q
<1>8. QED BY <1>7 DEF Router!FailuresEscalate, fb, fw, worse

(* execution_feedback_from_receipts returns a feedback.                      *)
LEMMA FeedbackTypes ==
    ASSUME NEW log \in Seq(Router!Kinds), Len(log) <= MaxReceipts
    PROVE  Router!Feedback(log) \in Router!Feedbacks
<1> DEFINE rate == Router!Rate(log)
           streak == Router!Streak(log)
           samples == Router!Samples(log)
           fanout == jito /\ samples >= 4 /\ rate < 8000
           fee == Router!Boost(rate, streak, samples, 11500, 12000, 13500)
           up  == Router!Boost(rate, streak, samples, 11500, 12500, 14000)
<1>1. Router!Feedback(log) = [streak |-> streak, fanout |-> fanout, fee |-> fee, tip |-> up]
  BY DEF Router!Feedback
<1>2. fanout \in BOOLEAN
  OBVIOUS
<1>3. fee \in Router!Boosts /\ up \in Router!Boosts
  BY DEF Router!Boost, Router!Full, Router!Boosts
<1>4. streak \in 0..MaxReceipts
  <2>1. streak \in 0..Len(log) /\ Len(log) \in Nat
    BY Numbers
  <2>2. QED BY <2>1, RouterAssumption
<1> HIDE DEF rate, streak, samples, fanout, fee, up
<1>5. QED BY <1>1, <1>2, <1>3, <1>4 DEF Router!Feedbacks

(* The router starts without receipts.                                       *)
LEMMA RouterInit == ASSUME Router!Init PROVE Router!TypeOK
<1>1. Router!NoFeedback \in Router!Feedbacks
  BY RouterAssumption DEF Router!NoFeedback, Router!Feedbacks, Router!Boosts
<1>2. QED BY <1>1, RouterAssumption DEF Router!Init, Router!TypeOK

(* Every step of the router keeps its types.                                 *)
LEMMA RouterStep == ASSUME Router!TypeOK, Router!Next PROVE Router!TypeOK'
<1> USE RouterAssumption DEF Router!TypeOK
<1>1. ASSUME NEW p \in Router!Profiles, Router!Submit(p) PROVE Router!TypeOK'
  <2> DEFINE left == IF Router!WithJito(p.label)
                     THEN <<"submitted", "success">> ELSE <<"submitted">>
  <2>1. left \in Seq(Router!Kinds)
    <3>1. "submitted" \in Router!Kinds /\ "success" \in Router!Kinds
      BY DEF Router!Kinds
    <3>2. <<"submitted">> \in Seq(Router!Kinds) /\ <<"submitted", "success">> \in Seq(Router!Kinds)
      BY <3>1
    <3>3. QED BY <3>2
  <2>2. /\ Len(receipts) + Len(left) <= MaxReceipts /\ receipts' = receipts \o left
        /\ confirming < MaxConfirming /\ confirming' = confirming + 1
        /\ UNCHANGED <<route, jito, feedback>>
    BY <1>1 DEF Router!Submit, Router!Room
  <2> HIDE DEF left
  <2>3. receipts' \in Seq(Router!Kinds) /\ Len(receipts') <= MaxReceipts
    BY <2>1, <2>2
  <2>4. QED BY <2>2, <2>3
<1>2. CASE Router!Refuse
  BY <1>2 DEF Router!Refuse, Router!Room, Router!Kinds
<1>3. ASSUME NEW kind \in {"success", "failure"}, Router!Confirm(kind) PROVE Router!TypeOK'
  BY <1>3 DEF Router!Confirm, Router!Room, Router!Kinds
<1>4. CASE Router!Expire
  BY <1>4 DEF Router!Expire
<1>5. CASE Router!Refresh
  BY <1>5, FeedbackTypes DEF Router!Refresh
<1>6. QED BY <1>1, <1>2, <1>3, <1>4, <1>5 DEF Router!Next

-----------------------------------------------------------------------------
(* The order of the numbers, as a set of pairs.                              *)
Below == {p \in Nat \X Nat : p[1] < p[2]}

(* A set of numbers has a least one.  (In place of an induction.)            *)
LEMMA Least ==
    ASSUME NEW T \in SUBSET Nat, T # {}
    PROVE  \E x \in T : \A y \in T : x <= y
<1>1. Below = OpToRel(<, Nat)
  BY DEF Below, OpToRel
<1>2. IsWellFoundedOn(Below, Nat)
  BY <1>1, NatLessThanWellFounded
<1>3. PICK x \in T : \A y \in T : <<y, x>> \notin Below
  BY <1>2, WFMin
<1>4. ASSUME NEW y \in T PROVE x <= y
  <2>1. <<y, x>> \in Nat \X Nat => (<<y, x>> \in Below <=> y < x)
    BY DEF Below
  <2>2. QED BY <1>3, <2>1
<1>5. QED BY <1>4

(* Numbers closer than n have different remainders.                          *)
LEMMA Remainders ==
    ASSUME NEW a \in Nat, NEW b \in Nat, NEW n \in Nat \ {0}, a < b, b - a < n
    PROVE  a % n # b % n
<1> DEFINE p == a \div n
           q == b \div n
<1>1. p \in Nat /\ q \in Nat /\ a = n * p + (a % n) /\ b = n * q + (b % n)
  OBVIOUS
<1>2. SUFFICES ASSUME a % n = b % n PROVE FALSE
  OBVIOUS
<1>3. a % n \in Int
  OBVIOUS
<1> HIDE DEF p, q
<1>4. b - a = n * (q - p)
  BY <1>1, <1>2, <1>3
<1>5. CASE q - p <= 0
  <2>1. n * (q - p) <= 0
    BY <1>1, <1>5
  <2>2. QED BY <1>4, <2>1
<1>6. CASE q - p >= 1
  <2>1. n * (q - p) >= n
    BY <1>1, <1>6
  <2>2. QED BY <1>4, <2>1
<1>7. QED BY <1>1, <1>5, <1>6

(* There are endpoints for bundles.                                          *)
LEMMA BundleEndpoints ==
    /\ Len(Sender!BundleUrls) \in Nat \ {0}
           /\ DOMAIN Sender!BundleUrls = 1..Len(Sender!BundleUrls)
           /\ Sender!BundleUrls \in Seq({Sender!BundleUrls[i] : i \in DOMAIN Sender!BundleUrls})
<1> DEFINE E == {Engines[i] : i \in DOMAIN Engines}
<1>1. Engines \in Seq(E)
  BY SenderAssumption
<1>2. CASE \E i \in DOMAIN Engines : Engines[i] = Relay
  <2>1. Sender!BundleUrls = Engines
    BY <1>2 DEF Sender!BundleUrls
  <2> HIDE DEF E
  <2>2. Len(Engines) \in Nat \ {0} /\ DOMAIN Engines = 1..Len(Engines)
    BY <1>1, <1>2
  <2>3. QED BY <1>1, <2>1, <2>2 DEF E
<1>3. CASE ~ \E i \in DOMAIN Engines : Engines[i] = Relay
  <2>1. Sender!BundleUrls = Append(Engines, Relay)
    BY <1>3 DEF Sender!BundleUrls
  <2> HIDE DEF E
  <2>2. Append(Engines, Relay) \in Seq(E \cup {Relay})
    BY <1>1
  <2>3. Len(Append(Engines, Relay)) \in Nat \ {0}
        /\ DOMAIN Append(Engines, Relay) = 1..Len(Append(Engines, Relay))
    BY <1>1
  <2> DEFINE B == Append(Engines, Relay)
  <2>4. B \in Seq(E \cup {Relay}) /\ Len(B) \in Nat /\ DOMAIN B = 1..Len(B)
    BY <2>2, <2>3
  <2> HIDE DEF B
  <2>5. B \in Seq({B[i] : i \in DOMAIN B})
    BY <2>4
  <2>6. QED BY <2>1, <2>3, <2>5 DEF B
<1>4. QED BY <1>2, <1>3

(* Url takes one of the endpoints.                                           *)
LEMMA BundleUrl ==
    ASSUME NEW n \in Nat
    PROVE  \E i \in DOMAIN Sender!BundleUrls :
              Sender!Url(Sender!BundleUrls, n) = Sender!BundleUrls[i]
<1> DEFINE L == Len(Sender!BundleUrls)
<1>1. L \in Nat \ {0} /\ DOMAIN Sender!BundleUrls = 1..L
  BY BundleEndpoints
<1> HIDE DEF L
<1>2. (n % L) + 1 \in 1..L
  BY <1>1
<1>3. QED BY <1>1, <1>2 DEF Sender!Url, L

(* The rank of an endpoint grows by one with every endpoint that is kept.    *)
LEMMA RankGrows ==
    /\ IsFiniteSet(Sender!Kept)
           /\ Cardinality(Sender!Kept) \in Nat
           /\ Sender!Rank(0) = 0
           /\ Sender!Rank(Len(Sender!BundleUrls)) = Cardinality(Sender!Kept)
           /\ \A m \in Nat :
                 /\ Sender!Rank(m) \in Nat
                 /\ Sender!Rank(m + 1) = IF m + 1 \in Sender!Kept THEN Sender!Rank(m) + 1
                                         ELSE Sender!Rank(m)
<1> DEFINE K == Sender!Kept
           L == Len(Sender!BundleUrls)
           To(m) == {j \in K : j <= m}
<1>1. L \in Nat /\ K \subseteq 1..L /\ \A j \in K : j \in Nat /\ 1 <= j /\ j <= L
  BY BundleEndpoints DEF Sender!Kept
<1>2. IsFiniteSet(K)
  <2>1. 1 \in Int /\ L \in Int
    BY <1>1
  <2>2. IsFiniteSet(1..L)
    BY <2>1, FS_Interval, Zenon
  <2>3. QED BY <1>1, <2>2, FS_Subset
<1>3. \A m : IsFiniteSet(To(m)) /\ Cardinality(To(m)) \in Nat /\ Sender!Rank(m) = Cardinality(To(m))
  BY <1>2, FS_Subset, FS_CardinalityType, Counting DEF Sender!Rank
<1> HIDE DEF K, L
<1>4. To(0) = {} /\ To(L) = K
  <2>1. \A j \in K : ~ (j <= 0) /\ j <= L
    BY <1>1
  <2>2. QED BY <2>1, Zenon
<1>5. Sender!Rank(0) = 0 /\ Sender!Rank(L) = Cardinality(K) /\ Cardinality(K) \in Nat
  BY <1>2, <1>3, <1>4, FS_EmptySet, FS_CardinalityType
<1>6. ASSUME NEW m \in Nat
      PROVE  Sender!Rank(m + 1) = IF m + 1 \in K THEN Sender!Rank(m) + 1 ELSE Sender!Rank(m)
  <2>1. CASE m + 1 \in K
    <3>1. To(m + 1) = To(m) \cup {m + 1} /\ m + 1 \notin To(m)
      <4>1. \A j \in K : j <= m + 1 <=> j <= m \/ j = m + 1
        BY <1>1
      <4>2. m <= m + 1 /\ m + 1 <= m + 1 /\ ~ (m + 1 <= m)
        OBVIOUS
      <4>3. QED BY <2>1, <4>1, <4>2, Zenon
    <3>2. Cardinality(To(m) \cup {m + 1}) = Cardinality(To(m)) + 1
      BY <1>3, <3>1, FS_AddElement
    <3>3. QED BY <1>3, <2>1, <3>1, <3>2
  <2>2. CASE m + 1 \notin K
    <3>1. To(m + 1) = To(m)
      <4>1. \A j \in K : j <= m + 1 <=> j <= m
        BY <1>1, <2>2
      <4>2. QED BY <4>1, Zenon
    <3>2. QED BY <1>3, <2>2, <3>1
  <2>3. QED BY <2>1, <2>2
<1>7. QED BY <1>2, <1>3, <1>5, <1>6 DEF K, L

(* So every rank up to their number is that of one of them.                  *)
LEMMA RankReached ==
    ASSUME NEW n \in 1..Cardinality(Sender!Kept)
    PROVE  \E i \in Sender!Kept : Sender!Rank(i) = n
<1> DEFINE L == Len(Sender!BundleUrls)
           T == {m \in Nat : Sender!Rank(m) >= n}
<1>1. L \in Nat /\ n \in Nat \ {0} /\ n <= Cardinality(Sender!Kept)
  BY BundleEndpoints, RankGrows
<1>2. L \in T
  BY <1>1, RankGrows
<1>3. PICK x \in T : \A y \in T : x <= y
  <2>1. T \in SUBSET Nat /\ T # {}
    BY <1>2
  <2> HIDE DEF T
  <2>2. QED BY <2>1, Least
<1>4. x # 0
  BY <1>1, <1>3, RankGrows
<1> DEFINE m == x - 1
<1>5. m \in Nat /\ x = m + 1 /\ m \notin T
  BY <1>3, <1>4
<1> HIDE DEF m
<1>6. Sender!Rank(m) \in Nat /\ Sender!Rank(m) < n /\ Sender!Rank(m + 1) >= n
      /\ Sender!Rank(m + 1) = IF m + 1 \in Sender!Kept THEN Sender!Rank(m) + 1 ELSE Sender!Rank(m)
  BY <1>1, <1>3, <1>5, RankGrows
<1>7. QED BY <1>1, <1>5, <1>6

(* A plain transaction goes to an endpoint that is not the relay.            *)
LEMMA TxUrl ==
    ASSUME NEW n \in Nat, Sender!TxUrls # <<>>
    PROVE  \E i \in DOMAIN Sender!BundleUrls :
              /\ Sender!Url(Sender!TxUrls, n) = Sender!BundleUrls[i]
              /\ Sender!BundleUrls[i] # Relay
<1> DEFINE N == Cardinality(Sender!Kept)
           At(k) == CHOOSE i \in Sender!Kept : Sender!Rank(i) = k
           U == [k \in 1..N |-> Sender!BundleUrls[At(k)]]
<1>1. Sender!TxUrls = U
  BY Counting DEF Sender!TxUrls
<1>2. N \in Nat
  BY RankGrows
<1>3. N # 0 /\ Len(U) = N
  <2>1. N = 0 => U = <<>>
    OBVIOUS
  <2>2. N # 0
    BY <1>1, <2>1
  <2> HIDE DEF N, At
  <2>3. Len(U) = N
    BY <1>2
  <2>4. QED BY <2>2, <2>3
<1> DEFINE k == (n % N) + 1
<1> HIDE DEF N
<1>4. k \in 1..N
  BY <1>2, <1>3
<1>5. Sender!Url(Sender!TxUrls, n) = Sender!BundleUrls[At(k)]
  BY <1>1, <1>3, <1>4 DEF Sender!Url
<1>6. At(k) \in Sender!Kept
  BY <1>4, RankReached DEF N
<1>7. QED BY <1>5, <1>6 DEF Sender!Kept
(* What has been posted for a send when it is at its step.                   *)
Base(s) == IF Sender!ZeroOnly(mode[s]) THEN {"0slot"} ELSE Sender!RpcChannels

Planned(s) ==
    CASE sendStep[s] = "idle"   -> {}
      [] sendStep[s] = "bundle" -> Base(s)
      [] sendStep[s] = "tx"     -> Base(s) \cup {"bundle"}
      [] OTHER -> Base(s) \cup (IF Sender!JitoToo(mode[s]) THEN Sender!JitoChannels ELSE {})

(* A send has been tried on the channels its plan has reached, and on no     *)
(* other; the relay gets bundles only.                                       *)
Delivered ==
    /\ \A s \in Sends :
          /\ Sender!Tried(s) = Planned(s)
          /\ sendStep[s] # "idle" => tip[s] = Sender!Tip(mode[s])
          /\ sendStep[s] \in {"bundle", "tx"} => Sender!JitoToo(mode[s])
    /\ \A m \in posted : m.url = Relay => m.channel = "bundle"

(* Since the last bundle the counter has been advanced by it, and by the     *)
(* sends that have ended since.                                              *)
Spread(last, count, done) ==
    \E c \in Nat, D \in SUBSET done :
        /\ last = Sender!Url(Sender!BundleUrls, c)
        /\ c + 1 <= count /\ count <= c + 2 + Cardinality(D)

Done == {s \in Sends : sendStep[s] \in {"answers", "done"}}

LastSpread == bundles # <<>> => Spread(bundles[Len(bundles)], counter, Done)

(* The endpoint of a bundle is one that is configured, or the relay.         *)
LEMMA UrlIn ==
    ASSUME NEW n \in Nat
    PROVE  Sender!Url(Sender!BundleUrls, n) \in Sender!Urls
BY BundleUrl DEF Sender!Urls

(* That of a plain transaction is one that is configured.                    *)
LEMMA TxUrlIn ==
    ASSUME NEW n \in Nat, Sender!TxUrls # <<>>
    PROVE  Sender!Url(Sender!TxUrls, n) \in Sender!Urls /\ Sender!Url(Sender!TxUrls, n) # Relay
BY TxUrl DEF Sender!Urls

Messages == {Sender!Message(s, c, u) : s \in Sends, c \in Sender!Channels, u \in Sender!Urls}

(* Nothing is sent yet.                                                      *)
LEMMA SenderTypesInit == ASSUME Sender!Init PROVE Sender!TypeOK
BY DEF Sender!Init, Sender!TypeOK, Sender!Steps, Sender!Modes

(* Every step of the sender keeps its types.                                 *)
LEMMA SenderTypesStep == ASSUME Sender!TypeOK, Sender!Next PROVE Sender!TypeOK'
<1>1. ASSUME NEW s \in Sends, NEW m \in Sender!Modes, Sender!Start(s, m) PROVE Sender!TypeOK'
  <2>1. Sender!Tip(m) \in {"0slot", "jito", "none"}
    BY DEF Sender!Tip, Sender!Primary
  <2>2. Sender!After(m, Sender!JitoToo(m)) \in Sender!Steps
    BY DEF Sender!After, Sender!Steps
  <2>3. /\ mode' = [mode EXCEPT ![s] = m] /\ tip' = [tip EXCEPT ![s] = Sender!Tip(m)]
        /\ sendStep' = [sendStep EXCEPT ![s] = Sender!After(m, Sender!JitoToo(m))]
        /\ UNCHANGED <<routes, counter, bundles>>
    BY <1>1 DEF Sender!Start
  <2>4. outcome' \in [Sends -> {"sent", "failed", "none"}]
    BY <1>1 DEF Sender!Start, Sender!TypeOK
  <2>5. posted' \subseteq Messages
    <3>1. Sender!NoUrl \in Sender!Urls /\ Sender!RpcChannels \subseteq Sender!Channels
          /\ "0slot" \in Sender!Channels
      BY DEF Sender!Urls, Sender!RpcChannels, Sender!Channels
    <3>2. posted \subseteq Messages
      BY DEF Sender!TypeOK, Messages
    <3>3. posted' = posted \cup {Sender!Message(s, c, Sender!NoUrl) :
                                    c \in IF Sender!ZeroOnly(m) THEN {"0slot"}
                                          ELSE Sender!RpcChannels}
      BY <1>1 DEF Sender!Start
    <3>4. QED BY <3>1, <3>2, <3>3 DEF Messages
  <2>6. /\ mode' \in [Sends -> Sender!Modes] /\ tip' \in [Sends -> {"0slot", "jito", "none"}]
        /\ sendStep' \in [Sends -> Sender!Steps]
    BY <2>1, <2>2, <2>3 DEF Sender!TypeOK
  <2>7. QED BY <2>3, <2>4, <2>5, <2>6 DEF Sender!TypeOK, Messages
<1>2. ASSUME NEW s \in Sends, Sender!Bundle(s) PROVE Sender!TypeOK'
  <2> DEFINE url == Sender!Url(Sender!BundleUrls, counter)
  <2>1. counter \in Nat /\ url \in Sender!Urls
    BY UrlIn DEF Sender!TypeOK
  <2>2. /\ sendStep' = [sendStep EXCEPT ![s] = "tx"]
        /\ counter' = counter + (IF mode[s] = "fanout" THEN 2 ELSE 1)
        /\ posted' = posted \cup {Sender!Message(s, "bundle", url)}
        /\ bundles' = Append(bundles, url)
        /\ UNCHANGED <<routes, mode, tip, outcome>>
    BY <1>2 DEF Sender!Bundle
  <2> HIDE DEF url
  <2>3. counter' \in Nat
    BY <2>1, <2>2
  <2>4. posted' \subseteq Messages
    BY <2>1, <2>2 DEF Sender!TypeOK, Messages, Sender!Channels
  <2>5. sendStep' \in [Sends -> Sender!Steps]
    BY <2>2 DEF Sender!TypeOK, Sender!Steps
  <2>6. bundles' \in Seq(Sender!Urls)
    BY <2>1, <2>2 DEF Sender!TypeOK
  <2>7. QED BY <2>2, <2>3, <2>4, <2>5, <2>6 DEF Sender!TypeOK, Messages
<1>3. ASSUME NEW s \in Sends, Sender!Plain(s) PROVE Sender!TypeOK'
  <2> DEFINE url == Sender!Url(Sender!TxUrls, counter)
  <2>1. counter \in Nat /\ (Sender!TxUrls # <<>> => url \in Sender!Urls)
    BY TxUrlIn DEF Sender!TypeOK
  <2>2. /\ sendStep' = [sendStep EXCEPT ![s] = Sender!After(mode[s], FALSE)]
        /\ \/ UNCHANGED <<counter, posted>>
           \/ /\ Sender!TxUrls # <<>> /\ counter' = counter + 1
              /\ posted' = posted \cup {Sender!Message(s, "tx", url)}
        /\ UNCHANGED <<routes, mode, tip, bundles>>
    BY <1>3 DEF Sender!Plain
  <2>3. outcome' \in [Sends -> {"sent", "failed", "none"}]
    BY <1>3 DEF Sender!Plain, Sender!TypeOK
  <2> HIDE DEF url
  <2>4. counter' \in Nat
    BY <2>1, <2>2
  <2>5. posted' \subseteq Messages
    BY <2>1, <2>2 DEF Sender!TypeOK, Messages, Sender!Channels
  <2>6. sendStep' \in [Sends -> Sender!Steps]
    BY <2>2 DEF Sender!TypeOK, Sender!Steps, Sender!After
  <2>7. UNCHANGED <<routes, mode, tip, bundles>>
    BY <2>2
  <2>8. QED BY <2>3, <2>4, <2>5, <2>6, <2>7 DEF Sender!TypeOK, Messages
<1>4. ASSUME NEW s \in Sends, NEW success \in BOOLEAN, Sender!Answers(s, success)
      PROVE  Sender!TypeOK'
  BY <1>4 DEF Sender!Answers, Sender!TypeOK, Sender!Steps
<1>5. QED BY <1>1, <1>2, <1>3, <1>4 DEF Sender!Next

(* What a send adds to what has been tried                                   *)
Requests(s, X, url) == {Sender!Message(s, c, url) : c \in X}

(* What a step posts for a send adds to the channels tried for it alone.     *)
LEMMA TriedGrows ==
    ASSUME NEW s, NEW X, NEW url, posted' = posted \cup Requests(s, X, url)
    PROVE  /\ Sender!Tried(s)' = Sender!Tried(s) \cup X
           /\ \A t : t # s => Sender!Tried(t)' = Sender!Tried(t)
<1>1. \A c : /\ Sender!Message(s, c, url).send = s
             /\ Sender!Message(s, c, url).channel = c
  BY DEF Sender!Message
<1>2. QED BY <1>1 DEF Sender!Tried, Requests

(* Nothing is tried yet.                                                     *)
LEMMA DeliveredInit == ASSUME Sender!Init PROVE Delivered
BY DEF Sender!Init, Delivered, Sender!Tried, Planned

(* The first step posts to 0slot or to the RPC nodes.                        *)
LEMMA StartDelivers ==
    ASSUME Sender!TypeOK, Delivered,
           NEW s \in Sends, NEW m \in Sender!Modes, Sender!Start(s, m)
    PROVE  Delivered'
<1> DEFINE X == IF Sender!ZeroOnly(m) THEN {"0slot"} ELSE Sender!RpcChannels
           next == Sender!After(m, Sender!JitoToo(m))
<1>1. /\ sendStep[s] = "idle"
      /\ mode' = [mode EXCEPT ![s] = m] /\ tip' = [tip EXCEPT ![s] = Sender!Tip(m)]
      /\ posted' = posted \cup {Sender!Message(s, c, Sender!NoUrl) : c \in X}
      /\ sendStep' = [sendStep EXCEPT ![s] = next]
      /\ UNCHANGED <<routes, counter, bundles>>
  BY DEF Sender!Start
<1>2. /\ mode'[s] = m /\ tip'[s] = Sender!Tip(m) /\ sendStep'[s] = next
      /\ \A t \in Sends \ {s} :
            mode'[t] = mode[t] /\ tip'[t] = tip[t] /\ sendStep'[t] = sendStep[t]
  BY <1>1 DEF Sender!TypeOK
<1>3. /\ Sender!Tried(s)' = Sender!Tried(s) \cup X
      /\ \A t \in Sends \ {s} : Sender!Tried(t)' = Sender!Tried(t)
  <2> HIDE DEF X
  <2>1. posted' = posted \cup Requests(s, X, Sender!NoUrl)
    BY <1>1 DEF Requests
  <2>2. QED BY <2>1, TriedGrows
<1>4. Sender!Tried(s)' = X
  BY <1>1, <1>3 DEF Delivered, Planned
<1>5. /\ \A k : Sender!Tip(k)' = Sender!Tip(k) /\ Sender!JitoToo(k)' = Sender!JitoToo(k)
              /\ Sender!ZeroOnly(k)' = Sender!ZeroOnly(k)
      /\ Sender!RpcChannels' = Sender!RpcChannels
  BY <1>1 DEF Sender!Tip, Sender!Primary, Sender!JitoToo, Sender!ZeroOnly, Sender!RpcChannels
<1>6. next \in {"bundle", "answers", "done"} /\ (next = "bundle" <=> Sender!JitoToo(m))
  BY DEF Sender!After
<1> HIDE DEF next
<1>7. Base(s)' = X
  BY <1>2, <1>5 DEF Base
<1>8. Planned(s)' = X
  BY <1>2, <1>5, <1>6, <1>7 DEF Planned
<1>9. \A t \in Sends \ {s} : Planned(t)' = Planned(t)
  BY <1>2, <1>5 DEF Planned, Base
<1>10. \A n \in posted' : n.url = Relay => n.channel = "bundle"
  <2>1. \A c : Sender!Message(s, c, Sender!NoUrl).url # Relay
    BY SenderAssumption DEF Sender!Message
  <2>2. QED BY <1>1, <2>1 DEF Delivered
<1>11. QED BY <1>2, <1>3, <1>4, <1>5, <1>6, <1>8, <1>9, <1>10 DEF Delivered

(* A plan depends on what is configured and on the kind of the send.         *)
LEMMA SamePlans ==
    ASSUME UNCHANGED <<routes, mode>>
    PROVE  /\ \A k : Sender!Tip(k)' = Sender!Tip(k) /\ Sender!JitoToo(k)' = Sender!JitoToo(k)
           /\ \A s : Base(s)' = Base(s)
BY DEF Sender!Tip, Sender!Primary, Sender!JitoToo, Sender!ZeroOnly, Sender!RpcChannels, Base

(* The bundle goes out.                                                      *)
LEMMA BundleDelivers ==
    ASSUME Sender!TypeOK, Delivered, NEW s \in Sends, Sender!Bundle(s)
    PROVE  Delivered'
<1> DEFINE url == Sender!Url(Sender!BundleUrls, counter)
<1>1. /\ sendStep[s] = "bundle" /\ sendStep' = [sendStep EXCEPT ![s] = "tx"]
      /\ posted' = posted \cup {Sender!Message(s, "bundle", url)}
      /\ UNCHANGED <<routes, mode, tip>>
  BY DEF Sender!Bundle
<1> HIDE DEF url
<1>2. sendStep'[s] = "tx" /\ \A t \in Sends \ {s} : sendStep'[t] = sendStep[t]
  BY <1>1 DEF Sender!TypeOK
<1>3. /\ Sender!Tried(s)' = Sender!Tried(s) \cup {"bundle"}
      /\ \A t \in Sends \ {s} : Sender!Tried(t)' = Sender!Tried(t)
  <2>1. posted' = posted \cup Requests(s, {"bundle"}, url)
    BY <1>1 DEF Requests
  <2>2. QED BY <2>1, TriedGrows
<1>4. Planned(s)' = Planned(s) \cup {"bundle"}
  BY <1>1, <1>2, SamePlans DEF Planned
<1>5. \A t \in Sends \ {s} : Planned(t)' = Planned(t)
  BY <1>1, <1>2, SamePlans DEF Planned
<1>6. Sender!Message(s, "bundle", url).channel = "bundle"
  BY DEF Sender!Message
<1>7. QED BY <1>1, <1>2, <1>3, <1>4, <1>5, <1>6, SamePlans DEF Delivered

(* The plain transaction goes out, never to the relay.                       *)
LEMMA PlainDelivers ==
    ASSUME Sender!TypeOK, Delivered, NEW s \in Sends, Sender!Plain(s)
    PROVE  Delivered'
<1> DEFINE url == Sender!Url(Sender!TxUrls, counter)
           X == IF Sender!TxUrls = <<>> THEN {} ELSE {"tx"}
<1>1. /\ sendStep[s] = "tx" /\ sendStep' = [sendStep EXCEPT ![s] = Sender!After(mode[s], FALSE)]
      /\ posted' = posted \cup Requests(s, X, url)
      /\ UNCHANGED <<routes, mode, tip>>
  BY DEF Sender!Plain, Requests
<1>2. Sender!TxUrls # <<>> => url # Relay
  BY TxUrlIn DEF Sender!TypeOK
<1>3. Sender!JitoChannels = {"bundle"} \cup X
  BY DEF Sender!JitoChannels
<1> HIDE DEF url
<1>4. \A n \in posted' : n.url = Relay => n.channel = "bundle"
  <2>1. \A c : Sender!Message(s, c, url).url = url
    BY DEF Sender!Message
  <2>2. QED BY <1>1, <1>2, <2>1 DEF Delivered, Requests
<1> HIDE DEF X
<1>5. sendStep'[s] \in {"answers", "done"} /\ \A t \in Sends \ {s} : sendStep'[t] = sendStep[t]
  BY <1>1 DEF Sender!TypeOK, Sender!After
<1>6. /\ Sender!Tried(s)' = Sender!Tried(s) \cup X
      /\ \A t \in Sends \ {s} : Sender!Tried(t)' = Sender!Tried(t)
  BY <1>1, TriedGrows
<1>7. Sender!JitoToo(mode[s])
  BY <1>1 DEF Delivered
<1>8. Planned(s) = Base(s) \cup {"bundle"}
  BY <1>1 DEF Planned
<1>9. Planned(s)' = Base(s) \cup Sender!JitoChannels
  <2>1. mode'[s] = mode[s] /\ Sender!JitoChannels' = Sender!JitoChannels
    BY <1>1 DEF Sender!JitoChannels
  <2>2. QED BY <1>1, <1>5, <1>7, <2>1, SamePlans DEF Planned
<1>10. \A t \in Sends \ {s} : Planned(t)' = Planned(t)
  BY <1>1, <1>5, SamePlans DEF Planned, Sender!JitoChannels
<1>11. Sender!Tried(s)' = Planned(s)'
  BY <1>3, <1>6, <1>8, <1>9 DEF Delivered
<1>12. QED BY <1>1, <1>4, <1>5, <1>6, <1>10, <1>11, SamePlans DEF Delivered

(* Answers post nothing.                                                     *)
LEMMA AnswersDeliver ==
    ASSUME Sender!TypeOK, Delivered, NEW s \in Sends, NEW success \in BOOLEAN,
           Sender!Answers(s, success)
    PROVE  Delivered'
<1>1. /\ sendStep[s] = "answers" /\ sendStep' = [sendStep EXCEPT ![s] = "done"]
      /\ UNCHANGED <<routes, mode, tip, posted>>
  BY DEF Sender!Answers
<1>2. sendStep'[s] = "done" /\ \A t \in Sends \ {s} : sendStep'[t] = sendStep[t]
  BY <1>1 DEF Sender!TypeOK
<1>3. \A t \in Sends : Planned(t)' = Planned(t) /\ Sender!Tried(t)' = Sender!Tried(t)
  BY <1>1, <1>2, SamePlans DEF Planned, Sender!JitoChannels, Sender!Tried
<1>4. QED BY <1>1, <1>2, <1>3, SamePlans DEF Delivered

(* The endpoints of bundles                                                  *)
SpreadInv == Sender!BundlesSpread /\ LastSpread

(* Counters that are closer than the number of endpoints choose different    *)
(* ones.                                                                     *)
LEMMA OtherUrl ==
    ASSUME NEW c \in Nat, NEW d \in Nat, c < d,
           d - c < Len(Sender!BundleUrls)
    PROVE  Sender!Url(Sender!BundleUrls, c) # Sender!Url(Sender!BundleUrls, d)
<1> DEFINE L == Len(Sender!BundleUrls)
<1>1. L \in Nat \ {0} /\ DOMAIN Sender!BundleUrls = 1..L
  BY BundleEndpoints
<1> HIDE DEF L
<1>2. c % L # d % L
  BY <1>1, Remainders DEF L
<1>3. (c % L) + 1 \in 1..L /\ (d % L) + 1 \in 1..L /\ (c % L) + 1 # (d % L) + 1
  BY <1>1, <1>2
<1>4. QED BY <1>1, <1>3, SpreadAssumption DEF Sender!Url, L

(* No bundle yet.                                                            *)
LEMMA SpreadInit == ASSUME Sender!Init PROVE SpreadInv
BY DEF Sender!Init, SpreadInv, Sender!BundlesSpread, LastSpread

(* The next bundle goes to another endpoint than the last: since then the    *)
(* counter has moved by what the last took and by the sends that have        *)
(* ended, this one not among them.                                           *)
LEMMA BundleSpreads ==
    ASSUME Sender!TypeOK, SpreadInv,
           NEW s \in Sends, Sender!Bundle(s)
    PROVE  SpreadInv'
<1> DEFINE url == Sender!Url(Sender!BundleUrls, counter)
           n   == Len(bundles)
<1>1. /\ sendStep[s] = "bundle" /\ bundles' = Append(bundles, url)
      /\ counter' \in {counter + 1, counter + 2}
  BY DEF Sender!Bundle
<1>2. bundles \in Seq(Sender!Urls) /\ counter \in Nat /\ n \in Nat
  BY DEF Sender!TypeOK
<1>3. bundles # <<>> => bundles[n] # url
  <2>1. SUFFICES ASSUME bundles # <<>> PROVE bundles[n] # url
    OBVIOUS
  <2>2. PICK c \in Nat, D \in SUBSET Done :
           /\ bundles[n] = Sender!Url(Sender!BundleUrls, c)
           /\ c + 1 <= counter /\ counter <= c + 2 + Cardinality(D)
    BY <2>1 DEF SpreadInv, LastSpread, Spread
  <2>3. D \subseteq Sends \ {s}
    BY <1>1 DEF Done
  <2>4. IsFiniteSet(D) /\ Cardinality(D) + 1 <= Cardinality(Sends) /\ Cardinality(Sends) \in Nat
        /\ Cardinality(D) \in Nat
    <3>1. IsFiniteSet(Sends \ {s}) /\ Cardinality(Sends \ {s}) = Cardinality(Sends) - 1
      BY FS_RemoveElement, SpreadAssumption
    <3>2. IsFiniteSet(D) /\ Cardinality(D) <= Cardinality(Sends \ {s})
      BY <2>3, <3>1, FS_Subset
    <3>3. QED BY <3>1, <3>2, FS_CardinalityType, SpreadAssumption
  <2>5. c < counter /\ counter - c < Len(Sender!BundleUrls)
    BY <1>2, <2>2, <2>4, BundleEndpoints, SpreadAssumption
  <2>6. QED BY <1>2, <2>2, <2>5, OtherUrl
<1> HIDE DEF url
<1>4. Len(bundles') = n + 1 /\ bundles'[n + 1] = url /\ \A i \in 1..n : bundles'[i] = bundles[i]
  BY <1>1, <1>2
<1>5. Sender!BundlesSpread'
  <2>1. SUFFICES ASSUME NEW i \in 1..n PROVE bundles'[i] # bundles'[i + 1]
    BY <1>2, <1>4 DEF Sender!BundlesSpread
  <2>2. CASE i < n
    BY <1>2, <1>4, <2>2 DEF SpreadInv, Sender!BundlesSpread
  <2>3. CASE i = n
    BY <1>2, <1>3, <1>4, <2>3
  <2>4. QED BY <1>2, <2>2, <2>3
<1>6. Spread(url, counter', Done')
  <2>1. {} \in SUBSET Done' /\ Cardinality({}) = 0
    BY FS_EmptySet
  <2>2. counter + 1 <= counter' /\ counter' <= counter + 2 + Cardinality({})
    BY <1>1, <1>2, <2>1
  <2>3. QED BY <1>2, <2>1, <2>2 DEF Spread, url
<1>7. LastSpread'
  BY <1>4, <1>6 DEF LastSpread
<1>8. QED BY <1>5, <1>7 DEF SpreadInv

(* The last bundle is still accounted for when more sends have ended, and    *)
(* when one more has ended and moved the counter.                            *)
LEMMA SpreadOn ==
    ASSUME NEW last, NEW count \in Nat, NEW done \in SUBSET Sends,
           Spread(last, count, done)
    PROVE  /\ \A more \in SUBSET Sends : done \subseteq more => Spread(last, count, more)
           /\ \A s \in Sends \ done : Spread(last, count + 1, done \cup {s})
<1>1. PICK c \in Nat, D \in SUBSET done :
         /\ last = Sender!Url(Sender!BundleUrls, c)
         /\ c + 1 <= count /\ count <= c + 2 + Cardinality(D)
  BY DEF Spread
<1>2. ASSUME NEW more \in SUBSET Sends, done \subseteq more PROVE Spread(last, count, more)
  BY <1>1, <1>2 DEF Spread
<1>3. ASSUME NEW s \in Sends \ done PROVE Spread(last, count + 1, done \cup {s})
  <2>1. IsFiniteSet(D) /\ Cardinality(D) \in Nat /\ s \notin D
    BY FS_Subset, FS_CardinalityType, SpreadAssumption
  <2>2. Cardinality(D \cup {s}) = Cardinality(D) + 1
    BY <2>1, FS_AddElement
  <2>3. D \cup {s} \in SUBSET (done \cup {s})
    OBVIOUS
  <2>4. c + 1 <= count + 1 /\ count + 1 <= c + 2 + Cardinality(D \cup {s})
    BY <1>1, <2>1, <2>2
  <2>5. QED BY <1>1, <2>3, <2>4 DEF Spread
<1>4. QED BY <1>2, <1>3

(* Steps that send no bundle keep the last one accounted for.                *)
LEMMA SpreadKept ==
    ASSUME Sender!TypeOK, SpreadInv, UNCHANGED bundles,
           \/ counter' = counter /\ Done \subseteq Done'
           \/ counter' = counter + 1 /\ \E s \in Sends \ Done : Done' = Done \cup {s}
    PROVE  SpreadInv'
<1>1. Sender!BundlesSpread'
  BY DEF SpreadInv, Sender!BundlesSpread
<1>2. Done \in SUBSET Sends /\ Done' \in SUBSET Sends /\ counter \in Nat
  BY DEF Done, Sender!TypeOK
<1>3. ASSUME bundles # <<>> PROVE Spread(bundles[Len(bundles)], counter', Done')
  <2>1. Spread(bundles[Len(bundles)], counter, Done)
    BY <1>3 DEF SpreadInv, LastSpread
  <2>2. CASE counter' = counter /\ Done \subseteq Done'
    BY <1>2, <2>1, <2>2, SpreadOn
  <2>3. CASE counter' = counter + 1 /\ \E s \in Sends \ Done : Done' = Done \cup {s}
    <3>1. PICK s \in Sends \ Done : Done' = Done \cup {s}
      BY <2>3
    <3>2. Spread(bundles[Len(bundles)], counter + 1, Done \cup {s})
      BY <1>2, <2>1, SpreadOn
    <3>3. QED BY <2>3, <3>1, <3>2
  <2>4. QED BY <2>2, <2>3
<1>4. QED BY <1>1, <1>3 DEF SpreadInv, LastSpread

(* Every step of the sender keeps the bundles spread.                        *)
LEMMA SpreadStep ==
    ASSUME Sender!TypeOK, SpreadInv, Sender!Next
    PROVE  SpreadInv'
<1>1. ASSUME NEW s \in Sends, NEW m \in Sender!Modes, Sender!Start(s, m) PROVE SpreadInv'
  <2>1. counter' = counter /\ UNCHANGED bundles /\ Done \subseteq Done'
    BY <1>1 DEF Sender!Start, Done, Sender!TypeOK
  <2>2. QED BY <2>1, SpreadKept
<1>2. ASSUME NEW s \in Sends, Sender!Plain(s) PROVE SpreadInv'
  <2>1. UNCHANGED bundles /\ (counter' = counter \/ counter' = counter + 1)
    BY <1>2 DEF Sender!Plain
  <2>2. s \in Sends \ Done /\ Done' = Done \cup {s}
    BY <1>2 DEF Sender!Plain, Done, Sender!TypeOK, Sender!After
  <2>3. QED BY <2>1, <2>2, SpreadKept
<1>3. ASSUME NEW s \in Sends, NEW success \in BOOLEAN, Sender!Answers(s, success) PROVE SpreadInv'
  <2>1. counter' = counter /\ UNCHANGED bundles /\ Done \subseteq Done'
    BY <1>3 DEF Sender!Answers, Done, Sender!TypeOK
  <2>2. QED BY <2>1, SpreadKept
<1>4. QED BY <1>1, <1>2, <1>3, BundleSpreads DEF Sender!Next

(* The invariants give what the run checks.                                  *)
LEMMA SenderSound ==
    ASSUME Sender!TypeOK, Delivered, SpreadInv
    PROVE  Sender!TipsMatchChannels /\ Sender!AllChannelsTried /\ Sender!BundlesSpread
<1>1. Sender!AllChannelsTried
  <2>1. SUFFICES ASSUME NEW s \in Sends, sendStep[s] \in {"answers", "done"}
                 PROVE  Sender!Tried(s) = IF Sender!ZeroOnly(mode[s]) THEN {"0slot"}
                           ELSE Sender!RpcChannels
                                   \cup (IF routes.jito THEN Sender!JitoChannels ELSE {})
    BY DEF Sender!AllChannelsTried
  <2>2. Sender!Tried(s) = Base(s) \cup (IF Sender!JitoToo(mode[s]) THEN Sender!JitoChannels ELSE {})
    BY <2>1 DEF Delivered, Planned
  <2>3. QED BY <2>2 DEF Base, Sender!JitoToo
<1>2. Sender!TipsMatchChannels
  <2>1. SUFFICES ASSUME NEW m \in posted
                 PROVE  /\ m.channel = "0slot" <=> tip[m.send] = "0slot"
                        /\ m.channel \in {"bundle", "tx"}
                              => tip[m.send] = "jito" \/ mode[m.send] = "jupiter"
                        /\ m.url = Relay => m.channel = "bundle"
    BY DEF Sender!TipsMatchChannels
  <2> DEFINE s == m.send
  <2>2. s \in Sends /\ mode[s] \in Sender!Modes
    BY DEF Sender!TypeOK, Sender!Message
  <2>3. m.channel \in Sender!Tried(s)
    BY DEF Sender!Tried
  <2>4. m.channel \in Planned(s)
    BY <2>2, <2>3 DEF Delivered
  <2>5. sendStep[s] # "idle" /\ tip[s] = Sender!Tip(mode[s])
    BY <2>2, <2>4 DEF Delivered, Planned
  <2>6. m.channel \in Base(s) \/ (Sender!JitoToo(mode[s]) /\ m.channel \in {"bundle", "tx"})
    BY <2>2, <2>4, <2>5 DEF Delivered, Planned, Sender!JitoChannels
  <2>7. m.url = Relay => m.channel = "bundle"
    BY DEF Delivered
  <2>8. Base(s) \subseteq {"0slot", "rpc", "rpc2"}
        /\ ("0slot" \in Base(s) <=> Sender!ZeroOnly(mode[s]))
        /\ (Sender!ZeroOnly(mode[s]) => Base(s) = {"0slot"})
    BY DEF Base, Sender!RpcChannels
  <2>9. Sender!Tip(mode[s]) = "0slot" <=> Sender!ZeroOnly(mode[s])
    BY <2>2 DEF Sender!Tip, Sender!Primary, Sender!ZeroOnly, Sender!Modes
  <2>10. Sender!JitoToo(mode[s]) => ~ Sender!ZeroOnly(mode[s])
            /\ (Sender!Tip(mode[s]) = "jito" \/ mode[s] = "jupiter")
    BY <2>2 DEF Sender!JitoToo, Sender!Tip, Sender!Primary, Sender!ZeroOnly, Sender!Modes
  <2> HIDE DEF s
  <2>11. m.channel = "0slot" <=> tip[s] = "0slot"
    BY <2>5, <2>6, <2>8, <2>9, <2>10
  <2>12. m.channel \in {"bundle", "tx"} => tip[s] = "jito" \/ mode[s] = "jupiter"
    BY <2>5, <2>6, <2>8, <2>10
  <2>13. QED BY <2>7, <2>11, <2>12 DEF s
<1>3. QED BY <1>1, <1>2 DEF SpreadInv

-----------------------------------------------------------------------------
(* Each part takes its steps, or stands still.                               *)
LEMMA PartsMove ==
    ASSUME [Next]_vars
    PROVE  /\ [Sender!Next]_sendVars /\ [Router!Next]_routeVars
           /\ [Curve!Next]_quoteVars /\ [Rules!Next]_exitVars
BY DEF Next, vars

(* In the composition the exit rules keep their types.                       *)
LEMMA RulesTyped == Spec => []Rules!TypeOK
<1>1. ASSUME Rules!TypeOK, UNCHANGED exitVars PROVE Rules!TypeOK'
  BY <1>1 DEF Rules!TypeOK, exitVars
<1>2. Init => Rules!TypeOK
  BY RulesInit DEF Init
<1>3. Rules!TypeOK /\ [Next]_vars => Rules!TypeOK'
  BY <1>1, PartsMove, RulesStep
<1>4. QED BY <1>2, <1>3, PTL DEF Spec

(* The invariant of the quotes, in the composition.                          *)
LEMMA CurveInvHolds == Spec => []CurveInv
<1>1. ASSUME CurveInv, UNCHANGED quoteVars PROVE CurveInv'
  BY <1>1 DEF CurveInv, Curve!Curve, quoteVars
<1>2. Init => CurveInv
  BY CurveInit DEF Init
<1>3. CurveInv /\ [Next]_vars => CurveInv'
  BY <1>1, PartsMove, CurveStep
<1>4. QED BY <1>2, <1>3, PTL DEF Spec

(* The types of the router, in the composition.                              *)
LEMMA RouterTyped == Spec => []Router!TypeOK
<1>1. ASSUME Router!TypeOK, UNCHANGED routeVars PROVE Router!TypeOK'
  BY <1>1 DEF Router!TypeOK, routeVars
<1>2. Init => Router!TypeOK
  BY RouterInit DEF Init
<1>3. Router!TypeOK /\ [Next]_vars => Router!TypeOK'
  BY <1>1, PartsMove, RouterStep
<1>4. QED BY <1>2, <1>3, PTL DEF Spec

SenderInv == Sender!TypeOK /\ Delivered /\ SpreadInv

(* Every step of the sender keeps what is delivered.                         *)
LEMMA DeliveredStep ==
    ASSUME Sender!TypeOK, Delivered, Sender!Next
    PROVE  Delivered'
BY StartDelivers, BundleDelivers, PlainDelivers, AnswersDeliver DEF Sender!Next

(* The invariants of the sender, in the composition.                         *)
LEMMA SenderInvHolds == Spec => []SenderInv
<1>1. ASSUME SenderInv, UNCHANGED sendVars PROVE SenderInv'
  <2>1. UNCHANGED <<routes, sendStep, mode, tip, counter, posted, bundles, outcome>>
    BY <1>1 DEF sendVars
  <2>2. Sender!TypeOK'
    BY <1>1, <2>1 DEF SenderInv, Sender!TypeOK
  <2>3. \A s \in Sends : Sender!Tried(s)' = Sender!Tried(s) /\ Planned(s)' = Planned(s)
    BY <2>1, SamePlans DEF Sender!Tried, Planned, Sender!JitoChannels
  <2>4. Delivered'
    BY <1>1, <2>1, <2>3, SamePlans DEF SenderInv, Delivered
  <2>5. SpreadInv'
    BY <1>1, <2>1 DEF SenderInv, SpreadInv, LastSpread, Done, Sender!BundlesSpread
  <2>6. QED BY <2>2, <2>4, <2>5 DEF SenderInv
<1>2. Init => SenderInv
  BY SenderTypesInit, DeliveredInit, SpreadInit DEF Init, SenderInv
<1>3. SenderInv /\ [Next]_vars => SenderInv'
  BY <1>1, PartsMove, SenderTypesStep, DeliveredStep, SpreadStep DEF SenderInv
<1>4. QED BY <1>2, <1>3, PTL DEF Spec

-----------------------------------------------------------------------------
(* The feeds, the sender, the router, the quotes, the guard and the exit     *)
(* rules keep their types.                                                   *)
THEOREM TypeCorrect == Spec => []TypeOK
<1>1. Spec => []Scanner!TypeOK
  <2>1. Spec => ScannerT!Spec
    BY SameFeeds, PTL DEF Spec, ScannerT!Spec, ScannerT!vars, feedVars
  <2>2. ScannerT!Settings
    BY FeedsAssumption
    DEF ScannerT!Settings, ScannerT!Skew, Scanner!Idle, ScannerT!Idle, ScannerT!Event
  <2>3. ScannerT!Spec => []ScannerT!TypeOK
    BY <2>2, ScannerT!TypeCorrect
  <2>4. ScannerT!TypeOK => Scanner!TypeOK
    BY DEF ScannerT!TypeOK, Scanner!TypeOK, Scanner!Idle, ScannerT!Idle, Scanner!Event,
           ScannerT!Event, Scanner!Never, ScannerT!Never, Scanner!cache, ScannerT!cache,
           Scanner!Cardinality, ScannerT!Cardinality, Scanner!Since, ScannerT!Since
  <2>5. QED BY <2>1, <2>3, <2>4, PTL
<1>2. Spec => []Guard!TypeOK
  <2>1. Spec => GuardT!Spec
    BY SameGuard, PTL DEF Spec, GuardT!Spec, GuardT!vars, guardVars
  <2>2. GuardT!Spec => []GuardT!TypeOK
    BY GuardAssumption, GuardT!GuardTypes
  <2>3. GuardT!TypeOK => Guard!TypeOK
    BY DEF GuardT!TypeOK, Guard!TypeOK, Guard!Steps, GuardT!Steps, Guard!Attempts,
           GuardT!Attempts
  <2>4. QED BY <2>1, <2>2, <2>3, PTL
<1>3. Spec => [](part \in Parts)
  <2>1. Init => part \in Parts
    BY DEF Init
  <2>2. part \in Parts /\ [Next]_vars => (part \in Parts)'
    BY DEF Next, vars
  <2>3. QED BY <2>1, <2>2, PTL DEF Spec
<1>4. SenderInv => Sender!TypeOK
  BY DEF SenderInv
<1>5. CurveInv => Curve!TypeOK
  BY CurveSound
<1>6. (part \in Parts) /\ Scanner!TypeOK /\ Guard!TypeOK /\ Sender!TypeOK /\ Curve!TypeOK
         /\ Router!TypeOK /\ Rules!TypeOK => TypeOK
  BY DEF TypeOK
<1>7. QED
  BY <1>1, <1>2, <1>3, <1>4, <1>5, <1>6, SenderInvHolds, CurveInvHolds, RouterTyped, RulesTyped, PTL

(* send_all_channels and fire_and_forget post a transaction to every channel *)
(* of its route and to none its tip does not count for, the relay gets       *)
(* bundles only, and bundles next to each other go to different endpoints.   *)
THEOREM TipsMatchChannelsHolds == Spec => []TipsMatchChannels
<1>1. SenderInv => TipsMatchChannels
  BY SenderSound DEF SenderInv, TipsMatchChannels
<1>2. QED BY <1>1, SenderInvHolds, PTL

(* Whatever the receipts of the window are, one more failure makes no buy    *)
(* pay less or take fewer channels: profile_for_signal of                    *)
(* execution_feedback_from_receipts.                                         *)
THEOREM FailuresEscalateHolds == Spec => []FailuresEscalate
<1>1. Router!TypeOK => FailuresEscalate
  BY Escalates DEF Router!TypeOK, FailuresEscalate
<1>2. QED BY <1>1, RouterTyped, PTL

(* The integers of sol_to_token_quote, buy_from_target_instruction and       *)
(* token_to_sol_quote never ask for more than is spent nor promise more than *)
(* was paid, for reserves, amounts and slippages of any size: all roundings  *)
(* go the right way.                                                         *)
THEOREM QuotesSoundHolds == Spec => []QuotesSound
<1>1. CurveInv => QuotesSound
  BY CurveSound DEF QuotesSound
<1>2. QED BY <1>1, CurveInvHolds, PTL

(* Two live feeds, or more, let an event through once, and none lets a buy   *)
(* overtake its token: FeedsProofs, in the composition.                      *)
THEOREM ForwardedOnceHolds == Spec => []ForwardedOnce
<1>1. Spec => ScannerT!Spec
  BY SameFeeds, PTL DEF Spec, ScannerT!Spec, ScannerT!vars, feedVars
<1>2. ScannerT!Settings
  BY FeedsAssumption
  DEF ScannerT!Settings, ScannerT!Skew, Scanner!Idle, ScannerT!Idle, ScannerT!Event
<1>3. ScannerT!Spec => []ScannerT!ForwardedOnce /\ []ScannerT!OrderKept
  BY <1>2, ScannerT!ForwardedOnceHolds, ScannerT!OrderKeptHolds
<1>4. ScannerT!ForwardedOnce /\ ScannerT!OrderKept => ForwardedOnce
  BY DEF ForwardedOnce, ScannerT!ForwardedOnce, Scanner!ForwardedOnce, ScannerT!OrderKept,
         Scanner!OrderKept, ScannerT!Event, Scanner!Event, ScannerT!Cardinality,
         Scanner!Cardinality
<1>5. QED BY <1>1, <1>3, <1>4, PTL

(* No step leaves two processes running, or one the guard's file does not    *)
(* name, nor refuses one for nobody, unless starts overlap: RuntimeGuard-    *)
(* Proofs, in the composition.                                               *)
THEOREM OneInstanceHolds == Spec => OneInstance
<1>1. Spec => GuardT!Spec
  BY SameGuard, PTL DEF Spec, GuardT!Spec, GuardT!vars, guardVars
<1>2. GuardT!Spec => []GuardT!OneInstance /\ [][GuardT!RefusedForAnother]_guardVars
  BY GuardAssumption, GuardT!OneInstanceHolds, GuardT!RefusedForAnotherHolds
  DEF GuardT!vars, guardVars
<1>3. GuardT!OneInstance => Guard!OneInstance
  BY DEF GuardT!OneInstance, Guard!OneInstance, GuardT!Cardinality, Guard!Cardinality
<1>4. GuardT!RefusedForAnother => Guard!RefusedForAnother
  BY DEF GuardT!RefusedForAnother, Guard!RefusedForAnother, GuardT!Starting, Guard!Starting
<1>5. QED BY <1>1, <1>2, <1>3, <1>4, PTL DEF OneInstance

=============================================================================
