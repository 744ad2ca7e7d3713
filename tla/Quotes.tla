------------------------------- MODULE Quotes -------------------------------
(***************************************************************************)
(* What a buy asks of the bonding curve and what a sell expects of it      *)
(* (processor/pumpfun.rs, tx/sell_executor.rs).  A buy is quoted from the  *)
(* cached state of the curve, or, when there is none, from the transaction *)
(* of the wallet it follows, whose price is laid over a curve that has     *)
(* just started.  Others trade at any time, so a quote may be old when it  *)
(* is executed; the program on chain takes a buy if it costs no more than  *)
(* max_sol_cost.                                                           *)
(***************************************************************************)
EXTENDS Integers

CONSTANTS
    StartSol, StartTokens,  \* the reserves of a new curve; the code knows the first
    Amounts,                \* what a buy may spend
    Slippages,              \* of the buy and of the wallet it follows
    MaxSol                  \* bound: the reserves

VARIABLES
    sol, tokens,    \* the virtual reserves on chain
    cached,         \* the reserves in the cache, or of its being empty
    target,         \* the transaction followed: its tokens and max_sol_cost
    order,          \* the buy: what it asks, the most it pays, what it means to spend
    held, spent     \* what it has got and paid

vars == <<sol, tokens, cached, target, order, held, spent>>

Scale    == 100     \* of the slippages; 10,000 in the code
NoCurve  == [sol |-> 0, tokens |-> 0]
NoTarget == [tokens |-> 0, max |-> 0]
NoOrder  == [asked |-> 0, max |-> 0, spend |-> 0, seen |-> NoCurve]
Curve    == [sol |-> sol, tokens |-> tokens]

-----------------------------------------------------------------------------
(* sol_to_token_quote *)
TokensFor(c, paid) == IF c.sol = 0 THEN 0 ELSE (c.tokens * paid) \div (c.sol + paid)

(* token_to_sol_quote *)
SolFor(c, sold) == IF c.tokens = 0 THEN 0 ELSE (c.sol * sold) \div (c.tokens + sold)

(* what the program on chain charges for tokens, rounded up: external        *)
CostOf(c, bought) == (c.sol * bought + c.tokens - bought - 1) \div (c.tokens - bought)

(* max_sol_cost *)
MostPaid(paid, slip) == paid + (paid * slip) \div Scale

(* min_sol_output *)
LeastGot(c, sold, slip) == SolFor(c, sold) - (SolFor(c, sold) * slip) \div Scale

(* buy_from_target_instruction: the virtual tokens at the target's price.    *)
TargetCurve(t) == [sol |-> StartSol, tokens |-> (StartSol * t.tokens) \div t.max]

AtLeastOne(asked) == IF asked < 1 THEN 1 ELSE asked

(* as it would be with the target's price paid for every token               *)
FromTargetLinear(t, paid) == AtLeastOne((t.tokens * paid) \div t.max)

FromTarget(t, paid) == AtLeastOne(TokensFor(TargetCurve(t), paid))

-----------------------------------------------------------------------------
TypeOK ==
    /\ sol \in StartSol..MaxSol /\ tokens \in 1..StartTokens
    /\ cached.sol \in 0..MaxSol /\ cached.tokens \in 0..StartTokens
    /\ order.asked \in 0..StartTokens /\ held \in 0..StartTokens
    /\ spent \in 0..MostPaid(MaxSol, Scale)

Init ==
    /\ sol = StartSol /\ tokens = StartTokens
    /\ cached = NoCurve /\ target = NoTarget /\ order = NoOrder
    /\ held = 0 /\ spent = 0

(* Somebody buys.                                                            *)
OtherBuys(paid) ==
    /\ sol + paid <= MaxSol
    /\ sol' = sol + paid
    /\ tokens' = tokens - TokensFor(Curve, paid)
    /\ UNCHANGED <<cached, target, order, held, spent>>

(* The others sell all they have bought.                                     *)
OthersSell ==
    LET sold == StartTokens - tokens - held
    IN  /\ sold > 0
        /\ sol' = sol - SolFor(Curve, sold)
        /\ tokens' = tokens + sold
        /\ UNCHANGED <<cached, target, order, held, spent>>

(* The account subscriber caches the curve.                                  *)
Observe ==
    /\ cached' = Curve
    /\ UNCHANGED <<sol, tokens, target, order, held, spent>>

(* The followed wallet asks for what the curve gives for its amount, and the *)
(* program sees this before it is executed.                                  *)
Follow(paid, slip) ==
    /\ target = NoTarget
    /\ TokensFor(Curve, paid) > 0
    /\ target' = [tokens |-> TokensFor(Curve, paid), max |-> MostPaid(paid, slip)]
    /\ order' = [order EXCEPT !.seen = Curve]
    /\ UNCHANGED <<sol, tokens, cached, held, spent>>

(* execute_group_buy: the cache first, or else the followed transaction.     *)
Buy(paid, slip) ==
    /\ target # NoTarget /\ order.asked = 0
    /\ LET asked == IF cached # NoCurve THEN TokensFor(cached, paid)
                    ELSE FromTarget(target, paid)
       IN  /\ asked > 0
           /\ order' = [asked |-> asked, max |-> MostPaid(paid, slip), spend |-> paid,
                        seen |-> IF cached # NoCurve THEN cached ELSE order.seen]
    /\ UNCHANGED <<sol, tokens, cached, target, held, spent>>

(* The buy lands on the curve of its time.                                   *)
Land ==
    /\ order.asked > 0 /\ held = 0
    /\ order.asked < tokens
    /\ CostOf(Curve, order.asked) <= order.max
    /\ sol + CostOf(Curve, order.asked) <= MaxSol
    /\ spent' = CostOf(Curve, order.asked) /\ held' = order.asked
    /\ sol' = sol + spent' /\ tokens' = tokens - held'
    /\ UNCHANGED <<cached, target, order>>

Next ==
    \/ \E a \in Amounts : OtherBuys(a)
    \/ OthersSell \/ Observe
    \/ \E a \in Amounts, s \in Slippages : Follow(a, s) \/ Buy(a, s)
    \/ Land

Spec == Init /\ [][Next]_vars

-----------------------------------------------------------------------------
(* A buy asks for no more than its amount buys on the curve it was quoted    *)
(* from, also when that curve is only guessed from the followed transaction: *)
(* the slippage is left for those who trade in between.                      *)
AsksWhatItSpends ==
    order.asked > 1 => CostOf(order.seen, order.asked) <= order.spend

(* A buy that could land now is quoted no more for its tokens, sold on the   *)
(* curve it would leave, than it pays: a sell that demands its quote less    *)
(* the slippage can be served.                                               *)
RoundTripLoses ==
    order.asked \in 1..(tokens - 1) =>
        LET cost == CostOf(Curve, order.asked)
            left == [sol |-> sol + cost, tokens |-> tokens - order.asked]
        IN  \A slip \in Slippages : LeastGot(left, order.asked, slip) <= cost

=============================================================================
