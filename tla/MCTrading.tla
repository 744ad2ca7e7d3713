----------------------------- MODULE MCTrading -----------------------------
(***************************************************************************)
(* Trading, with two feeds, two tokens and a buy of the first; channels    *)
(* that one event fills, and a cache that is cleaned at every instant;     *)
(* three sends over the default endpoints; confidences and urgencies on    *)
(* both sides of the thresholds of the tiers; a curve so small that every  *)
(* rounding matters; and prices that meet each percentage exactly.         *)
(***************************************************************************)
EXTENDS Trading

BuyOf == [b1 |-> "t1"]

DefaultEngines == <<"main", "ams", "fra", "ny", "tokyo">>

=============================================================================
