--------------------------- MODULE MCFilterStores ---------------------------
(***************************************************************************)
(* FilterStores, with two gates for one creator, who turns bad at time 1,  *)
(* and profiles that are fresh for no more than an instant; three look-ups *)
(* of one wallet, of which some find a stale snapshot; three launches of   *)
(* one creator from one template, the third of which makes him a factory   *)
(* and the second repeats the template once too often; a mint that is      *)
(* admitted or turned away twice; a creator and two buyers with one        *)
(* funder; one term, whose preheat row is active for an instant and whose  *)
(* confirmed one is longer; and amounts on both sides of each threshold of *)
(* the single-buyer filter.                                                *)
(***************************************************************************)
EXTENDS FilterStores

TermTTLs == [preheat |-> 0, confirmed |-> 1, base |-> 2]

Bonuses == [preheat |-> 1, base |-> 1, confirmed |-> 2]

=============================================================================
