----------------------------- MODULE MCAutoSell -----------------------------
(* AutoSell on small instances.  Most runs have one mint, on whose entry all *)
(* the tasks meet; one has two, between which the executor is shared.  No    *)
(* definition tells one mint from another.                                   *)
EXTENDS AutoSell, TLC

Symmetry == Permutations(Mints)

=============================================================================
