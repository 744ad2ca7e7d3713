------------------------ MODULE MCAccountSubscriber ------------------------
(* The account subscriber with two mints: one can be untracked while the     *)
(* other is tracked.  No definition tells one mint from another.             *)
EXTENDS AccountSubscriber, TLC

Symmetry == Permutations(Mints)

=============================================================================
