----------------------------- MODULE MCRestripe -----------------------------
(* Instances of Restripe for TLC. *)
EXTENDS Restripe, TLC

CONSTANTS k1, k2, d1, d2, d3, s1, s2, s3, s4, r1

Symmetry == Permutations(Disk) \cup Permutations(StripeId) \cup Permutations(Key)
=============================================================================
