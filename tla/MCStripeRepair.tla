--------------------------- MODULE MCStripeRepair ---------------------------
(* Instances of StripeRepair for TLC. *)
EXTENDS StripeRepair, TLC

CONSTANTS d1, d2, d3, d4, s1, s2, u1, u2, r1, b1

Symmetry == Permutations(Disk)
=============================================================================
