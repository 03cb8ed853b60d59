--------------------------- MODULE MCRebuild --------------------------------
(* Instances of Rebuild for TLC. *)
EXTENDS Rebuild, TLC

CONSTANTS d1, d2, d3, d4, s1, s2, u1, u2, r1, b1

Symmetry == Permutations(Registered)
=============================================================================
