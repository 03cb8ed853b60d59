--------------------------- MODULE MCLiveRecovery ---------------------------
(* An instance of LiveRecovery for TLC. *)
EXTENDS LiveRecovery

CONSTANTS k1, d1, d2, s1, s2
=============================================================================
