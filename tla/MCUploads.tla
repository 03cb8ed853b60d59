------------------------------ MODULE MCUploads ------------------------------
(* Instances of Uploads for TLC.                                             *)
EXTENDS Uploads, TLC

CONSTANTS u1, u2, u3, c1, c2
=============================================================================
