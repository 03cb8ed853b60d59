------------------------------ MODULE MCLibrary ------------------------------
(* Instances of Library for TLC: files 1 and 2 are near, 3 is a stranger.    *)
EXTENDS Library, TLC

CONSTANTS t1, t2, t3

MCNear == {<<1, 2>>, <<2, 1>>}
Trashing == {"trash", "restore", "purge"}
MCSessions == {({"ingest"} \X {1, 2, 3}) \cup (Trashing \X {1, 2}),
               (Trashing \cup {"ingest", "thumb"}) \X {1},
               {"ingest", "link", "unlink"} \X {1, 2}}
(* The overlaps that do harm.                                                *)
MCClash == IndexOverlaps \cup TreeOverlaps \cup {{"thumb", "purge"}}
None == {}
=============================================================================
