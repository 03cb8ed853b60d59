---------------------------- MODULE MCBatchStore ----------------------------
(* Instances of BatchStore for TLC: three files that share chunks, one of    *)
(* them with a chunk twice.                                                  *)
EXTENDS BatchStore, TLC

CONSTANTS c1, c2, f1, f2, f3

Bodies == f1 :> <<c1, c2, c1>> @@ f2 :> <<c2>> @@ f3 :> <<c1>>
MCBody == [f \in File |-> Bodies[f]]
=============================================================================
