---------------------------- MODULE MCStructures ----------------------------
(* Instances of Structures for TLC.                                          *)
EXTENDS Structures, TLC

MCCodes == {<<1, 2>>, <<2, 0>>, <<2, 2>>, <<3, 2>>}
MCStripes == {<<>>, <<7>>, <<1, 2, 3>>, <<0, 255, 0, 128>>}
MCStreams ==
  UNION {[1 .. n -> {0, 1, 3}] : n \in 0 .. 5} \cup [1 .. 10 -> {1, 2}]
    \cup {[i \in 1 .. 14 |-> IF i \in S THEN 1 ELSE 2] : S \in SUBSET {2, 4, 7, 9, 12}}
MCDigests == {<<0, 0>>, <<1, 2>>, <<3, 5>>, <<9, 4>>}
MCPlaces == {<<0, 0>>, <<1, 0>>, <<1, 1>>, <<5, 7>>}
MCBoxes == {<<0, 0, 7, 7>>, <<1, 0, 5, 6>>, <<2, 1, 3, 7>>, <<5, 0, 1, 7>>, <<7, 0, 0, 3>>}
MCDigits == <<0, 1>>
MCItems == {<<0, 0, 0>>, <<0, 0, 1>>, <<0, 1, 0>>, <<1, 1, 0>>}
=============================================================================
