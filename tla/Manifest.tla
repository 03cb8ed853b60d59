------------------------------ MODULE Manifest ------------------------------
(***************************************************************************)
(* The Merkle tree of a device's manifest and its comparison with another  *)
(* (sync/merkle.py, api/sync.py; MerkleTree.swift and the walk of          *)
(* SyncPlanner.swift are the same function).  A hash is a sequence of      *)
(* digits of which Depth name its bucket.  SHA-256 is taken to be          *)
(* injective: the value of a node is what was hashed.                      *)
(***************************************************************************)
EXTENDS Integers, Sequences, SequencesExt, FiniteSets, Functions

CONSTANTS Depth, Digits    \* 3 and 16 in the code

Empty == <<>>
NoTree == [buckets |-> <<>>, cache |-> <<>>]
PathOf(h) == SubSeq(h, 1, Depth)
Members(t, path) == IF path \in DOMAIN t.buckets THEN t.buckets[path] ELSE {}

(* _invalidate: all nodes from the bucket to the root.                       *)
Stale(path) == {SubSeq(path, 1, i) : i \in 0 .. Depth}
TreeSet(t, path, members) ==
  [buckets |-> IF members = {} THEN Restrict(t.buckets, DOMAIN t.buckets \ {path})
               ELSE (path :> members) @@ t.buckets,
   cache |-> Restrict(t.cache, DOMAIN t.cache \ Stale(path))]
TreeAdd(t, h) ==
  IF h \in Members(t, PathOf(h)) THEN t ELSE TreeSet(t, PathOf(h), Members(t, PathOf(h)) \cup {h})
TreeRemove(t, h) ==
  IF h \notin Members(t, PathOf(h)) THEN t ELSE TreeSet(t, PathOf(h), Members(t, PathOf(h)) \ {h})

(* node: from the cache, or computed into it after the nodes below.          *)
NodeValue(kids) == IF \A d \in DOMAIN kids : kids[d] = Empty THEN Empty ELSE kids
RECURSIVE Node(_, _)
Node(t, path) ==
  IF path \in DOMAIN t.cache THEN t
  ELSE LET filled == IF Len(path) = Depth THEN t
                     ELSE FoldLeft(LAMBDA u, d : Node(u, Append(path, d)), t, Digits)
           value == IF Len(path) = Depth
                    THEN IF Members(t, path) = {} THEN Empty ELSE <<Members(t, path)>>
                    ELSE NodeValue([i \in DOMAIN Digits |-> filled.cache[Append(path, Digits[i])]])
       IN [filled EXCEPT !.cache = (path :> value) @@ @]
ValueOf(t, path) == Node(t, path).cache[path]

(* diff: down into the children that differ, then the buckets.               *)
RECURSIVE Frontier(_, _, _)
Frontier(local, remote, depth) ==
  IF depth = 0 THEN {<<>>}
  ELSE {p \in {Append(q, Digits[i]) : q \in Frontier(local, remote, depth - 1), i \in DOMAIN Digits} :
          ValueOf(local, p) # ValueOf(remote, p)}
Gathered(local, remote, paths) ==
  <<UNION {Members(local, p) \ Members(remote, p) : p \in paths},
    UNION {Members(remote, p) \ Members(local, p) : p \in paths}>>
DiffOfMine(local, remote) ==
  IF ValueOf(local, <<>>) = ValueOf(remote, <<>>) THEN <<{}, {}>>
  ELSE Gathered(local, remote, {p \in Frontier(local, remote, Depth) : Members(local, p) # {}})
Diff(local, remote) ==
  IF ValueOf(local, <<>>) = ValueOf(remote, <<>>) THEN <<{}, {}>>
  ELSE Gathered(local, remote, Frontier(local, remote, Depth))
=============================================================================
