----------------------------- MODULE SearchTrees -----------------------------
(***************************************************************************)
(* The indexes in memory: the BK-tree and the multi-index hash over codes  *)
(* under Hamming distance (phash/bktree.py, mih.py), the quadtree of the   *)
(* map (spatial/quadtree.py) and the cache of thumbnails (cache/lru.py).   *)
(* A code is a number of SubCodes * SubBits bits; the map is a square of   *)
(* 2 ^ MaxDepth cells a side, and a point lies on the corner of a cell.    *)
(***************************************************************************)
EXTENDS Integers, Sequences, SequencesExt, FiniteSets, FiniteSetsExt, Functions, Bitwise

CONSTANTS
  SubCodes, SubBits,        \* M and BITS, 4 and 16 in the code
  LeafCapacity, MaxDepth,   \* LEAF_CAPACITY and MAX_DEPTH, 16 and 24
  Budget,                   \* of the cache
  Null

RECURSIVE BitCount(_)
BitCount(x) == IF x = 0 THEN 0 ELSE (x % 2) + BitCount(x \div 2)
Distance(x, y) == BitCount(x ^^ y)

(* BK-tree: a node has a hash, the ids that have it and, by their distance   *)
(* from it, children.                                                        *)
BkNode(h, id) == [hash |-> h, ids |-> {id}, children |-> <<>>]
RECURSIVE BkAdd(_, _, _)
BkAdd(node, h, id) ==
  IF node = <<>> THEN BkNode(h, id)
  ELSE LET d == Distance(node.hash, h) IN
    IF d = 0 THEN [node EXCEPT !.ids = @ \cup {id}]
    ELSE IF d \in DOMAIN node.children
    THEN [node EXCEPT !.children[d] = BkAdd(@, h, id)]
    ELSE [node EXCEPT !.children = (d :> BkNode(h, id)) @@ @]
(* An empty node stays, to lead to its children.                             *)
RECURSIVE BkRemove(_, _, _)
BkRemove(node, h, id) ==
  LET d == Distance(node.hash, h) IN
  IF d = 0 THEN [node EXCEPT !.ids = @ \ {id}]
  ELSE IF d \in DOMAIN node.children THEN [node EXCEPT !.children[d] = BkRemove(@, h, id)] ELSE node
BkEdges(d, radius) == {e \in 0 .. SubCodes * SubBits : d - radius <= e /\ e <= d + radius}
RECURSIVE BkSearch(_, _, _)
BkSearch(node, q, radius) ==
  IF node = <<>> THEN {}
  ELSE LET d == Distance(node.hash, q) IN
    (IF d <= radius THEN {<<id, d>> : id \in node.ids} ELSE {})
    \cup UNION {BkSearch(node.children[e], q, radius) : e \in DOMAIN node.children \cap BkEdges(d, radius)}

(* Multi-index hash: a table for each part of the codes.                     *)
Sub(h, t) == (h \div 2 ^ (SubBits * t)) % 2 ^ SubBits
NoMih == [tables |-> [t \in 0 .. SubCodes - 1 |-> [v \in 0 .. 2 ^ SubBits - 1 |-> {}]], codes |-> <<>>]
MihAdd(mih, h, id) ==
  [tables |-> [t \in DOMAIN mih.tables |-> [mih.tables[t] EXCEPT ![Sub(h, t)] = @ \cup {id}]],
   codes |-> (id :> h) @@ mih.codes]
MihRemove(mih, h, id) ==
  [tables |-> [t \in DOMAIN mih.tables |-> [mih.tables[t] EXCEPT ![Sub(h, t)] = @ \ {id}]],
   codes |-> Restrict(mih.codes, DOMAIN mih.codes \ {id})]
NeighboursOnly(v, radius) == {v}
Neighbours(v, radius) == {x \in 0 .. 2 ^ SubBits - 1 : Distance(v, x) <= radius}
MihSearch(mih, q, radius) ==
  LET seen == UNION {UNION {mih.tables[t][v] : v \in Neighbours(Sub(q, t), radius \div SubCodes)} :
                       t \in DOMAIN mih.tables}
  IN {<<id, Distance(mih.codes[id], q)>> : id \in {i \in seen : Distance(mih.codes[i], q) <= radius}}

-----------------------------------------------------------------------------
(* Quadtree.  A point is <<x, y, id, key>>, rep is <<key, id>>; children are *)
(* numbered 1 to 4, by column and then row.                                  *)
QuadNode(x0, y0, size, depth) ==
  [x0 |-> x0, y0 |-> y0, size |-> size, depth |-> depth, count |-> 0, sx |-> 0, sy |-> 0,
   rep |-> Null, points |-> <<>>, children |-> <<>>]
NoQuad == QuadNode(0, 0, 2 ^ MaxDepth, 0)
ChildFor(node, p) ==
  LET half == node.size \div 2 IN
  1 + (IF p[1] >= node.x0 + half THEN 1 ELSE 0) + (IF p[2] >= node.y0 + half THEN 2 ELSE 0)
Counted(node, p) ==
  [node EXCEPT !.count = @ + 1, !.sx = @ + p[1], !.sy = @ + p[2],
               !.rep = IF @ = Null \/ p[4] >= @[1] THEN <<p[4], p[3]>> ELSE @]
RECURSIVE QuadInsert(_, _)
Quarters(node) ==
  LET half == node.size \div 2 IN
  [i \in 1 .. 4 |-> QuadNode(node.x0 + ((i - 1) % 2) * half, node.y0 + ((i - 1) \div 2) * half, half, node.depth + 1)]
QuadSplit(node) ==
  [node EXCEPT !.points = <<>>,
     !.children = FoldLeft(LAMBDA cs, p : [cs EXCEPT ![ChildFor(node, p)] = QuadInsert(@, p)],
                           Quarters(node), node.points)]
QuadInsert(node, p) ==
  LET counted == Counted(node, p)
      added == [counted EXCEPT !.points = Append(@, p)]
  IN IF node.children # <<>> THEN [counted EXCEPT !.children[ChildFor(node, p)] = QuadInsert(@, p)]
     ELSE IF Len(added.points) > LeafCapacity /\ node.depth < MaxDepth THEN QuadSplit(added)
     ELSE added

(* remove: the representative is looked for again, from the leaf up.         *)
BestOf(reps) == CHOOSE r \in reps : \A o \in reps : r[1] > o[1] \/ (r[1] = o[1] /\ r[2] >= o[2])
FindRep(node) ==
  IF node.count = 0 THEN Null
  ELSE IF node.children = <<>>
  THEN LET ps == node.points
           b == CHOOSE i \in DOMAIN ps : \A j \in DOMAIN ps : ps[i][4] > ps[j][4] \/ (ps[i][4] = ps[j][4] /\ i <= j)
       IN <<ps[b][4], ps[b][3]>>
  ELSE BestOf({c.rep : c \in {d \in Range(node.children) : d.count > 0 /\ d.rep # Null}})
RECURSIVE QuadRemove(_, _)
QuadRemove(node, p) ==
  LET below == IF node.children = <<>>
               THEN [node EXCEPT !.points = SelectSeq(@, LAMBDA o : o[3] # p[3])]
               ELSE [node EXCEPT !.children[ChildFor(node, p)] = QuadRemove(@, p)]
      less == [below EXCEPT !.count = @ - 1, !.sx = @ - p[1], !.sy = @ - p[2]]
  IN IF node.rep # Null /\ node.rep[2] = p[3] THEN [less EXCEPT !.rep = FindRep(less)] ELSE less
RECURSIVE QuadHolds(_, _)
QuadHolds(node, p) ==
  IF node.children = <<>> THEN \E i \in DOMAIN node.points : node.points[i][3] = p[3]
  ELSE QuadHolds(node.children[ChildFor(node, p)], p)
QuadDelete(root, p) == IF QuadHolds(root, p) THEN QuadRemove(root, p) ELSE root

(* clusters of a box, of cells of the target depth: a node at that depth is  *)
(* one, the points of a shallower leaf are put into the cells they lie in.   *)
ApartByCorner(n, x0, y0, x1, y1) == n.count = 0 \/ n.x0 > x1 \/ n.x0 < x0 \/ n.y0 > y1 \/ n.y0 < y0
Apart(n, x0, y0, x1, y1) == n.count = 0 \/ n.x0 > x1 \/ n.x0 + n.size < x0 \/ n.y0 > y1 \/ n.y0 + n.size < y0
CellOf(p, target) == LET side == 2 ^ (MaxDepth - target) IN <<p[1] \div side, p[2] \div side>>
InBox(p, x0, y0, x1, y1) == x0 <= p[1] /\ p[1] <= x1 /\ y0 <= p[2] /\ p[2] <= y1
RECURSIVE NodeClusters(_, _, _, _, _, _)
NodeClusters(n, x0, y0, x1, y1, target) ==
  IF Apart(n, x0, y0, x1, y1) THEN {}
  ELSE IF n.depth >= target THEN {[cell |-> CellOf(<<n.x0, n.y0>>, target), count |-> n.count, sx |-> n.sx, sy |-> n.sy]}
  ELSE IF n.children # <<>>
  THEN UNION {NodeClusters(n.children[i], x0, y0, x1, y1, target) : i \in 1 .. 4}
  ELSE LET inside == {p \in Range(n.points) : InBox(p, x0, y0, x1, y1)} IN
       {[cell |-> c, count |-> Cardinality({p \in inside : CellOf(p, target) = c}),
         sx |-> MapThenSumSet(LAMBDA p : p[1], {p \in inside : CellOf(p, target) = c}),
         sy |-> MapThenSumSet(LAMBDA p : p[2], {p \in inside : CellOf(p, target) = c})] :
          c \in {CellOf(p, target) : p \in inside}}
(* A box across the antimeridian is two, whose lists are joined.             *)
Clusters(root, x0, y0, x1, y1, zoom) ==
  LET target == Min({zoom + 2, MaxDepth})
      Of(w, e) == SetToSeq(NodeClusters(root, w, y0, e, y1, target))
  IN IF x0 > x1 THEN Of(x0, 2 ^ MaxDepth - 1) \o Of(0, x1) ELSE Of(x0, x1)

-----------------------------------------------------------------------------
(* SizeAwareLRU: <<key, size>> from the least to the most recently used.     *)
NoLru == [d |-> <<>>, used |-> 0]
Without(d, key) == SelectSeq(d, LAMBDA e : e[1] # key)
SizeOf(d, key) == FoldLeft(LAMBDA n, e : IF e[1] = key THEN n + e[2] ELSE n, 0, d)
LruGet(c, key) ==
  IF SizeOf(c.d, key) = 0 THEN c ELSE [c EXCEPT !.d = Append(Without(@, key), <<key, SizeOf(@, key)>>)]
RECURSIVE ShrunkNewest(_), Shrunk(_)
ShrunkNewest(c) ==   \* mutant: popitem takes the last
  IF c.used > Budget THEN ShrunkNewest([d |-> Front(c.d), used |-> c.used - Last(c.d)[2]]) ELSE c
Shrunk(c) == IF c.used > Budget THEN Shrunk([d |-> Tail(c.d), used |-> c.used - Head(c.d)[2]]) ELSE c
LruPut(c, key, n) ==
  IF n > Budget THEN c
  ELSE Shrunk([d |-> Append(Without(c.d, key), <<key, n>>), used |-> c.used - SizeOf(c.d, key) + n])
=============================================================================
