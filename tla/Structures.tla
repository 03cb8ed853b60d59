----------------------------- MODULE Structures -----------------------------
(***************************************************************************)
(* The algorithms of ErasureCode, Chunking, SearchTrees and Manifest under *)
(* all sequences of calls up to a length, each beside the plain value it   *)
(* stands for: a behaviour is about one of them.                           *)
(* Bounds: MaxCalls, and the inputs named below.                           *)
(***************************************************************************)
EXTENDS ErasureCode, Chunking, SearchTrees, Manifest

CONSTANTS
  Kinds,                     \* the subjects: a subset of those of Next
  Codes, Stripes,            \* pairs <<k, m>> and the data of a stripe
  Streams, Digests,
  Hashes, Ids,               \* perceptual hashes and the ids that have them
  Places, Stamps, Boxes,     \* points, their times, and boxes of the map
  Keys, Sizes,               \* of the cache
  Items,                     \* of the manifests
  MaxCalls

VARIABLES
  kind,
  obj,       \* the structure
  ref,     \* what it stands for
  calls

vars == <<kind, obj, ref, calls>>

Init ==
  /\ kind \in Kinds /\ calls = 0
  /\ CASE kind = "field" -> obj \in 0 .. 255 /\ ref = Null
       [] kind = "code" -> \E c \in Codes, d \in Stripes :
            ref = [k |-> c[1], m |-> c[2], data |-> d] /\ obj = EncodeBytes(c[1], c[2], d)
       [] kind = "chunks" -> ref \in Streams /\ obj = NewChunker(ref)
       [] kind = "bloom" -> obj = NewBloom /\ ref = {}
       [] kind = "hamming" -> obj = [bk |-> <<>>, mih |-> NoMih] /\ ref = {}
       [] kind = "map" -> obj = NoQuad /\ ref = {}
       [] kind = "cache" -> obj = NoLru /\ ref = <<>>
       [] kind = "manifest" -> obj = [local |-> NoTree, remote |-> NoTree] /\ ref = [local |-> {}, remote |-> {}]

Call == calls < MaxCalls /\ calls' = calls + 1 /\ UNCHANGED kind

(* The survivors decode, which is no ValueError of invert.                   *)
Decodable ==
  Cardinality(DOMAIN obj) >= ref.k /\ DecodeMatrix(ref.k, ref.m, ChooseSurvivors(ref.k, DOMAIN obj)) # Singular
(* A shard is lost; missing shards are made again.                           *)
Lost(i) ==
  /\ kind = "code" /\ Call /\ i \in DOMAIN obj
  /\ obj' = Restrict(obj, DOMAIN obj \ {i}) /\ UNCHANGED ref
Rebuilt(wanted) ==
  /\ kind = "code" /\ Call /\ Decodable
  /\ wanted # {} /\ wanted \subseteq (0 .. ref.k + ref.m - 1) \ DOMAIN obj
  /\ obj' = obj @@ Reconstruct(ref.k, ref.m, obj, wanted) /\ UNCHANGED ref

(* A read returns part of what is asked for, or nothing at the end.          *)
StreamRead(n) ==
  /\ kind = "chunks" /\ Filled(obj)
  /\ IF obj.left = <<>> THEN n = 0 ELSE n \in 1 .. Least(Len(obj.left), ReadSize - Len(obj.buf))
  /\ obj' = Read(obj, n) /\ UNCHANGED <<kind, ref, calls>>
StreamCut ==
  /\ kind = "chunks" /\ ~Filled(obj) /\ obj.buf # <<>>
  /\ obj' = Cut(obj) /\ UNCHANGED <<kind, ref, calls>>

DigestAdded(d) ==
  /\ kind = "bloom" /\ Call
  /\ obj' = BloomAdded(obj, d) /\ ref' = ref \cup {d}

(* An image is indexed, and is taken out when it is trashed.                 *)
CodeAdded(h, id) ==
  /\ kind = "hamming" /\ Call /\ \A e \in ref : e[2] # id
  /\ obj' = [bk |-> BkAdd(obj.bk, h, id), mih |-> MihAdd(obj.mih, h, id)] /\ ref' = ref \cup {<<h, id>>}
CodeRemoved(e) ==
  /\ kind = "hamming" /\ Call /\ e \in ref
  /\ obj' = [bk |-> BkRemove(obj.bk, e[1], e[2]), mih |-> MihRemove(obj.mih, e[1], e[2])] /\ ref' = ref \ {e}

PointAdded(place, id, key) ==
  LET p == <<place[1], place[2], id, key>> IN
  /\ kind = "map" /\ Call /\ \A o \in ref : o[3] # id
  /\ obj' = QuadInsert(obj, p) /\ ref' = ref \cup {p}
PointRemoved(place, id) ==
  /\ kind = "map" /\ Call /\ \A o \in ref : o[3] = id => <<o[1], o[2]>> = place
  /\ obj' = QuadDelete(obj, <<place[1], place[2], id, 0>>) /\ ref' = {o \in ref : o[3] # id}

CacheGet(key) ==
  /\ kind = "cache" /\ Call
  /\ obj' = LruGet(obj, key)
  /\ ref' = IF SizeOf(obj.d, key) > 0 THEN Append(ref, <<key, SizeOf(obj.d, key)>>) ELSE ref
CachePut(key, n) ==
  /\ kind = "cache" /\ Call
  /\ obj' = LruPut(obj, key, n) /\ ref' = IF n <= Budget THEN Append(ref, <<key, n>>) ELSE ref

ItemAdded(side, h) ==
  /\ kind = "manifest" /\ Call
  /\ obj' = [obj EXCEPT ![side] = TreeAdd(@, h)] /\ ref' = [ref EXCEPT ![side] = @ \cup {h}]
ItemRemoved(side, h) ==
  /\ kind = "manifest" /\ Call
  /\ obj' = [obj EXCEPT ![side] = TreeRemove(@, h)] /\ ref' = [ref EXCEPT ![side] = @ \ {h}]
NodeAsked(side, path) ==
  /\ kind = "manifest" /\ path \notin DOMAIN obj[side].cache
  /\ obj' = [obj EXCEPT ![side] = Node(@, path)] /\ UNCHANGED <<kind, ref, calls>>

Next ==
  \/ \E i \in 0 .. 7 : Lost(i)
  \/ \E w \in SUBSET (0 .. 7) : Rebuilt(w)
  \/ (\E n \in 0 .. ReadSize : StreamRead(n)) \/ StreamCut
  \/ \E d \in Digests : DigestAdded(d)
  \/ \E h \in Hashes, id \in Ids : CodeAdded(h, id) \/ CodeRemoved(<<h, id>>)
  \/ \E p \in Places, id \in Ids : PointRemoved(p, id) \/ \E k \in Stamps : PointAdded(p, id, k)
  \/ \E k \in Keys : CacheGet(k) \/ \E n \in Sizes : CachePut(k, n)
  \/ \E side \in {"local", "remote"} :
       \/ \E h \in Items : ItemAdded(side, h) \/ ItemRemoved(side, h)
       \/ \E h \in Items, n \in 0 .. Depth : NodeAsked(side, SubSeq(h, 1, n))

Spec == Init /\ [][Next]_vars

-----------------------------------------------------------------------------
(* Properties.                                                               *)

(* The tables multiply polynomials modulo 0x11D, and division, inverse and   *)
(* power agree with the product.                                             *)
Product(a, b) == FoldLeft(LAMBDA acc, i : Plus[Double(acc), IF (b \div 2 ^ (8 - i)) % 2 = 1 THEN a ELSE 0],
                          0, [i \in 1 .. 8 |-> i])
TablesMultiply ==
  kind = "field" =>
    \A b \in 0 .. 255 :
      /\ Mul(obj, b) = Product(obj, b)
      /\ b # 0 => Mul(Div(obj, b), b) = obj
      /\ b # 0 => Pow(obj, b) = Mul(Pow(obj, b - 1), obj)
      /\ obj # 0 => Mul(obj, Inv(obj)) = 1

(* A shard is no longer than whole alignment units make it.                  *)
Tight(size) == size % ShardAlign = 0 /\ (size > ShardAlign => (size - ShardAlign) * ref.k < Len(ref.data))
(* "out of any k of the k + m shards": whichever shards are lost and made    *)
(* again, in whatever order, k of them give the bytes that were encoded.     *)
AnyShardsDecode ==
  kind = "code" =>
    /\ \A i \in DOMAIN obj : Tight(Cardinality(DOMAIN obj[i]))
    /\ Cardinality(DOMAIN obj) >= ref.k =>
         Decodable /\ DecodeBytes(ref.k, ref.m, obj, Len(ref.data)) = ref.data

(* However the stream is read, the chunks are those of the definition: the   *)
(* first length from MinSize on whose last Window bytes leave a remainder    *)
(* with AvgBits zero bits, or MaxSize, or the rest.                          *)
WindowRem(data, i) ==
  FoldLeft(AppendByte, 0, SubSeq(data, IF i > Window THEN i - Window + 1 ELSE 1, i))
CutOf(data) ==
  Min({i \in MinSize .. MaxSize : i <= Len(data) /\ WindowRem(data, i) % 2 ^ AvgBits = 0} \cup
      {Least(MaxSize, Len(data))})
Rest(n) == SubSeq(ref, Len(FlattenSeq(SubSeq(obj.out, 1, n))) + 1, Len(ref))
ChunksAreDefined ==
  kind = "chunks" =>
    /\ FlattenSeq(obj.out) \o obj.buf \o obj.left = ref
    /\ \A n \in DOMAIN obj.out : LET rest == Rest(n - 1) IN obj.out[n] = SubSeq(rest, 1, CutOf(rest))

(* What was added to the filter is found, and either index of the perceptual *)
(* hashes finds what a scan of them does, no more and no less.               *)
NearBy(q, r) == {<<e[2], Distance(e[1], q)>> : e \in {o \in ref : Distance(o[1], q) <= r}}
Queries == (0 .. 2 ^ (SubCodes * SubBits) - 1) \X (0 .. SubCodes * SubBits)
IndexesFind ==
  /\ kind = "bloom" => \A d \in ref : BloomHas(obj, d)
  /\ kind = "hamming" => \A q \in Queries :
       BkSearch(obj.bk, q[1], q[2]) = NearBy(q[1], q[2]) /\ MihSearch(obj.mih, q[1], q[2]) = NearBy(q[1], q[2])

(* A node of the map has the number and the sums of the points below it, and *)
(* its picture is one of them with the latest time.                          *)
RECURSIVE Nodes(_)
Nodes(node) == {node} \cup IF node.children = <<>> THEN {} ELSE UNION {Nodes(node.children[i]) : i \in 1 .. 4}
Below(n) == {p \in ref : InBox(p, n.x0, n.y0, n.x0 + n.size - 1, n.y0 + n.size - 1)}
NodesSumUp ==
  \A n \in Nodes(obj) :
    /\ n.count = Cardinality(Below(n))
    /\ n.sx = MapThenSumSet(LAMBDA p : p[1], Below(n)) /\ n.sy = MapThenSumSet(LAMBDA p : p[2], Below(n))
    /\ IF Below(n) = {} THEN n.rep = Null
       ELSE \E p \in Below(n) : n.rep = <<p[4], p[3]>> /\ \A o \in Below(n) : o[4] <= p[4]

(* "one cluster per non-empty cell": for a box whose sides are not in one    *)
(* column, no cell has two clusters, every point of the box is counted, and  *)
(* no point whose cell is apart from the box.                                *)
MapTarget(zoom) == Min({zoom + 2, MaxDepth})
Inside(p, b) == b[2] <= p[2] /\ p[2] <= b[4] /\ (IF b[1] <= b[3] THEN b[1] <= p[1] /\ p[1] <= b[3]
                                                 ELSE b[1] <= p[1] \/ p[1] <= b[3])
ClustersCountOnce ==
  \A b \in Boxes, zoom \in 0 .. 1 :
    LET cs == Clusters(obj, b[1], b[2], b[3], b[4], zoom) IN
    /\ \A i, j \in DOMAIN cs : cs[i].cell = cs[j].cell => i = j
    /\ \A p \in ref : Inside(p, b) => \E i \in DOMAIN cs : cs[i].cell = CellOf(p, MapTarget(zoom))
    /\ \A i \in DOMAIN cs : LET cell == {p \in ref : CellOf(p, MapTarget(zoom)) = cs[i].cell} IN
         /\ cs[i].count \in Cardinality({p \in cell : Inside(p, b)}) .. Cardinality(cell)
         /\ cs[i].count > 0

(* Both, whatever was added and removed.                                     *)
MapIsExact == kind = "map" => NodesSumUp /\ ClustersCountOnce

(* The cache holds an item for as long as it and what was used after it fit  *)
(* the budget together: these, in the order of their last uses, no more and  *)
(* no less, and the bytes it believes it holds are theirs.  "ref" has the    *)
(* uses, puts and hits, with the size that the item had then.                *)
LastUse(key, t) == Max({u \in 1 .. t : ref[u][1] = key})
Together(u, t) == MapThenSumSet(LAMBDA key : ref[LastUse(key, t)][2], {ref[i][1] : i \in u .. t})
StillFits ==
  {u \in DOMAIN ref : /\ u = LastUse(ref[u][1], Len(ref))
                      /\ \A t \in u .. Len(ref) : Together(u, t) <= Budget}
CacheHoldsRecent ==
  kind = "cache" =>
    /\ obj.d = LET uses == SetToSortSeq(StillFits, <) IN [i \in DOMAIN uses |-> ref[uses[i]]]
    /\ obj.used = FoldLeft(LAMBDA n, e : n + e[2], 0, obj.d)

(* Every value in the cache of a tree is that of the tree now, and the walk  *)
(* finds the difference of the two manifests.                                *)
CachedIsCurrent(t) == \A path \in DOMAIN t.cache : t.cache[path] = ValueOf([t EXCEPT !.cache = <<>>], path)
DiffIsDifference ==
  kind = "manifest" =>
    /\ CachedIsCurrent(obj.local) /\ CachedIsCurrent(obj.remote)
    /\ Diff(obj.local, obj.remote) = <<ref.local \ ref.remote, ref.remote \ ref.local>>
=============================================================================
