-------------------------- MODULE BatchStoreProofs --------------------------
(***************************************************************************)
(* Proofs about BatchStore, for every set of files, chunks and readers,    *)
(* every content of the files and every number of batches.                 *)
(***************************************************************************)
EXTENDS BatchStore, FiniteSetTheorems, TLAPS

(***************************************************************************)
(* The lists: what SetToSeqs gives, and positions in it.                   *)
(***************************************************************************)
LEMMA ListFacts ==
  ASSUME NEW S \in SUBSET Chunk, NEW s \in SetToSeqs(S)
  PROVE  /\ s \in Seq(Chunk) /\ Len(s) = Cardinality(S) /\ ToSet(s) = S
         /\ \A i, j \in DOMAIN s : s[i] = s[j] => i = j
PROOF
  <1> DEFINE n == Cardinality(S)
  <1>1. IsFiniteSet(S)
    BY FS_Subset, FileAssumption
  <1>2. n \in Nat
    BY <1>1, FS_CardinalityType
  <1>3. s \in [1 .. n -> S] /\ \A i, j \in 1 .. n : i # j => s[i] # s[j]
    BY DEF SetToSeqs
  <1>4. s \in Seq(Chunk) /\ Len(s) = n /\ DOMAIN s = 1 .. n
    BY <1>2, <1>3
  <1>5. Cardinality(1 .. n) = n
    BY <1>2, FS_Interval
  <1>6. s \in Injection(1 .. n, S)
    BY <1>3 DEF Injection, IsInjective
  <1>7. s \in Surjection(1 .. n, S)
    BY <1>1, <1>5, <1>6, FS_Injection
  <1>8. ToSet(s) = S
    BY <1>3, <1>4, <1>7 DEF ToSet, Surjection
  <1> QED
    BY <1>3, <1>4, <1>8

LEMMA ListSize ==
  ASSUME NEW s \in Seq(Chunk), \A i, j \in DOMAIN s : s[i] = s[j] => i = j
  PROVE  IsFiniteSet(ToSet(s)) /\ Cardinality(ToSet(s)) = Len(s)
PROOF
  <1>1. Len(s) \in Nat /\ DOMAIN s = 1 .. Len(s)
    OBVIOUS
  <1>2. IsFiniteSet(1 .. Len(s)) /\ Cardinality(1 .. Len(s)) = Len(s)
    BY <1>1, FS_Interval
  <1>3. s \in [1 .. Len(s) -> ToSet(s)]
    BY <1>1 DEF ToSet
  <1>4. s \in Bijection(1 .. Len(s), ToSet(s))
    BY <1>1, <1>3 DEF Bijection, Injection, Surjection, IsInjective, ToSet
  <1> QED
    BY <1>2, <1>4, FS_Bijection DEF ExistsBijection

LEMMA Positions ==
  ASSUME NEW s \in Seq(Chunk), NEW c \in ToSet(s)
  PROVE  PosIn(c, s) \in DOMAIN s /\ PosIn(c, s) \in Nat /\ s[PosIn(c, s)] = c
  BY DEF ToSet, PosIn

LEMMA Prefixed ==
  ASSUME NEW s \in Seq(Chunk), NEW t \in Seq(Chunk)
  PROVE  /\ s \o t \in Seq(Chunk)
         /\ \A i \in Nat : i \in DOMAIN s => i \in DOMAIN (s \o t) /\ (s \o t)[i] = s[i]
         /\ \A i \in DOMAIN t : At(s \o t, Len(s) + i) = t[i]
  BY DEF At

(***************************************************************************)
(* The pieces: how many references a chunk ought to have.                  *)
(***************************************************************************)
AllPieces == UNION {{f} \X DOMAIN Body[f] : f \in File}
PiecesOf(fl, c) == {p \in AllPieces : fl[p[1]] = "stored" /\ Body[p[1]][p[2]] = c}
Places(c, f) == {i \in DOMAIN Body[f] : Body[f][i] = c}

LEMMA PiecesMeaning ==
  RefsAreExact <=> \A c \in Chunk : Refs(c) = Cardinality(PiecesOf(file, c))
  BY DEF RefsAreExact, PiecesOf, AllPieces
LEMMA PiecesMeaningNext ==
  RefsAreExact' <=> \A c \in Chunk : Refs(c)' = Cardinality(PiecesOf(file', c))
  BY DEF RefsAreExact, PiecesOf, AllPieces

LEMMA PiecesAreFinite == IsFiniteSet(AllPieces)
PROOF
  <1> DEFINE S == {{f} \X DOMAIN Body[f] : f \in File}
             g == [f \in File |-> {f} \X DOMAIN Body[f]]
  <1>1. g \in Surjection(File, S)
    BY DEF Surjection
  <1>2. IsFiniteSet(S)
    BY <1>1, FS_Surjection, FileAssumption
  <1>3. \A f \in File : IsFiniteSet({f} \X DOMAIN Body[f])
    <2> TAKE f \in File
    <2>1. Body[f] \in Seq(Chunk) /\ DOMAIN Body[f] = 1 .. Len(Body[f]) /\ Len(Body[f]) \in Nat
      BY FileAssumption
    <2>2. IsFiniteSet(DOMAIN Body[f])
      BY <2>1, FS_Interval
    <2> QED
      BY <2>2, FS_Singleton, FS_Product
  <1> QED
    BY <1>2, <1>3, FS_UNION DEF AllPieces

LEMMA OccursFacts ==
  ASSUME NEW f \in File, NEW c \in Chunk
  PROVE  /\ IsFiniteSet(Places(c, f)) /\ Occurs(c, f) = Cardinality(Places(c, f))
         /\ Occurs(c, f) \in Nat /\ (Occurs(c, f) > 0 <=> c \in ChunksOf(f))
PROOF
  <1>1. Body[f] \in Seq(Chunk) /\ DOMAIN Body[f] = 1 .. Len(Body[f]) /\ Len(Body[f]) \in Nat
    BY FileAssumption
  <1>2. IsFiniteSet(DOMAIN Body[f])
    BY <1>1, FS_Interval
  <1>3. IsFiniteSet(Places(c, f))
    BY <1>2, FS_Subset DEF Places
  <1>4. Occurs(c, f) = Cardinality(Places(c, f)) /\ Occurs(c, f) \in Nat
    BY <1>3, FS_CardinalityType DEF Occurs, Places
  <1>5. Occurs(c, f) = 0 <=> Places(c, f) = {}
    BY <1>3, <1>4, FS_EmptySet
  <1>6. Places(c, f) = {} <=> c \notin ChunksOf(f)
    BY DEF Places, ChunksOf, ToSet
  <1> QED
    BY <1>3, <1>4, <1>5, <1>6

LEMMA PiecesCount ==
  ASSUME NEW fl, NEW c
  PROVE  IsFiniteSet(PiecesOf(fl, c)) /\ Cardinality(PiecesOf(fl, c)) \in Nat
  BY PiecesAreFinite, FS_Subset, FS_CardinalityType DEF PiecesOf

(* One file more that is stored is worth its occurrences, to each chunk. *)
LEMMA OneFileMore ==
  ASSUME NEW fl, NEW gl, NEW f \in File, NEW c \in Chunk,
         fl[f] # "stored", gl[f] = "stored", \A g \in File \ {f} : fl[g] = gl[g]
  PROVE  Cardinality(PiecesOf(gl, c)) = Cardinality(PiecesOf(fl, c)) + Occurs(c, f)
PROOF
  <1> DEFINE I == Places(c, f)  Q == {f} \X I
  <1>1. IsFiniteSet(PiecesOf(fl, c)) /\ IsFiniteSet(PiecesOf(gl, c))
    BY PiecesCount
  <1>2. IsFiniteSet(I) /\ Cardinality(I) = Occurs(c, f)
    BY OccursFacts
  <1>3. IsFiniteSet(Q) /\ Cardinality(Q) = Cardinality(I)
    <2> DEFINE m == [i \in I |-> <<f, i>>]
    <2> HIDE DEF I
    <2>1. m \in [I -> Q] /\ \A i \in I : m[i] = <<f, i>>
      OBVIOUS
    <2>2. \A i, j \in I : m[i] = m[j] => i = j
      OBVIOUS
    <2>3. \A q \in Q : \E i \in I : m[i] = q
      OBVIOUS
    <2> HIDE DEF Q, m
    <2>4. m \in Bijection(I, Q)
      BY <2>1, <2>2, <2>3 DEF Bijection, Injection, Surjection, IsInjective
    <2> QED
      BY <1>2, <2>4, FS_Bijection DEF ExistsBijection
  <1>4. PiecesOf(gl, c) = PiecesOf(fl, c) \cup Q
    <2>1. ASSUME NEW p \in AllPieces
          PROVE  p \in PiecesOf(gl, c) <=> p \in PiecesOf(fl, c) \/ p \in Q
      <3>1. PICK h \in File : p \in {h} \X DOMAIN Body[h]
        BY DEF AllPieces
      <3>2. p[1] = h /\ p[2] \in DOMAIN Body[h] /\ p = <<h, p[2]>>
        BY <3>1
      <3>3. CASE h = f
        BY <3>2, <3>3 DEF PiecesOf, Places
      <3>4. CASE h # f
        BY <3>2, <3>4 DEF PiecesOf, Places
      <3> QED
        BY <3>3, <3>4
    <2>2. Q \subseteq AllPieces
      BY DEF AllPieces, Places
    <2> QED
      BY <2>1, <2>2 DEF PiecesOf
  <1>5. PiecesOf(fl, c) \cap Q = {}
    BY DEF PiecesOf
  <1>6. Cardinality(PiecesOf(fl, c)) \in Nat
    BY PiecesCount
  <1> HIDE DEF Q, I
  <1>7. Cardinality(PiecesOf(gl, c)) = Cardinality(PiecesOf(fl, c)) + Cardinality(Q)
                                        - Cardinality(PiecesOf(fl, c) \cap Q)
    BY <1>1, <1>3, <1>4, FS_Union
  <1>8. Cardinality(PiecesOf(fl, c) \cap Q) = 0
    BY <1>5, FS_EmptySet
  <1>9. Cardinality(Q) = Occurs(c, f) /\ Occurs(c, f) \in Nat
    BY <1>2, <1>3, OccursFacts
  <1> QED
    BY <1>6, <1>7, <1>8, <1>9

(***************************************************************************)
(* The types.                                                              *)
(***************************************************************************)
LEMMA JobShape ==
  ASSUME TypeOK
  PROVE  /\ job.op = "ingest" => job \in IngestJob
         /\ job.op = "seal" => job \in SealJob
         /\ job.op = "compact" => job \in CompactJob
         /\ job.op = "none" => job = Idle
  BY DEF TypeOK, Idle, IngestJob, SealJob, CompactJob

LEMMA ReadShape ==
  ASSUME TypeOK, NEW r \in Reader, read[r].pc # "idle"
  PROVE  read[r] \in Reading
  BY DEF TypeOK, NotReading, Reading

LEMMA RowShape ==
  ASSUME TypeOK, NEW c \in Chunk
  PROVE  Row(c) => chunk[c] \in ChunkRow
  BY DEF TypeOK, Row

LEMMA LiveFacts ==
  ASSUME NEW b
  PROVE  LiveIn(b) \in SUBSET Chunk /\ IsFiniteSet(LiveIn(b)) /\ Cardinality(LiveIn(b)) \in Nat
PROOF
  <1>1. LiveIn(b) \in SUBSET Chunk
    BY DEF LiveIn, Rows
  <1> QED
    BY <1>1, FileAssumption, FS_Subset, FS_CardinalityType

LEMMA RawType ==
  ASSUME TypeOK, NEW b \in Batch
  PROVE  Raw(b) \in Seq(Chunk) /\ Len(Raw(b)) \in Nat /\ (staging[b] # Gone => Raw(b) = staging[b])
  BY DEF TypeOK, Raw

LEMMA ExtendedType ==
  ASSUME TypeOK, NEW b \in Batch, NEW cs \in Seq(Chunk)
  PROVE  Extended(b, cs) \in [Batch -> Seq(Chunk) \cup {Gone}]
  BY RawType DEF TypeOK, Extended

LEMMA OpenedType ==
  ASSUME TypeOK, NEW b \in Batch
  PROVE  Opened(b) \in [Batch -> BatchRow]
  BY DEF TypeOK, Opened, BatchRow

LEMMA InitTypes == Init => TypeOK
  BY FS_EmptySet DEF Init, TypeOK, NoBatch, BatchRow, Filter, Idle, NotReading

LEMMA FreshFacts ==
  ASSUME NEW f \in File, NEW new \in Fresh(f)
  PROVE  /\ new \in Seq(Chunk) /\ ToSet(new) = Unknown(f)
         /\ \A i, j \in DOMAIN new : new[i] = new[j] => i = j
PROOF
  <1>1. Unknown(f) \in SUBSET Chunk
    BY FileAssumption DEF Unknown, ChunksOf, ToSet
  <1> QED
    BY <1>1, ListFacts DEF Fresh

LEMMA AppendTypes ==
  ASSUME TypeOK, NEW f \in File, NEW b \in Batch, IngestAppend(f, b)
  PROVE  TypeOK'
PROOF
  <1>1. PICK new \in Fresh(f) : /\ staging' = Extended(b, new)
                                /\ job' = [op |-> "ingest", f |-> f, b |-> b, new |-> new, at |-> Len(Raw(b))]
    BY DEF IngestAppend
  <1>2. new \in Seq(Chunk)
    BY FreshFacts
  <1>3. job' \in IngestJob
    BY <1>1, <1>2, RawType DEF IngestJob
  <1> QED
    BY <1>1, <1>2, <1>3, ExtendedType, OpenedType DEF TypeOK, IngestAppend, mem, caches

LEMMA WithFrameType ==
  ASSUME TypeOK, NEW b \in Batch, NEW s \in Seq(Chunk) \cup {Gone}, NEW f \in WithFrame(b, s)
  PROVE  /\ f \in [Batch -> Seq(Chunk) \cup {Gone}]
         /\ \A d \in Batch : f[d] # Gone => f[d] = IF d = b THEN s ELSE frames[d]
PROOF
  <1> DEFINE g == [frames EXCEPT ![b] = s]
  <1>1. g \in [Batch -> Seq(Chunk) \cup {Gone}] /\ \A d \in Batch : g[d] = IF d = b THEN s ELSE frames[d]
    BY DEF TypeOK
  <1>2. PICK S \in Evicted(InMemory(g), b, MaxFrames) : f = [d \in Batch |-> IF d \in S THEN g[d] ELSE Gone]
    BY DEF WithFrame
  <1> HIDE DEF g
  <1> QED
    BY <1>1, <1>2

LEMMA WithDictType ==
  ASSUME TypeOK, NEW b \in Batch, NEW S \in WithDict(b)
  PROVE  S \subseteq Batch
  BY DEF TypeOK, WithDict, Evicted

LEMMA CopyTypes ==
  ASSUME TypeOK, NEW v \in Batch, UNCHANGED caches \/ CopyReads(v)
  PROVE  frames' \in [Batch -> Seq(Chunk) \cup {Gone}] /\ dicts' \subseteq Batch
PROOF
  <1>1. Content(v) \in Seq(Chunk) \cup {Gone}
    BY DEF TypeOK, Content
  <1> QED
    BY <1>1, WithFrameType, WithDictType DEF CopyReads, TypeOK, caches

(* How a step of a reader leaves the locals of the reader. *)
LEMMA ReadOnwards ==
  ASSUME TypeOK, NEW r \in Reader, read[r] \in Reading
  PROVE  /\ Resolved(r, 2) \in Reading /\ (Row(r) => Resolved(r, 1) \in Reading)
         /\ Moved(r) \in [Reader -> {NotReading} \cup Reading]
         /\ \A got : Verified(r, got) \in [Reader -> {NotReading} \cup Reading]
PROOF
  <1>1. \A n \in {1, 2} : (n = 1 => Row(r)) => Resolved(r, n) \in Reading
    BY RowShape, BatchAssumption DEF Resolved, Reading, ChunkRow
  <1>2. [read[r] EXCEPT !.pc = "failed"] \in Reading
    BY DEF Reading
  <1>3. Moved(r) \in [Reader -> {NotReading} \cup Reading]
    BY <1>1, <1>2 DEF TypeOK, Moved
  <1>4. ASSUME NEW got
        PROVE  Verified(r, got) \in [Reader -> {NotReading} \cup Reading]
    BY <1>2 DEF TypeOK, Verified
  <1> QED
    BY <1>1, <1>3, <1>4

LEMMA GoesOnType ==
  ASSUME TypeOK, NEW r \in Reader, read[r] \in Reading, NEW data \in Seq(Chunk) \cup {Gone},
         NEW pc \in {"get", "touch", "object", "dict", "index", "load", "keep", "failed", "keyerror"},
         ReadGoesOn(r, pc, data)
  PROVE  /\ read' \in [Reader -> {NotReading} \cup Reading]
         /\ read'[r] = [read[r] EXCEPT !.pc = pc, !.data = data]
         /\ read'[r].pc = pc /\ read'[r].data = data /\ read'[r].hit = read[r].hit
         /\ read'[r].b = read[r].b /\ read'[r].off = read[r].off /\ read'[r].n = read[r].n
PROOF
  <1>1. read'[r] = [read[r] EXCEPT !.pc = pc, !.data = data]
    BY DEF ReadGoesOn, TypeOK
  <1>2. read'[r] \in Reading
    BY <1>1 DEF Reading
  <1> QED
    BY <1>1, <1>2 DEF ReadGoesOn, TypeOK, Reading

LEMMA ReadTypes ==
  ASSUME TypeOK, NEW r \in Reader, ReadNext(r)
  PROVE  TypeOK'
PROOF
  <1>1. read[r].pc # "idle" => read[r] \in Reading /\ read[r].b \in Batch /\ read[r].data \in Seq(Chunk) \cup {Gone}
    BY ReadShape DEF Reading
  <1>2. frames[read[r].b] \in Seq(Chunk) \cup {Gone} \/ read[r].pc = "idle"
    BY <1>1 DEF TypeOK
  <1>3. object[read[r].b] \in Seq(Chunk) \cup {Gone} \/ read[r].pc = "idle"
    BY <1>1 DEF TypeOK
  <1>4. CASE ReadStart(r)
    <2>1. Row(r)
      BY <1>4 DEF ReadStart, Refs
    <2>2. Resolved(r, 1) \in Reading
      BY <2>1, RowShape, BatchAssumption DEF Resolved, Reading, ChunkRow
    <2> QED
      BY <1>4, <2>2 DEF ReadStart, TypeOK, tables, mem, caches
  <1>5. CASE ReadStaging(r)
    <2>1. read' \in [Reader -> {NotReading} \cup Reading]
      BY <1>1, <1>5, ReadOnwards DEF ReadStaging
    <2> QED
      BY <1>5, <2>1 DEF ReadStaging, TypeOK, tables, mem, caches
  <1>6. CASE ReadFrame(r)
    <2>1. read' \in [Reader -> {NotReading} \cup Reading]
      BY <1>1, <1>6, GoesOnType DEF ReadFrame
    <2> QED
      BY <1>6, <2>1 DEF ReadFrame, TypeOK, tables, mem, caches
  <1>7. CASE ReadGet(r)
    <2>1. read' \in [Reader -> {NotReading} \cup Reading]
      BY <1>1, <1>2, <1>7, GoesOnType DEF ReadGet
    <2> QED
      BY <1>7, <2>1 DEF ReadGet, TypeOK, tables, mem, caches
  <1>8. CASE ReadObject(r)
    <2>1. read' \in [Reader -> {NotReading} \cup Reading]
      BY <1>1, <1>3, <1>8, GoesOnType, ReadOnwards DEF ReadObject
    <2> QED
      BY <1>8, <2>1 DEF ReadObject, TypeOK, tables, mem, caches
  <1>9. CASE ReadTest(r)
    <2>1. read' \in [Reader -> {NotReading} \cup Reading]
      BY <1>1, <1>9, GoesOnType DEF ReadTest
    <2> QED
      BY <1>9, <2>1 DEF ReadTest, TypeOK, tables, mem, caches
  <1>10. CASE ReadIndex(r)
    <2>1. read' \in [Reader -> {NotReading} \cup Reading]
      BY <1>1, <1>10, GoesOnType DEF ReadIndex
    <2> QED
      BY <1>10, <2>1 DEF ReadIndex, TypeOK, tables, mem, caches
  <1>11. CASE ReadLoad(r)
    <2>1. read' \in [Reader -> {NotReading} \cup Reading]
      BY <1>1, <1>11, GoesOnType, ReadOnwards DEF ReadLoad
    <2>2. dicts' \subseteq Batch
      BY <1>1, <1>11, WithDictType DEF ReadLoad, TypeOK
    <2> QED
      BY <1>11, <2>1, <2>2 DEF ReadLoad, TypeOK, tables
  <1>12. CASE ReadKeep(r)
    <2>1. read' \in [Reader -> {NotReading} \cup Reading]
      BY <1>1, <1>12, ReadOnwards DEF ReadKeep
    <2>2. frames' \in [Batch -> Seq(Chunk) \cup {Gone}]
      BY <1>1, <1>12, WithFrameType DEF ReadKeep
    <2> QED
      BY <1>12, <2>1, <2>2 DEF ReadKeep, TypeOK, tables
  <1>13. CASE ReadTouch(r)
    <2>1. read' \in [Reader -> {NotReading} \cup Reading]
      BY <1>1, <1>13, GoesOnType, ReadOnwards DEF ReadTouch
    <2> QED
      BY <1>13, <2>1 DEF ReadTouch, TypeOK, tables, mem, caches
  <1>14. CASE ReadEnds(r)
    BY <1>14 DEF ReadEnds, TypeOK, tables, mem, caches
  <1> QED
    BY <1>4, <1>5, <1>6, <1>7, <1>8, <1>9, <1>10, <1>11, <1>12, <1>13, <1>14 DEF ReadNext, ReadSealed

(***************************************************************************)
(* The parts of Fits, and the steps that leave the tables alone.           *)
(***************************************************************************)
LEMMA TablesStay ==
  ASSUME RefsAreExact, LiveBytesCoverUse, UNCHANGED tables
  PROVE  RefsAreExact' /\ LiveBytesCoverUse'
  BY DEF RefsAreExact, LiveBytesCoverUse, LiveIn, Rows, Refs, Row, tables

LEMMA RowsStay ==
  ASSUME RowsInPlace, UNCHANGED <<tables, staging, object>>
  PROVE  RowsInPlace'
  BY DEF RowsInPlace, InPlace, InStaging, At, Row, tables

LEMMA HolderStays ==
  ASSUME IngestOK, SealOK, CompactOK, VictimsAreSealed, DoomedAreSealing,
         UNCHANGED <<tables, staging, object, job, victims, doomed>>
  PROVE  IngestOK' /\ SealOK' /\ CompactOK' /\ VictimsAreSealed' /\ DoomedAreSealing'
  BY DEF IngestOK, SealOK, CompactOK, VictimsAreSealed, DoomedAreSealing, IsListOf, Holds, At, LiveIn,
         Rows, Row, tables

LEMMA ReadStays ==
  ASSUME NEW r \in Reader, ReadOK(r), read'[r] = read[r], UNCHANGED tables,
         staging' = staging \/ (staging'[read[r].b] = Gone)
  PROVE  ReadOK(r)'
  BY DEF ReadOK, Found, Row, At, tables

(* A step of a reader.  One that a release or a compaction has hit may end *)
(* in any way. *)
LEMMA HitStays ==
  ASSUME TypeOK, NEW r \in Reader, read[r] \in Reading, read[r].hit, ReadNext(r)
  PROVE  ReadOK(r)'
PROOF
  <1>1. Moved(r)[r] = Resolved(r, 2) \/ Moved(r)[r] = [read[r] EXCEPT !.pc = "failed"]
    BY DEF Moved, TypeOK
  <1>2. Resolved(r, 2).hit /\ [read[r] EXCEPT !.pc = "failed"].hit
    BY DEF Resolved, Reading
  <1>3. \A got : Verified(r, got)[r] = NotReading \/ Verified(r, got)[r] = [read[r] EXCEPT !.pc = "failed"]
    BY DEF Verified, TypeOK
  <1>4. \A pc, data : ReadGoesOn(r, pc, data) => read'[r].hit
    BY DEF ReadGoesOn, TypeOK, Reading
  <1>5. read[r].pc # "idle"
    BY DEF Reading
  <1>6. (\E got : read' = Verified(r, got)) \/ read' = Moved(r) \/ read'[r] = NotReading
        \/ \E pc, data : ReadGoesOn(r, pc, data)
    BY <1>5 DEF ReadNext, ReadSealed, ReadStart, ReadStaging, ReadFrame, ReadGet, ReadObject, ReadTest,
                ReadIndex, ReadLoad, ReadKeep, ReadTouch, ReadEnds, TypeOK
  <1>7. read'[r] = NotReading \/ read'[r].hit
    BY <1>1, <1>2, <1>3, <1>4, <1>6
  <1> QED
    BY <1>7 DEF ReadOK, NotReading

LEMMA ResolvedOK ==
  ASSUME TypeOK, RowsInPlace, NEW r \in Reader, NEW n \in {1, 2}, Row(r), chunk[r].refs > 0,
         n = 1 \/ batch[chunk[r].batch].state = "sealed",
         read'[r] = Resolved(r, n), UNCHANGED <<tables, staging>>
  PROVE  ReadOK(r)'
PROOF
  <1>1. InPlace(r)
    BY BatchAssumption DEF RowsInPlace
  <1>2. read'[r].n = n /\ read'[r].b = chunk[r].batch /\ read'[r].off = chunk[r].off
    BY DEF Resolved
  <1>3. CASE batch[chunk[r].batch].state \in {"open", "sealing"}
    <2>1. read'[r].pc = "staging" /\ n = 1
      BY <1>3 DEF Resolved
    <2>2. InStaging(r, chunk[r].batch)
      BY <1>1, <1>3 DEF InPlace
    <2> QED
      BY <1>2, <2>1, <2>2 DEF ReadOK, Found, InStaging, At, Row, tables
  <1>4. CASE batch[chunk[r].batch].state \notin {"open", "sealing"}
    <2>1. read'[r].pc = "frame" /\ batch[chunk[r].batch].state = "sealed"
      BY <1>1, <1>4 DEF Resolved, InPlace
    <2> QED
      BY <1>2, <2>1 DEF ReadOK, Found, Row, tables
  <1> QED
    BY <1>3, <1>4

LEMMA ReadKeeps ==
  ASSUME Fits, CachesOK, NEW r \in Reader, ReadNext(r)
  PROVE  Fits'
PROOF
  <1>1. TypeOK /\ RowsInPlace /\ ReadOK(r) /\ \A s \in Reader : ReadOK(s)
    BY DEF Fits
  <1>2. TypeOK'
    BY <1>1, ReadTypes
  <1>3. UNCHANGED <<tables, staging, object, job, victims, doomed>>
    BY DEF ReadNext, ReadSealed, ReadStart, ReadStaging, ReadFrame, ReadGet, ReadObject, ReadTest, ReadIndex,
           ReadLoad, ReadKeep, ReadTouch, ReadEnds, mem, caches
  <1>4. RowsInPlace' /\ RefsAreExact' /\ LiveBytesCoverUse'
    BY <1>3, RowsStay, TablesStay DEF Fits
  <1>5. IngestOK' /\ SealOK' /\ CompactOK' /\ VictimsAreSealed' /\ DoomedAreSealing'
    BY <1>3, HolderStays DEF Fits
  <1>6. \A s \in Reader \ {r} : read'[s] = read[s]
    BY <1>1 DEF ReadNext, ReadSealed, ReadStart, ReadStaging, ReadFrame, ReadGet, ReadObject, ReadTest,
                ReadIndex, ReadLoad, ReadKeep, ReadTouch, ReadEnds, ReadGoesOn, Verified, Moved, TypeOK
  <1>7. \A s \in Reader \ {r} : ReadOK(s)'
    BY <1>1, <1>3, <1>6, ReadStays
  <1> SUFFICES ReadOK(r)'
    BY <1>2, <1>4, <1>5, <1>7 DEF Fits
  <1>8. Row(r) => InPlace(r)
    BY <1>1, BatchAssumption DEF RowsInPlace
  <1>9. CASE ReadStart(r)
    <2>1. Row(r) /\ chunk[r].refs > 0 /\ read'[r] = Resolved(r, 1)
      BY <1>1, <1>9 DEF ReadStart, Refs, TypeOK
    <2> QED
      BY <1>1, <1>3, <2>1, ResolvedOK
  <1>10. CASE ReadEnds(r)
    BY <1>1, <1>10 DEF ReadEnds, ReadOK, NotReading, TypeOK
  <1> SUFFICES ASSUME ReadStaging(r) \/ ReadSealed(r)  PROVE ReadOK(r)'
    BY <1>9, <1>10 DEF ReadNext
  <1>11. read[r] \in Reading /\ read[r].pc \notin {"idle", "failed", "keyerror"}
    <2>1. read[r].pc \notin {"idle", "failed", "keyerror"}
      BY DEF ReadSealed, ReadStaging, ReadFrame, ReadGet, ReadObject, ReadTest, ReadIndex, ReadLoad, ReadKeep,
             ReadTouch
    <2> QED
      BY <1>1, <2>1, ReadShape
  <1>12. CASE read[r].hit
    BY <1>1, <1>11, <1>12, HitStays
  <1> SUFFICES ASSUME ~ read[r].hit  PROVE ReadOK(r)'
    BY <1>12
  <1>13. Found(r) /\ Row(r) /\ chunk[r].refs > 0 /\ chunk[r].batch = read[r].b
    BY <1>1, <1>11 DEF ReadOK, Found
  <1>14. CASE ReadStaging(r)
    <2>1. read[r].n = 1 /\ (staging[read[r].b] # Gone => At(staging[read[r].b], read[r].off) = r)
      BY <1>13, <1>14 DEF ReadStaging, Found
    <2>2. CASE staging[read[r].b] # Gone
      <3>1. read'[r] = NotReading
        BY <1>1, <1>14, <2>1, <2>2 DEF ReadStaging, Verified, TypeOK
      <3> QED
        BY <3>1 DEF ReadOK, NotReading
    <2>3. CASE staging[read[r].b] = Gone
      <3>1. read'[r] = Resolved(r, 2)
        BY <1>1, <1>14, <2>1, <2>3 DEF ReadStaging, Moved, TypeOK
      <3>2. batch[chunk[r].batch].state = "sealed"
        BY <1>8, <1>13, <2>3 DEF InPlace, InStaging
      <3> QED
        BY <1>1, <1>3, <1>13, <3>1, <3>2, ResolvedOK
    <2> QED
      BY <2>2, <2>3
  <1> SUFFICES ASSUME ReadSealed(r)  PROVE ReadOK(r)'
    BY <1>14
  <1>15. /\ batch[read[r].b].state = "sealed" /\ chunk[r].off = read[r].off
         /\ read[r].b \in framed /\ object[read[r].b] # Gone /\ At(object[read[r].b], read[r].off) = r
    <2>1. batch[read[r].b].state = "sealed" /\ chunk[r].off = read[r].off
      BY <1>13 DEF Found, ReadSealed, ReadFrame, ReadGet, ReadObject, ReadTest, ReadIndex, ReadLoad, ReadKeep,
                   ReadTouch
    <2> QED
      BY <1>8, <1>13, <2>1 DEF InPlace
  <1>16. read[r].pc \in {"dict", "index", "load", "keep", "touch"} => At(read[r].data, read[r].off) = r
    BY <1>15 DEF CachesOK, DataOK, IsFrameOf
  \* it goes on, in the same place
  <1>17. ASSUME NEW pc \in {"get", "touch", "object", "dict", "index", "load", "keep", "keyerror"},
                NEW data \in Seq(Chunk) \cup {Gone}, ReadGoesOn(r, pc, data)
         PROVE  ReadOK(r)'
    <2>1. read'[r].pc = pc /\ read'[r].b = read[r].b /\ read'[r].off = read[r].off
      BY <1>1, <1>11, <1>17 DEF ReadGoesOn, TypeOK, Reading
    <2> QED
      BY <1>3, <1>13, <1>15, <1>17, <2>1 DEF ReadOK, Found, Row, tables
  <1>18. ASSUME read' = Verified(r, r)
         PROVE  ReadOK(r)'
    BY <1>1, <1>18 DEF Verified, ReadOK, NotReading, TypeOK
  <1>19. /\ read[r].data \in Seq(Chunk) \cup {Gone} /\ frames[read[r].b] \in Seq(Chunk) \cup {Gone}
         /\ object[read[r].b] \in Seq(Chunk) \cup {Gone} /\ Gone \in Seq(Chunk) \cup {Gone}
    BY <1>1, <1>11 DEF Reading, TypeOK
  <1>20. CASE ReadFrame(r)
    BY <1>15, <1>17, <1>19, <1>20 DEF ReadFrame
  <1>21. CASE ReadGet(r)
    BY <1>17, <1>19, <1>21 DEF ReadGet
  <1>22. CASE ReadObject(r)
    BY <1>15, <1>17, <1>19, <1>22 DEF ReadObject
  <1>23. CASE ReadTest(r)
    BY <1>17, <1>19, <1>23 DEF ReadTest
  <1>24. CASE ReadIndex(r)
    BY <1>17, <1>19, <1>24 DEF ReadIndex
  <1>25. CASE ReadLoad(r)
    BY <1>15, <1>17, <1>19, <1>25 DEF ReadLoad
  <1>26. CASE ReadKeep(r)
    BY <1>16, <1>18, <1>26 DEF ReadKeep
  <1>27. CASE ReadTouch(r)
    BY <1>16, <1>17, <1>18, <1>19, <1>27 DEF ReadTouch
  <1> QED
    BY <1>20, <1>21, <1>22, <1>23, <1>24, <1>25, <1>26, <1>27 DEF ReadSealed

(***************************************************************************)
(* Steps that change files and lists, no tables.                           *)
(***************************************************************************)
LEMMA SaveBloomKeeps ==
  ASSUME Fits, SaveBloom
  PROVE  Fits'
PROOF
  <1>1. TypeOK'
    BY DEF Fits, SaveBloom, TypeOK, tables, mem, caches
  <1>2. UNCHANGED <<tables, staging, object, job, victims, doomed, read>>
    BY DEF SaveBloom, mem, caches
  <1>3. \A r \in Reader : ReadOK(r)'
    BY <1>2, ReadStays DEF Fits
  <1> QED
    BY <1>1, <1>2, <1>3, RowsStay, TablesStay, HolderStays DEF Fits

LEMMA CrashKeeps ==
  ASSUME Fits, Crash
  PROVE  Fits'
PROOF
  <1>1. Rows \in SUBSET Chunk /\ Cardinality(Rows) \in Nat
    BY FileAssumption, FS_Subset, FS_CardinalityType DEF Rows
  <1>2. Loaded \in Filter
    BY <1>1 DEF Fits, TypeOK, Loaded, Filter
  <1>3. TypeOK'
    BY <1>2 DEF Fits, Crash, TypeOK, tables, Interrupted
  <1>4. RowsInPlace' /\ RefsAreExact' /\ LiveBytesCoverUse'
    BY RowsStay, TablesStay DEF Fits, Crash
  <1>5. IngestOK' /\ SealOK' /\ CompactOK' /\ VictimsAreSealed'
    BY DEF Crash, Idle, IngestOK, SealOK, CompactOK, VictimsAreSealed
  <1>6. DoomedAreSealing'
    BY DEF Crash, DoomedAreSealing, Interrupted, tables
  <1>7. \A r \in Reader : ReadOK(r)'
    BY DEF Crash, ReadOK, Found, NotReading
  <1> QED
    BY <1>3, <1>4, <1>5, <1>6, <1>7 DEF Fits

LEMMA SealPutKeeps ==
  ASSUME Fits, SealPut
  PROVE  Fits'
PROOF
  <1>1. job \in SealJob /\ job' = [job EXCEPT !.pc = "tx"] /\ TypeOK /\ job.op = "seal" /\ job.pc = "put"
    BY JobShape DEF Fits, SealPut
  <1>2. job' \in SealJob /\ job'.op = "seal" /\ job'.pc = "tx" /\ job'.b = job.b /\ job'.order = job.order
    BY <1>1 DEF SealJob
  <1>3. object' = [object EXCEPT ![job.b] = job.order] /\ job.b \in Batch /\ job.order \in Seq(Chunk)
    BY <1>1 DEF SealPut, SealJob
  <1>4. TypeOK'
    BY <1>1, <1>2, <1>3 DEF TypeOK, SealPut, tables, mem, caches
  <1>5. batch[job.b].state = "sealing"
    BY <1>1 DEF Fits, SealOK
  <1>6. RefsAreExact' /\ LiveBytesCoverUse'
    BY TablesStay DEF Fits, SealPut
  <1>7. RowsInPlace'
    <2> SUFFICES ASSUME NEW c \in Chunk, Row(c)'  PROVE InPlace(c)'
      BY DEF RowsInPlace
    <2>1. Row(c) /\ InPlace(c) /\ chunk[c] \in ChunkRow
      BY <1>1, RowShape DEF Fits, RowsInPlace, SealPut, Row, tables
    <2>2. batch[chunk[c].batch].state = "sealed" => object'[chunk[c].batch] = object[chunk[c].batch]
      BY <1>1, <1>3, <1>5, <2>1 DEF TypeOK, ChunkRow
    <2> QED
      BY <2>1, <2>2 DEF InPlace, InStaging, SealPut, tables
  <1>8. SealOK'
    BY <1>1, <1>2, <1>3, <1>5 DEF Fits, SealOK, SealPut, tables, IsListOf, LiveIn, Rows, Row, TypeOK
  <1>9. IngestOK' /\ CompactOK' /\ VictimsAreSealed'
    BY <1>2 DEF Fits, IngestOK, CompactOK, VictimsAreSealed, SealPut, tables, mem, caches
  <1>10. DoomedAreSealing'
    BY <1>1, <1>2 DEF Fits, DoomedAreSealing, SealPut, tables, mem, caches
  <1>11. \A r \in Reader : ReadOK(r)'
    BY ReadStays DEF Fits, SealPut
  <1> QED
    BY <1>4, <1>6, <1>7, <1>8, <1>9, <1>10, <1>11 DEF Fits

LEMMA SealFailsKeeps ==
  ASSUME Fits, SealFails
  PROVE  Fits'
PROOF
  <1>1. job \in SealJob /\ job' = Idle /\ TypeOK /\ job.op = "seal" /\ job.pc = "put" /\ doomed = {}
    BY JobShape DEF Fits, SealFails
  <1>2. object' = [object EXCEPT ![job.b] = Gone] /\ job.b \in Batch
    BY <1>1 DEF SealFails, SealJob
  <1>3. TypeOK'
    BY <1>1, <1>2 DEF TypeOK, SealFails, tables, mem, caches
  <1>4. batch[job.b].state = "sealing"
    BY <1>1 DEF Fits, SealOK
  <1>5. RefsAreExact' /\ LiveBytesCoverUse'
    BY TablesStay DEF Fits, SealFails
  <1>6. RowsInPlace'
    <2> SUFFICES ASSUME NEW c \in Chunk, Row(c)'  PROVE InPlace(c)'
      BY DEF RowsInPlace
    <2>1. Row(c) /\ InPlace(c) /\ chunk[c] \in ChunkRow
      BY <1>1, RowShape DEF Fits, RowsInPlace, SealFails, Row, tables
    <2>2. batch[chunk[c].batch].state = "sealed" => object'[chunk[c].batch] = object[chunk[c].batch]
      BY <1>1, <1>2, <1>4, <2>1 DEF TypeOK, ChunkRow
    <2> QED
      BY <2>1, <2>2 DEF InPlace, InStaging, SealFails, tables
  <1>7. IngestOK' /\ SealOK' /\ CompactOK' /\ VictimsAreSealed' /\ DoomedAreSealing'
    BY <1>1 DEF Fits, IngestOK, SealOK, CompactOK, VictimsAreSealed, DoomedAreSealing, SealFails, tables, mem, caches,
                Idle
  <1>8. \A r \in Reader : ReadOK(r)'
    BY ReadStays DEF Fits, SealFails
  <1> QED
    BY <1>3, <1>5, <1>6, <1>7, <1>8 DEF Fits

LEMMA SealUnlinkKeeps ==
  ASSUME Fits, SealUnlink
  PROVE  Fits'
PROOF
  <1>1. job \in SealJob /\ job' = [job EXCEPT !.pc = "forget"] /\ TypeOK /\ job.op = "seal" /\ job.pc = "unlink"
    BY JobShape DEF Fits, SealUnlink
  <1>2. staging' = [staging EXCEPT ![job.b] = Gone] /\ job.b \in Batch
        /\ job' \in SealJob /\ job'.op = "seal" /\ job'.pc = "forget" /\ job'.b = job.b
    BY <1>1 DEF SealUnlink, SealJob
  <1>3. TypeOK'
    BY <1>1, <1>2 DEF TypeOK, SealUnlink, tables, mem, caches
  <1>4. batch[job.b].state = "sealed"
    BY <1>1 DEF Fits, SealOK
  <1>5. RefsAreExact' /\ LiveBytesCoverUse'
    BY TablesStay DEF Fits, SealUnlink
  <1>6. RowsInPlace'
    <2> SUFFICES ASSUME NEW c \in Chunk, Row(c)'  PROVE InPlace(c)'
      BY DEF RowsInPlace
    <2>1. Row(c) /\ InPlace(c) /\ chunk[c] \in ChunkRow
      BY <1>1, RowShape DEF Fits, RowsInPlace, SealUnlink, Row, tables
    <2>2. batch[chunk[c].batch].state # "sealed" => staging'[chunk[c].batch] = staging[chunk[c].batch]
      BY <1>1, <1>2, <1>4, <2>1 DEF TypeOK, ChunkRow
    <2> QED
      BY <2>1, <2>2 DEF InPlace, InStaging, At, SealUnlink, tables
  <1>7. IngestOK' /\ SealOK' /\ CompactOK' /\ VictimsAreSealed' /\ DoomedAreSealing'
    BY <1>1, <1>2, <1>4 DEF Fits, IngestOK, SealOK, CompactOK, VictimsAreSealed, DoomedAreSealing, SealUnlink,
                            tables, mem
  <1>8. ASSUME NEW r \in Reader
        PROVE  ReadOK(r)'
    <2>1. ReadOK(r) /\ read'[r] = read[r] /\ UNCHANGED tables
      BY DEF Fits, SealUnlink
    <2>2. CASE read[r].pc \in {"idle", "failed", "keyerror"} \/ read[r].hit
      BY <2>1, <2>2 DEF ReadOK, Found
    <2>3. CASE read[r].pc \notin {"idle", "failed", "keyerror"} /\ ~ read[r].hit
      <3>1. read[r] \in Reading
        BY <1>1, <2>3, ReadShape
      <3>2. staging'[read[r].b] = Gone \/ staging'[read[r].b] = staging[read[r].b]
        BY <1>1, <1>2, <3>1 DEF TypeOK, Reading
      <3> QED
        BY <2>1, <3>2 DEF ReadOK, Found, Row, tables
    <2> QED
      BY <2>2, <2>3
  <1> QED
    BY <1>3, <1>5, <1>6, <1>7, <1>8 DEF Fits

LEMMA SealDoneKeeps ==
  ASSUME Fits, SealDone
  PROVE  Fits'
PROOF
  <1>1. /\ job \in SealJob /\ job' = Idle /\ TypeOK /\ job.op = "seal" /\ job.pc = "forget"
        /\ UNCHANGED <<tables, staging, object, bloom, victims, read>> /\ doomed' = doomed \ {job.b}
    BY JobShape DEF Fits, SealDone
  <1>2. TypeOK'
    BY <1>1 DEF TypeOK, SealDone, tables
  <1>3. RowsInPlace' /\ RefsAreExact' /\ LiveBytesCoverUse'
    BY <1>1, RowsStay, TablesStay DEF Fits
  <1>4. IngestOK' /\ SealOK' /\ CompactOK' /\ VictimsAreSealed' /\ DoomedAreSealing'
    BY <1>1 DEF Fits, IngestOK, SealOK, CompactOK, VictimsAreSealed, DoomedAreSealing, tables, Idle
  <1>5. \A r \in Reader : ReadOK(r)'
    BY <1>1, ReadStays DEF Fits
  <1> QED
    BY <1>2, <1>3, <1>4, <1>5 DEF Fits

LEMMA CompactListKeeps ==
  ASSUME Fits, CompactList
  PROVE  Fits'
PROOF
  <1>1. TypeOK /\ UNCHANGED <<tables, staging, object, job, doomed, read>> /\ job.op \notin {"seal", "compact"}
    BY DEF Fits, CompactList, caches
  <1>2. TypeOK'
    BY <1>1 DEF TypeOK, CompactList, caches, tables
  <1>3. VictimsAreSealed'
    BY DEF CompactList, caches, VictimsAreSealed, tables
  <1>4. IngestOK' /\ DoomedAreSealing'
    BY <1>1 DEF Fits, IngestOK, DoomedAreSealing, IsListOf, Holds, At, Row, tables
  <1>5. SealOK' /\ CompactOK'
    BY <1>1 DEF SealOK, CompactOK
  <1>6. \A r \in Reader : ReadOK(r)'
    BY <1>1, ReadStays DEF Fits
  <1> QED
    BY <1>1, <1>2, <1>3, <1>4, <1>5, <1>6, RowsStay, TablesStay DEF Fits

LEMMA CompactDeleteKeeps ==
  ASSUME Fits, CompactDelete
  PROVE  Fits'
PROOF
  <1>1. job \in CompactJob /\ job' = Idle /\ TypeOK /\ job.op = "compact" /\ job.pc = "delete"
    BY JobShape DEF Fits, CompactDelete
  <1>2. object' = [object EXCEPT ![job.b] = Gone] /\ job.b \in Batch
    BY <1>1 DEF CompactDelete, CompactJob
  <1>3. TypeOK'
    BY <1>1, <1>2 DEF TypeOK, CompactDelete, tables, caches
  <1>4. batch[job.b].state = "deleted"
    BY <1>1 DEF Fits, CompactOK
  <1>5. RefsAreExact' /\ LiveBytesCoverUse'
    BY TablesStay DEF Fits, CompactDelete
  <1>6. RowsInPlace'
    <2> SUFFICES ASSUME NEW c \in Chunk, Row(c)'  PROVE InPlace(c)'
      BY DEF RowsInPlace
    <2>1. Row(c) /\ InPlace(c) /\ chunk[c] \in ChunkRow
      BY <1>1, RowShape DEF Fits, RowsInPlace, CompactDelete, Row, tables
    <2>2. batch[chunk[c].batch].state = "sealed" => object'[chunk[c].batch] = object[chunk[c].batch]
      BY <1>1, <1>2, <1>4, <2>1 DEF TypeOK, ChunkRow
    <2> QED
      BY <2>1, <2>2 DEF InPlace, InStaging, CompactDelete, tables
  <1>7. IngestOK' /\ SealOK' /\ CompactOK' /\ VictimsAreSealed' /\ DoomedAreSealing'
    BY <1>1 DEF Fits, IngestOK, SealOK, CompactOK, VictimsAreSealed, DoomedAreSealing, CompactDelete, tables, Idle
  <1>8. \A r \in Reader : ReadOK(r)'
    BY ReadStays DEF Fits, CompactDelete
  <1> QED
    BY <1>3, <1>5, <1>6, <1>7, <1>8 DEF Fits

(***************************************************************************)
(* Steps that open a batch and append to it, and the list of a seal.       *)
(***************************************************************************)
LEMMA Grown ==
  ASSUME TypeOK, NEW b \in Batch, NEW cs \in Seq(Chunk), staging' = Extended(b, cs)
  PROVE  /\ \A d \in Batch \ {b} : staging'[d] = staging[d]
         /\ staging'[b] \in Seq(Chunk) /\ staging'[b] # Gone
         /\ \A i \in Nat : staging[b] # Gone /\ i \in DOMAIN staging[b]
                           => i \in DOMAIN staging'[b] /\ staging'[b][i] = staging[b][i]
         /\ Holds(staging'[b], Len(Raw(b)), cs)
PROOF
  <1>1. staging'[b] = Raw(b) \o cs /\ \A d \in Batch \ {b} : staging'[d] = staging[d]
    BY DEF Extended, TypeOK
  <1>2. Raw(b) \in Seq(Chunk) /\ (staging[b] # Gone => Raw(b) = staging[b])
    BY RawType
  <1>3. staging'[b] \in Seq(Chunk)
    BY <1>1, <1>2, Prefixed
  <1>4. staging'[b] # Gone
    BY <1>3, GoneAssumption
  <1>5. \A i \in Nat : i \in DOMAIN Raw(b) => i \in DOMAIN staging'[b] /\ staging'[b][i] = Raw(b)[i]
    BY <1>1, <1>2, Prefixed
  <1>6. \A i \in DOMAIN cs : At(staging'[b], Len(Raw(b)) + i) = cs[i]
    BY <1>1, <1>2, Prefixed
  <1>7. Holds(staging'[b], Len(Raw(b)), cs)
    BY <1>4, <1>6 DEF Holds
  <1> QED
    BY <1>1, <1>2, <1>3, <1>4, <1>5, <1>7

LEMMA AppendKeeps ==
  ASSUME Fits, NEW b \in Batch, NEW cs \in Seq(Chunk), OpenBatch(b),
         batch' = Opened(b), staging' = Extended(b, cs), UNCHANGED <<chunk, file, framed, object, read>>
  PROVE  /\ RowsInPlace' /\ RefsAreExact' /\ LiveBytesCoverUse' /\ \A r \in Reader : ReadOK(r)'
         /\ batch'[b].state = "open" /\ batch[b].state \in {"open", "none"}
         /\ \A d \in Batch : batch[d].state # "none" => batch'[d].state = batch[d].state
PROOF
  <1>1. TypeOK
    BY DEF Fits
  <1>2. batch[b].state \in {"open", "none"}
    BY DEF OpenBatch, OpenIds
  <1>3. /\ batch'[b].state = "open" /\ batch'[b].live = batch[b].live
        /\ \A d \in Batch \ {b} : batch'[d] = batch[d]
    BY <1>1 DEF Opened, TypeOK, BatchRow
  <1>4. RowsInPlace'
    <2> SUFFICES ASSUME NEW c \in Chunk, Row(c)'  PROVE InPlace(c)'
      BY DEF RowsInPlace
    <2>1. Row(c) /\ InPlace(c) /\ chunk[c] \in ChunkRow
      BY <1>1, RowShape DEF Fits, RowsInPlace, Row
    <2>2. chunk[c].batch \in Batch /\ chunk[c].off \in Nat
      BY <2>1 DEF ChunkRow
    <2>3. CASE chunk[c].batch # b
      BY <1>1, <1>3, <2>1, <2>2, <2>3, Grown DEF InPlace, InStaging, At
    <2>4. CASE chunk[c].batch = b
      <3>1. InStaging(c, b)
        BY <1>2, <2>1, <2>4 DEF InPlace
      <3>2. InStaging(c, b)'
        BY <1>1, <2>2, <2>4, <3>1, Grown DEF InStaging
      <3> QED
        BY <1>3, <2>4, <3>2 DEF InPlace
    <2> QED
      BY <2>3, <2>4
  <1>5. RefsAreExact'
    BY DEF Fits, RefsAreExact, Refs, Row
  <1>6. LiveBytesCoverUse'
    BY <1>3 DEF Fits, LiveBytesCoverUse, LiveIn, Rows, Row
  <1>7. ASSUME NEW r \in Reader
        PROVE  ReadOK(r)'
    <2>1. ReadOK(r) /\ read'[r] = read[r] /\ UNCHANGED chunk /\ r \in Chunk
      BY BatchAssumption DEF Fits
    <2>2. CASE read[r].pc \in {"idle", "failed", "keyerror"} \/ read[r].hit
      BY <2>1, <2>2 DEF ReadOK, Found
    <2>3. CASE read[r].pc \notin {"idle", "failed", "keyerror"} /\ ~ read[r].hit
      <3>1. read[r] \in Reading /\ read[r].b \in Batch /\ read[r].off \in Nat
        BY <1>1, <2>3, ReadShape DEF Reading
      <3>2. Row(r) /\ chunk[r].batch = read[r].b /\ InPlace(r)
        BY <2>1, <2>3 DEF ReadOK, Found, Fits, RowsInPlace
      <3>3. CASE read[r].pc = "staging"
        <4>1. CASE read[r].b # b
          BY <1>1, <2>1, <3>1, <3>3, <4>1, Grown DEF ReadOK, Found, Row
        <4>2. CASE read[r].b = b
          <5>1. staging[b] # Gone
            BY <1>2, <3>2, <4>2 DEF InPlace, InStaging
          <5>2. At(staging[b], read[r].off) = r
            BY <2>1, <2>3, <3>3, <4>2, <5>1 DEF ReadOK, Found
          <5>3. read[r].off \in DOMAIN staging[b] /\ staging[b][read[r].off] = r
            BY <2>1, <5>2, GoneAssumption DEF At
          <5>4. At(staging'[b], read[r].off) = r
            BY <1>1, <3>1, <5>1, <5>3, Grown DEF At
          <5> QED
            BY <2>1, <2>3, <3>3, <4>2, <5>4 DEF ReadOK, Found, Row
        <4> QED
          BY <4>1, <4>2
      <3>4. CASE read[r].pc # "staging"
        <4>1. batch[read[r].b].state = "sealed" /\ chunk[r].off = read[r].off
          BY <2>1, <2>3, <3>4 DEF ReadOK, Found
        <4>2. batch'[read[r].b].state = "sealed"
          BY <1>2, <1>3, <3>1, <4>1
        <4> QED
          BY <2>1, <2>3, <3>4, <4>1, <4>2 DEF ReadOK, Found, Row
      <3> QED
        BY <3>3, <3>4
    <2> QED
      BY <2>2, <2>3
  <1> QED
    BY <1>2, <1>3, <1>4, <1>5, <1>6, <1>7

LEMMA IngestAppendKeeps ==
  ASSUME Fits, NEW f \in File, NEW b \in Batch, IngestAppend(f, b)
  PROVE  Fits'
PROOF
  <1>1. TypeOK /\ TypeOK'
    BY AppendTypes DEF Fits
  <1>2. PICK new \in Fresh(f) : /\ staging' = Extended(b, new)
                                /\ job' = [op |-> "ingest", f |-> f, b |-> b, new |-> new, at |-> Len(Raw(b))]
    BY DEF IngestAppend
  <1>3. /\ new \in Seq(Chunk) /\ ToSet(new) = Unknown(f)
        /\ \A i, j \in DOMAIN new : new[i] = new[j] => i = j
    BY FreshFacts
  <1>4. /\ batch' = Opened(b) /\ OpenBatch(b) /\ file[f] = "absent" /\ doomed = {}
        /\ UNCHANGED <<chunk, file, framed, object, read, victims, doomed>>
    BY DEF IngestAppend, mem, caches
  <1>5. /\ RowsInPlace' /\ RefsAreExact' /\ LiveBytesCoverUse' /\ \A r \in Reader : ReadOK(r)'
        /\ batch'[b].state = "open" /\ batch[b].state \in {"open", "none"}
        /\ \A d \in Batch : batch[d].state # "none" => batch'[d].state = batch[d].state
    BY <1>2, <1>3, <1>4, AppendKeeps
  <1>6. IngestOK'
    <2>1. \A c \in ChunksOf(f) : ~ Row(c) => c \in Unknown(f)
      BY DEF Unknown, Known
    <2>2. IsListOf(new, {c \in ChunksOf(f) : ~ Row(c)'})
      BY <1>3, <1>4, <2>1 DEF IsListOf, Row
    <2>3. Holds(staging'[b], Len(Raw(b)), new)
      BY <1>1, <1>2, <1>3, Grown
    <2> QED
      BY <1>2, <1>3, <1>4, <1>5, <2>2, <2>3 DEF IngestOK, Unknown
  <1>7. SealOK' /\ CompactOK'
    BY <1>2 DEF SealOK, CompactOK
  <1>8. VictimsAreSealed' /\ DoomedAreSealing'
    <2>1. victims \subseteq Batch
      BY <1>1 DEF TypeOK
    <2> QED
      BY <1>4, <1>5, <2>1 DEF Fits, VictimsAreSealed, DoomedAreSealing
  <1> QED
    BY <1>1, <1>5, <1>6, <1>7, <1>8 DEF Fits

LEMMA CompactCopyKeeps ==
  ASSUME Fits, NEW v \in Batch, NEW t \in Batch, CompactCopy(v, t)
  PROVE  Fits'
PROOF
  <1>1. TypeOK
    BY DEF Fits
  <1>2. PICK order \in SetToSeqs(LiveIn(v)) :
          /\ staging' = Extended(t, order)
          /\ job' = [op |-> "compact", b |-> v, t |-> t, moved |-> order, at |-> Len(Raw(t)), pc |-> "tx"]
          /\ UNCHANGED caches \/ CopyReads(v)
    BY DEF CompactCopy
  <1>3. /\ order \in Seq(Chunk) /\ ToSet(order) = LiveIn(v)
        /\ \A i, j \in DOMAIN order : order[i] = order[j] => i = j
    BY LiveFacts, ListFacts
  <1>4. /\ batch' = Opened(t) /\ OpenBatch(t) /\ v \in victims /\ victims' = victims \ {v} /\ job = Idle
        /\ UNCHANGED <<chunk, file, framed, object, read, saved, bloom, doomed>>
    BY DEF CompactCopy
  <1>5. /\ RowsInPlace' /\ RefsAreExact' /\ LiveBytesCoverUse' /\ \A r \in Reader : ReadOK(r)'
        /\ batch'[t].state = "open" /\ batch[t].state \in {"open", "none"}
        /\ \A d \in Batch : batch[d].state # "none" => batch'[d].state = batch[d].state
    BY <1>2, <1>3, <1>4, AppendKeeps
  <1>6. job' \in CompactJob
    BY <1>1, <1>2, <1>3, RawType DEF CompactJob
  <1>7. TypeOK'
    BY <1>1, <1>2, <1>3, <1>4, <1>6, ExtendedType, OpenedType, CopyTypes DEF TypeOK
  <1>8. VictimsAreSealed' /\ batch'[v].state = "sealed"
    <2>1. victims \subseteq Batch /\ \A b \in victims : batch[b].state = "sealed"
      BY <1>1 DEF TypeOK, Fits, VictimsAreSealed
    <2> QED
      BY <1>4, <1>5, <2>1 DEF VictimsAreSealed
  <1>9. CompactOK'
    <2>1. IsListOf(order, LiveIn(v)') /\ \A c \in ToSet(order) : Row(c)' /\ chunk'[c].batch = v
      BY <1>3, <1>4 DEF IsListOf, LiveIn, Rows, Row
    <2>2. Holds(staging'[t], Len(Raw(t)), order)
      BY <1>1, <1>2, <1>3, Grown
    <2> QED
      BY <1>2, <1>4, <1>5, <1>8, <2>1, <2>2 DEF CompactOK
  <1>10. IngestOK' /\ SealOK'
    BY <1>2 DEF SealOK, IngestOK
  <1>11. DoomedAreSealing'
    <2>1. \A b \in doomed : b \in Batch /\ batch[b].state = "sealing"
      BY <1>1, <1>4 DEF TypeOK, Fits, DoomedAreSealing, Idle
    <2> QED
      BY <1>4, <1>5, <2>1 DEF DoomedAreSealing
  <1> QED
    BY <1>5, <1>7, <1>8, <1>9, <1>10, <1>11 DEF Fits

LEMMA CompactFailsKeeps ==
  ASSUME Fits, NEW v \in Batch, NEW t \in Batch, CompactFails(v, t)
  PROVE  Fits'
PROOF
  <1>1. TypeOK
    BY DEF Fits
  <1>2. PICK order \in SetToSeqs(LiveIn(v)) : \E n \in 0 .. Len(order) : staging' = Extended(t, SubSeq(order, 1, n))
    BY DEF CompactFails
  <1>3. PICK n \in 0 .. Len(order) : staging' = Extended(t, SubSeq(order, 1, n))
    BY <1>2
  <1>4. order \in Seq(Chunk) /\ SubSeq(order, 1, n) \in Seq(Chunk)
    BY <1>2, <1>3, LiveFacts, ListFacts
  <1>5. /\ batch' = Opened(t) /\ OpenBatch(t) /\ v \in victims /\ victims' = {} /\ job = Idle /\ job' = job
        /\ UNCHANGED caches \/ CopyReads(v)
        /\ UNCHANGED <<chunk, file, framed, object, read, saved, bloom, doomed>>
    BY DEF CompactFails
  <1>6. /\ RowsInPlace' /\ RefsAreExact' /\ LiveBytesCoverUse' /\ \A r \in Reader : ReadOK(r)'
        /\ \A d \in Batch : batch[d].state # "none" => batch'[d].state = batch[d].state
    BY <1>3, <1>4, <1>5, AppendKeeps
  <1>7. TypeOK'
    BY <1>1, <1>3, <1>4, <1>5, ExtendedType, OpenedType, CopyTypes DEF TypeOK
  <1>8. IngestOK' /\ SealOK' /\ CompactOK' /\ VictimsAreSealed'
    BY <1>5 DEF IngestOK, SealOK, CompactOK, VictimsAreSealed, Idle
  <1>9. DoomedAreSealing'
    <2>1. \A b \in doomed : b \in Batch /\ batch[b].state = "sealing"
      BY <1>1, <1>5 DEF TypeOK, Fits, DoomedAreSealing, Idle
    <2> QED
      BY <1>5, <1>6, <2>1 DEF DoomedAreSealing
  <1> QED
    BY <1>6, <1>7, <1>8, <1>9 DEF Fits

LEMMA SealListKeeps ==
  ASSUME Fits, NEW b \in Batch, NEW order \in SetToSeqs(LiveIn(b)), SealList(b, order)
  PROVE  Fits'
PROOF
  <1>1. TypeOK /\ job = Idle
    BY DEF Fits, SealList
  <1>2. /\ order \in Seq(Chunk) /\ ToSet(order) = LiveIn(b)
        /\ \A i, j \in DOMAIN order : order[i] = order[j] => i = j
    BY LiveFacts, ListFacts
  <1>3. /\ batch' = [batch EXCEPT ![b].state = "sealing"]
        /\ job' = [op |-> "seal", b |-> b, order |-> order, pc |-> "put"]
        /\ UNCHANGED <<chunk, file, framed, staging, object, saved, bloom, frames, dicts, victims, doomed, read>>
    BY DEF SealList, mem, caches
  <1>4. batch[b].state \in {"open", "sealing"}
    BY <1>1 DEF SealList, Due, Fits, DoomedAreSealing, Idle
  <1>5. /\ batch'[b].state = "sealing" /\ batch'[b].live = batch[b].live
        /\ \A d \in Batch \ {b} : batch'[d] = batch[d]
    BY <1>1, <1>3 DEF TypeOK, BatchRow
  <1>6. TypeOK'
    <2>1. batch' \in [Batch -> BatchRow]
      BY <1>1, <1>3 DEF TypeOK, BatchRow
    <2>2. job' \in SealJob
      BY <1>2, <1>3 DEF SealJob
    <2> QED
      BY <1>1, <1>3, <2>1, <2>2 DEF TypeOK
  <1>7. RowsInPlace'
    <2> SUFFICES ASSUME NEW c \in Chunk, Row(c)'  PROVE InPlace(c)'
      BY DEF RowsInPlace
    <2>1. Row(c) /\ InPlace(c) /\ chunk[c].batch \in Batch
      BY <1>1, <1>3, RowShape DEF Fits, RowsInPlace, Row, ChunkRow
    <2> QED
      BY <1>3, <1>4, <1>5, <2>1 DEF InPlace, InStaging, At
  <1>8. RefsAreExact' /\ LiveBytesCoverUse'
    BY <1>3, <1>5 DEF Fits, RefsAreExact, Refs, Row, LiveBytesCoverUse, LiveIn, Rows
  <1>9. SealOK'
    BY <1>2, <1>3, <1>5 DEF SealOK, IsListOf, LiveIn, Rows, Row
  <1>10. IngestOK' /\ CompactOK'
    BY <1>3 DEF IngestOK, CompactOK
  <1>11. VictimsAreSealed' /\ DoomedAreSealing'
    <2>1. victims \subseteq Batch /\ doomed \subseteq Batch
      BY <1>1 DEF TypeOK
    <2>2. \A d \in doomed : batch[d].state = "sealing"
      BY <1>1 DEF Fits, DoomedAreSealing, Idle
    <2> QED
      BY <1>3, <1>4, <1>5, <2>1, <2>2 DEF Fits, VictimsAreSealed, DoomedAreSealing
  <1>12. ASSUME NEW r \in Reader
         PROVE  ReadOK(r)'
    <2>1. ReadOK(r) /\ read'[r] = read[r] /\ UNCHANGED <<chunk, staging>>
      BY <1>3 DEF Fits
    <2>2. CASE read[r].pc \in {"idle", "failed", "keyerror"} \/ read[r].hit \/ read[r].pc = "staging"
      BY <2>1, <2>2 DEF ReadOK, Found, Row
    <2>3. CASE read[r].pc \notin {"idle", "failed", "keyerror", "staging"} /\ ~ read[r].hit
      <3>1. read[r].b \in Batch
        BY <1>1, <2>3, ReadShape DEF Reading
      <3>2. batch[read[r].b].state = "sealed"
        BY <2>1, <2>3 DEF ReadOK, Found
      <3>3. batch'[read[r].b].state = "sealed"
        BY <1>4, <1>5, <3>1, <3>2
      <3> QED
        BY <2>1, <2>3, <3>3 DEF ReadOK, Found, Row
    <2> QED
      BY <2>2, <2>3
  <1> QED
    BY <1>6, <1>7, <1>8, <1>9, <1>10, <1>11, <1>12 DEF Fits

(***************************************************************************)
(* The transactions of seal and compact.                                   *)
(***************************************************************************)
LEMMA LiveLess ==
  ASSUME NEW S, NEW T \in SUBSET Chunk, S \subseteq T
  PROVE  Cardinality(S) <= Cardinality(T) /\ Cardinality(S) \in Nat /\ Cardinality(T) \in Nat
PROOF
  <1>1. IsFiniteSet(T) /\ IsFiniteSet(S)
    BY FileAssumption, FS_Subset
  <1> QED
    BY <1>1, FS_Subset, FS_CardinalityType

LEMMA SealTxKeeps ==
  ASSUME Fits, SealTx
  PROVE  Fits'
PROOF
  <1> DEFINE b == job.b  order == job.order
  <1>1. TypeOK /\ job \in SealJob /\ job.op = "seal" /\ job.pc = "tx"
    BY JobShape DEF Fits, SealTx
  <1>2. b \in Batch /\ order \in Seq(Chunk) /\ ToSet(order) \subseteq Chunk /\ Len(order) \in Nat
    BY <1>1 DEF SealJob, ToSet
  <1>3. /\ batch[b].state = "sealing" /\ object[b] = order
        /\ LiveIn(b) \subseteq ToSet(order) /\ \A i, j \in DOMAIN order : order[i] = order[j] => i = j
        /\ \A c \in ToSet(order) : Row(c) /\ chunk[c].batch = b
    BY <1>1 DEF Fits, SealOK, IsListOf
  <1>4. /\ batch' = [batch EXCEPT ![b] = [@ EXCEPT !.state = "sealed", !.raw = Len(order), !.live = Len(order)]]
        /\ framed' = IF order = <<>> THEN framed \ {b} ELSE framed \cup {b}
        /\ job' = [job EXCEPT !.pc = "unlink"]
        /\ UNCHANGED <<file, staging, object, saved, bloom, frames, dicts, victims, doomed, read>>
    BY DEF SealTx, mem, caches
  <1>5. /\ batch' \in [Batch -> BatchRow] /\ batch'[b].state = "sealed" /\ batch'[b].live = Len(order)
        /\ \A d \in Batch \ {b} : batch'[d] = batch[d]
    BY <1>1, <1>2, <1>4 DEF TypeOK, BatchRow
  <1>6. job' \in SealJob /\ job'.op = "seal" /\ job'.pc = "unlink" /\ job'.b = b
    BY <1>1, <1>4 DEF SealJob
  \* what becomes of a row
  <1>7. ASSUME NEW c \in Chunk
        PROVE  \/ c \in Dropped(b) /\ chunk'[c] = Gone
               \/ /\ c \notin Dropped(b) /\ c \in ToSet(order) /\ chunk'[c] = [chunk[c] EXCEPT !.off = PosIn(c, order)]
               \/ c \notin Dropped(b) /\ c \notin ToSet(order) /\ chunk'[c] = chunk[c]
    BY DEF SealTx
  <1>8. ASSUME NEW c \in Chunk, Row(c)'
        PROVE  /\ Row(c) /\ chunk[c] \in ChunkRow /\ chunk'[c] \in ChunkRow
               /\ chunk'[c].batch = chunk[c].batch /\ chunk'[c].refs = chunk[c].refs
               /\ chunk[c].batch # b => chunk'[c] = chunk[c]
               /\ chunk[c].batch = b => chunk[c].refs > 0 /\ c \in ToSet(order) /\ chunk'[c].off = PosIn(c, order)
    <2>1. Row(c) /\ c \notin Dropped(b)
      BY <1>7, <1>8, <1>3 DEF Row
    <2>2. chunk[c] \in ChunkRow
      BY <1>1, <2>1, RowShape
    <2>3. c \in ToSet(order) => PosIn(c, order) \in Nat
      BY <1>2, Positions
    <2>4. chunk[c].batch = b => chunk[c].refs > 0 /\ c \in ToSet(order)
      BY <1>3, <2>1, <2>2 DEF Dropped, LiveIn, Rows, ChunkRow
    <2>5. CASE c \in ToSet(order)
      BY <1>3, <1>7, <2>1, <2>2, <2>3, <2>4, <2>5 DEF ChunkRow
    <2>6. CASE c \notin ToSet(order)
      BY <1>7, <2>1, <2>2, <2>4, <2>6
    <2> QED
      BY <2>5, <2>6
  <1>9. ASSUME NEW c \in Chunk, Row(c), chunk[c].refs > 0
        PROVE  Row(c)'
    <2>1. chunk[c] \in ChunkRow
      BY <1>1, <1>9, RowShape
    <2>2. c \notin Dropped(b)
      BY <1>9 DEF Dropped
    <2>3. c \in ToSet(order) => PosIn(c, order) \in Nat
      BY <1>2, Positions
    <2>4. chunk'[c] \in ChunkRow
      BY <1>7, <2>1, <2>2, <2>3 DEF ChunkRow
    <2> QED
      BY <2>4, GoneAssumption DEF Row
  <1>10. TypeOK'
    <2>1. chunk' \in [Chunk -> ChunkRow \cup {Gone}]
      <3>1. \A c \in Chunk : chunk'[c] \in ChunkRow \cup {Gone}
        BY <1>8 DEF Row
      <3>2. chunk' = [c \in Chunk |-> chunk'[c]]
        BY DEF SealTx
      <3> QED
        BY <3>1, <3>2
    <2> QED
      BY <1>1, <1>2, <1>4, <1>5, <1>6, <2>1 DEF TypeOK
  <1>11. RowsInPlace'
    <2> SUFFICES ASSUME NEW c \in Chunk, Row(c)'  PROVE InPlace(c)'
      BY DEF RowsInPlace
    <2>1. Row(c) /\ InPlace(c) /\ chunk[c].batch \in Batch
      BY <1>8 DEF Fits, RowsInPlace, ChunkRow
    <2>2. CASE chunk[c].batch = b
      <3>1. PosIn(c, order) \in DOMAIN order /\ order[PosIn(c, order)] = c
        BY <1>2, <1>8, <2>2, Positions
      <3>2. order # <<>> /\ order # Gone
        BY <1>2, <3>1, GoneAssumption
      <3> QED
        BY <1>3, <1>4, <1>5, <1>8, <2>2, <3>1, <3>2 DEF InPlace, At
    <2>3. CASE chunk[c].batch # b
      BY <1>4, <1>5, <1>8, <2>1, <2>3 DEF InPlace, InStaging, At
    <2> QED
      BY <2>2, <2>3
  <1>12. RefsAreExact'
    <2>1. ASSUME NEW c \in Chunk  PROVE Refs(c)' = Refs(c)
      <3>1. CASE Row(c)'
        BY <1>8, <3>1 DEF Refs
      <3>2. CASE ~ Row(c)'
        BY <1>1, <1>9, <3>2, RowShape DEF Refs, ChunkRow
      <3> QED
        BY <3>1, <3>2
    <2> QED
      BY <1>4, <2>1, PiecesMeaning, PiecesMeaningNext DEF Fits
  <1>13. LiveBytesCoverUse'
    <2> SUFFICES ASSUME NEW d \in Batch  PROVE batch'[d].live >= Cardinality(LiveIn(d)')
      BY DEF LiveBytesCoverUse
    <2>1. LiveIn(d)' \subseteq LiveIn(d)
      BY <1>8 DEF LiveIn, Rows
    <2>2. CASE d = b
      <3>1. Cardinality(LiveIn(d)') <= Cardinality(ToSet(order)) /\ Cardinality(LiveIn(d)') \in Nat
        BY <1>2, <1>3, <2>1, <2>2, LiveLess
      <3>2. Cardinality(ToSet(order)) = Len(order)
        BY <1>2, <1>3, ListSize
      <3> QED
        BY <1>2, <1>5, <2>2, <3>1, <3>2
    <2>3. CASE d # b
      <3>1. Cardinality(LiveIn(d)') <= Cardinality(LiveIn(d))
            /\ Cardinality(LiveIn(d)') \in Nat /\ Cardinality(LiveIn(d)) \in Nat
        BY <2>1, LiveFacts, LiveLess
      <3>2. batch'[d].live = batch[d].live /\ batch[d].live >= Cardinality(LiveIn(d)) /\ batch[d].live \in Nat
        BY <1>1, <1>5, <2>3 DEF Fits, LiveBytesCoverUse, TypeOK, BatchRow
      <3> QED
        BY <3>1, <3>2
    <2> QED
      BY <2>2, <2>3
  <1>14. IngestOK' /\ SealOK' /\ CompactOK'
    BY <1>5, <1>6 DEF IngestOK, SealOK, CompactOK
  <1>15. VictimsAreSealed' /\ DoomedAreSealing'
    <2>1. victims \subseteq Batch /\ doomed \subseteq Batch
      BY <1>1 DEF TypeOK
    <2> QED
      BY <1>3, <1>4, <1>5, <1>6, <2>1 DEF Fits, VictimsAreSealed, DoomedAreSealing
  <1>16. ASSUME NEW r \in Reader
         PROVE  ReadOK(r)'
    <2>1. ReadOK(r) /\ read'[r] = read[r] /\ UNCHANGED staging /\ r \in Chunk
      BY <1>4, BatchAssumption DEF Fits
    <2>2. CASE read[r].pc \in {"idle", "failed", "keyerror"} \/ read[r].hit
      BY <2>1, <2>2 DEF ReadOK, Found
    <2>3. CASE read[r].pc \notin {"idle", "failed", "keyerror"} /\ ~ read[r].hit
      <3>1. read[r].b \in Batch
        BY <1>1, <2>3, ReadShape DEF Reading
      <3>2. Row(r) /\ chunk[r].refs > 0 /\ chunk[r].batch = read[r].b
        BY <2>1, <2>3 DEF ReadOK, Found
      <3>3. Row(r)' /\ chunk'[r].refs > 0 /\ chunk'[r].batch = read[r].b
        BY <1>8, <1>9, <2>1, <3>2
      <3>4. CASE read[r].pc = "staging"
        BY <2>1, <2>3, <3>3, <3>4 DEF ReadOK, Found
      <3>5. CASE read[r].pc # "staging"
        <4>1. batch[read[r].b].state = "sealed" /\ chunk[r].off = read[r].off
          BY <2>1, <2>3, <3>5 DEF ReadOK, Found
        <4>2. read[r].b # b
          BY <1>3, <4>1
        <4>3. batch'[read[r].b].state = "sealed" /\ chunk'[r].off = read[r].off
          BY <1>5, <1>8, <2>1, <3>1, <3>2, <3>3, <4>1, <4>2
        <4> QED
          BY <2>1, <2>3, <3>3, <3>5, <4>3 DEF ReadOK, Found
      <3> QED
        BY <3>4, <3>5
    <2> QED
      BY <2>2, <2>3
  <1> QED
    BY <1>10, <1>11, <1>12, <1>13, <1>14, <1>15, <1>16 DEF Fits

LEMMA LiveUnion ==
  ASSUME NEW S, NEW A \in SUBSET Chunk, NEW B \in SUBSET Chunk, S \subseteq A \cup B
  PROVE  Cardinality(S) <= Cardinality(A) + Cardinality(B)
PROOF
  <1>1. IsFiniteSet(A) /\ IsFiniteSet(B) /\ IsFiniteSet(A \cap B)
    BY FileAssumption, FS_Subset
  <1>2. Cardinality(A \cup B) = Cardinality(A) + Cardinality(B) - Cardinality(A \cap B)
    BY <1>1, FS_Union
  <1>3. /\ Cardinality(S) <= Cardinality(A \cup B)
        /\ Cardinality(S) \in Nat /\ Cardinality(A \cup B) \in Nat
    BY LiveLess
  <1>4. Cardinality(A) \in Nat /\ Cardinality(B) \in Nat /\ Cardinality(A \cap B) \in Nat
    BY <1>1, FS_CardinalityType
  <1> QED
    BY <1>2, <1>3, <1>4

LEMMA CompactTxKeeps ==
  ASSUME Fits, CompactTx
  PROVE  Fits'
PROOF
  <1> DEFINE b == job.b  t == job.t  moved == job.moved
  <1>1. TypeOK /\ job \in CompactJob /\ job.op = "compact" /\ job.pc = "tx"
    BY JobShape DEF Fits, CompactTx
  <1>2. /\ b \in Batch /\ t \in Batch /\ job.at \in Nat
        /\ moved \in Seq(Chunk) /\ ToSet(moved) \subseteq Chunk /\ Len(moved) \in Nat
    BY <1>1 DEF CompactJob, ToSet
  <1>3. /\ batch[t].state = "open" /\ batch[b].state = "sealed" /\ b \notin victims /\ b # t
        /\ LiveIn(b) \subseteq ToSet(moved) /\ \A i, j \in DOMAIN moved : moved[i] = moved[j] => i = j
        /\ \A c \in ToSet(moved) : Row(c) /\ chunk[c].batch = b
        /\ Holds(staging[t], job.at, moved)
    BY <1>1 DEF Fits, CompactOK, IsListOf
  <1>4. /\ batch' = [batch EXCEPT
             ![t] = [batch[t] EXCEPT !.raw = @ + Len(moved), !.live = @ + Len(moved), !.dated = TRUE],
             ![b] = [batch[b] EXCEPT !.state = "deleted", !.live = 0]]
        /\ framed' = framed \ {b}
        /\ job' = [job EXCEPT !.pc = "delete"]
        /\ UNCHANGED <<file, staging, object, saved, bloom, frames, dicts, victims, doomed>>
    BY DEF CompactTx, mem, caches
  <1>5. /\ batch' \in [Batch -> BatchRow]
        /\ batch'[b].state = "deleted" /\ batch'[b].live = 0
        /\ batch'[t].state = "open" /\ batch'[t].live = batch[t].live + Len(moved)
        /\ \A d \in Batch \ {b, t} : batch'[d] = batch[d]
    <2> DEFINE m == batch[t].raw + Len(moved)  n == batch[t].live + Len(moved)
               bt == [batch[t] EXCEPT !.raw = m, !.live = n, !.dated = TRUE]
               bb == [batch[b] EXCEPT !.state = "deleted", !.live = 0]
    <2>1. batch \in [Batch -> BatchRow] /\ batch[t] \in BatchRow /\ batch[b] \in BatchRow
      BY <1>1, <1>2 DEF TypeOK
    <2>2. bt \in BatchRow /\ bt.state = "open" /\ bt.live = n
      <3>1. m \in Nat /\ n \in Nat
        BY <1>2, <2>1 DEF BatchRow
      <3> HIDE DEF m, n
      <3> QED
        BY <1>3, <2>1, <3>1 DEF BatchRow
    <2>3. bb \in BatchRow /\ bb.state = "deleted" /\ bb.live = 0
      BY <2>1 DEF BatchRow
    <2>4. /\ batch'[t] = bt /\ batch'[b] = bb /\ \A d \in Batch \ {b, t} : batch'[d] = batch[d]
          /\ batch' = [d \in Batch |-> batch'[d]]
      <3>1. batch' = [batch EXCEPT ![t] = bt, ![b] = bb]
        BY <1>4 DEF bt, bb
      <3> HIDE DEF bt, bb
      <3>2. batch \in [Batch -> BatchRow] /\ b \in Batch /\ t \in Batch /\ b # t
        BY <1>2, <1>3, <2>1
      <3> HIDE DEF b, t
      <3> QED
        BY <3>1, <3>2
    <2> HIDE DEF bt, bb
    <2>5. \A d \in Batch : batch'[d] \in BatchRow
      BY <2>1, <2>2, <2>3, <2>4
    <2>6. batch' \in [Batch -> BatchRow]
      BY <2>4, <2>5
    <2> QED
      BY <2>2, <2>3, <2>4, <2>6
  <1>6. job' \in CompactJob /\ job'.op = "compact" /\ job'.pc = "delete" /\ job'.b = b
    BY <1>1, <1>4 DEF CompactJob
  <1>7. ASSUME NEW c \in Chunk
        PROVE  \/ /\ c \in ToSet(moved)
                  /\ chunk'[c] = [chunk[c] EXCEPT !.batch = t, !.off = job.at + PosIn(c, moved)]
               \/ c \notin ToSet(moved) /\ Row(c) /\ chunk[c].batch = b /\ chunk'[c] = Gone
               \/ c \notin ToSet(moved) /\ ~ (Row(c) /\ chunk[c].batch = b) /\ chunk'[c] = chunk[c]
    BY DEF CompactTx, CompactMoved
  <1>8. ASSUME NEW c \in ToSet(moved)
        PROVE  /\ Row(c)' /\ chunk'[c] \in ChunkRow
               /\ chunk'[c].batch = t /\ chunk'[c].off = job.at + PosIn(c, moved)
               /\ chunk'[c].refs = chunk[c].refs /\ Row(c) /\ chunk[c].batch = b
    <2>1. c \in Chunk /\ Row(c) /\ chunk[c].batch = b /\ chunk[c] \in ChunkRow
      BY <1>1, <1>2, <1>3, RowShape
    <2>2. PosIn(c, moved) \in Nat
      BY <1>2, Positions
    <2>3. chunk'[c] = [chunk[c] EXCEPT !.batch = t, !.off = job.at + PosIn(c, moved)]
      BY <1>7, <2>1
    <2>4. /\ chunk'[c] \in ChunkRow /\ chunk'[c].batch = t /\ chunk'[c].off = job.at + PosIn(c, moved)
          /\ chunk'[c].refs = chunk[c].refs
      <3> DEFINE n == job.at + PosIn(c, moved)
      <3>1. n \in Nat /\ chunk'[c] = [chunk[c] EXCEPT !.batch = t, !.off = n]
        BY <1>2, <2>2, <2>3
      <3> HIDE DEF n
      <3>2. chunk'[c] \in ChunkRow /\ chunk'[c].batch = t /\ chunk'[c].off = n /\ chunk'[c].refs = chunk[c].refs
        BY <1>2, <2>1, <3>1 DEF ChunkRow
      <3> QED
        BY <3>2 DEF n
    <2> QED
      BY <2>1, <2>4, GoneAssumption DEF Row
  <1>9. ASSUME NEW c \in Chunk, Row(c)', c \notin ToSet(moved)
        PROVE  Row(c) /\ chunk[c] \in ChunkRow /\ chunk'[c] = chunk[c] /\ chunk[c].batch # b
    BY <1>1, <1>7, <1>9, RowShape DEF Row
  <1>10. ASSUME NEW c \in Chunk, Row(c), ~ Row(c)'
         PROVE  chunk[c].refs = 0 /\ chunk[c].batch = b
    <2>1. c \notin ToSet(moved) /\ chunk[c].batch = b /\ chunk[c] \in ChunkRow
      BY <1>1, <1>7, <1>8, <1>10, RowShape DEF Row
    <2> QED
      BY <1>3, <1>10, <2>1 DEF LiveIn, Rows, ChunkRow
  <1>11. /\ read' \in [Reader -> {NotReading} \cup Reading]
         /\ \A r \in Reader : IF read[r].pc # "idle" /\ read[r].b = b
                              THEN read'[r] = [read[r] EXCEPT !.hit = TRUE] ELSE read'[r] = read[r]
    <2>1. \A r \in Reader : read[r].pc # "idle" => [read[r] EXCEPT !.hit = TRUE] \in Reading
      BY <1>1, ReadShape DEF Reading
    <2> QED
      BY <1>1, <2>1 DEF CompactTx, TypeOK
  <1>12. TypeOK'
    <2>1. chunk' \in [Chunk -> ChunkRow \cup {Gone}]
      <3>1. \A c \in Chunk : chunk'[c] \in ChunkRow \cup {Gone}
        BY <1>8, <1>9 DEF Row
      <3>2. chunk' = [c \in Chunk |-> chunk'[c]]
        BY DEF CompactTx
      <3> QED
        BY <3>1, <3>2
    <2> QED
      BY <1>1, <1>4, <1>5, <1>6, <1>11, <2>1 DEF TypeOK
  <1>13. RowsInPlace'
    <2> SUFFICES ASSUME NEW c \in Chunk, Row(c)'  PROVE InPlace(c)'
      BY DEF RowsInPlace
    <2>1. CASE c \in ToSet(moved)
      <3>1. PosIn(c, moved) \in DOMAIN moved /\ moved[PosIn(c, moved)] = c
        BY <1>2, <2>1, Positions
      <3>2. staging[t] # Gone /\ At(staging[t], job.at + PosIn(c, moved)) = c
        BY <1>3, <3>1 DEF Holds
      <3>3. chunk'[c].off = job.at + PosIn(c, moved) /\ chunk'[c].batch = t /\ staging' = staging
        BY <1>4, <1>8, <2>1
      <3>4. At(staging[t], chunk'[c].off) = c /\ c # Gone
        BY <3>2, <3>3, GoneAssumption
      <3>5. chunk'[c].off \in DOMAIN staging'[t] /\ staging'[t][chunk'[c].off] = c /\ staging'[t] # Gone
        BY <3>2, <3>3, <3>4 DEF At
      <3> QED
        BY <1>5, <3>3, <3>5 DEF InPlace, InStaging
    <2>2. CASE c \notin ToSet(moved)
      <3>1. Row(c) /\ chunk'[c] = chunk[c] /\ chunk[c].batch # b /\ chunk[c].batch \in Batch /\ InPlace(c)
        BY <1>9, <2>2 DEF Fits, RowsInPlace, ChunkRow
      <3>2. batch'[chunk[c].batch].state = batch[chunk[c].batch].state
        BY <1>3, <1>5, <3>1
      <3> QED
        BY <1>4, <3>1, <3>2 DEF InPlace, InStaging, At
    <2> QED
      BY <2>1, <2>2
  <1>14. RefsAreExact'
    <2>1. ASSUME NEW c \in Chunk  PROVE Refs(c)' = Refs(c)
      <3>1. CASE Row(c)'
        BY <1>8, <1>9, <3>1 DEF Refs
      <3>2. CASE ~ Row(c)'
        BY <1>10, <3>2 DEF Refs
      <3> QED
        BY <3>1, <3>2
    <2> QED
      BY <1>4, <2>1, PiecesMeaning, PiecesMeaningNext DEF Fits
  <1>15. LiveBytesCoverUse'
    <2> SUFFICES ASSUME NEW d \in Batch  PROVE batch'[d].live >= Cardinality(LiveIn(d)')
      BY DEF LiveBytesCoverUse
    <2>1. batch[d].live >= Cardinality(LiveIn(d)) /\ batch[d].live \in Nat /\ Cardinality(LiveIn(d)) \in Nat
      BY <1>1, LiveFacts DEF Fits, LiveBytesCoverUse, TypeOK, BatchRow
    <2>2. CASE d = b
      <3>1. LiveIn(d)' = {}
        BY <1>3, <1>8, <1>9, <2>2 DEF LiveIn, Rows
      <3> QED
        BY <1>5, <2>2, <3>1, FS_EmptySet
    <2>3. CASE d = t
      <3>1. LiveIn(d)' \subseteq LiveIn(d) \cup ToSet(moved)
        BY <1>8, <1>9 DEF LiveIn, Rows
      <3>2. Cardinality(LiveIn(d)') <= Cardinality(LiveIn(d)) + Cardinality(ToSet(moved))
        BY <1>2, <3>1, LiveFacts, LiveUnion
      <3>3. Cardinality(ToSet(moved)) = Len(moved)
        BY <1>2, <1>3, ListSize
      <3>4. Cardinality(LiveIn(d)') \in Nat
        BY <1>2, <3>1, LiveFacts, LiveLess
      <3> QED
        BY <1>2, <1>5, <2>1, <2>3, <3>2, <3>3, <3>4
    <2>4. CASE d \notin {b, t}
      <3>1. LiveIn(d)' \subseteq LiveIn(d)
        BY <1>8, <1>9, <2>4 DEF LiveIn, Rows
      <3>2. Cardinality(LiveIn(d)') <= Cardinality(LiveIn(d)) /\ Cardinality(LiveIn(d)') \in Nat
        BY <3>1, LiveFacts, LiveLess
      <3> QED
        BY <1>5, <2>1, <2>4, <3>2
    <2> QED
      BY <2>2, <2>3, <2>4
  <1>16. IngestOK' /\ SealOK' /\ CompactOK'
    <2>1. victims' = victims /\ job'.op = "compact" /\ job'.pc = "delete" /\ job'.b = b
      BY <1>4, <1>6
    <2> HIDE DEF b
    <2> QED
      BY <1>3, <1>5, <2>1 DEF IngestOK, SealOK, CompactOK
  <1>17. VictimsAreSealed' /\ DoomedAreSealing'
    <2>1. victims \subseteq Batch /\ doomed \subseteq Batch /\ \A d \in doomed : batch[d].state = "sealing"
      BY <1>1 DEF TypeOK, Fits, DoomedAreSealing
    <2>2. \A d \in victims : d # b /\ d # t /\ batch[d].state = "sealed"
      BY <1>3 DEF Fits, VictimsAreSealed
    <2> QED
      BY <1>3, <1>4, <1>5, <2>1, <2>2 DEF VictimsAreSealed, DoomedAreSealing
  <1>18. ASSUME NEW r \in Reader
         PROVE  ReadOK(r)'
    <2>1. ReadOK(r) /\ r \in Chunk /\ UNCHANGED staging
      BY <1>4, BatchAssumption DEF Fits
    <2>2. CASE read[r].pc # "idle" /\ read[r].b = b
      <3>1. read'[r].hit
        BY <1>1, <1>11, <2>2, ReadShape DEF Reading
      <3> QED
        BY <3>1 DEF ReadOK, Found
    <2>3. CASE ~ (read[r].pc # "idle" /\ read[r].b = b)
      <3>1. read'[r] = read[r]
        BY <1>11, <2>3
      <3>2. CASE read[r].pc \in {"idle", "failed", "keyerror"} \/ read[r].hit
        BY <2>1, <3>1, <3>2 DEF ReadOK, Found
      <3>3. CASE read[r].pc \notin {"idle", "failed", "keyerror"} /\ ~ read[r].hit
        <4>1. read[r].b \in Batch /\ read[r].b # b
          BY <1>1, <2>3, <3>3, ReadShape DEF Reading
        <4>2. Row(r) /\ chunk[r].refs > 0 /\ chunk[r].batch = read[r].b
          BY <2>1, <3>3 DEF ReadOK, Found
        <4>3. chunk'[r] = chunk[r] /\ Row(r)'
          BY <1>8, <1>9, <1>10, <2>1, <4>1, <4>2
        <4>4. batch'[read[r].b].state = batch[read[r].b].state
          BY <1>3, <1>5, <4>1
        <4> QED
          BY <2>1, <3>1, <3>3, <4>2, <4>3, <4>4 DEF ReadOK, Found
      <3> QED
        BY <3>2, <3>3
    <2> QED
      BY <2>2, <2>3
  <1> QED
    BY <1>12, <1>13, <1>14, <1>15, <1>16, <1>17, <1>18 DEF Fits

(***************************************************************************)
(* The transactions of ingest and purge, which change the references.      *)
(***************************************************************************)
LEMMA IngestTxKeeps ==
  ASSUME Fits, IngestTx
  PROVE  Fits'
PROOF
  <1> DEFINE f == job.f  b == job.b  new == ToSet(job.new)  place == [c \in new |-> job.at + PosIn(c, job.new)]
  <1>1. TypeOK /\ job \in IngestJob /\ job.op = "ingest"
    BY JobShape DEF Fits, IngestTx, caches
  <1>2. f \in File /\ b \in Batch /\ job.new \in Seq(Chunk) /\ new \subseteq Chunk /\ job.at \in Nat
    BY <1>1 DEF IngestJob, ToSet
  <1>3. /\ file[f] = "absent" /\ batch[b].state = "open"
        /\ new \subseteq ChunksOf(f) /\ \A c \in ChunksOf(f) : ~ Row(c) => c \in new
        /\ Holds(staging[b], job.at, job.new)
    BY <1>1 DEF Fits, IngestOK, IsListOf
  <1>4. /\ job' = Idle
        /\ UNCHANGED <<staging, object, framed, saved, frames, dicts, victims, doomed, read>>
    BY DEF IngestTx, caches
  <1>5. VictimsAreSealed /\ \A d \in doomed : batch[d].state = "sealing"
    BY <1>1 DEF Fits, DoomedAreSealing
  <1>6. IngestOK' /\ SealOK' /\ CompactOK'
    BY <1>4 DEF Idle, IngestOK, SealOK, CompactOK
  <1>7. CASE new \cap Rows # {}
    <2>1. UNCHANGED <<batch, chunk, file, bloom>>
      BY <1>7 DEF IngestTx, caches
    <2>2. TypeOK'
      BY <1>1, <1>4, <2>1 DEF TypeOK
    <2>3. VictimsAreSealed' /\ DoomedAreSealing'
      BY <1>4, <1>5, <2>1 DEF VictimsAreSealed, DoomedAreSealing
    <2>4. \A r \in Reader : ReadOK(r)'
      BY <1>4, <2>1, ReadStays DEF Fits, tables
    <2> QED
      BY <1>4, <1>6, <2>1, <2>2, <2>3, <2>4, RowsStay, TablesStay DEF Fits, tables
  <1>8. CASE new \cap Rows = {}
    <2>1. /\ file' = [file EXCEPT ![f] = "stored"]
          /\ bloom' = [items |-> bloom.items \cup new, count |-> bloom.count + Cardinality(new)]
          /\ batch' = [d \in Batch |->
               [batch[d] EXCEPT !.live = @ + Cardinality(NewLive(f, d)),
                                !.raw = IF d = b THEN @ + Len(job.new) ELSE @,
                                !.dated = @ \/ (d = b /\ new # {})]]
          /\ chunk' = [c \in Chunk |->
               IF c \in new THEN [batch |-> b, off |-> place[c], refs |-> Occurs(c, f)]
               ELSE IF c \in ChunksOf(f) THEN [chunk[c] EXCEPT !.refs = @ + Occurs(c, f)]
               ELSE chunk[c]]
      BY <1>8 DEF IngestTx, caches
    <2>2. \A d : NewLive(f, d) \in SUBSET Chunk /\ Cardinality(NewLive(f, d)) \in Nat
      <3>1. \A d : NewLive(f, d) \in SUBSET Chunk
        BY <1>2, FileAssumption DEF NewLive, ChunksOf, ToSet
      <3> QED
        BY <3>1, FileAssumption, FS_Subset, FS_CardinalityType
    <2>3. ASSUME NEW d \in Batch
          PROVE  /\ batch'[d] \in BatchRow /\ batch'[d].state = batch[d].state
                 /\ batch'[d].live = batch[d].live + Cardinality(NewLive(f, d))
      <3> DEFINE m == IF d = b THEN batch[d].raw + Len(job.new) ELSE batch[d].raw
                 n == batch[d].live + Cardinality(NewLive(f, d))
                 dt == batch[d].dated \/ (d = b /\ new # {})
      <3>1. batch[d] \in BatchRow /\ m \in Nat /\ n \in Nat
        BY <1>1, <1>2, <2>2 DEF TypeOK, BatchRow
      <3>2. dt \in BOOLEAN
        OBVIOUS
      <3>3. batch'[d] = [batch[d] EXCEPT !.live = n, !.raw = m, !.dated = dt]
        BY <2>1
      <3> HIDE DEF m, n, dt
      <3>4. batch'[d] \in BatchRow /\ batch'[d].state = batch[d].state /\ batch'[d].live = n
        BY <3>1, <3>2, <3>3 DEF BatchRow
      <3> QED
        BY <3>4 DEF n
    <2>4. \A c \in new : PosIn(c, job.new) \in DOMAIN job.new /\ job.new[PosIn(c, job.new)] = c /\ place[c] \in Nat
                         /\ place[c] = job.at + PosIn(c, job.new)
      BY <1>2, Positions
    <2> HIDE DEF place
    \* what becomes of a row
    <2>5. ASSUME NEW c \in Chunk, c \in new
          PROVE  /\ ~ Row(c) /\ Row(c)' /\ chunk'[c] \in ChunkRow
                 /\ chunk'[c].batch = b /\ chunk'[c].off = place[c] /\ chunk'[c].refs = Occurs(c, f)
      <3>1. ~ Row(c)
        BY <1>8, <2>5 DEF Rows
      <3>2. chunk'[c] = [batch |-> b, off |-> place[c], refs |-> Occurs(c, f)]
        BY <2>1, <2>5
      <3>3. chunk'[c] \in ChunkRow
        BY <1>2, <2>4, <2>5, <3>2, OccursFacts DEF ChunkRow
      <3> QED
        BY <3>1, <3>2, <3>3, GoneAssumption DEF Row
    <2>6. ASSUME NEW c \in Chunk, c \notin new, Row(c)
          PROVE  /\ Row(c)' /\ chunk'[c] \in ChunkRow /\ chunk[c] \in ChunkRow
                 /\ chunk'[c].batch = chunk[c].batch /\ chunk'[c].off = chunk[c].off
                 /\ chunk'[c].refs = chunk[c].refs + Occurs(c, f)
      <3>1. chunk[c] \in ChunkRow /\ chunk[c].refs \in Nat
        BY <1>1, <2>6, RowShape DEF ChunkRow
      <3>2. Occurs(c, f) \in Nat /\ (Occurs(c, f) > 0 <=> c \in ChunksOf(f))
        BY <1>2, OccursFacts
      <3>3. CASE c \in ChunksOf(f)
        <4>1. chunk'[c] = [chunk[c] EXCEPT !.refs = @ + Occurs(c, f)]
          BY <2>1, <2>6, <3>3
        <4> DEFINE n == chunk[c].refs + Occurs(c, f)
        <4>2. n \in Nat /\ chunk'[c] = [chunk[c] EXCEPT !.refs = n]
          BY <3>1, <3>2, <4>1
        <4> HIDE DEF n
        <4>3. /\ chunk'[c] \in ChunkRow /\ chunk'[c].refs = n
              /\ chunk'[c].batch = chunk[c].batch /\ chunk'[c].off = chunk[c].off
          BY <3>1, <4>2 DEF ChunkRow
        <4> QED
          BY <3>1, <4>3, GoneAssumption DEF Row, n
      <3>4. CASE c \notin ChunksOf(f)
        <4>1. chunk'[c] = chunk[c]
          BY <2>1, <2>6, <3>4
        <4>2. Occurs(c, f) = 0
          <5> HIDE DEF f
          <5> QED
            BY <3>2, <3>4
        <4> QED
          BY <2>6, <3>1, <4>1, <4>2 DEF Row
      <3> QED
        BY <3>3, <3>4
    <2>7. ASSUME NEW c \in Chunk, c \notin new, ~ Row(c)
          PROVE  ~ Row(c)' /\ chunk'[c] = Gone /\ c \notin ChunksOf(f) /\ Occurs(c, f) = 0
      <3>1. c \notin ChunksOf(f)
        BY <1>3, <2>7
      <3>2. Occurs(c, f) = 0
        BY <1>2, <3>1, OccursFacts
      <3> QED
        BY <2>1, <2>7, <3>1, <3>2 DEF Row
    <2>8. \A c \in Chunk : Refs(c)' = Refs(c) + Occurs(c, f) /\ Refs(c) \in Nat
      <3> TAKE c \in Chunk
      <3>1. Occurs(c, f) \in Nat
        BY <1>2, OccursFacts
      <3>2. CASE c \in new
        BY <2>5, <3>1, <3>2 DEF Refs
      <3>3. CASE c \notin new /\ Row(c)
        BY <2>6, <3>3 DEF Refs, ChunkRow
      <3>4. CASE c \notin new /\ ~ Row(c)
        BY <2>7, <3>4 DEF Refs
      <3> QED
        BY <3>2, <3>3, <3>4
    <2>9. TypeOK'
      <3>1. chunk' \in [Chunk -> ChunkRow \cup {Gone}]
        <4>1. \A c \in Chunk : chunk'[c] \in ChunkRow \cup {Gone}
          BY <2>5, <2>6, <2>7
        <4>2. chunk' = [c \in Chunk |-> chunk'[c]]
          BY <2>1
        <4> QED
          BY <4>1, <4>2
      <3>2. batch' \in [Batch -> BatchRow]
        <4>1. batch' = [d \in Batch |-> batch'[d]]
          BY <2>1
        <4> QED
          BY <2>3, <4>1
      <3>3. bloom' \in Filter
        <4>1. Cardinality(new) \in Nat
          BY <1>2, LiveLess
        <4>2. bloom.items \in SUBSET Chunk /\ bloom.count \in Nat
          BY <1>1 DEF TypeOK, Filter
        <4>3. bloom.items \cup new \in SUBSET Chunk /\ bloom.count + Cardinality(new) \in Nat
          BY <1>2, <4>1, <4>2
        <4> HIDE DEF new
        <4> QED
          BY <2>1, <4>3 DEF Filter
      <3>4. file' \in [File -> {"absent", "stored", "purged"}]
        BY <1>1, <2>1 DEF TypeOK
      <3> QED
        BY <1>1, <1>4, <3>1, <3>2, <3>3, <3>4 DEF TypeOK
    <2>10. RowsInPlace'
      <3> SUFFICES ASSUME NEW c \in Chunk, Row(c)'  PROVE InPlace(c)'
        BY DEF RowsInPlace
      <3>1. CASE c \in new
        <4>1. staging[b] # Gone /\ At(staging[b], place[c]) = c /\ c # Gone
          BY <1>3, <2>4, <3>1, GoneAssumption DEF Holds
        <4>2. /\ chunk'[c].off \in DOMAIN staging'[b] /\ staging'[b][chunk'[c].off] = c /\ staging'[b] # Gone
              /\ chunk'[c].batch = b /\ batch'[b].state = "open"
          BY <1>2, <1>3, <1>4, <2>3, <2>5, <3>1, <4>1 DEF At
        <4> QED
          BY <4>2 DEF InPlace, InStaging
      <3>2. CASE c \notin new
        <4>1. Row(c) /\ InPlace(c) /\ chunk[c].batch \in Batch
              /\ chunk'[c].batch = chunk[c].batch /\ chunk'[c].off = chunk[c].off
          BY <2>6, <2>7, <3>2 DEF Fits, RowsInPlace, ChunkRow
        <4>2. batch'[chunk[c].batch].state = batch[chunk[c].batch].state
          BY <2>3, <4>1
        <4> QED
          BY <1>4, <4>1, <4>2 DEF InPlace, InStaging, At
      <3> QED
        BY <3>1, <3>2
    <2>11. RefsAreExact'
      <3>1. file'[f] = "stored" /\ \A g \in File \ {f} : file[g] = file'[g]
        BY <1>1, <1>2, <2>1 DEF TypeOK
      <3> SUFFICES ASSUME NEW c \in Chunk  PROVE Refs(c)' = Cardinality(PiecesOf(file', c))
        BY PiecesMeaningNext
      <3>2. Cardinality(PiecesOf(file', c)) = Cardinality(PiecesOf(file, c)) + Occurs(c, f)
        BY <1>2, <1>3, <3>1, OneFileMore
      <3>3. Refs(c) = Cardinality(PiecesOf(file, c))
        BY PiecesMeaning DEF Fits
      <3> QED
        BY <2>8, <3>2, <3>3
    <2>12. LiveBytesCoverUse'
      <3> SUFFICES ASSUME NEW d \in Batch  PROVE batch'[d].live >= Cardinality(LiveIn(d)')
        BY DEF LiveBytesCoverUse
      <3>1. LiveIn(d)' \subseteq LiveIn(d) \cup NewLive(f, d)
        <4> SUFFICES ASSUME NEW c \in LiveIn(d)'  PROVE c \in LiveIn(d) \/ c \in NewLive(f, d)
          OBVIOUS
        <4>1. c \in Chunk /\ Row(c)' /\ chunk'[c].batch = d /\ chunk'[c].refs > 0
          BY DEF LiveIn, Rows
        <4>2. CASE c \in new
          BY <1>3, <2>5, <4>1, <4>2 DEF NewLive, Refs
        <4>3. CASE c \notin new
          <5>1. Row(c) /\ chunk[c].batch = d /\ chunk[c].refs \in Nat /\ Refs(c) = chunk[c].refs
                /\ chunk'[c].refs = chunk[c].refs + Occurs(c, f)
            BY <2>6, <2>7, <4>1, <4>3 DEF Refs, ChunkRow
          <5>2. chunk[c].refs = 0 => c \in ChunksOf(f)
            BY <1>2, <4>1, <5>1, OccursFacts
          <5> QED
            BY <4>1, <5>1, <5>2 DEF LiveIn, Rows, NewLive
        <4> QED
          BY <4>2, <4>3
      <3>2. Cardinality(LiveIn(d)') <= Cardinality(LiveIn(d)) + Cardinality(NewLive(f, d))
        BY <2>2, <3>1, LiveFacts, LiveUnion
      <3>3. Cardinality(LiveIn(d)') \in Nat
        BY <2>2, <3>1, LiveFacts, LiveLess
      <3>4. batch[d].live >= Cardinality(LiveIn(d)) /\ batch[d].live \in Nat /\ Cardinality(LiveIn(d)) \in Nat
        BY <1>1, LiveFacts DEF Fits, LiveBytesCoverUse, TypeOK, BatchRow
      <3> QED
        BY <2>2, <2>3, <3>2, <3>3, <3>4
    <2>13. VictimsAreSealed' /\ DoomedAreSealing'
      <3>1. victims \subseteq Batch /\ doomed \subseteq Batch
        BY <1>1 DEF TypeOK
      <3> QED
        BY <1>4, <1>5, <2>3, <3>1 DEF VictimsAreSealed, DoomedAreSealing
    <2>14. ASSUME NEW r \in Reader
           PROVE  ReadOK(r)'
      <3>1. ReadOK(r) /\ read'[r] = read[r] /\ UNCHANGED staging /\ r \in Chunk
        BY <1>4, BatchAssumption DEF Fits
      <3>2. CASE read[r].pc \in {"idle", "failed", "keyerror"} \/ read[r].hit
        BY <3>1, <3>2 DEF ReadOK, Found
      <3>3. CASE read[r].pc \notin {"idle", "failed", "keyerror"} /\ ~ read[r].hit
        <4>1. read[r].b \in Batch
          BY <1>1, <3>3, ReadShape DEF Reading
        <4>2. Row(r) /\ chunk[r].refs > 0 /\ chunk[r].batch = read[r].b
          BY <3>1, <3>3 DEF ReadOK, Found
        <4>3. r \notin new
          BY <2>5, <3>1, <4>2
        <4>4. Row(r)' /\ chunk'[r].batch = read[r].b /\ chunk'[r].off = chunk[r].off
              /\ chunk'[r].refs = chunk[r].refs + Occurs(r, f) /\ chunk[r].refs \in Nat /\ Occurs(r, f) \in Nat
          BY <1>2, <2>6, <3>1, <4>2, <4>3, OccursFacts DEF ChunkRow
        <4>5. chunk'[r].refs > 0
          BY <4>2, <4>4
        <4>6. batch'[read[r].b].state = batch[read[r].b].state
          BY <2>3, <4>1
        <4> QED
          BY <3>1, <3>3, <4>2, <4>4, <4>5, <4>6 DEF ReadOK, Found
      <3> QED
        BY <3>2, <3>3
    <2> QED
      BY <1>6, <2>9, <2>10, <2>11, <2>12, <2>13, <2>14 DEF Fits
  <1> QED
    BY <1>7, <1>8

LEMMA ReleaseKeeps ==
  ASSUME Fits, NEW f \in File, Release(f)
  PROVE  Fits'
PROOF
  <1> DEFINE G(d) == {c \in ChunksOf(f) : Row(c) /\ chunk[c].batch = d /\ chunk'[c].refs = 0}
  <1>1. TypeOK
    BY DEF Fits
  <1>2. /\ file[f] = "stored" /\ file' = [file EXCEPT ![f] = "purged"]
        /\ chunk' = [c \in Chunk |-> IF c \in ChunksOf(f) /\ Row(c)
                                     THEN [chunk[c] EXCEPT !.refs = @ - Occurs(c, f)] ELSE chunk[c]]
        /\ batch' = [d \in Batch |-> [batch[d] EXCEPT !.live = @ - Cardinality(G(d))]]
        /\ UNCHANGED <<framed, staging, object, saved, bloom, frames, dicts, victims, doomed, job>>
    BY DEF Release, Released, mem, caches
  <1>3. ASSUME NEW c \in Chunk
        PROVE  /\ Refs(c) = Cardinality(PiecesOf(file', c)) + Occurs(c, f)
               /\ Cardinality(PiecesOf(file', c)) \in Nat /\ Occurs(c, f) \in Nat
               /\ Occurs(c, f) > 0 <=> c \in ChunksOf(f)
    <2>1. file'[f] # "stored" /\ \A g \in File \ {f} : file'[g] = file[g]
      BY <1>1, <1>2 DEF TypeOK
    <2>2. Refs(c) = Cardinality(PiecesOf(file, c))
      BY PiecesMeaning DEF Fits
    <2>3. /\ Cardinality(PiecesOf(file, c)) = Cardinality(PiecesOf(file', c)) + Occurs(c, f)
          /\ Cardinality(PiecesOf(file', c)) \in Nat
      <3>1. file[f] = "stored"
        BY <1>2
      <3> QED
        BY <2>1, <3>1, OneFileMore, PiecesCount
    <2> QED
      BY <2>2, <2>3, OccursFacts
  \* what becomes of a row
  <1>4. ASSUME NEW c \in Chunk, Row(c)
        PROVE  /\ Row(c)' /\ chunk'[c] \in ChunkRow /\ chunk[c] \in ChunkRow
               /\ chunk'[c].batch = chunk[c].batch /\ chunk'[c].off = chunk[c].off
               /\ chunk'[c].refs = Cardinality(PiecesOf(file', c))
               /\ chunk[c].refs = chunk'[c].refs + Occurs(c, f)
    <2> DEFINE n == chunk[c].refs - Occurs(c, f)
    <2>1. chunk[c] \in ChunkRow /\ chunk[c].refs = Refs(c) /\ chunk[c].refs \in Nat
      BY <1>1, <1>4, RowShape DEF Refs, ChunkRow
    <2>2. n = Cardinality(PiecesOf(file', c)) /\ n \in Nat
      BY <1>3, <2>1
    <2>3. c \notin ChunksOf(f) => n = chunk[c].refs
      BY <1>3, <2>1
    <2>4. chunk[c].refs = n + Occurs(c, f)
      BY <1>3, <2>1
    <2>5. CASE c \in ChunksOf(f)
      <3>1. chunk'[c] = [chunk[c] EXCEPT !.refs = n]
        BY <1>2, <1>4, <2>5
      <3> HIDE DEF n
      <3>2. /\ chunk'[c] \in ChunkRow /\ chunk'[c].refs = n
            /\ chunk'[c].batch = chunk[c].batch /\ chunk'[c].off = chunk[c].off
        BY <2>1, <2>2, <3>1 DEF ChunkRow
      <3> QED
        BY <2>1, <2>2, <2>4, <3>2, GoneAssumption DEF Row
    <2>6. CASE c \notin ChunksOf(f)
      <3>1. chunk'[c] = chunk[c]
        BY <1>2, <2>6
      <3> QED
        BY <1>4, <2>1, <2>2, <2>3, <2>4, <2>6, <3>1 DEF Row
    <2> QED
      BY <2>5, <2>6
  <1>5. ASSUME NEW c \in Chunk, ~ Row(c)
        PROVE  ~ Row(c)' /\ chunk'[c] = Gone /\ Cardinality(PiecesOf(file', c)) = 0
    <2>1. Refs(c) = 0
      BY <1>5 DEF Refs
    <2>2. Cardinality(PiecesOf(file', c)) = 0
      BY <1>3, <2>1
    <2> QED
      BY <1>2, <1>5, <2>2 DEF Row
  <1>6. ASSUME NEW d \in Batch
        PROVE  /\ G(d) \subseteq LiveIn(d) /\ LiveIn(d)' = LiveIn(d) \ G(d)
               /\ Cardinality(LiveIn(d)') = Cardinality(LiveIn(d)) - Cardinality(G(d))
               /\ Cardinality(G(d)) <= Cardinality(LiveIn(d)) /\ Cardinality(G(d)) \in Nat
    <2>1. G(d) \subseteq LiveIn(d)
      <3> SUFFICES ASSUME NEW c \in G(d)  PROVE c \in LiveIn(d)
        OBVIOUS
      <3>1. c \in Chunk /\ Row(c) /\ chunk[c].batch = d /\ chunk'[c].refs = 0 /\ c \in ChunksOf(f)
        BY FileAssumption DEF ChunksOf, ToSet
      <3>2. chunk[c].refs > 0
        BY <1>3, <1>4, <3>1
      <3> QED
        BY <3>1, <3>2 DEF LiveIn, Rows
    <2>2. LiveIn(d)' = LiveIn(d) \ G(d)
      <3>1. ASSUME NEW c \in Chunk
            PROVE  c \in LiveIn(d)' <=> c \in LiveIn(d) /\ c \notin G(d)
        <4>1. CASE Row(c)
          <5>1. Row(c)' /\ chunk'[c].batch = chunk[c].batch /\ chunk'[c].refs \in Nat /\ chunk[c].refs \in Nat
                /\ chunk[c].refs = chunk'[c].refs + Occurs(c, f) /\ Occurs(c, f) \in Nat
            BY <1>3, <1>4, <4>1 DEF ChunkRow
          <5>2. c \notin ChunksOf(f) => chunk'[c].refs = chunk[c].refs
            BY <1>3, <5>1
          <5>3. chunk'[c].refs > 0 => chunk[c].refs > 0
            BY <5>1
          <5>4. chunk'[c].refs > 0 <=> chunk'[c].refs # 0
            BY <5>1
          <5> QED
            BY <4>1, <5>1, <5>2, <5>3, <5>4 DEF LiveIn, Rows
        <4>2. CASE ~ Row(c)
          BY <1>5, <4>2 DEF LiveIn, Rows
        <4> QED
          BY <4>1, <4>2
      <3>2. LiveIn(d)' \subseteq Chunk /\ LiveIn(d) \subseteq Chunk
        BY DEF LiveIn, Rows
      <3> QED
        BY <3>1, <3>2
    <2>3. IsFiniteSet(LiveIn(d)) /\ Cardinality(LiveIn(d)) \in Nat
      BY LiveFacts
    <2> HIDE DEF G
    <2>4. LiveIn(d) \cap G(d) = G(d)
      BY <2>1
    <2> QED
      BY <2>1, <2>2, <2>3, <2>4, FS_Difference, FS_Subset, FS_CardinalityType
  <1>7. ASSUME NEW d \in Batch
        PROVE  /\ batch'[d] \in BatchRow /\ batch'[d].state = batch[d].state
               /\ batch'[d].live >= Cardinality(LiveIn(d)')
    <2> DEFINE n == batch[d].live - Cardinality(G(d))
    <2>1. batch[d] \in BatchRow /\ batch[d].live \in Nat /\ batch[d].live >= Cardinality(LiveIn(d))
      BY <1>1 DEF TypeOK, BatchRow, Fits, LiveBytesCoverUse
    <2>2. Cardinality(LiveIn(d)) \in Nat /\ Cardinality(G(d)) \in Nat
      BY <1>6, LiveFacts
    <2> HIDE DEF G
    <2>3. n \in Nat /\ n >= Cardinality(LiveIn(d)')
      BY <1>6, <2>1, <2>2
    <2>4. batch'[d] = [batch[d] EXCEPT !.live = n]
      BY <1>2
    <2> HIDE DEF n
    <2> QED
      BY <2>1, <2>3, <2>4 DEF BatchRow
  <1>8. /\ read' \in [Reader -> {NotReading} \cup Reading]
        /\ \A r \in Reader : IF read[r].pc # "idle" /\ Row(r) /\ chunk'[r].refs = 0
                             THEN read'[r] = [read[r] EXCEPT !.hit = TRUE] ELSE read'[r] = read[r]
    <2>1. \A r \in Reader : read[r].pc # "idle" => [read[r] EXCEPT !.hit = TRUE] \in Reading
      BY <1>1, ReadShape DEF Reading
    <2>2. read' = [r \in Reader |-> IF read[r].pc # "idle" /\ Row(r) /\ chunk'[r].refs = 0
                                    THEN [read[r] EXCEPT !.hit = TRUE] ELSE read[r]]
      BY DEF Release
    <2> QED
      BY <1>1, <2>1, <2>2 DEF TypeOK
  <1>9. TypeOK'
    <2>1. chunk' \in [Chunk -> ChunkRow \cup {Gone}]
      <3>1. \A c \in Chunk : chunk'[c] \in ChunkRow \cup {Gone}
        BY <1>4, <1>5
      <3>2. chunk' = [c \in Chunk |-> chunk'[c]]
        BY <1>2
      <3> QED
        BY <3>1, <3>2
    <2>2. batch' \in [Batch -> BatchRow]
      <3>1. batch' = [d \in Batch |-> batch'[d]]
        BY <1>2
      <3> QED
        BY <1>7, <3>1
    <2>3. file' \in [File -> {"absent", "stored", "purged"}]
      BY <1>1, <1>2 DEF TypeOK
    <2> QED
      BY <1>1, <1>2, <1>8, <2>1, <2>2, <2>3 DEF TypeOK
  <1>10. RowsInPlace'
    <2> SUFFICES ASSUME NEW c \in Chunk, Row(c)'  PROVE InPlace(c)'
      BY DEF RowsInPlace
    <2>1. Row(c) /\ InPlace(c) /\ chunk[c].batch \in Batch
          /\ chunk'[c].batch = chunk[c].batch /\ chunk'[c].off = chunk[c].off
      BY <1>4, <1>5 DEF Fits, RowsInPlace, ChunkRow
    <2>2. batch'[chunk[c].batch].state = batch[chunk[c].batch].state
      BY <1>7, <2>1
    <2>3. UNCHANGED <<framed, staging, object>>
      BY <1>2
    <2> QED
      BY <2>1, <2>2, <2>3 DEF InPlace, InStaging, At
  <1>11. RefsAreExact'
    <2>1. \A c \in Chunk : Refs(c)' = Cardinality(PiecesOf(file', c))
      BY <1>4, <1>5 DEF Refs
    <2> QED
      BY <2>1, PiecesMeaningNext
  <1>12. LiveBytesCoverUse'
    BY <1>7 DEF LiveBytesCoverUse
  <1>13. IngestOK'
    <2> SUFFICES ASSUME job.op = "ingest"  PROVE IngestOK'
      BY <1>2 DEF IngestOK
    <2>1. job \in IngestJob /\ job.b \in Batch /\ job.f \in File
      BY <1>1, JobShape DEF IngestJob
    <2>2. file[job.f] = "absent" /\ file'[job.f] = "absent"
      BY <1>1, <1>2, <2>1 DEF Fits, IngestOK, TypeOK
    <2>3. \A c \in Chunk : Row(c)' <=> Row(c)
      BY <1>4, <1>5
    <2>4. \A c \in ChunksOf(job.f) : c \in Chunk
      BY <2>1, FileAssumption DEF ChunksOf, ToSet
    <2>5. IsListOf(job.new, {c \in ChunksOf(job.f) : ~ Row(c)}) /\ ToSet(job.new) \subseteq ChunksOf(job.f)
          /\ batch[job.b].state = "open" /\ Holds(staging[job.b], job.at, job.new)
      BY DEF Fits, IngestOK
    <2>6. IsListOf(job.new, {c \in ChunksOf(job.f) : ~ Row(c)'})
      BY <2>3, <2>4, <2>5 DEF IsListOf
    <2>7. batch'[job.b].state = "open"
      BY <1>7, <2>1, <2>5
    <2> QED
      BY <1>2, <2>2, <2>5, <2>6, <2>7 DEF IngestOK
  <1>14. \A d \in Batch : LiveIn(d)' \subseteq LiveIn(d)
    BY <1>6
  <1>15. \A c \in Chunk : Row(c) => Row(c)' /\ chunk'[c].batch = chunk[c].batch
    BY <1>4
  <1>16. SealOK'
    <2> SUFFICES ASSUME job.op = "seal"  PROVE SealOK'
      BY <1>2 DEF SealOK
    <2>1. job.b \in Batch /\ ToSet(job.order) \subseteq Chunk
      BY <1>1, JobShape DEF SealJob, ToSet
    <2>2. batch'[job.b].state = batch[job.b].state /\ LiveIn(job.b)' \subseteq LiveIn(job.b)
      <3>1. \A d \in Batch : d = job.b => LiveIn(d)' \subseteq LiveIn(job.b)
        BY <1>14
      <3>2. job' = job
        BY <1>2
      <3>3. LiveIn(job.b)' \subseteq LiveIn(job.b)
        BY <2>1, <3>1, <3>2 DEF LiveIn, Rows
      <3> QED
        BY <1>7, <2>1, <3>3
    <2>3. job.pc \notin {"unlink", "forget"} => IsListOf(job.order, LiveIn(job.b)')
      BY <2>2 DEF Fits, SealOK, IsListOf
    <2> QED
      BY <1>2, <1>15, <2>1, <2>2, <2>3 DEF Fits, SealOK
  <1>17. CompactOK'
    <2> SUFFICES ASSUME job.op = "compact"  PROVE CompactOK'
      BY <1>2 DEF CompactOK
    <2>1. job.b \in Batch /\ job.t \in Batch /\ ToSet(job.moved) \subseteq Chunk
      BY <1>1, JobShape DEF CompactJob, ToSet
    <2>2. batch'[job.b].state = batch[job.b].state /\ batch'[job.t].state = batch[job.t].state
          /\ LiveIn(job.b)' \subseteq LiveIn(job.b)
      <3>1. \A d \in Batch : d = job.b => LiveIn(d)' \subseteq LiveIn(job.b)
        BY <1>14
      <3>2. job' = job
        BY <1>2
      <3>3. LiveIn(job.b)' \subseteq LiveIn(job.b)
        BY <2>1, <3>1, <3>2 DEF LiveIn, Rows
      <3> QED
        BY <1>7, <2>1, <3>3
    <2>3. job.pc # "delete" => IsListOf(job.moved, LiveIn(job.b)')
      BY <2>2 DEF Fits, CompactOK, IsListOf
    <2> QED
      BY <1>2, <1>15, <2>1, <2>2, <2>3 DEF Fits, CompactOK
  <1>18. VictimsAreSealed' /\ DoomedAreSealing'
    <2>1. victims \subseteq Batch /\ doomed \subseteq Batch
      BY <1>1 DEF TypeOK
    <2> QED
      BY <1>2, <1>7, <2>1 DEF Fits, VictimsAreSealed, DoomedAreSealing
  <1>19. ASSUME NEW r \in Reader
         PROVE  ReadOK(r)'
    <2>1. ReadOK(r) /\ UNCHANGED staging /\ r \in Chunk
      BY <1>2, BatchAssumption DEF Fits
    <2>2. CASE read[r].pc # "idle" /\ Row(r) /\ chunk'[r].refs = 0
      <3>1. read'[r].hit
        BY <1>1, <1>8, <2>2, ReadShape DEF Reading
      <3> QED
        BY <3>1 DEF ReadOK, Found
    <2>3. CASE ~ (read[r].pc # "idle" /\ Row(r) /\ chunk'[r].refs = 0)
      <3>1. read'[r] = read[r]
        BY <1>8, <2>3
      <3>2. CASE read[r].pc \in {"idle", "failed", "keyerror"} \/ read[r].hit
        BY <2>1, <3>1, <3>2 DEF ReadOK, Found
      <3>3. CASE read[r].pc \notin {"idle", "failed", "keyerror"} /\ ~ read[r].hit
        <4>1. read[r].b \in Batch
          BY <1>1, <3>3, ReadShape DEF Reading
        <4>2. Row(r) /\ chunk[r].batch = read[r].b
          BY <2>1, <3>3 DEF ReadOK, Found
        <4>3. Row(r)' /\ chunk'[r].batch = read[r].b /\ chunk'[r].off = chunk[r].off /\ chunk'[r].refs \in Nat
          BY <1>4, <2>1, <4>2 DEF ChunkRow
        <4>4. chunk'[r].refs > 0
          BY <2>3, <3>3, <4>2, <4>3
        <4>5. batch'[read[r].b].state = batch[read[r].b].state
          BY <1>7, <4>1
        <4> QED
          BY <2>1, <3>1, <3>3, <4>3, <4>4, <4>5 DEF ReadOK, Found
      <3> QED
        BY <3>2, <3>3
    <2> QED
      BY <2>2, <2>3
  <1> QED
    BY <1>9, <1>10, <1>11, <1>12, <1>13, <1>16, <1>17, <1>18, <1>19 DEF Fits

(***************************************************************************)
(* The theorems.                                                           *)
(***************************************************************************)
LEMMA InitFits == Init => Fits
PROOF
  <1> SUFFICES ASSUME Init  PROVE Fits
    OBVIOUS
  <1>1. \A c \in Chunk : ~ Row(c) /\ Refs(c) = 0
    BY DEF Init, Row, Refs
  <1>2. RowsInPlace /\ \A b \in Batch : LiveIn(b) = {}
    BY <1>1 DEF RowsInPlace, LiveIn, Rows
  <1>3. RefsAreExact
    <2>1. \A c \in Chunk : PiecesOf(file, c) = {}
      <3> SUFFICES ASSUME NEW c \in Chunk, NEW p \in AllPieces  PROVE file[p[1]] # "stored"
        BY DEF PiecesOf
      <3>1. PICK h \in File : p \in {h} \X DOMAIN Body[h]
        BY DEF AllPieces
      <3> QED
        BY <3>1 DEF Init
    <2> QED
      BY <1>1, <2>1, FS_EmptySet, PiecesMeaning
  <1>4. LiveBytesCoverUse
    <2>1. \A b \in Batch : batch[b].live = 0
      BY DEF Init, NoBatch
    <2>2. \A b \in Batch : Cardinality(LiveIn(b)) = 0
      BY <1>2, FS_EmptySet
    <2> QED
      BY <2>1, <2>2 DEF LiveBytesCoverUse
  <1>5. IngestOK /\ SealOK /\ CompactOK /\ VictimsAreSealed /\ DoomedAreSealing
    BY DEF Init, Idle, IngestOK, SealOK, CompactOK, VictimsAreSealed, DoomedAreSealing
  <1>6. \A r \in Reader : ReadOK(r)
    BY DEF Init, ReadOK, Found, NotReading
  <1> QED
    BY <1>2, <1>3, <1>4, <1>5, <1>6, InitTypes DEF Fits

LEMMA InitInvariant == Init => IInv
PROOF
  <1>1. Init => CachesOK
    BY DEF Init, CachesOK, FramesOK, DataOK, InSealed, NotReading
  <1> QED
    BY <1>1, InitFits DEF IInv

LEMMA StepFits ==
  ASSUME Fits, CachesOK, [Next]_vars
  PROVE  Fits'
PROOF
  <1>1. CASE UNCHANGED vars
    <2>1. UNCHANGED <<tables, staging, object, job, victims, doomed, read>> /\ TypeOK'
      BY <1>1 DEF vars, mem, caches, bounds, Fits, TypeOK, tables
    <2>2. \A r \in Reader : ReadOK(r)'
      BY <2>1, ReadStays DEF Fits
    <2> QED
      BY <2>1, <2>2, RowsStay, TablesStay, HolderStays DEF Fits
  <1>2. CASE \E f \in File, b \in Batch : IngestAppend(f, b)
    BY <1>2, IngestAppendKeeps
  <1>3. CASE IngestTx
    BY <1>3, IngestTxKeeps
  <1>4. CASE SealNext
    BY <1>4, SealListKeeps, SealPutKeeps, SealTxKeeps, SealUnlinkKeeps, SealDoneKeeps DEF SealNext
  <1>5. CASE SealFails \/ SaveBloom \/ Crash
    BY <1>5, SealFailsKeeps, SaveBloomKeeps, CrashKeeps
  <1>6. CASE CompactNext
    BY <1>6, CompactListKeeps, CompactCopyKeeps, CompactTxKeeps, CompactDeleteKeeps DEF CompactNext
  <1>7. CASE \E v, t \in Batch : CompactFails(v, t)
    BY <1>7, CompactFailsKeeps
  <1>8. CASE \E f \in File : Release(f)
    BY <1>8, ReleaseKeeps
  <1>9. CASE \E r \in Reader : ReadNext(r)
    BY <1>9, ReadKeeps
  <1> QED
    BY <1>1, <1>2, <1>3, <1>4, <1>5, <1>6, <1>7, <1>8, <1>9 DEF Next

(***************************************************************************)
(* The caches: whatever they hold of a sealed batch is its object.         *)
(***************************************************************************)
(* A batch that is sealed stays so or is deleted, and keeps its object     *)
(* while it is sealed. *)
LEMMA SealedStays ==
  ASSUME Fits, [Next]_vars, NEW b \in Batch, batch[b].state \in {"sealed", "deleted"}
  PROVE  /\ batch'[b].state \in {"sealed", "deleted"}
         /\ batch'[b].state = "sealed" => batch[b].state = "sealed" /\ object'[b] = object[b]
PROOF
  <1>1. TypeOK /\ batch[b] \in BatchRow
    BY DEF Fits, TypeOK
  <1>2. ASSUME NEW o \in Batch, OpenBatch(o)
        PROVE  o # b
    BY <1>2 DEF OpenBatch, OpenIds
  <1>3. CASE UNCHANGED <<batch, object>>
    BY <1>3
  <1>4. CASE \E f \in File, o \in Batch : IngestAppend(f, o)
    BY <1>1, <1>2, <1>4 DEF IngestAppend, Opened, TypeOK
  <1>5. CASE IngestTx
    <2>1. object' = object
      BY <1>5 DEF IngestTx
    <2>2. CASE batch' = batch
      BY <2>1, <2>2
    <2>3. CASE batch' = [d \in Batch |->
             [batch[d] EXCEPT !.live = @ + Cardinality(NewLive(job.f, d)),
                              !.raw = IF d = job.b THEN @ + Len(job.new) ELSE @,
                              !.dated = @ \/ (d = job.b /\ ToSet(job.new) # {})]]
      <3>1. batch'[b].state = batch[b].state
        BY <1>1, <2>3 DEF BatchRow
      <3> QED
        BY <2>1, <3>1
    <2> QED
      BY <1>5, <2>2, <2>3 DEF IngestTx
  <1>6. CASE SealNext \/ SealFails
    <2>1. CASE \E o \in Batch : \E order \in SetToSeqs(LiveIn(o)) : SealList(o, order)
      <3>1. PICK o \in Batch : \E order \in SetToSeqs(LiveIn(o)) : SealList(o, order)
        BY <2>1
      <3>2. batch[o].state \in {"open", "sealing"}
        BY <3>1 DEF SealList, Due, Fits, DoomedAreSealing, Idle
      <3> QED
        BY <1>1, <3>1, <3>2 DEF SealList, TypeOK
    <2>2. CASE SealPut \/ SealTx \/ SealFails
      <3>1. job.op = "seal" /\ job.pc \in {"put", "tx"} /\ job.b \in Batch
        BY <1>1, <2>2, JobShape DEF SealPut, SealTx, SealFails, SealJob
      <3>2. batch[job.b].state = "sealing"
        BY <3>1 DEF Fits, SealOK
      <3> QED
        BY <1>1, <2>2, <3>1, <3>2 DEF SealPut, SealTx, SealFails, tables, TypeOK
    <2>3. CASE SealUnlink \/ SealDone
      BY <2>3 DEF SealUnlink, SealDone, tables
    <2> QED
      BY <1>6, <2>1, <2>2, <2>3 DEF SealNext
  <1>7. CASE \E v, t \in Batch : CompactCopy(v, t) \/ CompactFails(v, t)
    BY <1>1, <1>2, <1>7 DEF CompactCopy, CompactFails, Opened, TypeOK
  <1>8. CASE CompactTx
    <2>1. job \in CompactJob /\ job.b \in Batch /\ job.t \in Batch /\ batch[job.t].state = "open"
      BY <1>1, <1>8, JobShape DEF CompactTx, CompactJob, Fits, CompactOK
    <2>2. b # job.t /\ object' = object /\ (b # job.b => batch'[b] = batch[b])
      BY <1>1, <1>8, <2>1 DEF CompactTx, TypeOK
    <2>3. b = job.b => batch'[b].state = "deleted"
      BY <1>1, <1>8, <2>1, <2>2 DEF CompactTx, TypeOK, BatchRow
    <2> QED
      BY <2>2, <2>3
  <1>9. CASE CompactDelete
    <2>1. job \in CompactJob /\ job.b \in Batch /\ batch[job.b].state = "deleted"
      BY <1>1, <1>9, JobShape DEF CompactDelete, CompactJob, Fits, CompactOK
    <2> QED
      BY <1>1, <1>9, <2>1 DEF CompactDelete, tables, TypeOK
  <1>10. CASE CompactList \/ SaveBloom \/ Crash
    BY <1>3, <1>10 DEF CompactList, SaveBloom, Crash, tables
  <1>11. CASE \E f \in File : Release(f)
    <2>1. PICK f \in File : Release(f)
      BY <1>11
    <2>2. \E n : batch'[b] = [batch[b] EXCEPT !.live = n]
      BY <2>1 DEF Release
    <2>3. batch'[b].state = batch[b].state /\ object' = object
      BY <1>1, <2>1, <2>2 DEF Release, BatchRow
    <2> QED
      BY <2>3
  <1>12. CASE \E r \in Reader : ReadNext(r)
    BY <1>3, <1>12 DEF ReadNext, ReadSealed, ReadStart, ReadStaging, ReadFrame, ReadGet, ReadObject, ReadTest,
                ReadIndex, ReadLoad, ReadKeep, ReadTouch, ReadEnds, tables
  <1> QED
    BY <1>3, <1>4, <1>5, <1>6, <1>7, <1>8, <1>9, <1>10, <1>11, <1>12 DEF Next, CompactNext, vars, tables

LEMMA FrameStays ==
  ASSUME Fits, [Next]_vars, NEW b \in Batch, NEW s, IsFrameOf(s, b)
  PROVE  IsFrameOf(s, b)'
  BY SealedStays DEF IsFrameOf

(* Two steps read the object: of a batch that is sealed, or was.           *)
LEMMA FramesKeep ==
  ASSUME Fits, CachesOK, [Next]_vars
  PROVE  FramesOK'
PROOF
  <1> DEFINE Kept(b) == frames'[b] # Gone => IsFrameOf(frames'[b], b)
  <1> SUFFICES ASSUME NEW b \in Batch
               PROVE  Kept(b)
    <2>1. ASSUME \A b \in Batch : Kept(b), NEW b \in Batch, frames'[b] # Gone
          PROVE  IsFrameOf(frames[b], b)'
      BY <2>1, SealedStays DEF IsFrameOf
    <2> QED
      BY <2>1 DEF FramesOK
  <1>1. TypeOK
    BY DEF Fits
  <1>2. ASSUME frames'[b] = frames[b]
        PROVE  Kept(b)
    BY <1>2 DEF CachesOK, FramesOK
  <1>3. ASSUME NEW v \in Batch, v \in victims, CopyReads(v)
        PROVE  Kept(b)
    <2>1. batch[v].state = "sealed"
      BY <1>3 DEF Fits, VictimsAreSealed
    <2>2. Content(v) \in Seq(Chunk) \cup {Gone} /\ IsFrameOf(Content(v), v)
      BY <1>1, <2>1 DEF TypeOK, Content, CachesOK, FramesOK, IsFrameOf
    <2>3. frames'[b] # Gone => frames'[b] = IF b = v THEN Content(v) ELSE frames[b]
      BY <1>1, <1>3, <2>2, WithFrameType DEF CopyReads
    <2> QED
      BY <2>2, <2>3 DEF CachesOK, FramesOK
  <1>4. ASSUME NEW r \in Reader, ReadKeep(r)
        PROVE  Kept(b)
    <2>1. read[r].pc = "keep" /\ read[r] \in Reading
      BY <1>1, <1>4, ReadShape DEF ReadKeep
    <2>2. read[r].data \in Seq(Chunk) \cup {Gone} /\ read[r].b \in Batch /\ IsFrameOf(read[r].data, read[r].b)
      BY <2>1 DEF Reading, CachesOK, DataOK
    <2>3. frames'[b] # Gone => frames'[b] = IF b = read[r].b THEN read[r].data ELSE frames[b]
      BY <1>1, <1>4, <2>2, WithFrameType DEF ReadKeep
    <2> QED
      BY <2>2, <2>3 DEF CachesOK, FramesOK
  <1>5. CASE CompactDelete \/ Crash
    BY <1>1, <1>2, <1>5 DEF CompactDelete, Crash, caches, TypeOK
  <1>6. CASE \E v, t \in Batch : CompactCopy(v, t) \/ CompactFails(v, t)
    BY <1>2, <1>3, <1>6 DEF CompactCopy, CompactFails, caches
  <1>7. CASE UNCHANGED frames
    BY <1>2, <1>7
  <1>8. CASE \E r \in Reader : ReadNext(r) /\ ~ ReadKeep(r)
    BY <1>7, <1>8 DEF ReadNext, ReadSealed, ReadStart, ReadStaging, ReadFrame, ReadGet, ReadObject, ReadTest,
                ReadIndex, ReadLoad, ReadTouch, ReadEnds, mem, caches
  <1>9. CASE (\E f \in File, o \in Batch : IngestAppend(f, o)) \/ IngestTx \/ SealFails \/ SaveBloom \/ CompactList
             \/ CompactTx \/ \E f \in File : Release(f)
    BY <1>7, <1>9 DEF IngestAppend, IngestTx, SealFails, SaveBloom, CompactList, CompactTx, Release, mem, caches
  <1>10. CASE SealNext
    BY <1>7, <1>10 DEF SealNext, SealList, SealPut, SealTx, SealUnlink, SealDone, mem, caches
  <1>11. CASE UNCHANGED vars
    BY <1>7, <1>11 DEF vars, mem, caches
  <1> QED
    BY <1>4, <1>5, <1>6, <1>8, <1>9, <1>10, <1>11 DEF Next, CompactNext

LEMMA DataStays ==
  ASSUME Fits, [Next]_vars, NEW r \in Reader, DataOK(r),
         \/ read'[r] = read[r]
         \/ read'[r] = NotReading
         \/ read[r] \in Reading /\ read'[r] = [read[r] EXCEPT !.hit = TRUE]
  PROVE  DataOK(r)'
PROOF
  <1>1. read'[r].pc \in InSealed =>
          /\ read[r] \in Reading /\ read'[r].pc = read[r].pc /\ read'[r].b = read[r].b
          /\ read'[r].data = read[r].data
    BY ReadShape DEF Fits, InSealed, NotReading, Reading
  <1>2. read[r] \in Reading => read[r].b \in Batch
    BY DEF Reading
  <1> QED
    BY <1>1, <1>2, SealedStays, FrameStays DEF DataOK, InSealed

LEMMA ReadDataKeep ==
  ASSUME Fits, CachesOK, NEW r \in Reader, ReadNext(r)
  PROVE  DataOK(r)'
PROOF
  <1>1. TypeOK /\ RowsInPlace /\ DataOK(r)
    BY DEF Fits, CachesOK
  <1>2. UNCHANGED <<batch, object>>
    BY DEF ReadNext, ReadSealed, ReadStart, ReadStaging, ReadFrame, ReadGet, ReadObject, ReadTest, ReadIndex,
           ReadLoad, ReadKeep, ReadTouch, ReadEnds, tables
  <1>3. ASSUME NEW n, Row(r), read'[r] = Resolved(r, n)
        PROVE  DataOK(r)'
    <2>1. read'[r].b = chunk[r].batch /\ InPlace(r)
      BY <1>1, <1>3, BatchAssumption DEF Resolved, RowsInPlace
    <2>2. read'[r].pc = IF batch[chunk[r].batch].state \in {"open", "sealing"} THEN "staging" ELSE "frame"
      BY <1>3 DEF Resolved
    <2> QED
      BY <1>2, <2>1, <2>2 DEF DataOK, InSealed, InPlace
  <1>4. ASSUME read'[r].pc \notin InSealed
        PROVE  DataOK(r)'
    BY <1>4 DEF DataOK, InSealed
  <1>5. CASE ReadStart(r)
    BY <1>1, <1>3, <1>5 DEF ReadStart, Refs, TypeOK
  <1>6. CASE ReadEnds(r)
    BY <1>1, <1>4, <1>6 DEF ReadEnds, TypeOK, NotReading, InSealed
  <1> SUFFICES ASSUME ReadStaging(r) \/ ReadSealed(r)  PROVE DataOK(r)'
    BY <1>5, <1>6 DEF ReadNext
  <1>7. read[r] \in Reading
    <2>1. read[r].pc # "idle"
      BY DEF ReadSealed, ReadStaging, ReadFrame, ReadGet, ReadObject, ReadTest, ReadIndex, ReadLoad, ReadKeep,
             ReadTouch
    <2> QED
      BY <1>1, <2>1, ReadShape
  <1>8. [read[r] EXCEPT !.pc = "failed"].pc = "failed"
    BY <1>7 DEF Reading
  <1>9. ASSUME read' = Moved(r)
        PROVE  DataOK(r)'
    <2>1. read'[r] = Resolved(r, 2) \/ read'[r] = [read[r] EXCEPT !.pc = "failed"]
      BY <1>1, <1>9 DEF Moved, TypeOK
    <2>2. ~ Row(r) => Resolved(r, 2) = [read[r] EXCEPT !.pc = "failed"]
      BY DEF Resolved
    <2> QED
      BY <1>3, <1>4, <1>8, <2>1, <2>2 DEF InSealed
  <1>10. ASSUME NEW got, read' = Verified(r, got)
         PROVE  DataOK(r)'
    <2>1. read'[r] = NotReading \/ read'[r] = [read[r] EXCEPT !.pc = "failed"]
      BY <1>1, <1>10 DEF Verified, TypeOK
    <2> QED
      BY <1>4, <1>8, <2>1, NotReading.pc = "idle" DEF NotReading, InSealed
  <1>11. ASSUME NEW pc \in {"get", "touch", "object", "dict", "index", "load", "keep", "failed", "keyerror"},
                NEW data \in Seq(Chunk) \cup {Gone}, ReadGoesOn(r, pc, data),
                read[r].pc \in InSealed,
                pc \in {"dict", "index", "load", "keep", "touch"} => IsFrameOf(data, read[r].b)
         PROVE  DataOK(r)'
    <2>1. read'[r].pc = pc /\ read'[r].b = read[r].b /\ read'[r].data = data
      BY <1>1, <1>7, <1>11 DEF ReadGoesOn, TypeOK, Reading
    <2> QED
      BY <1>1, <1>2, <1>11, <2>1 DEF DataOK, IsFrameOf
  <1>12. /\ read[r].data \in Seq(Chunk) \cup {Gone} /\ read[r].b \in Batch
         /\ frames[read[r].b] \in Seq(Chunk) \cup {Gone}
         /\ object[read[r].b] \in Seq(Chunk) \cup {Gone} /\ Gone \in Seq(Chunk) \cup {Gone}
    BY <1>1, <1>7 DEF Reading, TypeOK
  <1>13. read[r].pc \in {"dict", "index", "load", "keep", "touch"} => IsFrameOf(read[r].data, read[r].b)
    BY <1>1 DEF DataOK
  <1>14. CASE ReadStaging(r)
    BY <1>9, <1>10, <1>14 DEF ReadStaging
  <1>15. CASE ReadFrame(r)
    BY <1>11, <1>12, <1>15 DEF ReadFrame, InSealed
  <1>16. CASE ReadGet(r)
    <2>1. frames[read[r].b] # Gone => IsFrameOf(frames[read[r].b], read[r].b)
      BY <1>12 DEF CachesOK, FramesOK
    <2> QED
      BY <1>11, <1>12, <1>16, <2>1 DEF ReadGet, InSealed
  <1>17. CASE ReadObject(r)
    <2>1. IsFrameOf(object[read[r].b], read[r].b)
      BY <1>1, <1>17 DEF ReadObject, DataOK, InSealed, IsFrameOf
    <2> QED
      BY <1>9, <1>11, <1>12, <1>17, <2>1 DEF ReadObject, InSealed
  <1>18. CASE ReadTest(r) \/ ReadIndex(r)
    BY <1>11, <1>12, <1>13, <1>18 DEF ReadTest, ReadIndex, InSealed
  <1>19. CASE ReadLoad(r)
    BY <1>9, <1>11, <1>12, <1>13, <1>19 DEF ReadLoad, InSealed
  <1>20. CASE ReadKeep(r)
    BY <1>10, <1>20 DEF ReadKeep
  <1>21. CASE ReadTouch(r)
    BY <1>10, <1>11, <1>12, <1>21 DEF ReadTouch, InSealed
  <1> QED
    BY <1>14, <1>15, <1>16, <1>17, <1>18, <1>19, <1>20, <1>21 DEF ReadSealed

LEMMA DataKeep ==
  ASSUME Fits, CachesOK, [Next]_vars, NEW r \in Reader
  PROVE  DataOK(r)'
PROOF
  <1>1. TypeOK /\ DataOK(r)
    BY DEF Fits, CachesOK
  <1>2. CASE ReadNext(r)
    BY <1>2, ReadDataKeep
  <1>3. CASE \E s \in Reader \ {r} : ReadNext(s)
    <2>1. read'[r] = read[r]
      BY <1>1, <1>3 DEF ReadNext, ReadSealed, ReadStart, ReadStaging, ReadFrame, ReadGet, ReadObject, ReadTest,
                ReadIndex, ReadLoad, ReadKeep, ReadTouch, ReadEnds, ReadGoesOn, Verified, Moved, TypeOK
    <2> QED
      BY <1>1, <2>1, DataStays
  <1>4. CASE (\E f \in File : Release(f)) \/ CompactTx
    <2>1. read'[r] = read[r] \/ (read[r].pc # "idle" /\ read'[r] = [read[r] EXCEPT !.hit = TRUE])
      BY <1>1, <1>4 DEF Release, CompactTx, TypeOK
    <2> QED
      BY <1>1, <2>1, ReadShape, DataStays
  <1>5. CASE Crash
    BY <1>1, <1>5, DataStays DEF Crash
  <1>6. CASE UNCHANGED read
    BY <1>1, <1>6, DataStays
  <1>7. CASE (\E f \in File, o \in Batch : IngestAppend(f, o)) \/ IngestTx \/ SealFails \/ SaveBloom \/ CompactList
             \/ CompactDelete \/ \E v, t \in Batch : CompactCopy(v, t) \/ CompactFails(v, t)
    BY <1>6, <1>7 DEF IngestAppend, IngestTx, SealFails, SaveBloom, CompactList, CompactDelete, CompactCopy,
                      CompactFails
  <1>8. CASE SealNext
    BY <1>6, <1>8 DEF SealNext, SealList, SealPut, SealTx, SealUnlink, SealDone
  <1>9. CASE UNCHANGED vars
    BY <1>6, <1>9 DEF vars
  <1> QED
    BY <1>2, <1>3, <1>4, <1>5, <1>7, <1>8, <1>9 DEF Next, CompactNext

LEMMA StepInvariant ==
  ASSUME IInv, [Next]_vars
  PROVE  IInv'
  BY StepFits, FramesKeep, DataKeep DEF IInv, CachesOK

(* The inductive invariant: where every chunk lies, what the holder of the *)
(* lock still has to do and what a reader holds fit together through every *)
(* ingest, seal, compaction, release, failure and crash.                   *)
THEOREM BatchesCorrect == Spec => []IInv
  BY InitInvariant, StepInvariant, PTL DEF Spec

(* Rows, jobs and the locals of readers keep their types; in particular no *)
(* count of references and no live_bytes falls below zero.                 *)
THEOREM TypesHold == Spec => []TypeOK
PROOF
  <1>1. IInv => TypeOK
    BY DEF IInv, Fits
  <1> QED
    BY <1>1, BatchesCorrect, PTL

(* A chunk in use lies where its row says, whatever seal, compaction,      *)
(* release_file and crashes do and in which order.                         *)
THEOREM ChunksInPlaceHolds == Spec => []ChunksInPlace
PROOF
  <1>1. IInv => ChunksInPlace
    BY DEF IInv, Fits, RowsInPlace, InPlace, ChunksInPlace, Rows
  <1> QED
    BY <1>1, BatchesCorrect, PTL

(* The refcount of a chunk is the number of pieces of stored files that it *)
(* makes up, across ingest_file and release_file.                          *)
THEOREM RefsAreExactHolds == Spec => []RefsAreExact
PROOF
  <1>1. IInv => RefsAreExact
    BY DEF IInv, Fits
  <1> QED
    BY <1>1, BatchesCorrect, PTL

(* live_bytes never falls below what is in use, so compact never takes a   *)
(* batch for emptier than it is.                                           *)
THEOREM LiveBytesCoverUseHolds == Spec => []LiveBytesCoverUse
PROOF
  <1>1. IInv => LiveBytesCoverUse
    BY DEF IInv, Fits
  <1> QED
    BY <1>1, BatchesCorrect, PTL

(* A chunk that a seal moves under read_chunk is found, and what is found  *)
(* is the chunk, in the file, the object or a frame in memory: but for the *)
(* KeyErrors of the caches only a release or a compaction fails a read.    *)
THEOREM UnhitReadIsFoundHolds == Spec => []UnhitReadIsFound
PROOF
  <1>1. IInv => UnhitReadIsFound
    BY DEF IInv, Fits, ReadOK, UnhitReadIsFound
  <1> QED
    BY <1>1, BatchesCorrect, PTL
=============================================================================
