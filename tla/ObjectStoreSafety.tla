------------------------- MODULE ObjectStoreSafety -------------------------
(***************************************************************************)
(* The safety of ObjectStore, for every set of keys, disks, stripes and    *)
(* readers and every profile: the types, then the inductive invariant of   *)
(* rows and files, one lemma per action, and what follows from it.         *)
(***************************************************************************)
EXTENDS ObjectStore, FiniteSetTheorems, TLAPS

(* Every action of Next, by name: what a case analysis has to go through. *)
LEMMA Actions ==
  ASSUME Next
  PROVE  \/ \E k \in Key :
              \/ \E n \in 1 .. MaxStripes : PutBegin(k, n)
              \/ PutInsert(k) \/ StripeBegin(k)
              \/ \E i \in Shard : WriteShard(k, i)
              \/ \E i \in Shard : WriteShardFails(k, i)
              \/ StripeCommit(k) \/ StripeGiveUp(k) \/ StripeDrop(k)
              \/ PutCommit(k) \/ PutRaises(k)
              \/ DeleteBegin(k) \/ DeleteRows(k) \/ DeleteRaises(k) \/ Unlink(k)
         \/ \E x \in Reader :
              \/ \E k \in Key : ReadStat(x, k)
              \/ ReadList(x) \/ ReadRows(x)
              \/ \E i \in Shard : ReadSkip(x, i)
              \/ \E i \in Shard : ReadShard(x, i)
              \/ \E i \in Shard : ReadMissing(x, i)
              \/ \E i \in Shard : ReadFails(x, i)
              \/ ReadDecode(x) \/ ReadUnrecoverable(x) \/ ReadEnd(x)
         \/ \E d \in Disk : DiskDown(d) \/ DiskUp(d) \/ HealthCheck(d)
         \/ Crash
         \/ BootSweep \/ BootDrop \/ (\E o \in ObjId : BootObject(o))
         \/ BootUnlink \/ BootServe
  BY DEF Next, WriterNext, PutStep, DeleteStep, ReaderNext, ReadStep, DiskNext,
         BootStep

-----------------------------------------------------------------------------
(* Type correctness.                                                         *)

LEMMA IdleTypes ==
  /\ NoRows \in [Shard -> ShardRow]
  /\ IdleWriter \in Writer
  /\ IdleReader \in ReadState
  /\ NoObject \in ObjectRow
  BY NoneAssumption, BoundAssumption
     DEF NoRows, NoShard, ShardRow, IdleWriter, Writer, WriterPc, IdleReader,
         ReadState, ReaderPc, NoObject, ObjectRow, File

LEMMA RowsType == NoRows \in [Shard -> ShardRow]
  BY IdleTypes

LEMMA WriterType == IdleWriter \in Writer
  BY IdleTypes

LEMMA BoundType == 0 \in 0 .. MaxStripes /\ \A n \in 1 .. MaxStripes : n \in 0 .. MaxStripes
  BY BoundAssumption

LEMMA IdleFields ==
  /\ IdleWriter.pc = "idle" /\ IdleWriter.then = "idle" /\ IdleWriter.len = 0
  /\ IdleWriter.obj = 0 /\ IdleWriter.seq = 0 /\ IdleWriter.sid = None
  /\ IdleWriter.rows = NoRows /\ IdleWriter.doomed = {}
  /\ IdleReader.pc = "idle" /\ IdleReader.obj = 0 /\ IdleReader.todo = {}
  /\ IdleReader.out = {} /\ IdleReader.disturbed = FALSE
  /\ IdleReader.at \in [Shard -> Disk \cup {None}]
  /\ \A i \in Shard : NoRows[i].disk = None /\ NoRows[i].state = "absent"
  BY DEF IdleWriter, IdleReader, NoRows, NoShard

LEMMA AtType == IdleReader.at \in [Shard -> Disk \cup {None}]
  BY IdleFields

LEMMA IdleOK == WriterOK(IdleWriter) /\ ReaderOK(IdleReader)
  BY IdleFields DEF WriterOK, ReaderOK

LEMMA InitType == Init => TypeOK
<1> SUFFICES ASSUME Init PROVE TypeOK
  OBVIOUS
<1>1. stripe \in [StripeId -> StripeRow]
  BY BoundAssumption DEF Init, StripeRow
<1>2. diskStatus \in [Disk -> Status] /\ up \in [Disk -> BOOLEAN]
  BY DEF Init, Status
<1>3. faults \in 0 .. MaxFaults /\ crashes \in 0 .. MaxCrashes
  BY BoundAssumption DEF Init
<1>4. shard \in [StripeId -> [Shard -> ShardRow]] /\ object \in [ObjId -> ObjectRow]
  BY IdleTypes DEF Init
<1>5. /\ w \in [Key -> Writer] /\ \A k \in Key : WriterOK(w[k])
      /\ rd \in [Reader -> ReadState] /\ \A x \in Reader : ReaderOK(rd[x])
  BY IdleTypes, IdleOK DEF Init
<1> QED BY <1>1, <1>2, <1>3, <1>4, <1>5 DEF Init, TypeOK

(* The helpers keep their tables in shape. *)
LEMMA DropStripesType ==
  ASSUME TypeOK, NEW S, DropStripes(S)
  PROVE  /\ stripe' \in [StripeId -> StripeRow]
         /\ shard' \in [StripeId -> [Shard -> ShardRow]]
  BY IdleTypes DEF TypeOK, DropStripes, StripeRow

LEMMA RowFilesType ==
  ASSUME NEW S
  PROVE  RowFiles(S) \subseteq File
  BY DEF RowFiles

LEMMA RecordErrorType ==
  ASSUME TypeOK, NEW d, RecordError(d)
  PROVE  diskStatus' \in [Disk -> Status]
  BY DEF TypeOK, RecordError, Status

LEMMA CheckedType ==
  ASSUME TypeOK, NEW d \in Disk
  PROVE  Checked(d) \in Status
  BY DEF TypeOK, Checked, Status

(* A thread takes a step: it is enough that its new record is well formed.   *)
LEMMA SetWType ==
  ASSUME TypeOK, NEW k \in Key, NEW r \in Writer, WriterOK(r), SetW(k, r)
  PROVE  w' \in [Key -> Writer] /\ \A j \in Key : WriterOK(w'[j])
  BY DEF TypeOK, SetW

LEMMA SetRType ==
  ASSUME TypeOK, NEW x \in Reader, NEW r \in ReadState, ReaderOK(r), SetR(x, r)
  PROVE  rd' \in [Reader -> ReadState] /\ \A y \in Reader : ReaderOK(rd'[y])
  BY DEF TypeOK, SetR

LEMMA DisturbType ==
  ASSUME TypeOK, NEW o, Disturb(o)
  PROVE  rd' \in [Reader -> ReadState] /\ \A y \in Reader : ReaderOK(rd'[y])
<1>1. ASSUME NEW y \in Reader
      PROVE  rd'[y] \in ReadState /\ ReaderOK(rd'[y])
  <2>1. rd[y] \in ReadState /\ ReaderOK(rd[y])
    BY DEF TypeOK
  <2>2. [rd[y] EXCEPT !.disturbed = TRUE] \in ReadState
    BY <2>1 DEF ReadState
  <2>3. ReaderOK([rd[y] EXCEPT !.disturbed = TRUE])
    BY <2>1 DEF ReaderOK, ReadState
  <2> QED BY <2>1, <2>2, <2>3 DEF Disturb
<1> QED BY <1>1 DEF Disturb

LEMMA PutBeginType ==
  ASSUME TypeOK, NEW k \in Key, NEW n \in 1 .. MaxStripes, PutBegin(k, n)
  PROVE  TypeOK'
<1>n. n \in 0 .. MaxStripes
  BY BoundType
<1>1. ASSUME NEW o \in ObjId
      PROVE  LET q == [IdleWriter EXCEPT !.pc = "delete", !.then = "insert",
                                         !.len = n, !.obj = o]
             IN  q \in Writer /\ WriterOK(q)
  <2> DEFINE q == [IdleWriter EXCEPT !.pc = "delete", !.then = "insert",
                                            !.len = n, !.obj = o]
  <2>1. q \in Writer
    BY WriterType, <1>n DEF Writer, WriterPc
  <2>2. WriterOK(q)
    BY WriterType, <1>n, IdleFields DEF Writer, WriterOK
  <2> QED BY <2>1, <2>2
<1>2. LET q == [IdleWriter EXCEPT !.pc = "insert", !.len = n]
      IN  q \in Writer /\ WriterOK(q)
  <2> DEFINE q == [IdleWriter EXCEPT !.pc = "insert", !.len = n]
  <2>1. q \in Writer
    BY WriterType, <1>n DEF Writer, WriterPc
  <2>2. WriterOK(q)
    BY WriterType, <1>n, IdleFields DEF Writer, WriterOK
  <2> QED BY <2>1, <2>2
<1>3. w' \in [Key -> Writer] /\ \A j \in Key : WriterOK(w'[j])
  BY <1>1, <1>2, SetWType, IdleTypes, IdleOK DEF PutBegin
<1> QED BY <1>3 DEF PutBegin, TypeOK, dbVars, bootVars

LEMMA PutInsertType ==
  ASSUME TypeOK, NEW k \in Key, PutInsert(k)
  PROVE  TypeOK'
<1> DEFINE r == w[k]
<1>r. r \in Writer /\ WriterOK(r)
  BY DEF TypeOK
<1>1. ASSUME NEW o \in ObjId
      PROVE  LET q == [r EXCEPT !.pc = "stripe", !.obj = o]
             IN  q \in Writer /\ WriterOK(q)
  <2> DEFINE q == [r EXCEPT !.pc = "stripe", !.obj = o]
  <2>1. q \in Writer
    BY <1>r DEF Writer, WriterPc
  <2>2. WriterOK(q)
    BY <1>r DEF Writer, WriterOK
  <2> QED BY <2>1, <2>2
<1>2. w' \in [Key -> Writer] /\ \A j \in Key : WriterOK(w'[j])
  BY <1>1, SetWType, IdleTypes, IdleOK, <1>r DEF PutInsert
<1>3. object' \in [ObjId -> ObjectRow]
  BY BoundType DEF PutInsert, TypeOK, ObjectRow
<1> QED BY <1>2, <1>3 DEF PutInsert, TypeOK, dbVars, bootVars

(* What _place gives: every shard a writable disk or none, and no disk two.   *)
LEMMA SlotsApart ==
  ASSUME NEW n \in Nat \ {0}, NEW i \in 0 .. (n - 1), NEW j \in 0 .. (n - 1), NEW rot \in 0 .. (n - 1), i # j
  PROVE  (i + rot) % n # (j + rot) % n
<1>1. ASSUME NEW x \in 0 .. (2 * n - 2) PROVE x % n = IF x < n THEN x ELSE x - n
  BY <1>1
<1>2. i + rot \in 0 .. (2 * n - 2) /\ j + rot \in 0 .. (2 * n - 2)
  OBVIOUS
<1> QED BY <1>1, <1>2

LEMMA PlacementIs ==
  ASSUME NEW p \in Placement
  PROVE  /\ p \in [Shard -> CanWrite \cup {None}]
         /\ \A i, j \in Shard : i # j /\ p[i] # None => p[i] # p[j]
<1> DEFINE n == K + M
<1>1. PICK order \in Listings, rot \in Shard : p = [i \in Shard |-> Slot(order, (i + rot) % n)]
  BY DEF Placement
<1>2. order \in [0 .. (Chosen - 1) -> CanWrite]
      /\ \A i, j \in 0 .. (Chosen - 1) : i # j => order[i] # order[j]
  BY DEF Listings
<1>3. \A i \in Shard : p[i] \in CanWrite \cup {None}
  BY <1>1, <1>2 DEF Slot
<1>4. ASSUME NEW i \in Shard, NEW j \in Shard, i # j, p[i] # None
      PROVE  p[i] # p[j]
  <2>0. Cardinality(Disk) \in Nat \ {0}
    BY DiskAssumption, FS_CardinalityType, FS_EmptySet
  <2>1. K \in Nat \ {0} /\ M \in Nat
    BY <2>0, CodeAssumption DEF K, M, Profile
  <2>2. Shard = 0 .. (n - 1)
    BY <2>1 DEF Shard
  <2>3. p[i] = Slot(order, (i + rot) % n) /\ p[j] = Slot(order, (j + rot) % n)
    BY <1>1
  <2>4. n \in Nat \ {0}
    BY <2>1
  <2> HIDE DEF n
  <2>5. (i + rot) % n # (j + rot) % n
    BY <1>4, <2>2, <2>4, SlotsApart
  <2> QED BY <1>2, <1>4, <2>3, <2>5 DEF Slot
<1>5. p \in [Shard -> CanWrite \cup {None}]
  BY <1>1, <1>3
<1> QED BY <1>4, <1>5

LEMMA StripeBeginType ==
  ASSUME TypeOK, NEW k \in Key, StripeBegin(k)
  PROVE  TypeOK'
<1> DEFINE r == w[k]
<1>r. r \in Writer /\ WriterOK(r)
  BY DEF TypeOK
<1>1. ASSUME NEW s \in StripeId, NEW p \in Placement, r.pc = "stripe", r.seq < r.len
      PROVE  LET q == [r EXCEPT !.pc = "shards", !.sid = s,
                          !.rows = [i \in Shard |->
                             [disk |-> p[i],
                              state |-> IF p[i] = None THEN "missing" ELSE "todo"]]]
             IN  q \in Writer /\ WriterOK(q)
  <2> DEFINE q == [r EXCEPT !.pc = "shards", !.sid = s,
                             !.rows = [i \in Shard |->
                                [disk |-> p[i],
                                 state |-> IF p[i] = None THEN "missing" ELSE "todo"]]]
  <2>1. q \in Writer
    BY <1>1, <1>r, PlacementIs DEF Writer, WriterPc, ShardRow, CanWrite
  <2>2. WriterOK(q)
    BY <1>1, <1>r, PlacementIs DEF Writer, WriterOK, CanWrite
  <2> QED BY <2>1, <2>2
<1>2. w' \in [Key -> Writer] /\ \A j \in Key : WriterOK(w'[j])
  <2>1. PICK s \in StripeId, p \in Placement :
          SetW(k, [w[k] EXCEPT !.pc = "shards", !.sid = s,
                               !.rows = [i \in Shard |->
                                  [disk |-> p[i],
                                   state |-> IF p[i] = None THEN "missing" ELSE "todo"]]])
    BY DEF StripeBegin
  <2>2. r.pc = "stripe" /\ r.seq < r.len
    BY DEF StripeBegin
  <2> QED BY <2>1, <2>2, <1>1, SetWType
<1>3. stripe' \in [StripeId -> StripeRow]
  BY <1>r DEF StripeBegin, TypeOK, StripeRow, Writer
<1> QED BY <1>2, <1>3 DEF StripeBegin, TypeOK, dbVars, bootVars

LEMMA WriteShardType ==
  ASSUME TypeOK, NEW k \in Key, NEW i \in Shard, WriteShard(k, i)
  PROVE  TypeOK'
<1> DEFINE r == w[k]
<1>r. r \in Writer /\ WriterOK(r)
  BY DEF TypeOK
<1>1. LET q == [r EXCEPT !.rows[i].state = "ok"]
      IN  q \in Writer /\ WriterOK(q)
  <2> DEFINE q == [r EXCEPT !.rows[i].state = "ok"]
  <2>1. q \in Writer
    BY <1>r DEF Writer, ShardRow
  <2>2. WriterOK(q)
    BY <1>r DEF Writer, WriterOK, ShardRow
  <2> QED BY <2>1, <2>2
<1>2. w' \in [Key -> Writer] /\ \A j \in Key : WriterOK(w'[j])
  BY <1>1, SetWType, IdleTypes, IdleOK, <1>r DEF WriteShard, SetW
<1>3. files' \subseteq File
  BY <1>r DEF WriteShard, NextShard, TypeOK, WriterOK, File
<1> QED BY <1>2, <1>3 DEF WriteShard, TypeOK, dbVars, bootVars

LEMMA WriteShardFailsType ==
  ASSUME TypeOK, NEW k \in Key, NEW i \in Shard, WriteShardFails(k, i)
  PROVE  TypeOK'
<1> DEFINE r == w[k]
<1>r. r \in Writer /\ WriterOK(r)
  BY DEF TypeOK
<1>1. LET q == [r EXCEPT !.rows[i] = LostRow(r.rows[i].disk)]
      IN  q \in Writer /\ WriterOK(q)
  <2> DEFINE q == [r EXCEPT !.rows[i] = LostRow(r.rows[i].disk)]
  <2>1. q \in Writer
    BY <1>r DEF Writer, ShardRow, LostRow
  <2>2. WriterOK(q)
    BY <1>r DEF Writer, WriterOK, ShardRow, LostRow
  <2> QED BY <2>1, <2>2
<1>2. w' \in [Key -> Writer] /\ \A j \in Key : WriterOK(w'[j])
  BY <1>1, SetWType, IdleTypes, IdleOK, <1>r DEF WriteShardFails, SetW
<1>3. files' \subseteq File
  BY <1>r DEF WriteShardFails, NextShard, TypeOK, WriterOK, File
<1>4. diskStatus' \in [Disk -> Status]
  BY RecordErrorType DEF WriteShardFails
<1> QED BY <1>2, <1>3, <1>4 DEF WriteShardFails, TypeOK, dbVars, bootVars

LEMMA StripeCommitType ==
  ASSUME TypeOK, NEW k \in Key, StripeCommit(k)
  PROVE  TypeOK'
<1> DEFINE r == w[k]
<1>r. r \in Writer /\ WriterOK(r)
  BY DEF TypeOK
<1>n. r.pc = "shards" => r.seq + 1 \in 0 .. MaxStripes /\ r.seq + 1 <= r.len
  BY <1>r, BoundAssumption DEF Writer, WriterOK
<1>1. ASSUME r.pc = "shards"
      PROVE  LET q == [r EXCEPT !.pc = "stripe", !.seq = @ + 1,
                          !.sid = None, !.rows = NoRows]
             IN  q \in Writer /\ WriterOK(q)
  <2> DEFINE q == [r EXCEPT !.pc = "stripe", !.seq = @ + 1,
                             !.sid = None, !.rows = NoRows]
  <2>1. q \in Writer
    BY <1>1, <1>n, <1>r, RowsType DEF Writer, WriterPc
  <2>2. WriterOK(q)
    BY <1>1, <1>n, <1>r, RowsType, IdleFields DEF Writer, WriterOK
  <2> QED BY <2>1, <2>2
<1>2. w' \in [Key -> Writer] /\ \A j \in Key : WriterOK(w'[j])
  BY <1>1, SetWType, IdleTypes, IdleOK, <1>r DEF StripeCommit, AllTried
<1>3. stripe' \in [StripeId -> StripeRow]
  BY DEF StripeCommit, TypeOK, StripeRow
<1>4. shard' \in [StripeId -> [Shard -> ShardRow]]
  BY <1>r DEF StripeCommit, TypeOK, Writer
<1> QED BY <1>2, <1>3, <1>4 DEF StripeCommit, AllTried, TypeOK, dbVars, bootVars

LEMMA StripeGiveUpType ==
  ASSUME TypeOK, NEW k \in Key, StripeGiveUp(k)
  PROVE  TypeOK'
<1> DEFINE r == w[k]
<1>r. r \in Writer /\ WriterOK(r)
  BY DEF TypeOK
<1>1. ASSUME r.pc = "shards"
      PROVE  LET q == [r EXCEPT !.pc = "giveup", !.rows = NoRows]
             IN  q \in Writer /\ WriterOK(q)
  <2> DEFINE q == [r EXCEPT !.pc = "giveup", !.rows = NoRows]
  <2>1. q \in Writer
    BY <1>1, <1>r, RowsType DEF Writer, WriterPc
  <2>2. WriterOK(q)
    BY <1>1, <1>r, RowsType, IdleFields DEF Writer, WriterOK
  <2> QED BY <2>1, <2>2
<1>2. w' \in [Key -> Writer] /\ \A j \in Key : WriterOK(w'[j])
  BY <1>1, SetWType, IdleTypes, IdleOK, <1>r DEF StripeGiveUp, AllTried
<1>3. files' \subseteq File
  BY DEF StripeGiveUp, Unlinked, TypeOK
<1> QED BY <1>2, <1>3 DEF StripeGiveUp, AllTried, TypeOK, dbVars, bootVars

LEMMA StripeDropType ==
  ASSUME TypeOK, NEW k \in Key, StripeDrop(k)
  PROVE  TypeOK'
<1> DEFINE r == w[k]
<1>r. r \in Writer /\ WriterOK(r)
  BY DEF TypeOK
<1>1. LET q == [r EXCEPT !.pc = "delete", !.sid = None]
      IN  q \in Writer /\ WriterOK(q)
  <2> DEFINE q == [r EXCEPT !.pc = "delete", !.sid = None]
  <2>1. q \in Writer
    BY <1>r DEF Writer, WriterPc
  <2>2. WriterOK(q)
    BY <1>r DEF Writer, WriterOK
  <2> QED BY <2>1, <2>2
<1>2. w' \in [Key -> Writer] /\ \A j \in Key : WriterOK(w'[j])
  BY <1>1, SetWType, IdleTypes, IdleOK, <1>r DEF StripeDrop
<1>3. stripe' \in [StripeId -> StripeRow] /\ shard' \in [StripeId -> [Shard -> ShardRow]]
  BY DropStripesType DEF StripeDrop
<1> QED BY <1>2, <1>3 DEF StripeDrop, TypeOK, dbVars, bootVars

LEMMA PutCommitType ==
  ASSUME TypeOK, NEW k \in Key, PutCommit(k)
  PROVE  TypeOK'
<1> DEFINE r == w[k]
<1>r. r \in Writer /\ WriterOK(r)
  BY DEF TypeOK
<1>1. w' \in [Key -> Writer] /\ \A j \in Key : WriterOK(w'[j])
  BY SetWType, IdleTypes, IdleOK, <1>r DEF PutCommit
<1>s. r.seq \in 0 .. MaxStripes
  BY <1>r DEF Writer
<1>2. object' \in [ObjId -> ObjectRow]
  BY <1>s DEF PutCommit, StripeCount, TypeOK, ObjectRow
<1> QED BY <1>1, <1>2 DEF PutCommit, TypeOK, dbVars, bootVars

LEMMA PutRaisesType ==
  ASSUME TypeOK, NEW k \in Key, PutRaises(k)
  PROVE  TypeOK'
<1> DEFINE r == w[k]
<1>r. r \in Writer /\ WriterOK(r)
  BY DEF TypeOK
<1>1. LET q == [r EXCEPT !.pc = "delete", !.sid = None, !.rows = NoRows]
      IN  q \in Writer /\ WriterOK(q)
  <2> DEFINE q == [r EXCEPT !.pc = "delete", !.sid = None, !.rows = NoRows]
  <2>1. q \in Writer
    BY <1>r, RowsType DEF Writer, WriterPc
  <2>2. WriterOK(q)
    BY <1>r, RowsType, IdleFields DEF Writer, WriterOK
  <2> QED BY <2>1, <2>2
<1>2. w' \in [Key -> Writer] /\ \A j \in Key : WriterOK(w'[j])
  BY <1>1, SetWType, IdleTypes, IdleOK, <1>r DEF PutRaises
<1> QED BY <1>2 DEF PutRaises, TypeOK, dbVars, bootVars

LEMMA DeleteBeginType ==
  ASSUME TypeOK, NEW k \in Key, DeleteBegin(k)
  PROVE  TypeOK'
<1>1. ASSUME NEW o \in ObjId
      PROVE  LET q == [IdleWriter EXCEPT !.pc = "delete", !.obj = o]
             IN  q \in Writer /\ WriterOK(q)
  <2> DEFINE q == [IdleWriter EXCEPT !.pc = "delete", !.obj = o]
  <2>1. q \in Writer
    BY WriterType DEF Writer, WriterPc
  <2>2. WriterOK(q)
    BY WriterType, IdleFields DEF Writer, WriterOK
  <2> QED BY <2>1, <2>2
<1>2. w' \in [Key -> Writer] /\ \A j \in Key : WriterOK(w'[j])
  BY <1>1, SetWType, IdleTypes, IdleOK DEF DeleteBegin
<1> QED BY <1>2 DEF DeleteBegin, TypeOK, dbVars, bootVars

LEMMA DeleteRowsType ==
  ASSUME TypeOK, NEW k \in Key, DeleteRows(k)
  PROVE  TypeOK'
<1> DEFINE r == w[k]
<1>r. r \in Writer /\ WriterOK(r)
  BY DEF TypeOK
<1>1. ASSUME NEW F \in SUBSET File
      PROVE  LET q == [r EXCEPT !.pc = "unlink", !.doomed = F]
             IN  q \in Writer /\ WriterOK(q)
  <2> DEFINE q == [r EXCEPT !.pc = "unlink", !.doomed = F]
  <2>1. q \in Writer
    BY <1>r DEF Writer, WriterPc
  <2>2. WriterOK(q)
    BY <1>r DEF Writer, WriterOK
  <2> QED BY <2>1, <2>2
<1>2. LET q == [IdleWriter EXCEPT !.pc = "insert", !.len = r.len]
      IN  q \in Writer /\ WriterOK(q)
  <2> DEFINE q == [IdleWriter EXCEPT !.pc = "insert", !.len = r.len]
  <2>1. q \in Writer
    BY <1>r, IdleTypes DEF Writer, WriterPc
  <2>2. WriterOK(q)
    BY <1>r, IdleTypes, IdleFields DEF Writer, WriterOK
  <2> QED BY <2>1, <2>2
<1>3. w' \in [Key -> Writer] /\ \A j \in Key : WriterOK(w'[j])
  <2>1. RowFiles(StripesOf(r.obj)) \in SUBSET File
    BY RowFilesType
  <2> QED BY <2>1, <1>1, <1>2, SetWType, WriterType, IdleOK DEF DeleteRows
<1>4. object' \in [ObjId -> ObjectRow]
  BY IdleTypes DEF DeleteRows, TypeOK
<1>5. stripe' \in [StripeId -> StripeRow] /\ shard' \in [StripeId -> [Shard -> ShardRow]]
  BY DropStripesType DEF DeleteRows
<1>6. rd' \in [Reader -> ReadState] /\ \A y \in Reader : ReaderOK(rd'[y])
  BY DisturbType DEF DeleteRows
<1> QED BY <1>3, <1>4, <1>5, <1>6 DEF DeleteRows, TypeOK, dbVars, bootVars

LEMMA DeleteRaisesType ==
  ASSUME TypeOK, NEW k \in Key, DeleteRaises(k)
  PROVE  TypeOK'
<1>1. w' \in [Key -> Writer] /\ \A j \in Key : WriterOK(w'[j])
  BY SetWType, IdleTypes, IdleOK DEF DeleteRaises
<1> QED BY <1>1 DEF DeleteRaises, TypeOK, dbVars, bootVars

LEMMA UnlinkType ==
  ASSUME TypeOK, NEW k \in Key, Unlink(k)
  PROVE  TypeOK'
<1> DEFINE r == w[k]
<1>r. r \in Writer /\ WriterOK(r)
  BY DEF TypeOK
<1>1. ASSUME NEW F
      PROVE  LET q == [r EXCEPT !.doomed = StillDoomed(@, F)]
             IN  q \in Writer /\ WriterOK(q)
  <2> DEFINE q == [r EXCEPT !.doomed = StillDoomed(@, F)]
  <2>1. q \in Writer
    BY <1>r DEF Writer, StillDoomed
  <2>2. WriterOK(q)
    BY <1>r DEF Writer, WriterOK
  <2> QED BY <2>1, <2>2
<1>2. LET q == [IdleWriter EXCEPT !.pc = "insert", !.len = r.len]
      IN  q \in Writer /\ WriterOK(q)
  <2> DEFINE q == [IdleWriter EXCEPT !.pc = "insert", !.len = r.len]
  <2>1. q \in Writer
    BY <1>r, IdleTypes DEF Writer, WriterPc
  <2>2. WriterOK(q)
    BY <1>r, IdleTypes, IdleFields DEF Writer, WriterOK
  <2> QED BY <2>1, <2>2
<1>3. w' \in [Key -> Writer] /\ \A j \in Key : WriterOK(w'[j])
  BY <1>1, <1>2, SetWType, IdleTypes, IdleOK, <1>r DEF Unlink
<1>4. files' \subseteq File
  BY DEF Unlink, Unlinked, TypeOK
<1> QED BY <1>3, <1>4 DEF Unlink, TypeOK, dbVars, bootVars

LEMMA ReadStatType ==
  ASSUME TypeOK, NEW x \in Reader, NEW k \in Key, ReadStat(x, k)
  PROVE  TypeOK'
<1>1. ASSUME NEW o \in ObjId
      PROVE  LET q == [IdleReader EXCEPT !.pc = "list", !.obj = o, !.key = k,
                                   !.size = object[o].size]
             IN  q \in ReadState /\ ReaderOK(q)
  <2> DEFINE q == [IdleReader EXCEPT !.pc = "list", !.obj = o, !.key = k,
                                      !.size = object[o].size]
  <2>1. q \in ReadState
    BY IdleTypes DEF ReadState, ReaderPc, TypeOK, ObjectRow
  <2>2. ReaderOK(q)
    BY IdleTypes DEF ReadState, ReaderOK
  <2> QED BY <2>1, <2>2
<1>2. rd' \in [Reader -> ReadState] /\ \A y \in Reader : ReaderOK(rd'[y])
  BY <1>1, SetRType, IdleTypes, IdleOK DEF ReadStat
<1> QED BY <1>2 DEF ReadStat, TypeOK, dbVars, bootVars

LEMMA ReadListType ==
  ASSUME TypeOK, NEW x \in Reader, ReadList(x)
  PROVE  TypeOK'
<1> DEFINE r == rd[x]
<1>r. r \in ReadState /\ ReaderOK(r)
  BY DEF TypeOK
<1>1. ASSUME NEW S \in SUBSET StripeId
      PROVE  LET q == [r EXCEPT !.pc = IF S = {} THEN "done" ELSE "next",
                              !.todo = S]
             IN  q \in ReadState /\ ReaderOK(q)
  <2> DEFINE q == [r EXCEPT !.pc = IF S = {} THEN "done" ELSE "next",
                                 !.todo = S]
  <2>1. q \in ReadState
    BY <1>r DEF ReadState, ReaderPc
  <2>2. ReaderOK(q)
    BY <1>r DEF ReadState, ReaderOK
  <2> QED BY <2>1, <2>2
<1>2. rd' \in [Reader -> ReadState] /\ \A y \in Reader : ReaderOK(rd'[y])
  BY <1>1, SetRType, IdleTypes, IdleOK, <1>r DEF ReadList, VisibleStripes, StripesOf
<1> QED BY <1>2 DEF ReadList, VisibleStripes, StripesOf, TypeOK, dbVars, bootVars

LEMMA ReadRowsType ==
  ASSUME TypeOK, NEW x \in Reader, ReadRows(x)
  PROVE  TypeOK'
<1> DEFINE r == rd[x]
<1>r. r \in ReadState /\ ReaderOK(r)
  BY DEF TypeOK
<1>1. ASSUME NEW s \in StripeId
      PROVE  LET q == [r EXCEPT !.pc = "try", !.sid = s, !.tried = {}, !.got = {},
                          !.at = [i \in Shard |->
                               IF /\ shard[s][i].disk # None
                                  /\ shard[s][i].state = "ok"
                                  /\ diskStatus[shard[s][i].disk] \in Readable
                               THEN shard[s][i].disk ELSE None]]
             IN  q \in ReadState /\ ReaderOK(q)
  <2> DEFINE q == [r EXCEPT !.pc = "try", !.sid = s, !.tried = {}, !.got = {},
                             !.at = [i \in Shard |->
                                  IF /\ shard[s][i].disk # None
                                     /\ shard[s][i].state = "ok"
                                     /\ diskStatus[shard[s][i].disk] \in Readable
                                  THEN shard[s][i].disk ELSE None]]
  <2>0. [i \in Shard |->
           IF /\ shard[s][i].disk # None
              /\ shard[s][i].state = "ok"
              /\ diskStatus[shard[s][i].disk] \in Readable
           THEN shard[s][i].disk ELSE None] \in [Shard -> Disk \cup {None}]
    BY DEF TypeOK, ShardRow
  <2>1. q \in ReadState
    BY <1>r, <2>0 DEF ReadState, ReaderPc
  <2>2. ReaderOK(q)
    BY <1>r DEF ReadState, ReaderOK
  <2> QED BY <2>1, <2>2
<1>2. rd' \in [Reader -> ReadState] /\ \A y \in Reader : ReaderOK(rd'[y])
  BY <1>1, SetRType, IdleTypes, IdleOK, <1>r DEF ReadRows, ReadState
<1> QED BY <1>2 DEF ReadRows, ReadState, TypeOK, dbVars, bootVars

LEMMA ReadSkipType ==
  ASSUME TypeOK, NEW x \in Reader, NEW i \in Shard, ReadSkip(x, i)
  PROVE  TypeOK'
<1> DEFINE r == rd[x]
<1>r. r \in ReadState /\ ReaderOK(r)
  BY DEF TypeOK
<1>1. LET q == Tried(x, i)
      IN  q \in ReadState /\ ReaderOK(q)
  <2> DEFINE q == Tried(x, i)
  <2>1. q \in ReadState
    BY <1>r DEF Tried, ReadState
  <2>2. ReaderOK(q)
    BY <1>r DEF Tried, ReadState, ReaderOK
  <2> QED BY <2>1, <2>2
<1>2. rd' \in [Reader -> ReadState] /\ \A y \in Reader : ReaderOK(rd'[y])
  BY <1>1, SetRType, IdleTypes, IdleOK, <1>r DEF ReadSkip
<1> QED BY <1>2 DEF ReadSkip, TypeOK, dbVars, bootVars

LEMMA ReadShardType ==
  ASSUME TypeOK, NEW x \in Reader, NEW i \in Shard, ReadShard(x, i)
  PROVE  TypeOK'
<1> DEFINE r == rd[x]
<1>r. r \in ReadState /\ ReaderOK(r)
  BY DEF TypeOK
<1>1. LET q == [Tried(x, i) EXCEPT !.got = @ \cup {i}]
      IN  q \in ReadState /\ ReaderOK(q)
  <2> DEFINE q == [Tried(x, i) EXCEPT !.got = @ \cup {i}]
  <2>1. q \in ReadState
    BY <1>r DEF Tried, ReadState
  <2>2. ReaderOK(q)
    BY <1>r DEF Tried, ReadState, ReaderOK
  <2> QED BY <2>1, <2>2
<1>2. rd' \in [Reader -> ReadState] /\ \A y \in Reader : ReaderOK(rd'[y])
  BY <1>1, SetRType, IdleTypes, IdleOK, <1>r DEF ReadShard
<1> QED BY <1>2 DEF ReadShard, TypeOK, dbVars, bootVars

LEMMA ReadMissingType ==
  ASSUME TypeOK, NEW x \in Reader, NEW i \in Shard, ReadMissing(x, i)
  PROVE  TypeOK'
<1> DEFINE r == rd[x]
<1>r. r \in ReadState /\ ReaderOK(r)
  BY DEF TypeOK
<1>1. LET q == Tried(x, i)
      IN  q \in ReadState /\ ReaderOK(q)
  <2> DEFINE q == Tried(x, i)
  <2>1. q \in ReadState
    BY <1>r DEF Tried, ReadState
  <2>2. ReaderOK(q)
    BY <1>r DEF Tried, ReadState, ReaderOK
  <2> QED BY <2>1, <2>2
<1>2. rd' \in [Reader -> ReadState] /\ \A y \in Reader : ReaderOK(rd'[y])
  BY <1>1, SetRType, IdleTypes, IdleOK, <1>r DEF ReadMissing
<1>3. shard' \in [StripeId -> [Shard -> ShardRow]]
  <2>1. shard[rd[x].sid] \in [Shard -> ShardRow]
    BY <1>r DEF ReadMissing, TryNext, ReaderOK, TypeOK
  <2>2. [shard[rd[x].sid][i] EXCEPT !.state = "missing"] \in ShardRow
    BY <2>1 DEF ShardRow
  <2> QED BY <2>1, <2>2 DEF ReadMissing, MarkMissing, TypeOK
<1> QED BY <1>2, <1>3 DEF ReadMissing, TypeOK, dbVars, bootVars

LEMMA ReadFailsType ==
  ASSUME TypeOK, NEW x \in Reader, NEW i \in Shard, ReadFails(x, i)
  PROVE  TypeOK'
<1> DEFINE r == rd[x]
<1>r. r \in ReadState /\ ReaderOK(r)
  BY DEF TypeOK
<1>1. LET q == Tried(x, i)
      IN  q \in ReadState /\ ReaderOK(q)
  <2> DEFINE q == Tried(x, i)
  <2>1. q \in ReadState
    BY <1>r DEF Tried, ReadState
  <2>2. ReaderOK(q)
    BY <1>r DEF Tried, ReadState, ReaderOK
  <2> QED BY <2>1, <2>2
<1>2. rd' \in [Reader -> ReadState] /\ \A y \in Reader : ReaderOK(rd'[y])
  BY <1>1, SetRType, IdleTypes, IdleOK, <1>r DEF ReadFails
<1>3. diskStatus' \in [Disk -> Status]
  BY RecordErrorType DEF ReadFails
<1> QED BY <1>2, <1>3 DEF ReadFails, TypeOK, dbVars, bootVars

LEMMA ReadDecodeType ==
  ASSUME TypeOK, NEW x \in Reader, ReadDecode(x)
  PROVE  TypeOK'
<1> DEFINE r == rd[x]
<1>r. r \in ReadState /\ ReaderOK(r)
  BY DEF TypeOK
<1>t. stripe[r.sid].key \in Key \cup {None} /\ stripe[r.sid].seq \in 0 .. MaxStripes
  BY <1>r DEF ReadDecode, ReadOver, ReaderOK, TypeOK, StripeRow
<1>1. ASSUME NEW T \in SUBSET StripeId
      PROVE  LET q == [r EXCEPT !.pc = IF T = {} THEN "done" ELSE "next",
                          !.todo = T, !.sid = None,
                          !.at = IdleReader.at, !.tried = {}, !.got = {},
                          !.out = @ \cup {<<stripe[r.sid].key, stripe[r.sid].seq>>}]
             IN  q \in ReadState /\ ReaderOK(q)
  <2> DEFINE q == [r EXCEPT !.pc = IF T = {} THEN "done" ELSE "next",
                             !.todo = T, !.sid = None,
                             !.at = IdleReader.at, !.tried = {}, !.got = {},
                             !.out = @ \cup {<<stripe[r.sid].key, stripe[r.sid].seq>>}]
  <2> DEFINE O == r.out \cup {<<stripe[r.sid].key, stripe[r.sid].seq>>}
  <2>o. O \in SUBSET ((Key \cup {None}) \X (0 .. MaxStripes))
    BY <1>r, <1>t DEF ReadState
  <2>p. q = [r EXCEPT !.pc = IF T = {} THEN "done" ELSE "next",
                      !.todo = T, !.sid = None,
                      !.at = IdleReader.at, !.tried = {}, !.got = {}, !.out = O]
    OBVIOUS
  <2>1. q \in ReadState
    <3> HIDE DEF O, q
    <3> QED BY <1>r, <2>o, <2>p, AtType DEF ReadState, ReaderPc
  <2>2. ReaderOK(q)
    BY <1>r DEF ReadState, ReaderOK
  <2> QED BY <2>1, <2>2
<1>2. rd' \in [Reader -> ReadState] /\ \A y \in Reader : ReaderOK(rd'[y])
  BY <1>1, SetRType, IdleTypes, IdleOK, <1>r DEF ReadDecode, ReadOver, ReadState
<1> QED BY <1>2 DEF ReadDecode, ReadOver, ReadState, TypeOK, dbVars, bootVars

LEMMA ReadUnrecoverableType ==
  ASSUME TypeOK, NEW x \in Reader, ReadUnrecoverable(x)
  PROVE  TypeOK'
<1> DEFINE r == rd[x]
<1>r. r \in ReadState /\ ReaderOK(r)
  BY DEF TypeOK
<1>1. LET q == [r EXCEPT !.pc = "failed", !.todo = {}, !.sid = None,
                          !.at = IdleReader.at, !.tried = {}, !.got = {}]
      IN  q \in ReadState /\ ReaderOK(q)
  <2> DEFINE q == [r EXCEPT !.pc = "failed", !.todo = {}, !.sid = None,
                             !.at = IdleReader.at, !.tried = {}, !.got = {}]
  <2>1. q \in ReadState
    BY <1>r, AtType DEF ReadState, ReaderPc
  <2>2. ReaderOK(q)
    BY <1>r DEF ReadState, ReaderOK
  <2> QED BY <2>1, <2>2
<1>2. rd' \in [Reader -> ReadState] /\ \A y \in Reader : ReaderOK(rd'[y])
  BY <1>1, SetRType, IdleTypes, IdleOK, <1>r DEF ReadUnrecoverable
<1>3. stripe' \in [StripeId -> StripeRow]
  <2>1. r.sid \in StripeId
    BY <1>r DEF ReadUnrecoverable, ReadOver, ReaderOK
  <2>2. [stripe[r.sid] EXCEPT !.state = "unrecoverable"] \in StripeRow
    BY <2>1 DEF TypeOK, StripeRow
  <2> QED BY <2>1, <2>2 DEF ReadUnrecoverable, TypeOK
<1> QED BY <1>2, <1>3 DEF ReadUnrecoverable, TypeOK, dbVars, bootVars

LEMMA ReadEndType ==
  ASSUME TypeOK, NEW x \in Reader, ReadEnd(x)
  PROVE  TypeOK'
<1>1. rd' \in [Reader -> ReadState] /\ \A y \in Reader : ReaderOK(rd'[y])
  BY SetRType, IdleTypes, IdleOK DEF ReadEnd
<1> QED BY <1>1 DEF ReadEnd, TypeOK, dbVars, bootVars

LEMMA DiskDownType ==
  ASSUME TypeOK, NEW d \in Disk, DiskDown(d)
  PROVE  TypeOK'
<1>1. faults' \in 0 .. MaxFaults
  BY BoundAssumption DEF DiskDown, TypeOK
<1>2. up' \in [Disk -> BOOLEAN]
  BY DEF DiskDown, TypeOK
<1> QED BY <1>1, <1>2 DEF DiskDown, TypeOK, dbVars, bootVars

LEMMA DiskUpType ==
  ASSUME TypeOK, NEW d \in Disk, DiskUp(d)
  PROVE  TypeOK'
  BY DEF DiskUp, TypeOK, dbVars, bootVars

LEMMA HealthCheckType ==
  ASSUME TypeOK, NEW d \in Disk, HealthCheck(d)
  PROVE  TypeOK'
<1>1. diskStatus' \in [Disk -> Status]
  BY CheckedType DEF HealthCheck, TypeOK
<1> QED BY <1>1 DEF HealthCheck, TypeOK, dbVars, bootVars

LEMMA CrashType ==
  ASSUME TypeOK, Crash
  PROVE  TypeOK'
<1>1. crashes' \in 0 .. MaxCrashes
  BY BoundAssumption DEF Crash, TypeOK
<1>2. /\ w' \in [Key -> Writer] /\ \A k \in Key : WriterOK(w'[k])
      /\ rd' \in [Reader -> ReadState] /\ \A x \in Reader : ReaderOK(rd'[x])
  BY IdleTypes, IdleOK DEF Crash
<1> QED BY <1>1, <1>2 DEF Crash, TypeOK, dbVars

LEMMA BootSweepType ==
  ASSUME TypeOK, BootSweep
  PROVE  TypeOK'
  BY DEF BootSweep, Unlinked, TypeOK, dbVars

LEMMA BootDropType ==
  ASSUME TypeOK, BootDrop
  PROVE  TypeOK'
  BY DropStripesType DEF BootDrop, TypeOK

LEMMA BootObjectType ==
  ASSUME TypeOK, NEW o \in ObjId, BootObject(o)
  PROVE  TypeOK'
<1>1. object' \in [ObjId -> ObjectRow]
  BY IdleTypes DEF BootObject, TypeOK
<1> QED BY <1>1, DropStripesType, RowFilesType DEF BootObject, TypeOK

LEMMA BootUnlinkType ==
  ASSUME TypeOK, BootUnlink
  PROVE  TypeOK'
  BY DEF BootUnlink, Unlinked, StillDoomed, TypeOK, dbVars

LEMMA BootServeType ==
  ASSUME TypeOK, BootServe
  PROVE  TypeOK'
  BY CheckedType DEF BootServe, TypeOK, dbVars

LEMMA StutterType == TypeOK /\ UNCHANGED vars => TypeOK'
  BY DEF TypeOK, vars

(* Every table and every thread keeps its type, whatever interleaving of     *)
(* puts, deletes, reads, disk failures and crashes happens.                  *)
THEOREM TypeCorrect == Spec => []TypeOK
<1>1. Init => TypeOK
  BY InitType
<1>2. TypeOK /\ [Next]_vars => TypeOK'
  BY Actions, StutterType, DiskDownType, DiskUpType, HealthCheckType, CrashType,
     BootSweepType, BootDropType, BootObjectType, BootUnlinkType, BootServeType, PutBeginType, PutInsertType,
     StripeBeginType, WriteShardType, WriteShardFailsType, StripeCommitType,
     StripeGiveUpType, StripeDropType, PutCommitType, PutRaisesType,
     DeleteBeginType, DeleteRowsType, DeleteRaisesType, UnlinkType,
     ReadStatType, ReadListType, ReadRowsType, ReadSkipType, ReadShardType,
     ReadMissingType, ReadFailsType, ReadDecodeType, ReadUnrecoverableType,
     ReadEndType
<1> QED BY <1>1, <1>2, PTL DEF Spec

-----------------------------------------------------------------------------
(* Rows and files.                                                           *)

(* A step that leaves rows, files and writers alone, up to the state of what *)
(* readers may list and the state of a shard that is on a disk.              *)
QuietStripe(s) ==
  /\ stripe'[s].obj = stripe[s].obj
  /\ stripe'[s].key = stripe[s].key
  /\ stripe'[s].seq = stripe[s].seq
  /\ \/ stripe'[s].state = stripe[s].state
     \/ stripe[s].state \in Visible /\ stripe'[s].state \in Visible
  /\ shard[s] = NoRows => shard'[s] = NoRows
  /\ \A i \in Shard : shard'[s][i].disk = shard[s][i].disk

LEMMA QuietFiles ==
  ASSUME FilesInv, TypeOK', ListsVisible',
         UNCHANGED <<object, w, files, phase, bootDoomed>>,
         \A s \in StripeId : QuietStripe(s)
  PROVE  FilesInv'
<1> USE DEF FilesInv
<1>1. StartsAlone'
  BY DEF StartsAlone
<1>3. OneRowPerKey' /\ HoldsObject'
  BY DEF OneRowPerKey, HoldsObject, KeyRow
<1>4. StripesHaveObject'
  BY DEF StripesHaveObject, QuietStripe, Live, Visible
<1>5. HoldsStripe'
  <2>1. \A k \in Key : w[k].pc \in {"shards", "giveup"} => w[k].sid \in StripeId
    BY DEF TypeOK, WriterOK
  <2> QED BY <2>1 DEF HoldsStripe, QuietStripe, Visible
<1>6. ShardsSoFar'
  BY DEF ShardsSoFar
<1>7. DoomedIsGone'
  <2>1. \A f \in File : stripe[f[2]].state = "gone" => stripe'[f[2]].state = "gone"
    BY DEF QuietStripe, Visible, File
  <2>2. \A k \in Key : w[k].doomed \subseteq File
    BY DEF TypeOK, Writer
  <2>3. bootDoomed \subseteq File
    BY DEF TypeOK
  <2> QED BY <2>1, <2>2, <2>3 DEF DoomedIsGone
<1>8. VisibleInPlace' /\ DistinctDisks'
  BY DEF VisibleInPlace, DistinctDisks, QuietStripe, Visible
<1>9. Redundant'
  <2> SUFFICES ASSUME NEW s \in StripeId, stripe'[s].state \in {"committed", "unrecoverable"}
               PROVE  LET placed == Cardinality({i \in Shard : shard'[s][i].disk # None}) IN
                      placed >= K + MinWriteExtra \/ placed >= K + M
    BY DEF Redundant
  <2>1. stripe[s].state \in {"committed", "unrecoverable"}
    BY DEF QuietStripe, Visible
  <2>2. {i \in Shard : shard'[s][i].disk # None} = {i \in Shard : shard[s][i].disk # None}
    BY DEF QuietStripe
  <2> QED BY <2>1, <2>2 DEF Redundant
<1> QED BY <1>1, <1>3, <1>4, <1>5, <1>6, <1>7, <1>8, <1>9

(* Steps that touch no row at all. *)
LEMMA StillFiles ==
  ASSUME FilesInv, TypeOK', ListsVisible',
         UNCHANGED <<object, stripe, shard, w, files, phase, bootDoomed>>
  PROVE  FilesInv'
<1>1. \A s \in StripeId : QuietStripe(s)
  BY DEF QuietStripe
<1> QED BY <1>1, QuietFiles

(* A thread takes a step: nobody else's local variables change. *)
LEMMA SetRFun ==
  ASSUME TypeOK, NEW x \in Reader, NEW r, SetR(x, r)
  PROVE  rd'[x] = r /\ \A y \in Reader : y # x => rd'[y] = rd[y]
  BY DEF TypeOK, SetR

LEMMA SetWFun ==
  ASSUME TypeOK, NEW k \in Key, NEW r, SetW(k, r)
  PROVE  w'[k] = r /\ \A j \in Key : j # k => w'[j] = w[j]
  BY DEF TypeOK, SetW

(* It is enough that what its reader now lists was visible. *)
LEMMA SetRLists ==
  ASSUME FilesInv, NEW x \in Reader, NEW r, SetR(x, r),
         \A s \in StripeId : s \in r.todo \/ s = r.sid => stripe[s].state \in Visible \cup {"gone"},
         \A s \in StripeId : stripe[s].state \in Visible \cup {"gone"}
                              => stripe'[s].state \in Visible \cup {"gone"}
  PROVE  ListsVisible'
<1> SUFFICES ASSUME NEW y \in Reader, NEW s \in StripeId, s \in rd'[y].todo \/ s = rd'[y].sid
             PROVE  stripe[s].state \in Visible \cup {"gone"}
  BY DEF ListsVisible
<1>1. rd'[x] = r /\ (y # x => rd'[y] = rd[y])
  BY SetRFun DEF FilesInv
<1> QED BY <1>1 DEF ListsVisible, FilesInv

LEMMA ReadStatFiles ==
  ASSUME FilesInv, NEW x \in Reader, NEW k \in Key, ReadStat(x, k)
  PROVE  FilesInv'
<1>1. TypeOK'
  BY ReadStatType DEF FilesInv
<1>2. PICK o \in ObjId :
        SetR(x, [IdleReader EXCEPT !.pc = "list", !.obj = o, !.key = k,
                                   !.size = object[o].size])
  BY DEF ReadStat
<1> DEFINE q == [IdleReader EXCEPT !.pc = "list", !.obj = o, !.key = k,
                                   !.size = object[o].size]
<1>3. q.todo = {} /\ q.sid = None
  BY DEF IdleReader
<1>4. UNCHANGED <<object, stripe, shard, w, files, phase, bootDoomed>>
  BY DEF ReadStat, dbVars, bootVars
<1>5. ListsVisible'
  <2> HIDE DEF q
  <2>1. SetR(x, q)
    BY <1>2 DEF q
  <2> QED BY <2>1, <1>3, <1>4, SetRLists, NoneAssumption
<1> QED BY <1>1, <1>4, <1>5, StillFiles

LEMMA ReadListFiles ==
  ASSUME FilesInv, NEW x \in Reader, ReadList(x)
  PROVE  FilesInv'
<1>1. TypeOK'
  BY ReadListType DEF FilesInv
<1>r. rd[x] \in ReadState
  BY DEF FilesInv, TypeOK
<1> DEFINE q == [rd[x] EXCEPT !.pc = IF VisibleStripes(rd[x].obj) = {} THEN "done" ELSE "next",
                               !.todo = VisibleStripes(rd[x].obj)]
<1>3. q.todo = VisibleStripes(rd[x].obj) /\ q.sid = rd[x].sid
  BY <1>r DEF ReadState
<1>4. UNCHANGED <<object, stripe, shard, w, files, phase, bootDoomed>>
  BY DEF ReadList, dbVars, bootVars
<1>5. ListsVisible'
  <2> HIDE DEF q
  <2>1. SetR(x, q)
    BY DEF q, ReadList
  <2> QED BY <2>1, <1>3, <1>4, SetRLists DEF FilesInv, ListsVisible, VisibleStripes
<1> QED BY <1>1, <1>4, <1>5, StillFiles

LEMMA ReadRowsFiles ==
  ASSUME FilesInv, NEW x \in Reader, ReadRows(x)
  PROVE  FilesInv'
<1>1. TypeOK'
  BY ReadRowsType DEF FilesInv
<1>r. rd[x] \in ReadState
  BY DEF FilesInv, TypeOK
<1>p. PICK s \in rd[x].todo :
        SetR(x, [rd[x] EXCEPT
                   !.pc = "try", !.sid = s, !.tried = {}, !.got = {},
                   !.at = [i \in Shard |->
                             IF /\ shard[s][i].disk # None
                                /\ shard[s][i].state = "ok"
                                /\ diskStatus[shard[s][i].disk] \in Readable
                             THEN shard[s][i].disk ELSE None]])
  BY DEF ReadRows
<1> DEFINE q == [rd[x] EXCEPT
                   !.pc = "try", !.sid = s, !.tried = {}, !.got = {},
                   !.at = [i \in Shard |->
                             IF /\ shard[s][i].disk # None
                                /\ shard[s][i].state = "ok"
                                /\ diskStatus[shard[s][i].disk] \in Readable
                             THEN shard[s][i].disk ELSE None]]
<1>3. q.todo = rd[x].todo /\ q.sid \in rd[x].todo
  BY <1>r DEF ReadState
<1>4. UNCHANGED <<object, stripe, shard, w, files, phase, bootDoomed>>
  BY DEF ReadRows, dbVars, bootVars
<1>5. ListsVisible'
  <2> HIDE DEF q
  <2>1. SetR(x, q)
    BY <1>p DEF q, ReadRows
  <2> QED BY <2>1, <1>3, <1>4, SetRLists DEF FilesInv, ListsVisible
<1> QED BY <1>1, <1>4, <1>5, StillFiles

LEMMA ReadSkipFiles ==
  ASSUME FilesInv, NEW x \in Reader, NEW i \in Shard, ReadSkip(x, i)
  PROVE  FilesInv'
<1>1. TypeOK'
  BY ReadSkipType DEF FilesInv
<1>r. rd[x] \in ReadState
  BY DEF FilesInv, TypeOK
<1> DEFINE q == Tried(x, i)
<1>3. q.todo = rd[x].todo /\ q.sid = rd[x].sid
  BY <1>r DEF ReadState, Tried
<1>4. UNCHANGED <<object, stripe, shard, w, files, phase, bootDoomed>>
  BY DEF ReadSkip, dbVars, bootVars
<1>5. ListsVisible'
  <2> HIDE DEF q
  <2>1. SetR(x, q)
    BY DEF q, ReadSkip
  <2> QED BY <2>1, <1>3, <1>4, SetRLists DEF FilesInv, ListsVisible
<1> QED BY <1>1, <1>4, <1>5, StillFiles

LEMMA ReadShardFiles ==
  ASSUME FilesInv, NEW x \in Reader, NEW i \in Shard, ReadShard(x, i)
  PROVE  FilesInv'
<1>1. TypeOK'
  BY ReadShardType DEF FilesInv
<1>r. rd[x] \in ReadState
  BY DEF FilesInv, TypeOK
<1> DEFINE q == [Tried(x, i) EXCEPT !.got = @ \cup {i}]
<1>3. q.todo = rd[x].todo /\ q.sid = rd[x].sid
  BY <1>r DEF ReadState, Tried
<1>4. UNCHANGED <<object, stripe, shard, w, files, phase, bootDoomed>>
  BY DEF ReadShard, dbVars, bootVars
<1>5. ListsVisible'
  <2> HIDE DEF q
  <2>1. SetR(x, q)
    BY DEF q, ReadShard
  <2> QED BY <2>1, <1>3, <1>4, SetRLists DEF FilesInv, ListsVisible
<1> QED BY <1>1, <1>4, <1>5, StillFiles

LEMMA ReadFailsFiles ==
  ASSUME FilesInv, NEW x \in Reader, NEW i \in Shard, ReadFails(x, i)
  PROVE  FilesInv'
<1>1. TypeOK'
  BY ReadFailsType DEF FilesInv
<1>r. rd[x] \in ReadState
  BY DEF FilesInv, TypeOK
<1> DEFINE q == Tried(x, i)
<1>3. q.todo = rd[x].todo /\ q.sid = rd[x].sid
  BY <1>r DEF ReadState, Tried
<1>4. UNCHANGED <<object, stripe, shard, w, files, phase, bootDoomed>>
  BY DEF ReadFails, dbVars, bootVars
<1>5. ListsVisible'
  <2> HIDE DEF q
  <2>1. SetR(x, q)
    BY DEF q, ReadFails
  <2> QED BY <2>1, <1>3, <1>4, SetRLists DEF FilesInv, ListsVisible
<1> QED BY <1>1, <1>4, <1>5, StillFiles

LEMMA ReadDecodeFiles ==
  ASSUME FilesInv, NEW x \in Reader, ReadDecode(x)
  PROVE  FilesInv'
<1>1. TypeOK'
  BY ReadDecodeType DEF FilesInv
<1>r. rd[x] \in ReadState
  BY DEF FilesInv, TypeOK
<1> DEFINE q == [rd[x] EXCEPT !.pc = IF rd[x].todo \ {rd[x].sid} = {} THEN "done" ELSE "next",
                             !.todo = rd[x].todo \ {rd[x].sid}, !.sid = None,
                             !.at = IdleReader.at, !.tried = {}, !.got = {},
                             !.out = @ \cup {<<stripe[rd[x].sid].key, stripe[rd[x].sid].seq>>}]
<1>3. q.todo \subseteq rd[x].todo /\ q.sid = None
  BY <1>r DEF ReadState
<1>4. UNCHANGED <<object, stripe, shard, w, files, phase, bootDoomed>>
  BY DEF ReadDecode, dbVars, bootVars
<1>5. ListsVisible'
  <2> HIDE DEF q
  <2>1. SetR(x, q)
    BY DEF q, ReadDecode
  <2> QED BY <2>1, <1>3, <1>4, SetRLists, NoneAssumption DEF FilesInv, ListsVisible
<1> QED BY <1>1, <1>4, <1>5, StillFiles

LEMMA ReadEndFiles ==
  ASSUME FilesInv, NEW x \in Reader, ReadEnd(x)
  PROVE  FilesInv'
<1>1. TypeOK'
  BY ReadEndType DEF FilesInv
<1>2. IdleReader.todo = {} /\ IdleReader.sid = None
  BY DEF IdleReader
<1>3. UNCHANGED <<object, stripe, shard, w, files, phase, bootDoomed>>
  BY DEF ReadEnd, dbVars, bootVars
<1>4. ListsVisible'
  BY <1>2, <1>3, SetRLists, NoneAssumption DEF ReadEnd
<1> QED BY <1>1, <1>3, <1>4, StillFiles

LEMMA ReadMissingFiles ==
  ASSUME FilesInv, NEW x \in Reader, NEW i \in Shard, ReadMissing(x, i)
  PROVE  FilesInv'
<1>1. TypeOK'
  BY ReadMissingType DEF FilesInv
<1>r. rd[x] \in ReadState
  BY DEF FilesInv, TypeOK
<1>2. UNCHANGED <<object, stripe, w, files, phase, bootDoomed>>
  BY DEF ReadMissing, bootVars
<1>3. Tried(x, i).todo = rd[x].todo /\ Tried(x, i).sid = rd[x].sid
  BY <1>r DEF ReadState, Tried
<1>4. ListsVisible'
  BY <1>2, <1>3, SetRLists DEF ReadMissing, FilesInv, ListsVisible
<1>5. ASSUME NEW s \in StripeId
      PROVE  /\ shard[s] = NoRows => shard'[s] = NoRows
             /\ \A j \in Shard : shard'[s][j].disk = shard[s][j].disk
  <2>1. shard \in [StripeId -> [Shard -> ShardRow]]
    BY DEF FilesInv, TypeOK
  <2>2. MarkMissing(rd[x].sid, i)
    BY DEF ReadMissing
  <2>3. NoRows[i].state = "absent"
    BY IdleFields
  <2>4. CASE shard[rd[x].sid][i].state = "absent"
    BY <2>2, <2>4 DEF MarkMissing
  <2>5. CASE shard[rd[x].sid][i].state # "absent"
    BY <2>1, <2>2, <2>3, <2>5 DEF MarkMissing, ShardRow
  <2> QED BY <2>4, <2>5
<1>6. \A s \in StripeId : QuietStripe(s)
  BY <1>2, <1>5 DEF QuietStripe
<1> QED BY <1>1, <1>2, <1>4, <1>6, QuietFiles

LEMMA ReadUnrecoverableFiles ==
  ASSUME FilesInv, NEW x \in Reader, ReadUnrecoverable(x)
  PROVE  FilesInv'
<1>1. TypeOK'
  BY ReadUnrecoverableType DEF FilesInv
<1>2. UNCHANGED <<object, shard, w, files, phase, bootDoomed>>
  BY DEF ReadUnrecoverable, bootVars
<1>r. rd[x] \in ReadState /\ rd[x].sid \in StripeId
  BY DEF FilesInv, TypeOK, ReadUnrecoverable, ReadOver, ReaderOK
<1>3. stripe[rd[x].sid].state \in Visible \cup {"gone"}
  BY <1>r DEF FilesInv, ListsVisible
<1>4. ASSUME NEW s \in StripeId
      PROVE  /\ stripe'[s].obj = stripe[s].obj
             /\ stripe'[s].key = stripe[s].key
             /\ stripe'[s].seq = stripe[s].seq
             /\ \/ stripe'[s].state = stripe[s].state
                \/ stripe[s].state \in Visible /\ stripe'[s].state \in Visible
  <2>1. stripe \in [StripeId -> StripeRow]
    BY DEF FilesInv, TypeOK
  <2>2. stripe' = IF stripe[rd[x].sid].state = "gone" THEN stripe
                  ELSE [stripe EXCEPT ![rd[x].sid].state = "unrecoverable"]
    BY DEF ReadUnrecoverable
  <2> QED BY <2>1, <2>2, <1>3 DEF StripeRow, Visible
<1>5. \A s \in StripeId : QuietStripe(s)
  BY <1>2, <1>4 DEF QuietStripe
<1>6. ListsVisible'
  <2> DEFINE q == [rd[x] EXCEPT !.pc = "failed", !.todo = {}, !.sid = None,
                             !.at = IdleReader.at, !.tried = {}, !.got = {}]
  <2>1. q.todo = {} /\ q.sid = None
    BY <1>r DEF ReadState
  <2>2. SetR(x, q)
    BY DEF ReadUnrecoverable
  <2> HIDE DEF q
  <2> QED BY <2>1, <2>2, <1>4, SetRLists, NoneAssumption DEF Visible
<1> QED BY <1>1, <1>2, <1>5, <1>6, QuietFiles

LEMMA DiskFiles ==
  ASSUME FilesInv, NEW d \in Disk, DiskDown(d) \/ DiskUp(d) \/ HealthCheck(d)
  PROVE  FilesInv'
<1>1. TypeOK'
  BY DiskDownType, DiskUpType, HealthCheckType DEF FilesInv
<1>2. UNCHANGED <<object, stripe, shard, w, rd, files, phase, bootDoomed>>
  BY DEF DiskDown, DiskUp, HealthCheck, dbVars, bootVars
<1>3. ListsVisible'
  BY <1>2 DEF FilesInv, ListsVisible
<1> QED BY <1>1, <1>2, <1>3, StillFiles

(* Rows as they are: what a crash and the end of the start-up leave of the   *)
(* invariant is what the tables say.                                         *)
LEMMA IdleFiles ==
  ASSUME FilesInv, TypeOK', UNCHANGED <<object, stripe, shard, files>>,
         w' = [k \in Key |-> IdleWriter], ListsVisible',
         \A f \in bootDoomed' : f \in bootDoomed
  PROVE  FilesInv'
<1> USE DEF FilesInv
<1>1. \A k \in Key : w'[k].pc = "idle" /\ w'[k].doomed = {}
  BY IdleFields
<1>2. StartsAlone' /\ DoomedIsGone'
  BY <1>1 DEF StartsAlone, DoomedIsGone
<1>3. HoldsObject' /\ HoldsStripe' /\ ShardsSoFar'
  BY <1>1 DEF HoldsObject, HoldsStripe, ShardsSoFar, Writing
<1>4. OneRowPerKey' /\ StripesHaveObject'
  BY DEF OneRowPerKey, StripesHaveObject, KeyRow
<1>5. VisibleInPlace' /\ DistinctDisks' /\ Redundant'
  BY DEF VisibleInPlace, DistinctDisks, Redundant
<1> QED BY <1>2, <1>3, <1>4, <1>5

LEMMA CrashFiles ==
  ASSUME FilesInv, Crash
  PROVE  FilesInv'
<1>1. TypeOK'
  BY CrashType DEF FilesInv
<1>2. IdleReader.todo = {} /\ IdleReader.sid = None
  BY DEF IdleReader
<1>3. ListsVisible'
  BY <1>2, NoneAssumption DEF Crash, ListsVisible
<1> QED BY <1>1, <1>3, IdleFiles DEF Crash, dbVars

LEMMA BootServeFiles ==
  ASSUME FilesInv, BootServe
  PROVE  FilesInv'
<1>1. TypeOK'
  BY BootServeType DEF FilesInv
<1>2. ListsVisible'
  BY DEF BootServe, FilesInv, ListsVisible, dbVars
<1>3. w' = [k \in Key |-> IdleWriter]
  BY DEF BootServe, FilesInv, StartsAlone
<1> QED BY <1>1, <1>2, <1>3, IdleFiles DEF BootServe, dbVars


-----------------------------------------------------------------------------
(* Writers.  What the invariant says of the thread of one key.              *)
Holds(k) ==
  /\ w[k].pc \in Writing => object[w[k].obj].state = "pending" /\ KeyRow(k, w[k].obj)
  /\ w[k].pc = "delete" => w[k].obj \in ObjId /\ KeyRow(k, w[k].obj)
  /\ w[k].pc \in {"insert", "unlink"} => \A o \in ObjId : ~KeyRow(k, o)
  /\ w[k].pc \in {"shards", "giveup"} => /\ stripe[w[k].sid].state = "pending"
                                         /\ stripe[w[k].sid].obj = w[k].obj
  /\ w[k].pc = "shards" => \A i \in Shard :
       /\ w[k].rows[i].disk # None <=> w[k].rows[i].state \in {"ok", "todo"}
       /\ w[k].rows[i].state = "ok" => <<w[k].rows[i].disk, w[k].sid, i>> \in files
       /\ \A j \in Shard : i # j /\ w[k].rows[i].disk # None
                             => w[k].rows[i].disk # w[k].rows[j].disk
  /\ \A f \in w[k].doomed : stripe[f[2]].state = "gone"

LEMMA EachHolds ==
  (\A k \in Key : Holds(k)) /\ (\A f \in bootDoomed : stripe[f[2]].state = "gone")
    <=> HoldsObject /\ HoldsStripe /\ ShardsSoFar /\ DoomedIsGone
BY DEF Holds, HoldsObject, HoldsStripe, ShardsSoFar, DoomedIsGone

LEMMA FilesHolds ==
  ASSUME FilesInv, NEW k \in Key
  PROVE  Holds(k)
BY EachHolds DEF FilesInv

(* The stripe a thread writes carries the thread's key. *)
LEMMA OwnStripe ==
  ASSUME FilesInv, NEW k \in Key, w[k].pc \in {"shards", "giveup"}
  PROVE  /\ w[k].sid \in StripeId
         /\ w[k].obj \in ObjId
         /\ stripe[w[k].sid].state = "pending"
         /\ stripe[w[k].sid].obj = w[k].obj
         /\ stripe[w[k].sid].key = k
<1>1. w[k].sid \in StripeId /\ w[k].obj \in ObjId
  BY DEF FilesInv, TypeOK, WriterOK
<1>2. stripe[w[k].sid].state = "pending" /\ stripe[w[k].sid].obj = w[k].obj
  BY FilesHolds DEF Holds
<1>3. object[w[k].obj].key = k
  BY FilesHolds DEF Holds, KeyRow, Writing
<1> QED BY <1>1, <1>2, <1>3 DEF FilesInv, StripesHaveObject, Live

(* A step of the thread of k that leaves the rows of other keys alone.       *)
OnlyOf(k) ==
  /\ \A j \in Key : j # k => w'[j] = w[j]
  /\ \A o \in ObjId : \/ object'[o] = object[o]
                      \/ /\ object[o].state # "none" => object[o].key = k
                         /\ object'[o].state # "none" => object'[o].key = k
  /\ \A s \in StripeId : \/ stripe'[s] = stripe[s]
                         \/ /\ stripe[s].state # "gone"
                            /\ stripe[s].state = "pending" => stripe[s].key = k
                            /\ stripe[s].state \in Visible
                                 => stripe'[s].state \in Visible \cup {"gone"}
  /\ \A f \in files : \/ f \in files'
                      \/ stripe[f[2]].state = "pending" => stripe[f[2]].key = k

LEMMA OthersHold ==
  ASSUME FilesInv, NEW k \in Key, OnlyOf(k), NEW j \in Key, j # k
  PROVE  Holds(j)'
<1>1. Holds(j) /\ w'[j] = w[j]
  BY FilesHolds DEF OnlyOf
<1>2. \A o \in ObjId : KeyRow(j, o)' <=> KeyRow(j, o)
  BY DEF OnlyOf, KeyRow
<1>3. ASSUME w[j].pc \in Writing
      PROVE  w[j].obj \in ObjId /\ object'[w[j].obj] = object[w[j].obj]
  <2>1. w[j].obj \in ObjId
    BY <1>3 DEF FilesInv, TypeOK, WriterOK, Writing
  <2> QED BY <2>1, <1>1, <1>3 DEF Holds, KeyRow, OnlyOf
<1>4. ASSUME w[j].pc \in {"shards", "giveup"}
      PROVE  stripe'[w[j].sid] = stripe[w[j].sid]
  BY <1>4, OwnStripe DEF OnlyOf
<1>5. ASSUME w[j].pc = "shards", NEW i \in Shard, w[j].rows[i].state = "ok"
      PROVE  <<w[j].rows[i].disk, w[j].sid, i>> \in files'
  <2>1. <<w[j].rows[i].disk, w[j].sid, i>> \in files
    BY <1>1, <1>5 DEF Holds
  <2> QED BY <2>1, <1>5, OwnStripe DEF OnlyOf
<1>6. \A f \in w[j].doomed : stripe'[f[2]].state = "gone"
  <2>1. w[j].doomed \subseteq File
    BY DEF FilesInv, TypeOK, Writer
  <2>2. \A f \in File : f[2] \in StripeId
    BY DEF File
  <2> QED BY <2>1, <2>2, <1>1 DEF Holds, OnlyOf
<1> HIDE DEF OnlyOf
<1>7. /\ w[j].pc \in Writing => object'[w[j].obj].state = "pending" /\ KeyRow(j, w[j].obj)'
      /\ w[j].pc = "delete" => w[j].obj \in ObjId /\ KeyRow(j, w[j].obj)'
      /\ w[j].pc \in {"insert", "unlink"} => \A o \in ObjId : ~KeyRow(j, o)'
  BY <1>1, <1>2, <1>3 DEF Holds
<1>8. w[j].pc \in {"shards", "giveup"} => /\ stripe'[w[j].sid].state = "pending"
                                          /\ stripe'[w[j].sid].obj = w[j].obj
  BY <1>1, <1>4 DEF Holds
<1>9. w[j].pc = "shards" => \A i \in Shard :
       /\ w[j].rows[i].disk # None <=> w[j].rows[i].state \in {"ok", "todo"}
       /\ w[j].rows[i].state = "ok" => <<w[j].rows[i].disk, w[j].sid, i>> \in files'
       /\ \A m \in Shard : i # m /\ w[j].rows[i].disk # None
                             => w[j].rows[i].disk # w[j].rows[m].disk
  BY <1>1, <1>5 DEF Holds
<1> QED BY <1>1, <1>6, <1>7, <1>8, <1>9 DEF Holds

LEMMA WriterFiles ==
  ASSUME FilesInv, TypeOK', NEW k \in Key, OnlyOf(k), Holds(k)',
         Serving, UNCHANGED <<phase, bootDoomed>>,
         \A x \in Reader : rd'[x].todo = rd[x].todo /\ rd'[x].sid = rd[x].sid,
         OneRowPerKey', StripesHaveObject',
         VisibleInPlace', DistinctDisks', Redundant'
  PROVE  FilesInv'
<1>1. StartsAlone'
  BY DEF StartsAlone, Serving
<1>2. \A j \in Key : Holds(j)'
  BY OthersHold
<1>3. \A f \in bootDoomed : stripe'[f[2]].state = "gone"
  <2>1. bootDoomed \subseteq File
    BY DEF FilesInv, TypeOK
  <2>2. \A f \in File : f[2] \in StripeId
    BY DEF File
  <2> QED BY <2>1, <2>2 DEF FilesInv, DoomedIsGone, OnlyOf
<1>4. HoldsObject' /\ HoldsStripe' /\ ShardsSoFar' /\ DoomedIsGone'
  BY <1>2, <1>3 DEF Holds, HoldsObject, HoldsStripe, ShardsSoFar, DoomedIsGone
<1>5. ListsVisible'
  BY DEF ListsVisible, FilesInv, OnlyOf
<1> QED BY <1>1, <1>4, <1>5 DEF FilesInv

(* Steps of a thread that change no row. *)
LEMMA LocalFiles ==
  ASSUME FilesInv, TypeOK', NEW k \in Key, Holds(k)',
         Serving, UNCHANGED <<object, stripe, shard, rd, phase, bootDoomed>>,
         \A j \in Key : j # k => w'[j] = w[j],
         \A f \in files : \/ f \in files'
                          \/ /\ stripe[f[2]].state \notin Visible
                             /\ stripe[f[2]].state = "pending" => stripe[f[2]].key = k
  PROVE  FilesInv'
<1>1. OnlyOf(k)
  BY DEF OnlyOf
<1>2. OneRowPerKey' /\ StripesHaveObject'
  BY DEF FilesInv, OneRowPerKey, StripesHaveObject, KeyRow
<1>3. DistinctDisks' /\ Redundant'
  BY DEF FilesInv, DistinctDisks, Redundant
<1>4. VisibleInPlace'
  <2> SUFFICES ASSUME NEW s \in StripeId, NEW i \in Shard,
                      stripe[s].state \in Visible, shard[s][i].disk # None
               PROVE  <<shard[s][i].disk, s, i>> \in files'
    BY DEF VisibleInPlace
  <2>1. <<shard[s][i].disk, s, i>> \in files
    BY DEF FilesInv, VisibleInPlace
  <2> QED BY <2>1
<1> QED BY <1>1, <1>2, <1>3, <1>4, WriterFiles

(* A thread in the middle of a call: the server serves. *)
LEMMA BusyServes ==
  ASSUME FilesInv, NEW k \in Key, w[k].pc # "idle"
  PROVE  Serving
BY IdleFields DEF FilesInv, StartsAlone, Serving


(* A step between the parts of a call: only the thread's own record moves.   *)
LEMMA StepBetween ==
  ASSUME FilesInv, TypeOK', NEW k \in Key, NEW r, SetW(k, r), Serving,
         UNCHANGED <<object, stripe, shard, rd, files, phase, bootDoomed>>,
         r.pc \in {"idle", "insert", "delete"}, r.doomed = {},
         r.pc = "delete" => r.obj \in ObjId /\ KeyRow(k, r.obj),
         r.pc = "insert" => \A o \in ObjId : ~KeyRow(k, o)
  PROVE  FilesInv'
<1>1. w'[k] = r /\ \A j \in Key : j # k => w'[j] = w[j]
  BY SetWFun DEF FilesInv
<1>2. Holds(k)'
  BY <1>1 DEF Holds, Writing, KeyRow
<1> QED BY <1>1, <1>2, LocalFiles

LEMMA PutBeginFiles ==
  ASSUME FilesInv, NEW k \in Key, NEW n \in 1 .. MaxStripes, PutBegin(k, n)
  PROVE  FilesInv'
<1>1. TypeOK'
  BY PutBeginType DEF FilesInv
<1>2. Serving /\ UNCHANGED <<object, stripe, shard, rd, files, phase, bootDoomed>>
  BY DEF PutBegin, dbVars, bootVars
<1>3. ASSUME NEW o \in ObjId, KeyRow(k, o),
             SetW(k, [IdleWriter EXCEPT !.pc = "delete", !.then = "insert",
                                        !.len = n, !.obj = o])
      PROVE  FilesInv'
  <2> DEFINE q == [IdleWriter EXCEPT !.pc = "delete", !.then = "insert",
                                     !.len = n, !.obj = o]
  <2>1. q.pc = "delete" /\ q.obj = o /\ q.doomed = {}
    BY DEF IdleWriter
  <2>2. SetW(k, q)
    BY <1>3
  <2> HIDE DEF q
  <2> QED BY <1>1, <1>2, <1>3, <2>1, <2>2, StepBetween
<1>4. ASSUME \A o \in ObjId : ~KeyRow(k, o),
             SetW(k, [IdleWriter EXCEPT !.pc = "insert", !.len = n])
      PROVE  FilesInv'
  <2> DEFINE q == [IdleWriter EXCEPT !.pc = "insert", !.len = n]
  <2>1. q.pc = "insert" /\ q.doomed = {}
    BY DEF IdleWriter
  <2>2. SetW(k, q)
    BY <1>4
  <2> HIDE DEF q
  <2> QED BY <1>1, <1>2, <1>4, <2>1, <2>2, StepBetween
<1> QED BY <1>3, <1>4 DEF PutBegin

LEMMA DeleteBeginFiles ==
  ASSUME FilesInv, NEW k \in Key, DeleteBegin(k)
  PROVE  FilesInv'
<1>1. TypeOK'
  BY DeleteBeginType DEF FilesInv
<1>2. Serving /\ UNCHANGED <<object, stripe, shard, rd, files, phase, bootDoomed>>
  BY DEF DeleteBegin, dbVars, bootVars
<1>3. PICK o \in ObjId : /\ KeyRow(k, o)
                         /\ SetW(k, [IdleWriter EXCEPT !.pc = "delete", !.obj = o])
  BY DEF DeleteBegin
<1> DEFINE q == [IdleWriter EXCEPT !.pc = "delete", !.obj = o]
<1>4. q.pc = "delete" /\ q.obj = o /\ q.doomed = {}
  BY DEF IdleWriter
<1>5. SetW(k, q)
  BY <1>3
<1> HIDE DEF q
<1> QED BY <1>1, <1>2, <1>3, <1>4, <1>5, StepBetween

LEMMA PutRaisesFiles ==
  ASSUME FilesInv, NEW k \in Key, PutRaises(k)
  PROVE  FilesInv'
<1>1. TypeOK'
  BY PutRaisesType DEF FilesInv
<1>2. UNCHANGED <<object, stripe, shard, rd, files, phase, bootDoomed>>
  BY DEF PutRaises, dbVars, bootVars
<1>3. Serving
  BY BusyServes DEF PutRaises
<1>r. w[k] \in Writer /\ WriterOK(w[k]) /\ Holds(k)
  BY FilesHolds DEF FilesInv, TypeOK
<1>4. CASE SetW(k, IdleWriter)
  BY <1>1, <1>2, <1>3, <1>4, StepBetween, IdleFields
<1>5. CASE w[k].pc \in {"stripe", "shards", "giveup"}
           /\ SetW(k, [w[k] EXCEPT !.pc = "delete", !.sid = None, !.rows = NoRows])
  <2> DEFINE q == [w[k] EXCEPT !.pc = "delete", !.sid = None, !.rows = NoRows]
  <2>1. q.pc = "delete" /\ q.obj = w[k].obj /\ q.doomed = w[k].doomed
    BY <1>r DEF Writer
  <2>2. SetW(k, q)
    BY <1>5
  <2>3. w[k].obj \in ObjId /\ KeyRow(k, w[k].obj)
    BY <1>5, <1>r DEF Holds, WriterOK, Writing
  <2>4. w'[k] = q /\ \A j \in Key : j # k => w'[j] = w[j]
    BY <2>2, SetWFun DEF FilesInv
  <2> HIDE DEF q
  <2>5. Holds(k)'
    BY <1>r, <1>2, <2>1, <2>3, <2>4 DEF Holds, Writing, KeyRow
  <2> QED BY <1>1, <1>2, <1>3, <2>4, <2>5, LocalFiles
<1> QED BY <1>4, <1>5 DEF PutRaises

LEMMA DeleteRaisesFiles ==
  ASSUME FilesInv, NEW k \in Key, DeleteRaises(k)
  PROVE  FilesInv'
<1>1. TypeOK'
  BY DeleteRaisesType DEF FilesInv
<1>2. UNCHANGED <<object, stripe, shard, rd, files, phase, bootDoomed>>
  BY DEF DeleteRaises, dbVars, bootVars
<1>3. Serving
  BY BusyServes DEF DeleteRaises
<1> QED BY <1>1, <1>2, <1>3, StepBetween, IdleFields DEF DeleteRaises

LEMMA WriteShardFiles ==
  ASSUME FilesInv, NEW k \in Key, NEW i \in Shard, WriteShard(k, i)
  PROVE  FilesInv'
<1>1. TypeOK'
  BY WriteShardType DEF FilesInv
<1>2. UNCHANGED <<object, stripe, shard, rd, phase, bootDoomed>>
  BY DEF WriteShard, dbVars, bootVars
<1>3. Serving
  BY BusyServes DEF WriteShard, NextShard
<1>r. w[k] \in Writer /\ Holds(k) /\ w[k].pc = "shards"
  BY FilesHolds DEF FilesInv, TypeOK, WriteShard, NextShard
<1>4. w' = [w EXCEPT ![k].rows[i].state = "ok"]
  BY DEF WriteShard
<1>5. /\ \A j \in Key : j # k => w'[j] = w[j]
      /\ w'[k].pc = "shards" /\ w'[k].obj = w[k].obj /\ w'[k].sid = w[k].sid
      /\ w'[k].doomed = w[k].doomed
  BY <1>r, <1>4 DEF FilesInv, TypeOK, Writer, ShardRow
<1>s. \A j \in Shard : /\ w'[k].rows[j].disk = w[k].rows[j].disk
                       /\ w'[k].rows[j].state = IF j = i THEN "ok" ELSE w[k].rows[j].state
  BY <1>r, <1>4 DEF FilesInv, TypeOK, Writer, ShardRow
<1>6. files' = files \cup {<<w[k].rows[i].disk, w[k].sid, i>>}
  BY DEF WriteShard
<1>7. w[k].rows[i].state = "todo"
  BY DEF WriteShard, NextShard
<1>8. Holds(k)'
  <2> HIDE DEF WriteShard
  <2>1. \A m \in Shard :
       /\ w'[k].rows[m].disk # None <=> w'[k].rows[m].state \in {"ok", "todo"}
       /\ w'[k].rows[m].state = "ok" => <<w'[k].rows[m].disk, w'[k].sid, m>> \in files'
       /\ \A j \in Shard : m # j /\ w'[k].rows[m].disk # None
                             => w'[k].rows[m].disk # w'[k].rows[j].disk
    BY <1>r, <1>5, <1>s, <1>6, <1>7 DEF Holds
  <2>2. /\ w'[k].pc \in Writing => object'[w'[k].obj].state = "pending" /\ KeyRow(k, w[k].obj)'
        /\ stripe'[w'[k].sid].state = "pending" /\ stripe'[w'[k].sid].obj = w'[k].obj
    BY <1>r, <1>2, <1>5 DEF Holds, KeyRow, Writing
  <2>3. \A f \in w'[k].doomed : stripe'[f[2]].state = "gone"
    BY <1>r, <1>2, <1>5 DEF Holds
  <2> QED BY <1>5, <2>1, <2>2, <2>3 DEF Holds
<1> QED BY <1>1, <1>2, <1>3, <1>5, <1>6, <1>8, LocalFiles

LEMMA WriteShardFailsFiles ==
  ASSUME FilesInv, NEW k \in Key, NEW i \in Shard, WriteShardFails(k, i)
  PROVE  FilesInv'
<1>1. TypeOK'
  BY WriteShardFailsType DEF FilesInv
<1>2. UNCHANGED <<object, stripe, shard, rd, phase, bootDoomed>>
  BY DEF WriteShardFails, dbVars, bootVars
<1>3. Serving
  BY BusyServes DEF WriteShardFails, NextShard
<1>r. w[k] \in Writer /\ Holds(k) /\ w[k].pc = "shards"
  BY FilesHolds DEF FilesInv, TypeOK, WriteShardFails, NextShard
<1>4. w' = [w EXCEPT ![k].rows[i] = LostRow(w[k].rows[i].disk)]
  BY DEF WriteShardFails
<1>5. /\ \A j \in Key : j # k => w'[j] = w[j]
      /\ w'[k].pc = "shards" /\ w'[k].obj = w[k].obj /\ w'[k].sid = w[k].sid
      /\ w'[k].doomed = w[k].doomed
  BY <1>r, <1>4 DEF FilesInv, TypeOK, Writer, LostRow
<1>s. \A j \in Shard :
        w'[k].rows[j] = IF j = i THEN [disk |-> None, state |-> "missing"] ELSE w[k].rows[j]
  BY <1>r, <1>4 DEF FilesInv, TypeOK, Writer, LostRow
<1>6. files \subseteq files'
  BY DEF WriteShardFails
<1>8. Holds(k)'
  <2> HIDE DEF WriteShardFails
  <2>1. \A m \in Shard :
       /\ w'[k].rows[m].disk # None <=> w'[k].rows[m].state \in {"ok", "todo"}
       /\ w'[k].rows[m].state = "ok" => <<w'[k].rows[m].disk, w'[k].sid, m>> \in files'
       /\ \A j \in Shard : m # j /\ w'[k].rows[m].disk # None
                             => w'[k].rows[m].disk # w'[k].rows[j].disk
    BY <1>r, <1>5, <1>s, <1>6 DEF Holds
  <2>2. /\ w'[k].pc \in Writing => object'[w'[k].obj].state = "pending" /\ KeyRow(k, w[k].obj)'
        /\ stripe'[w'[k].sid].state = "pending" /\ stripe'[w'[k].sid].obj = w'[k].obj
    BY <1>r, <1>2, <1>5 DEF Holds, KeyRow, Writing
  <2>3. \A f \in w'[k].doomed : stripe'[f[2]].state = "gone"
    BY <1>r, <1>2, <1>5 DEF Holds
  <2> QED BY <1>5, <2>1, <2>2, <2>3 DEF Holds
<1> QED BY <1>1, <1>2, <1>3, <1>5, <1>6, <1>8, LocalFiles

LEMMA StripeGiveUpFiles ==
  ASSUME FilesInv, NEW k \in Key, StripeGiveUp(k)
  PROVE  FilesInv'
<1>1. TypeOK'
  BY StripeGiveUpType DEF FilesInv
<1>2. UNCHANGED <<object, stripe, shard, rd, phase, bootDoomed>>
  BY DEF StripeGiveUp, dbVars, bootVars
<1>3. w[k].pc = "shards" /\ Serving
  BY BusyServes DEF StripeGiveUp, AllTried
<1>r. w[k] \in Writer /\ Holds(k)
  BY FilesHolds DEF FilesInv, TypeOK
<1> DEFINE q == [w[k] EXCEPT !.pc = "giveup", !.rows = NoRows]
<1>4. q.pc = "giveup" /\ q.obj = w[k].obj /\ q.sid = w[k].sid /\ q.doomed = w[k].doomed
  BY <1>r DEF Writer
<1>5. SetW(k, q)
  BY DEF StripeGiveUp
<1>6. w'[k] = q /\ \A j \in Key : j # k => w'[j] = w[j]
  BY <1>5, SetWFun DEF FilesInv
<1>7. \A f \in files : f \in files' \/ f[2] = w[k].sid
  BY DEF StripeGiveUp, Unlinked
<1> HIDE DEF q
<1>8. Holds(k)'
  BY <1>r, <1>2, <1>3, <1>4, <1>6 DEF Holds, Writing, KeyRow
<1>9. stripe[w[k].sid].state \notin Visible /\ stripe[w[k].sid].key = k
  BY <1>3, OwnStripe DEF Visible
<1> QED BY <1>1, <1>2, <1>3, <1>6, <1>7, <1>8, <1>9, LocalFiles

LEMMA UnlinkFiles ==
  ASSUME FilesInv, NEW k \in Key, Unlink(k)
  PROVE  FilesInv'
<1>1. TypeOK'
  BY UnlinkType DEF FilesInv
<1>2. UNCHANGED <<object, stripe, shard, rd, phase, bootDoomed>>
  BY DEF Unlink, dbVars, bootVars
<1>3. w[k].pc = "unlink" /\ Serving
  BY BusyServes DEF Unlink
<1>r. w[k] \in Writer /\ Holds(k)
  BY FilesHolds DEF FilesInv, TypeOK
<1>4. PICK s \in StripeId :
        LET F == {f \in w[k].doomed : f[2] = s} IN
        /\ files' = Unlinked(F)
        /\ SetW(k, IF StillDoomed(w[k].doomed, F) # {}
                   THEN [w[k] EXCEPT !.doomed = StillDoomed(@, F)]
                   ELSE IF w[k].then = "insert"
                   THEN [IdleWriter EXCEPT !.pc = "insert", !.len = w[k].len]
                   ELSE IdleWriter)
  BY DEF Unlink
<1> DEFINE F == {f \in w[k].doomed : f[2] = s}
           q == IF StillDoomed(w[k].doomed, F) # {}
                THEN [w[k] EXCEPT !.doomed = StillDoomed(@, F)]
                ELSE IF w[k].then = "insert"
                THEN [IdleWriter EXCEPT !.pc = "insert", !.len = w[k].len]
                ELSE IdleWriter
<1>5. SetW(k, q) /\ files' = Unlinked(F)
  BY <1>4
<1>6. q.pc \in {"idle", "insert", "unlink"} /\ q.doomed \subseteq w[k].doomed
  BY <1>r, <1>3, IdleFields DEF Writer, IdleWriter, StillDoomed
<1>7. w'[k] = q /\ \A j \in Key : j # k => w'[j] = w[j]
  BY <1>5, SetWFun DEF FilesInv
<1>8. \A f \in files : f \in files' \/ stripe[f[2]].state = "gone"
  BY <1>5, <1>r DEF Unlinked, Holds
<1> HIDE DEF q, F
<1>9. Holds(k)'
  BY <1>r, <1>2, <1>3, <1>6, <1>7 DEF Holds, Writing, KeyRow
<1> QED BY <1>1, <1>2, <1>3, <1>7, <1>8, <1>9, LocalFiles DEF Visible


-----------------------------------------------------------------------------
(* Steps that change rows.                                                   *)
LEMMA PutInsertFiles ==
  ASSUME FilesInv, NEW k \in Key, PutInsert(k)
  PROVE  FilesInv'
<1>1. TypeOK'
  BY PutInsertType DEF FilesInv
<1>2. UNCHANGED <<stripe, shard, rd, files, phase, bootDoomed>>
  BY DEF PutInsert, bootVars
<1>3. w[k].pc = "insert" /\ Serving
  BY BusyServes DEF PutInsert
<1>r. w[k] \in Writer /\ Holds(k)
  BY FilesHolds DEF FilesInv, TypeOK
<1>4. PICK o \in ObjId :
        /\ object[o].state = "none"
        /\ object' = [object EXCEPT ![o] = [state |-> "pending", key |-> k, size |-> 0]]
        /\ SetW(k, [w[k] EXCEPT !.pc = "stripe", !.obj = o])
  BY DEF PutInsert, IsNextRowId
<1> DEFINE q == [w[k] EXCEPT !.pc = "stripe", !.obj = o]
<1>5. q.pc = "stripe" /\ q.obj = o /\ q.doomed = w[k].doomed
  BY <1>r DEF Writer
<1>6. w'[k] = q /\ \A j \in Key : j # k => w'[j] = w[j]
  BY <1>4, SetWFun DEF FilesInv
<1> HIDE DEF q
<1>7. /\ object'[o].state = "pending" /\ object'[o].key = k
      /\ \A p \in ObjId : p # o => object'[p] = object[p]
  BY <1>4 DEF FilesInv, TypeOK
<1>8. Holds(k)'
  BY <1>r, <1>2, <1>5, <1>6, <1>7 DEF Holds, Writing, KeyRow
<1>9. OnlyOf(k)
  BY <1>2, <1>4, <1>6, <1>7 DEF OnlyOf
<1>10. OneRowPerKey'
  BY <1>r, <1>3, <1>7 DEF FilesInv, OneRowPerKey, KeyRow, Holds
<1>11. StripesHaveObject'
  BY <1>2, <1>4, <1>7 DEF FilesInv, StripesHaveObject
<1>12. VisibleInPlace' /\ DistinctDisks' /\ Redundant'
  BY <1>2 DEF FilesInv, VisibleInPlace, DistinctDisks, Redundant
<1> QED BY <1>1, <1>2, <1>3, <1>8, <1>9, <1>10, <1>11, <1>12, WriterFiles

LEMMA StripeBeginFiles ==
  ASSUME FilesInv, NEW k \in Key, StripeBegin(k)
  PROVE  FilesInv'
<1>1. TypeOK'
  BY StripeBeginType DEF FilesInv
<1>2. UNCHANGED <<object, shard, rd, files, phase, bootDoomed>>
  BY DEF StripeBegin, bootVars
<1>3. w[k].pc = "stripe" /\ Serving
  BY BusyServes DEF StripeBegin
<1>r. w[k] \in Writer /\ WriterOK(w[k]) /\ Holds(k)
  BY FilesHolds DEF FilesInv, TypeOK
<1>4. PICK s \in StripeId, p \in Placement :
        /\ stripe[s].state = "none"
        /\ stripe' = [stripe EXCEPT ![s] =
                        [state |-> "pending", obj |-> w[k].obj, key |-> k,
                         seq |-> w[k].seq]]
        /\ SetW(k, [w[k] EXCEPT
                      !.pc = "shards", !.sid = s,
                      !.rows = [i \in Shard |->
                                  [disk |-> p[i],
                                   state |-> IF p[i] = None THEN "missing"
                                                            ELSE "todo"]]])
  BY DEF StripeBegin
<1> DEFINE rows == [i \in Shard |-> [disk |-> p[i],
                                     state |-> IF p[i] = None THEN "missing"
                                                              ELSE "todo"]]
           q == [w[k] EXCEPT !.pc = "shards", !.sid = s, !.rows = rows]
<1>5. q.pc = "shards" /\ q.obj = w[k].obj /\ q.sid = s /\ q.rows = rows
      /\ q.doomed = w[k].doomed
  BY <1>r DEF Writer
<1>6. w'[k] = q /\ \A j \in Key : j # k => w'[j] = w[j]
  BY <1>4, SetWFun DEF FilesInv
<1>7. \A i \in Shard :
        /\ rows[i].disk # None <=> rows[i].state \in {"ok", "todo"}
        /\ rows[i].state # "ok"
        /\ \A j \in Shard : i # j /\ rows[i].disk # None => rows[i].disk # rows[j].disk
  BY PlacementIs
<1> HIDE DEF q, rows
<1>8. /\ stripe'[s].state = "pending" /\ stripe'[s].obj = w[k].obj /\ stripe'[s].key = k
      /\ \A t \in StripeId : t # s => stripe'[t] = stripe[t]
  BY <1>4 DEF FilesInv, TypeOK
<1>o. w[k].obj \in ObjId /\ object[w[k].obj].state = "pending" /\ object[w[k].obj].key = k
  BY <1>3, <1>r DEF WriterOK, Holds, Writing, KeyRow
<1>9. \A f \in w[k].doomed : stripe'[f[2]].state = "gone"
  <2>1. \A f \in w[k].doomed : f[2] \in StripeId
    BY <1>r DEF Writer, File
  <2> QED BY <2>1, <1>4, <1>8, <1>r DEF Holds
<1>10. Holds(k)'
  <2>1. w'[k].pc \in Writing => object'[w'[k].obj].state = "pending" /\ KeyRow(k, w[k].obj)'
    BY <1>2, <1>5, <1>6, <1>o DEF KeyRow
  <2>2. stripe'[w'[k].sid].state = "pending" /\ stripe'[w'[k].sid].obj = w'[k].obj
    BY <1>5, <1>6, <1>8
  <2> QED BY <2>1, <2>2, <1>5, <1>6, <1>7, <1>9 DEF Holds
<1>11. OnlyOf(k)
  BY <1>2, <1>4, <1>6, <1>8 DEF OnlyOf, Visible
<1>12. OneRowPerKey'
  BY <1>2 DEF FilesInv, OneRowPerKey, KeyRow
<1>13. StripesHaveObject'
  BY <1>2, <1>8, <1>o DEF FilesInv, StripesHaveObject
<1>14. VisibleInPlace' /\ DistinctDisks'
  BY <1>2, <1>4, <1>8 DEF FilesInv, VisibleInPlace, DistinctDisks, Visible
<1>15. Redundant'
  BY <1>2, <1>8 DEF FilesInv, Redundant
<1> QED BY <1>1, <1>2, <1>3, <1>10, <1>11, <1>12, <1>13, <1>14, <1>15, WriterFiles

LEMMA StripeCommitFiles ==
  ASSUME FilesInv, NEW k \in Key, StripeCommit(k)
  PROVE  FilesInv'
<1>1. TypeOK'
  BY StripeCommitType DEF FilesInv
<1>2. UNCHANGED <<object, rd, files, phase, bootDoomed>>
  BY DEF StripeCommit, bootVars
<1>3. w[k].pc = "shards" /\ Serving
  BY BusyServes DEF StripeCommit, AllTried
<1>r. w[k] \in Writer /\ Holds(k)
  BY FilesHolds DEF FilesInv, TypeOK
<1> DEFINE s == w[k].sid
           q == [w[k] EXCEPT !.pc = "stripe", !.seq = @ + 1, !.sid = None, !.rows = NoRows]
<1>o. /\ s \in StripeId /\ stripe[s].state = "pending"
      /\ stripe[s].obj = w[k].obj /\ stripe[s].key = k /\ w[k].obj \in ObjId
  BY <1>3, OwnStripe
<1>5. q.pc = "stripe" /\ q.obj = w[k].obj /\ q.doomed = w[k].doomed
  BY <1>r DEF Writer
<1>6. w'[k] = q /\ \A j \in Key : j # k => w'[j] = w[j]
  BY SetWFun DEF FilesInv, StripeCommit
<1>7. /\ shard'[s] = w[k].rows
      /\ \A t \in StripeId : t # s => shard'[t] = shard[t]
  BY <1>o DEF StripeCommit, FilesInv, TypeOK
<1>8. /\ stripe'[s].state = "committed" /\ stripe'[s].obj = stripe[s].obj /\ stripe'[s].key = stripe[s].key
      /\ \A t \in StripeId : t # s => stripe'[t] = stripe[t]
  BY <1>o DEF StripeCommit, FilesInv, TypeOK, StripeRow
<1>9. \A i \in Shard :
        /\ w[k].rows[i].disk # None <=> i \in Landed(k)
        /\ i \in Landed(k) => <<w[k].rows[i].disk, s, i>> \in files
        /\ \A j \in Shard : i # j /\ w[k].rows[i].disk # None
                              => w[k].rows[i].disk # w[k].rows[j].disk
  BY <1>r, <1>3 DEF Holds, Landed, StripeCommit, AllTried
<1>10. Cardinality({i \in Shard : w[k].rows[i].disk # None}) >= Need
  <2>1. {i \in Shard : w[k].rows[i].disk # None} = Landed(k)
    BY <1>9 DEF Landed
  <2> QED BY <2>1 DEF StripeCommit
<1> HIDE DEF q, s
<1>11. Holds(k)'
  <2>1. \A f \in w[k].doomed : f[2] \in StripeId
    BY <1>r DEF Writer, File
  <2>2. \A f \in w[k].doomed : stripe'[f[2]].state = "gone"
    BY <2>1, <1>o, <1>8, <1>r DEF Holds
  <2>3. object[w[k].obj].state = "pending" /\ KeyRow(k, w[k].obj)
    BY <1>r, <1>3 DEF Holds, Writing
  <2> QED BY <2>2, <2>3, <1>2, <1>5, <1>6 DEF Holds, KeyRow
<1>12. OnlyOf(k)
  BY <1>2, <1>o, <1>6, <1>8 DEF OnlyOf, Visible
<1>13. OneRowPerKey'
  BY <1>2 DEF FilesInv, OneRowPerKey, KeyRow
<1>14. StripesHaveObject'
  <2>1. object[stripe[s].obj].state # "none" /\ stripe[s].key = object[stripe[s].obj].key
    BY <1>o DEF FilesInv, StripesHaveObject, Live
  <2> QED BY <2>1, <1>2, <1>o, <1>8 DEF FilesInv, StripesHaveObject
<1>16. VisibleInPlace'
  BY <1>2, <1>7, <1>8, <1>9 DEF FilesInv, VisibleInPlace
<1>17. DistinctDisks'
  <2> SUFFICES ASSUME NEW t \in StripeId, NEW i \in Shard, NEW j \in Shard,
                      i # j, shard'[t][i].disk # None
               PROVE  shard'[t][i].disk # shard'[t][j].disk
    BY DEF DistinctDisks
  <2>1. CASE t = s
    BY <2>1, <1>7, <1>9
  <2>2. CASE t # s
    BY <2>2, <1>7 DEF FilesInv, DistinctDisks
  <2> QED BY <2>1, <2>2
<1>18. Redundant'
  <2> SUFFICES ASSUME NEW t \in StripeId, stripe'[t].state \in {"committed", "unrecoverable"}
               PROVE  LET placed == Cardinality({i \in Shard : shard'[t][i].disk # None}) IN
                      placed >= K + MinWriteExtra \/ placed >= K + M
    BY DEF Redundant
  <2>1. CASE t = s
    BY <2>1, <1>7, <1>10 DEF Need
  <2>2. CASE t # s
    BY <2>2, <1>7, <1>8 DEF FilesInv, Redundant
  <2> QED BY <2>1, <2>2
<1> QED BY <1>1, <1>2, <1>3, <1>11, <1>12, <1>13, <1>14, <1>16, <1>17, <1>18, WriterFiles

LEMMA PutCommitFiles ==
  ASSUME FilesInv, NEW k \in Key, PutCommit(k)
  PROVE  FilesInv'
<1>1. TypeOK'
  BY PutCommitType DEF FilesInv
<1>2. UNCHANGED <<stripe, shard, rd, files, phase, bootDoomed>>
  BY DEF PutCommit, bootVars
<1>3. w[k].pc = "stripe" /\ Serving
  BY BusyServes DEF PutCommit
<1>r. WriterOK(w[k]) /\ Holds(k)
  BY FilesHolds DEF FilesInv, TypeOK
<1>o. w[k].obj \in ObjId /\ object[w[k].obj].state = "pending" /\ object[w[k].obj].key = k
  BY <1>3, <1>r DEF WriterOK, Holds, Writing, KeyRow
<1>4. /\ object'[w[k].obj].state = "committed" /\ object'[w[k].obj].key = k
      /\ \A p \in ObjId : p # w[k].obj => object'[p] = object[p]
  BY <1>o DEF PutCommit, FilesInv, TypeOK, ObjectRow
<1>5. w'[k] = IdleWriter /\ \A j \in Key : j # k => w'[j] = w[j]
  BY SetWFun DEF FilesInv, PutCommit
<1>6. Holds(k)'
  BY <1>5, IdleFields DEF Holds, Writing
<1>7. OnlyOf(k)
  BY <1>2, <1>4, <1>5, <1>o DEF OnlyOf
<1>8. OneRowPerKey'
  BY <1>4, <1>o DEF FilesInv, OneRowPerKey, KeyRow
<1>9. StripesHaveObject'
  BY <1>2, <1>4, <1>o DEF FilesInv, StripesHaveObject
<1>10. VisibleInPlace' /\ DistinctDisks' /\ Redundant'
  BY <1>2 DEF FilesInv, VisibleInPlace, DistinctDisks, Redundant
<1> QED BY <1>1, <1>2, <1>3, <1>6, <1>7, <1>8, <1>9, <1>10, WriterFiles


(* Deleting stripe rows, the shard rows with them, disturbs no other stripe. *)
LEMMA DropRows ==
  ASSUME FilesInv, NEW S, DropStripes(S), UNCHANGED files
  PROVE  /\ \A s \in StripeId :
              /\ stripe'[s].obj = stripe[s].obj
              /\ stripe'[s].key = stripe[s].key
              /\ s \in S => stripe'[s].state = "gone"
              /\ s \notin S => stripe'[s] = stripe[s]
         /\ VisibleInPlace' /\ DistinctDisks' /\ Redundant'
<1>1. \A s \in StripeId :
        /\ stripe'[s].obj = stripe[s].obj
        /\ stripe'[s].key = stripe[s].key
        /\ s \in S => stripe'[s].state = "gone"
        /\ s \notin S => stripe'[s] = stripe[s]
  BY DEF DropStripes, FilesInv, TypeOK, StripeRow
<1>2. \A s \in StripeId : shard'[s] = IF s \in S THEN NoRows ELSE shard[s]
  BY DEF DropStripes
<1>4. VisibleInPlace' /\ DistinctDisks'
  BY <1>1, <1>2, IdleFields DEF FilesInv, VisibleInPlace, DistinctDisks
<1>5. Redundant'
  <2> SUFFICES ASSUME NEW t \in StripeId, stripe'[t].state \in {"committed", "unrecoverable"}
               PROVE  LET placed == Cardinality({i \in Shard : shard'[t][i].disk # None}) IN
                      placed >= K + MinWriteExtra \/ placed >= K + M
    BY DEF Redundant
  <2>1. t \notin S /\ stripe'[t] = stripe[t] /\ shard'[t] = shard[t]
    BY <1>1, <1>2
  <2> QED BY <2>1 DEF FilesInv, Redundant
<1> QED BY <1>1, <1>4, <1>5

(* The stripes of an object, dropped together with it, leave no stripe       *)
(* without an object.                                                        *)
LEMMA DropObject ==
  ASSUME FilesInv, NEW o \in ObjId, DropStripes(StripesOf(o)), UNCHANGED files,
         object' = [object EXCEPT ![o] = NoObject]
  PROVE  OneRowPerKey' /\ StripesHaveObject'
<1>1. /\ object'[o].state = "none"
      /\ \A p \in ObjId : p # o => object'[p] = object[p]
  BY DEF FilesInv, TypeOK, NoObject
<1>2. OneRowPerKey'
  BY <1>1 DEF FilesInv, OneRowPerKey, KeyRow
<1>3. ASSUME NEW s \in StripeId, stripe'[s].state \in Live
      PROVE  stripe'[s] = stripe[s] /\ stripe[s].obj # o
  BY <1>3, DropRows DEF StripesOf, Live, Visible
<1>4. StripesHaveObject'
  BY <1>1, <1>3 DEF FilesInv, StripesHaveObject
<1> QED BY <1>2, <1>4

LEMMA StripeDropFiles ==
  ASSUME FilesInv, NEW k \in Key, StripeDrop(k)
  PROVE  FilesInv'
<1>1. TypeOK'
  BY StripeDropType DEF FilesInv
<1>2. UNCHANGED <<object, rd, files, phase, bootDoomed>> /\ DropStripes({w[k].sid})
  BY DEF StripeDrop, bootVars
<1>3. w[k].pc = "giveup" /\ Serving
  BY BusyServes DEF StripeDrop
<1>r. w[k] \in Writer /\ Holds(k)
  BY FilesHolds DEF FilesInv, TypeOK
<1> DEFINE q == [w[k] EXCEPT !.pc = "delete", !.sid = None]
<1>5. q.pc = "delete" /\ q.obj = w[k].obj /\ q.doomed = w[k].doomed
  BY <1>r DEF Writer
<1>6. w'[k] = q /\ \A j \in Key : j # k => w'[j] = w[j]
  BY SetWFun DEF FilesInv, StripeDrop
<1> HIDE DEF q
<1>o. /\ w[k].sid \in StripeId /\ stripe[w[k].sid].state = "pending"
      /\ stripe[w[k].sid].key = k /\ w[k].obj \in ObjId
  BY <1>3, OwnStripe
<1>7. \A s \in StripeId : IF s = w[k].sid THEN stripe'[s].state = "gone"
                                         ELSE stripe'[s] = stripe[s]
  BY <1>2, DropRows
<1>8. Holds(k)'
  <2>1. \A f \in w[k].doomed : f[2] \in StripeId
    BY <1>r DEF Writer, File
  <2>2. \A f \in w[k].doomed : stripe'[f[2]].state = "gone"
    BY <2>1, <1>7, <1>r DEF Holds
  <2>3. KeyRow(k, w[k].obj)
    BY <1>r, <1>3 DEF Holds, Writing
  <2> QED BY <2>2, <2>3, <1>2, <1>o, <1>5, <1>6 DEF Holds, KeyRow, Writing
<1>9. OnlyOf(k)
  BY <1>2, <1>o, <1>6, <1>7 DEF OnlyOf, Visible
<1>10. OneRowPerKey'
  BY <1>2 DEF FilesInv, OneRowPerKey, KeyRow
<1>11. StripesHaveObject'
  BY <1>2, <1>7 DEF FilesInv, StripesHaveObject, Live
<1>12. VisibleInPlace' /\ DistinctDisks' /\ Redundant'
  BY <1>2, DropRows
<1> QED BY <1>1, <1>2, <1>3, <1>8, <1>9, <1>10, <1>11, <1>12, WriterFiles

LEMMA DeleteRowsFiles ==
  ASSUME FilesInv, NEW k \in Key, DeleteRows(k)
  PROVE  FilesInv'
<1> DEFINE o == w[k].obj
           S == StripesOf(o)
           F == RowFiles(S)
           q == IF F # {} THEN [w[k] EXCEPT !.pc = "unlink", !.doomed = F]
                ELSE IF w[k].then = "insert"
                THEN [IdleWriter EXCEPT !.pc = "insert", !.len = w[k].len]
                ELSE IdleWriter
<1>1. TypeOK'
  BY DeleteRowsType DEF FilesInv
<1>2. /\ UNCHANGED <<files, phase, bootDoomed>> /\ DropStripes(S)
      /\ object' = [object EXCEPT ![o] = NoObject] /\ Disturb(o) /\ SetW(k, q)
  BY DEF DeleteRows, bootVars
<1>3. w[k].pc = "delete" /\ Serving
  BY BusyServes DEF DeleteRows
<1>r. w[k] \in Writer /\ Holds(k)
  BY FilesHolds DEF FilesInv, TypeOK
<1>o. o \in ObjId /\ KeyRow(k, o)
  BY <1>3, <1>r DEF Holds
<1>5. q.pc \in {"idle", "insert", "unlink"} /\ q.doomed \subseteq F
  BY <1>r, IdleFields DEF Writer, IdleWriter
<1>6. w'[k] = q /\ \A j \in Key : j # k => w'[j] = w[j]
  BY <1>2, SetWFun DEF FilesInv
<1>7. \A f \in F : f[2] \in S /\ f[2] \in StripeId
  BY DEF RowFiles, StripesOf
<1>8. \A s \in S : s \in StripeId /\ stripe[s].obj = o /\ stripe[s].state \in Visible \cup {"pending"}
  BY DEF StripesOf
<1>9. \A x \in Reader : rd'[x].todo = rd[x].todo /\ rd'[x].sid = rd[x].sid
  BY <1>2 DEF Disturb, FilesInv, TypeOK, ReadState
<1> HIDE DEF q, F, S, o
<1>10. \A s \in StripeId : IF s \in S THEN stripe'[s].state = "gone"
                                      ELSE stripe'[s] = stripe[s]
  BY <1>2, DropRows
<1>11. /\ object'[o].state = "none"
       /\ \A p \in ObjId : p # o => object'[p] = object[p]
  BY <1>2, <1>o DEF FilesInv, TypeOK, NoObject
<1>12. Holds(k)'
  <2>1. \A f \in w'[k].doomed : stripe'[f[2]].state = "gone"
    BY <1>5, <1>6, <1>7, <1>10
  <2>2. \A p \in ObjId : ~KeyRow(k, p)'
    BY <1>o, <1>11 DEF FilesInv, OneRowPerKey, KeyRow
  <2> QED BY <2>1, <2>2, <1>5, <1>6 DEF Holds, Writing
<1>13. OnlyOf(k)
  <2>1. \A s \in S : stripe[s].state = "pending" => stripe[s].key = k
    BY <1>8, <1>o DEF FilesInv, StripesHaveObject, Live, KeyRow
  <2> QED BY <2>1, <1>2, <1>o, <1>6, <1>8, <1>10, <1>11 DEF OnlyOf, Visible, KeyRow
<1>14. OneRowPerKey' /\ StripesHaveObject'
  BY <1>2, <1>o, DropObject DEF S
<1>15. VisibleInPlace' /\ DistinctDisks' /\ Redundant'
  BY <1>2, DropRows
<1> QED BY <1>1, <1>2, <1>3, <1>9, <1>12, <1>13, <1>14, <1>15, WriterFiles

-----------------------------------------------------------------------------
(* The start-up: no thread runs, so the tables say it all.                   *)
LEMMA BootFiles ==
  ASSUME FilesInv, TypeOK', phase # "serving", UNCHANGED <<w, rd>>,
         \A s \in StripeId : stripe[s].state \in Visible \cup {"gone"}
                              => stripe'[s].state \in Visible \cup {"gone"},
         \A f \in bootDoomed' : stripe'[f[2]].state = "gone",
         OneRowPerKey', StripesHaveObject', VisibleInPlace', DistinctDisks', Redundant'
  PROVE  FilesInv'
<1>0. w = [k \in Key |-> IdleWriter]
  BY DEF FilesInv, StartsAlone
<1>1. \A k \in Key : w'[k].pc = "idle" /\ w'[k].doomed = {}
  BY <1>0, IdleFields
<1>2. StartsAlone' /\ DoomedIsGone'
  BY <1>0, <1>1 DEF StartsAlone, DoomedIsGone
<1>3. HoldsObject' /\ HoldsStripe' /\ ShardsSoFar'
  BY <1>1 DEF HoldsObject, HoldsStripe, ShardsSoFar, Writing
<1>4. ListsVisible'
  BY DEF FilesInv, ListsVisible
<1> QED BY <1>2, <1>3, <1>4 DEF FilesInv

(* It unlinks files of stripes that no reader may list. *)
LEMMA BootUnlinks ==
  ASSUME FilesInv, TypeOK', phase # "serving", UNCHANGED <<w, rd, object, stripe, shard>>,
         \A f \in files : f \in files' \/ stripe[f[2]].state \notin Visible,
         \A f \in bootDoomed' : f \in bootDoomed
  PROVE  FilesInv'
<1>1. OneRowPerKey' /\ StripesHaveObject'
  BY DEF FilesInv, OneRowPerKey, StripesHaveObject, KeyRow
<1>2. DistinctDisks' /\ Redundant'
  BY DEF FilesInv, DistinctDisks, Redundant
<1>3. VisibleInPlace'
  <2> SUFFICES ASSUME NEW s \in StripeId, NEW i \in Shard,
                      stripe[s].state \in Visible, shard[s][i].disk # None
               PROVE  <<shard[s][i].disk, s, i>> \in files'
    BY DEF VisibleInPlace
  <2>1. <<shard[s][i].disk, s, i>> \in files
    BY DEF FilesInv, VisibleInPlace
  <2> QED BY <2>1
<1>4. \A f \in bootDoomed' : stripe'[f[2]].state = "gone"
  BY DEF FilesInv, DoomedIsGone
<1> QED BY <1>1, <1>2, <1>3, <1>4, BootFiles

LEMMA BootSweepFiles ==
  ASSUME FilesInv, BootSweep
  PROVE  FilesInv'
<1>1. TypeOK'
  BY BootSweepType DEF FilesInv
<1>2. \A f \in files : f \in files' \/ stripe[f[2]].state \notin Visible
  BY DEF BootSweep, Unlinked, PendingStripes, Visible
<1> QED BY <1>1, <1>2, BootUnlinks DEF BootSweep, dbVars

LEMMA BootUnlinkFiles ==
  ASSUME FilesInv, BootUnlink
  PROVE  FilesInv'
<1>1. TypeOK'
  BY BootUnlinkType DEF FilesInv
<1>2. \A f \in files : f \in files' \/ stripe[f[2]].state \notin Visible
  BY DEF BootUnlink, Unlinked, FilesInv, DoomedIsGone, Visible
<1>3. \A f \in bootDoomed' : f \in bootDoomed
  BY DEF BootUnlink, StillDoomed
<1> QED BY <1>1, <1>2, <1>3, BootUnlinks DEF BootUnlink, dbVars

LEMMA BootDropFiles ==
  ASSUME FilesInv, BootDrop
  PROVE  FilesInv'
<1>1. TypeOK'
  BY BootDropType DEF FilesInv
<1>2. /\ DropStripes(PendingStripes) /\ phase # "serving"
      /\ UNCHANGED <<files, object, w, rd, bootDoomed>>
  BY DEF BootDrop
<1>3. \A s \in StripeId : \/ stripe'[s] = stripe[s]
                          \/ stripe[s].state = "pending" /\ stripe'[s].state = "gone"
  BY <1>2, DropRows DEF PendingStripes
<1>4. OneRowPerKey'
  BY <1>2 DEF FilesInv, OneRowPerKey, KeyRow
<1>5. StripesHaveObject'
  BY <1>2, <1>3 DEF FilesInv, StripesHaveObject, Live
<1>6. \A f \in bootDoomed' : stripe'[f[2]].state = "gone"
  <2>1. \A f \in bootDoomed : f[2] \in StripeId
    BY DEF FilesInv, TypeOK, File
  <2> QED BY <2>1, <1>2, <1>3 DEF FilesInv, DoomedIsGone
<1>7. VisibleInPlace' /\ DistinctDisks' /\ Redundant'
  BY <1>2, DropRows
<1> QED BY <1>1, <1>2, <1>3, <1>4, <1>5, <1>6, <1>7, BootFiles DEF Visible

LEMMA BootObjectFiles ==
  ASSUME FilesInv, NEW o \in ObjId, BootObject(o)
  PROVE  FilesInv'
<1>1. TypeOK'
  BY BootObjectType DEF FilesInv
<1>2. /\ DropStripes(StripesOf(o)) /\ phase # "serving"
      /\ object' = [object EXCEPT ![o] = NoObject]
      /\ bootDoomed' = RowFiles(StripesOf(o))
      /\ UNCHANGED <<files, w, rd>>
  BY DEF BootObject
<1>3. \A s \in StripeId : stripe'[s] = stripe[s] \/ stripe'[s].state = "gone"
  BY <1>2, DropRows
<1>4. \A f \in bootDoomed' : stripe'[f[2]].state = "gone"
  <2>1. \A f \in bootDoomed' : f[2] \in StripesOf(o) /\ f[2] \in StripeId
    BY <1>2 DEF RowFiles, StripesOf
  <2> QED BY <2>1, <1>2, DropRows
<1>5. OneRowPerKey' /\ StripesHaveObject'
  BY <1>2, DropObject
<1>6. VisibleInPlace' /\ DistinctDisks' /\ Redundant'
  BY <1>2, DropRows
<1> QED BY <1>1, <1>2, <1>3, <1>4, <1>5, <1>6, BootFiles

LEMMA InitFiles == Init => FilesInv
<1> SUFFICES ASSUME Init PROVE FilesInv
  OBVIOUS
<1>1. TypeOK
  BY InitType
<1>2. /\ \A k \in Key : w[k].pc = "idle" /\ w[k].doomed = {}
      /\ \A x \in Reader : rd[x].todo = {} /\ rd[x].sid = None
      /\ \A o \in ObjId : object[o].state = "none"
      /\ \A s \in StripeId : stripe[s].state = "none" /\ shard[s] = NoRows
      /\ phase = "serving" /\ bootDoomed = {}
  BY IdleFields DEF Init, NoObject, IdleReader
<1>3. StartsAlone /\ OneRowPerKey /\ StripesHaveObject
  BY <1>2 DEF StartsAlone, OneRowPerKey, KeyRow, StripesHaveObject, Live
<1>4. HoldsObject /\ HoldsStripe /\ ShardsSoFar /\ DoomedIsGone
  BY <1>2 DEF HoldsObject, HoldsStripe, ShardsSoFar, DoomedIsGone, Writing
<1>5. ListsVisible
  BY <1>2, NoneAssumption DEF ListsVisible
<1>6. VisibleInPlace /\ DistinctDisks
  BY <1>2, IdleFields DEF VisibleInPlace, DistinctDisks
<1>7. Redundant
  BY <1>2 DEF Redundant
<1> QED BY <1>1, <1>3, <1>4, <1>5, <1>6, <1>7 DEF FilesInv

LEMMA StutterFiles == FilesInv /\ UNCHANGED vars => FilesInv'
<1> SUFFICES ASSUME FilesInv, UNCHANGED vars PROVE FilesInv'
  OBVIOUS
<1>1. TypeOK'
  BY StutterType DEF FilesInv
<1>2. UNCHANGED <<object, stripe, shard, w, rd, files, phase, bootDoomed>>
  BY DEF vars
<1>3. ListsVisible'
  BY <1>2 DEF FilesInv, ListsVisible
<1> QED BY <1>1, <1>2, <1>3, StillFiles

(* Rows and files agree through every step, whatever the rows of stripes     *)
(* that no reader may list name.                                             *)
LEMMA NextFiles ==
  ASSUME FilesInv, [Next]_vars
  PROVE  FilesInv'
  BY Actions, StutterFiles, DiskFiles, CrashFiles, BootSweepFiles, BootDropFiles,
     BootObjectFiles, BootUnlinkFiles, BootServeFiles, PutBeginFiles, PutInsertFiles,
     StripeBeginFiles, WriteShardFiles, WriteShardFailsFiles, StripeCommitFiles,
     StripeGiveUpFiles, StripeDropFiles, PutCommitFiles, PutRaisesFiles,
     DeleteBeginFiles, DeleteRowsFiles, DeleteRaisesFiles, UnlinkFiles,
     ReadStatFiles, ReadListFiles, ReadRowsFiles, ReadSkipFiles, ReadShardFiles,
     ReadMissingFiles, ReadFailsFiles, ReadDecodeFiles, ReadUnrecoverableFiles,
     ReadEndFiles

(* FilesInv is inductive.                                                    *)
THEOREM FilesCorrect == Spec => []FilesInv
<1>1. Init => FilesInv
  BY InitFiles
<1>2. FilesInv /\ [Next]_vars => FilesInv'
  BY NextFiles
<1> QED BY <1>1, <1>2, PTL DEF Spec

-----------------------------------------------------------------------------
(* The shard rows of a put come with the commit of its stripe.               *)

(* What no reader may list gets no rows. *)
RowsStay == \A s \in StripeId :
  \/ stripe'[s].state \in Visible
  \/ shard'[s] = NoRows
  \/ shard'[s] = shard[s] /\ stripe[s].state \notin Visible

LEMMA RowsKept ==
  ASSUME RowsComeWithCommit, RowsStay
  PROVE  RowsComeWithCommit'
BY DEF RowsComeWithCommit, RowsStay

LEMMA DropRowsStay ==
  ASSUME FilesInv, NEW S, DropStripes(S), UNCHANGED files
  PROVE  RowsStay
<1>1. \A s \in StripeId : shard'[s] = IF s \in S THEN NoRows ELSE shard[s]
  BY DEF DropStripes
<1> QED BY <1>1, DropRows DEF RowsStay

LEMMA StripeBeginRows ==
  ASSUME FilesInv, NEW k \in Key, StripeBegin(k)
  PROVE  RowsStay
<1>1. PICK s \in StripeId : /\ stripe[s].state = "none"
                            /\ \A t \in StripeId : t # s => stripe'[t] = stripe[t]
  BY DEF StripeBegin, FilesInv, TypeOK
<1>2. UNCHANGED shard
  BY DEF StripeBegin
<1> QED BY <1>1, <1>2 DEF RowsStay, Visible

LEMMA StripeCommitRows ==
  ASSUME FilesInv, NEW k \in Key, StripeCommit(k)
  PROVE  RowsStay
<1>1. w[k].sid \in StripeId
  BY OwnStripe DEF StripeCommit, AllTried
<1>2. /\ stripe'[w[k].sid].state = "committed"
      /\ \A t \in StripeId : t # w[k].sid => stripe'[t] = stripe[t] /\ shard'[t] = shard[t]
  BY <1>1 DEF StripeCommit, FilesInv, TypeOK, StripeRow
<1> QED BY <1>2 DEF RowsStay, Visible

LEMMA ReadMissingRows ==
  ASSUME FilesInv, RowsComeWithCommit, NEW x \in Reader, NEW i \in Shard, ReadMissing(x, i)
  PROVE  RowsStay
<1>1. UNCHANGED stripe /\ MarkMissing(rd[x].sid, i) /\ rd[x].sid \in StripeId
  BY DEF ReadMissing, TryNext, FilesInv, TypeOK, ReaderOK
<1>2. CASE shard[rd[x].sid][i].state = "absent"
  BY <1>1, <1>2 DEF MarkMissing, RowsStay
<1>3. CASE shard[rd[x].sid][i].state # "absent"
  <2>1. stripe[rd[x].sid].state \in Visible
    BY <1>1, <1>3, IdleFields DEF RowsComeWithCommit
  <2>2. \A t \in StripeId : t # rd[x].sid => shard'[t] = shard[t]
    BY <1>1, <1>3 DEF MarkMissing, FilesInv, TypeOK
  <2> QED BY <1>1, <2>1, <2>2 DEF RowsStay
<1> QED BY <1>2, <1>3

LEMMA ReadUnrecoverableRows ==
  ASSUME FilesInv, NEW x \in Reader, ReadUnrecoverable(x)
  PROVE  RowsStay
<1>1. rd[x].sid \in StripeId /\ stripe[rd[x].sid].state \in Visible \cup {"gone"}
  BY DEF FilesInv, TypeOK, ReadUnrecoverable, ReadOver, ReaderOK, ListsVisible
<1>2. UNCHANGED shard
  BY DEF ReadUnrecoverable
<1> QED BY <1>1, <1>2 DEF ReadUnrecoverable, FilesInv, TypeOK, StripeRow, RowsStay, Visible

LEMMA NextRows ==
  ASSUME FilesInv, RowsComeWithCommit, [Next]_vars
  PROVE  RowsComeWithCommit'
<1>1. ASSUME UNCHANGED <<stripe, shard>> PROVE RowsComeWithCommit'
  BY <1>1 DEF RowsComeWithCommit
<1>2. ASSUME NEW k \in Key, StripeDrop(k) \/ DeleteRows(k) PROVE RowsStay
  BY <1>2, DropRowsStay DEF StripeDrop, DeleteRows
<1>3. ASSUME BootDrop \/ \E o \in ObjId : BootObject(o) PROVE RowsStay
  BY <1>3, DropRowsStay DEF BootDrop, BootObject
<1>4. ASSUME NEW k \in Key,
             \/ \E n \in 1 .. MaxStripes : PutBegin(k, n)
             \/ PutInsert(k) \/ (\E i \in Shard : WriteShard(k, i) \/ WriteShardFails(k, i))
             \/ StripeGiveUp(k) \/ PutCommit(k) \/ PutRaises(k)
             \/ DeleteBegin(k) \/ DeleteRaises(k) \/ Unlink(k)
      PROVE  UNCHANGED <<stripe, shard>>
  BY <1>4 DEF PutBegin, PutInsert, WriteShard, WriteShardFails, StripeGiveUp, PutCommit,
              PutRaises, DeleteBegin, DeleteRaises, Unlink, dbVars
<1>5. ASSUME NEW x \in Reader,
             \/ \E k \in Key : ReadStat(x, k)
             \/ ReadList(x) \/ ReadRows(x)
             \/ (\E i \in Shard : ReadSkip(x, i) \/ ReadShard(x, i) \/ ReadFails(x, i))
             \/ ReadDecode(x) \/ ReadEnd(x)
      PROVE  UNCHANGED <<stripe, shard>>
  BY <1>5 DEF ReadStat, ReadList, ReadRows, ReadSkip, ReadShard, ReadFails, ReadDecode,
              ReadEnd, dbVars
<1>6. ASSUME \/ \E d \in Disk : DiskDown(d) \/ DiskUp(d) \/ HealthCheck(d)
             \/ Crash \/ BootSweep \/ BootUnlink \/ BootServe \/ UNCHANGED vars
      PROVE  UNCHANGED <<stripe, shard>>
  BY <1>6 DEF DiskDown, DiskUp, HealthCheck, Crash, BootSweep, BootUnlink, BootServe,
              dbVars, vars
<1> QED BY Actions, RowsKept, <1>1, <1>2, <1>3, <1>4, <1>5, <1>6, StripeBeginRows,
           StripeCommitRows, ReadMissingRows, ReadUnrecoverableRows

LEMMA InitRows == Init => RowsComeWithCommit
  BY DEF Init, RowsComeWithCommit

(* Where nobody restripes, the shard rows of a stripe come with its commit   *)
(* (_write_stripe): a pending stripe has none.                               *)
THEOREM RowsCorrect == Spec => []RowsComeWithCommit
<1>1. Init => RowsComeWithCommit
  BY InitRows
<1>2. FilesInv /\ RowsComeWithCommit /\ [Next]_vars => RowsComeWithCommit'
  BY NextRows
<1> QED BY <1>1, <1>2, FilesCorrect, PTL DEF Spec

LEMMA RowsInPlace == VisibleInPlace /\ RowsComeWithCommit => NoDanglingRows
  BY IdleFields DEF VisibleInPlace, RowsComeWithCommit, NoDanglingRows

(* A shard row never names a file that is not there.                         *)
THEOREM NoDanglingRowsHolds == Spec => []NoDanglingRows
<1>1. FilesInv /\ RowsComeWithCommit => NoDanglingRows
  BY RowsInPlace DEF FilesInv
<1> QED BY <1>1, FilesCorrect, RowsCorrect, PTL

(* No disk ever holds two shards of one stripe.                              *)
THEOREM DistinctDisksHold == Spec => []DistinctDisks
<1>1. FilesInv => DistinctDisks
  BY DEF FilesInv
<1> QED BY <1>1, FilesCorrect, PTL

(* No listed stripe has fewer shards on disks than the code promised.        *)
THEOREM RedundantHolds == Spec => []Redundant
<1>1. FilesInv => Redundant
  BY DEF FilesInv
<1> QED BY <1>1, FilesCorrect, PTL

=============================================================================
