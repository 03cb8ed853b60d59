--------------------------- MODULE RestripeProofs ---------------------------
(***************************************************************************)
(* A restripe beside a serving store: one lemma per step of the process,   *)
(* and what the steps of the server leave of what the process relies on.   *)
(***************************************************************************)
EXTENDS Restripe, ObjectStoreCommits

-----------------------------------------------------------------------------
(* What the steps of a serving store do to one stripe.                       *)

InHand(k, s) == w[k].pc \in {"shards", "giveup"} /\ w[k].sid = s
Unheld(s) == \A k \in Key : ~InHand(k, s)

(* A thread takes a stripe in hand when it draws its uuid.                   *)
LEMMA NewHolder ==
  ASSUME TypeOK, Next, NEW k \in Key, w'[k].pc \in {"shards", "giveup"}
  PROVE  \/ w[k].pc \in {"shards", "giveup"} /\ w'[k].sid = w[k].sid
         \/ w'[k].sid \in StripeId /\ stripe[w'[k].sid].state = "none"
<1> DEFINE Held == \/ w[k].pc \in {"shards", "giveup"} /\ w'[k].sid = w[k].sid
                   \/ w'[k].sid \in StripeId /\ stripe[w'[k].sid].state = "none"
<1>r. \A j \in Key : w[j] \in Writer
  BY DEF TypeOK
<1>1. UNCHANGED w => Held
  OBVIOUS
<1>2. ASSUME NEW j \in Key, NEW q, SetW(j, q), q.pc \notin {"shards", "giveup"}
      PROVE  Held
  BY <1>2, SetWFun
<1>3. ASSUME NEW j \in Key, NEW n \in 1 .. MaxStripes, PutBegin(j, n)
      PROVE  Held
  <2>1. \A o : [IdleWriter EXCEPT !.pc = "delete", !.then = "insert", !.len = n, !.obj = o].pc = "delete"
    BY DEF IdleWriter
  <2>2. [IdleWriter EXCEPT !.pc = "insert", !.len = n].pc = "insert"
    BY DEF IdleWriter
  <2> QED BY <1>2, <1>3, <2>1, <2>2 DEF PutBegin
<1>4. ASSUME NEW j \in Key, PutInsert(j)
      PROVE  Held
  <2>1. \A o : [w[j] EXCEPT !.pc = "stripe", !.obj = o].pc = "stripe"
    BY <1>r DEF Writer
  <2> QED BY <1>2, <1>4, <2>1 DEF PutInsert
<1>5. ASSUME NEW j \in Key, StripeBegin(j)
      PROVE  Held
  <2>1. PICK s \in StripeId, p \in Placement :
          /\ stripe[s].state = "none"
          /\ SetW(j, [w[j] EXCEPT !.pc = "shards", !.sid = s,
                      !.rows = [i \in Shard |-> [disk |-> p[i],
                                  state |-> IF p[i] = None THEN "missing" ELSE "todo"]]])
    BY <1>5 DEF StripeBegin
  <2>2. w'[j].sid = s
    BY <2>1, <1>r DEF SetW, Writer, TypeOK
  <2>3. k # j => w'[k] = w[k]
    BY <2>1 DEF SetW, TypeOK
  <2> QED BY <2>1, <2>2, <2>3
<1>6. ASSUME NEW j \in Key, NEW i \in Shard, WriteShard(j, i) \/ WriteShardFails(j, i)
      PROVE  Held
  <2>1. w'[j].pc = w[j].pc /\ w'[j].sid = w[j].sid
    BY <1>6 DEF WriteShard, WriteShardFails, TypeOK, Writer
  <2>2. k # j => w'[k] = w[k]
    BY <1>6 DEF WriteShard, WriteShardFails, TypeOK
  <2> QED BY <2>1, <2>2
<1>7. ASSUME NEW j \in Key, StripeCommit(j)
      PROVE  Held
  <2>1. [w[j] EXCEPT !.pc = "stripe", !.seq = @ + 1, !.sid = None, !.rows = NoRows].pc = "stripe"
    BY <1>r DEF Writer
  <2> QED BY <1>2, <1>7, <2>1 DEF StripeCommit
<1>8. ASSUME NEW j \in Key, StripeGiveUp(j)
      PROVE  Held
  <2>1. w' = [w EXCEPT ![j] = [w[j] EXCEPT !.pc = "giveup", !.rows = NoRows]] /\ w[j].pc = "shards"
    BY <1>8 DEF StripeGiveUp, SetW, AllTried
  <2>2. w'[k].sid = w[k].sid /\ (k # j => w'[k] = w[k])
    BY <2>1, <1>r DEF Writer, TypeOK
  <2> QED BY <2>1, <2>2
<1>9. ASSUME NEW j \in Key, StripeDrop(j)
      PROVE  Held
  <2>1. [w[j] EXCEPT !.pc = "delete", !.sid = None].pc = "delete"
    BY <1>r DEF Writer
  <2> QED BY <1>2, <1>9, <2>1 DEF StripeDrop
<1>10. ASSUME NEW j \in Key, PutCommit(j) \/ PutRaises(j) \/ DeleteRaises(j)
       PROVE  Held
  <2>1. [w[j] EXCEPT !.pc = "delete", !.sid = None, !.rows = NoRows].pc = "delete"
    BY <1>r DEF Writer
  <2> QED BY <1>2, <1>10, <2>1, IdleFields DEF PutCommit, PutRaises, DeleteRaises
<1>11. ASSUME NEW j \in Key, DeleteBegin(j)
       PROVE  Held
  <2>1. \A o : [IdleWriter EXCEPT !.pc = "delete", !.obj = o].pc = "delete"
    BY DEF IdleWriter
  <2> QED BY <1>2, <1>11, <2>1 DEF DeleteBegin
<1>12. ASSUME NEW j \in Key, DeleteRows(j)
       PROVE  Held
  <2> DEFINE F == RowFiles(StripesOf(w[j].obj))
             q == IF F # {} THEN [w[j] EXCEPT !.pc = "unlink", !.doomed = F]
                  ELSE IF w[j].then = "insert"
                  THEN [IdleWriter EXCEPT !.pc = "insert", !.len = w[j].len]
                  ELSE IdleWriter
  <2>1. SetW(j, q)
    BY <1>12 DEF DeleteRows
  <2>2. q.pc \in {"unlink", "insert", "idle"}
    BY <1>r DEF Writer, IdleWriter
  <2> HIDE DEF q
  <2> QED BY <1>2, <2>1, <2>2
<1>13. ASSUME NEW j \in Key, Unlink(j)
       PROVE  Held
  <2>1. PICK s \in StripeId :
          SetW(j, IF StillDoomed(w[j].doomed, {f \in w[j].doomed : f[2] = s}) # {}
                  THEN [w[j] EXCEPT !.doomed = StillDoomed(@, {f \in w[j].doomed : f[2] = s})]
                  ELSE IF w[j].then = "insert"
                  THEN [IdleWriter EXCEPT !.pc = "insert", !.len = w[j].len]
                  ELSE IdleWriter)
    BY <1>13 DEF Unlink
  <2> DEFINE D == StillDoomed(w[j].doomed, {f \in w[j].doomed : f[2] = s})
             q == IF D # {} THEN [w[j] EXCEPT !.doomed = StillDoomed(@, {f \in w[j].doomed : f[2] = s})]
                  ELSE IF w[j].then = "insert"
                  THEN [IdleWriter EXCEPT !.pc = "insert", !.len = w[j].len]
                  ELSE IdleWriter
  <2>2. q.pc \in {"unlink", "insert", "idle"}
    BY <1>r, <1>13 DEF Writer, IdleWriter, Unlink
  <2>3. SetW(j, q)
    BY <2>1
  <2> HIDE DEF q
  <2> QED BY <1>2, <2>2, <2>3
<1>14. Crash => Held
  BY IdleFields DEF Crash
<1>15. ASSUME NEW x \in Reader,
              \/ \E j \in Key : ReadStat(x, j)
              \/ ReadList(x) \/ ReadRows(x)
              \/ (\E i \in Shard : ReadSkip(x, i) \/ ReadShard(x, i) \/ ReadMissing(x, i) \/ ReadFails(x, i))
              \/ ReadDecode(x) \/ ReadUnrecoverable(x) \/ ReadEnd(x)
       PROVE  UNCHANGED w
  BY <1>15 DEF ReadStat, ReadList, ReadRows, ReadSkip, ReadShard, ReadMissing, ReadFails,
               ReadDecode, ReadUnrecoverable, ReadEnd
<1>16. ASSUME \/ \E d \in Disk : DiskDown(d) \/ DiskUp(d) \/ HealthCheck(d)
              \/ BootSweep \/ BootDrop \/ (\E o \in ObjId : BootObject(o)) \/ BootUnlink \/ BootServe
       PROVE  UNCHANGED w
  BY <1>16 DEF DiskDown, DiskUp, HealthCheck, BootSweep, BootDrop, BootObject, BootUnlink, BootServe
<1> HIDE DEF Held
<1>17. Held
  BY Actions, <1>1, <1>3, <1>4, <1>5, <1>6, <1>7, <1>8, <1>9, <1>10, <1>11, <1>12, <1>13,
     <1>14, <1>15, <1>16
<1> QED BY <1>17 DEF Held

LEMMA StillUnheld ==
  ASSUME TypeOK, Next, NEW s \in StripeId, stripe[s].state # "none", Unheld(s)
  PROVE  Unheld(s)'
BY NewHolder DEF Unheld, InHand

(* Unlinking takes files of deleted stripes and of stripes that a put gives up. *)
LEMMA FilesStay ==
  ASSUME FilesInv, Next, Serving, crashes' = crashes, NEW f \in files
  PROVE  f \in files' \/ stripe[f[2]].state = "gone" \/ ~Unheld(f[2])
<1>1. ASSUME NEW k \in Key, Unlink(k)
      PROVE  f \in files' \/ stripe[f[2]].state = "gone"
  BY <1>1, FilesHolds DEF Unlink, Unlinked, Holds
<1>2. ASSUME NEW k \in Key, StripeGiveUp(k)
      PROVE  f \in files' \/ ~Unheld(f[2])
  BY <1>2 DEF StripeGiveUp, AllTried, Unlinked, Unheld, InHand
<1>3. ASSUME NEW k \in Key,
             \/ \E n \in 1 .. MaxStripes : PutBegin(k, n)
             \/ PutInsert(k) \/ StripeBegin(k)
             \/ (\E i \in Shard : WriteShard(k, i) \/ WriteShardFails(k, i))
             \/ StripeCommit(k) \/ StripeDrop(k) \/ PutCommit(k) \/ PutRaises(k)
             \/ DeleteBegin(k) \/ DeleteRows(k) \/ DeleteRaises(k)
      PROVE  f \in files'
  BY <1>3 DEF PutBegin, PutInsert, StripeBegin, WriteShard, WriteShardFails, StripeCommit,
              StripeDrop, PutCommit, PutRaises, DeleteBegin, DeleteRows, DeleteRaises
<1>4. ASSUME NEW x \in Reader,
             \/ \E k \in Key : ReadStat(x, k)
             \/ ReadList(x) \/ ReadRows(x)
             \/ (\E i \in Shard : ReadSkip(x, i) \/ ReadShard(x, i) \/ ReadMissing(x, i) \/ ReadFails(x, i))
             \/ ReadDecode(x) \/ ReadUnrecoverable(x) \/ ReadEnd(x)
      PROVE  f \in files'
  BY <1>4 DEF ReadStat, ReadList, ReadRows, ReadSkip, ReadShard, ReadMissing, ReadFails,
              ReadDecode, ReadUnrecoverable, ReadEnd
<1>5. ASSUME NEW d \in Disk, DiskDown(d) \/ DiskUp(d) \/ HealthCheck(d)
      PROVE  f \in files'
  BY <1>5 DEF DiskDown, DiskUp, HealthCheck
<1>6. ~Crash /\ ~BootSweep /\ ~BootUnlink
  <2>1. crashes \in Nat
    BY BoundAssumption DEF FilesInv, TypeOK
  <2> QED BY <2>1 DEF Crash, BootSweep, BootUnlink, Serving
<1>7. BootDrop \/ (\E o \in ObjId : BootObject(o)) \/ BootServe => f \in files'
  BY DEF BootDrop, BootObject, BootServe
<1> QED BY Actions, <1>1, <1>2, <1>3, <1>4, <1>5, <1>6, <1>7

(* Start-up and crash are no steps of a serving store. *)
LEMMA NoBoot ==
  ASSUME TypeOK, Next, Serving, crashes' = crashes
  PROVE  /\ ~Crash /\ ~BootStep
         /\ Serving'
<1>1. crashes \in Nat
  BY BoundAssumption DEF TypeOK
<1>2. ~Crash
  BY <1>1 DEF Crash
<1>3. ~BootStep
  BY DEF BootStep, BootSweep, BootDrop, BootObject, BootUnlink, BootServe, Serving
<1>4. ASSUME NEW k \in Key, WriterNext(k) PROVE UNCHANGED phase
  BY <1>4 DEF WriterNext, PutStep, DeleteStep, PutBegin, PutInsert, StripeBegin, WriteShard, WriteShardFails,
         StripeCommit, StripeGiveUp, StripeDrop, PutCommit, PutRaises, DeleteBegin, DeleteRows,
         DeleteRaises, Unlink, bootVars
<1>5. ASSUME NEW x \in Reader, ReaderNext(x) PROVE UNCHANGED phase
  BY <1>5 DEF ReaderNext, ReadStep, ReadStat, ReadList, ReadRows, ReadSkip, ReadShard, ReadMissing, ReadFails,
         ReadDecode, ReadUnrecoverable, ReadEnd, bootVars
<1>6. ASSUME NEW d \in Disk, DiskNext(d) PROVE UNCHANGED phase
  BY <1>6 DEF DiskNext, DiskDown, DiskUp, HealthCheck, bootVars
<1> QED BY <1>2, <1>3, <1>4, <1>5, <1>6 DEF Next, Serving

(* Rows of a stripe that no put has in hand.                                 *)
RowsSpared(s) ==
  /\ stripe[s].state = "gone" => stripe'[s].state = "gone"
  /\ stripe[s].state \in Visible => stripe'[s].state \in Visible \cup {"gone"}
  /\ stripe[s].state = "pending" /\ Unheld(s) =>
       \/ stripe'[s].state = "gone"
       \/ stripe'[s] = stripe[s] /\ shard'[s] = shard[s]

LEMMA DropSpares ==
  ASSUME FilesInv, NEW S, DropStripes(S), UNCHANGED files, NEW s \in StripeId
  PROVE  RowsSpared(s)
<1>1. s \notin S => shard'[s] = shard[s]
  BY DEF DropStripes
<1> QED BY <1>1, DropRows DEF RowsSpared

LEMMA RowsStaySpared ==
  ASSUME FilesInv, Next, Serving, crashes' = crashes, NEW s \in StripeId
  PROVE  RowsSpared(s)
<1>1. UNCHANGED <<stripe, shard>> => RowsSpared(s)
  BY DEF RowsSpared
<1>2. ASSUME NEW k \in Key, StripeBegin(k) PROVE RowsSpared(s)
  <2>1. PICK t \in StripeId : /\ stripe[t].state = "none"
                              /\ \A u \in StripeId : u # t => stripe'[u] = stripe[u]
    BY <1>2 DEF StripeBegin, FilesInv, TypeOK
  <2>2. UNCHANGED shard
    BY <1>2 DEF StripeBegin
  <2> QED BY <2>1, <2>2 DEF RowsSpared, Visible
<1>3. ASSUME NEW k \in Key, StripeCommit(k) PROVE RowsSpared(s)
  <2>1. InHand(k, w[k].sid) /\ w[k].sid \in StripeId /\ stripe[w[k].sid].state = "pending"
    BY <1>3, OwnStripe DEF StripeCommit, AllTried, InHand
  <2>2. \A t \in StripeId : t # w[k].sid => stripe'[t] = stripe[t] /\ shard'[t] = shard[t]
    BY <1>3 DEF StripeCommit, FilesInv, TypeOK
  <2> QED BY <2>1, <2>2 DEF RowsSpared, Unheld, Visible
<1>4. ASSUME NEW k \in Key, StripeDrop(k) \/ DeleteRows(k) PROVE RowsSpared(s)
  BY <1>4, DropSpares DEF StripeDrop, DeleteRows
<1>5. ASSUME NEW x \in Reader, NEW i \in Shard, ReadMissing(x, i) PROVE RowsSpared(s)
  <2>1. rd[x].sid \in StripeId /\ stripe[rd[x].sid].state \in Visible \cup {"gone"} /\ UNCHANGED stripe
    BY <1>5 DEF ReadMissing, TryNext, FilesInv, TypeOK, ReaderOK, ListsVisible
  <2>2. s # rd[x].sid => shard'[s] = shard[s]
    BY <1>5 DEF ReadMissing, MarkMissing, FilesInv, TypeOK
  <2> QED BY <2>1, <2>2 DEF RowsSpared, Visible
<1>6. ASSUME NEW x \in Reader, ReadUnrecoverable(x) PROVE RowsSpared(s)
  <2>1. rd[x].sid \in StripeId /\ stripe[rd[x].sid].state \in Visible \cup {"gone"} /\ UNCHANGED shard
    BY <1>6 DEF ReadUnrecoverable, ReadOver, FilesInv, TypeOK, ReaderOK, ListsVisible
  <2> QED BY <1>6, <2>1 DEF ReadUnrecoverable, FilesInv, TypeOK, StripeRow, RowsSpared, Visible
<1>7. ASSUME NEW k \in Key,
             \/ \E n \in 1 .. MaxStripes : PutBegin(k, n)
             \/ PutInsert(k) \/ (\E i \in Shard : WriteShard(k, i) \/ WriteShardFails(k, i))
             \/ StripeGiveUp(k) \/ PutCommit(k) \/ PutRaises(k)
             \/ DeleteBegin(k) \/ DeleteRaises(k) \/ Unlink(k)
      PROVE  UNCHANGED <<stripe, shard>>
  BY <1>7 DEF PutBegin, PutInsert, WriteShard, WriteShardFails, StripeGiveUp, PutCommit,
              PutRaises, DeleteBegin, DeleteRaises, Unlink, dbVars
<1>8. ASSUME NEW x \in Reader,
             \/ \E k \in Key : ReadStat(x, k)
             \/ ReadList(x) \/ ReadRows(x)
             \/ (\E i \in Shard : ReadSkip(x, i) \/ ReadShard(x, i) \/ ReadFails(x, i))
             \/ ReadDecode(x) \/ ReadEnd(x)
      PROVE  UNCHANGED <<stripe, shard>>
  BY <1>8 DEF ReadStat, ReadList, ReadRows, ReadSkip, ReadShard, ReadFails, ReadDecode,
              ReadEnd, dbVars
<1>9. ASSUME NEW d \in Disk, DiskDown(d) \/ DiskUp(d) \/ HealthCheck(d)
      PROVE  UNCHANGED <<stripe, shard>>
  BY <1>9 DEF DiskDown, DiskUp, HealthCheck, dbVars
<1>10. ~Crash /\ ~BootSweep /\ ~BootDrop /\ ~(\E o \in ObjId : BootObject(o)) /\ ~BootUnlink /\ ~BootServe
  BY NoBoot DEF BootStep, FilesInv
<1> QED BY Actions, <1>1, <1>2, <1>3, <1>4, <1>5, <1>6, <1>7, <1>8, <1>9, <1>10

-----------------------------------------------------------------------------
(* Steps of the process: what each has to show.                              *)

LEMMA NobodyHolds ==
  ASSUME FilesInv, NEW s \in StripeId, stripe[s].state # "pending"
  PROVE  Unheld(s)
BY DEF FilesInv, HoldsStripe, Unheld, InHand

LEMMA ProcessFiles ==
  ASSUME FilesInv, TypeOK', UNCHANGED <<object, w, rd, phase, bootDoomed>>,
         \A s \in StripeId :
           /\ Unheld(s) \/ (stripe'[s].state = stripe[s].state /\ stripe'[s].obj = stripe[s].obj)
           /\ stripe[s].state = "gone" => stripe'[s].state = "gone"
           /\ stripe[s].state \in Visible => stripe'[s].state \in Visible \cup {"gone"},
         \A f \in files : f \in files' \/ Unheld(f[2]),
         StripesHaveObject', VisibleInPlace', DistinctDisks', Redundant'
  PROVE  FilesInv'
<1> USE DEF FilesInv
<1>1. StartsAlone' /\ OneRowPerKey' /\ HoldsObject'
  BY DEF StartsAlone, OneRowPerKey, HoldsObject, KeyRow
<1>2. ListsVisible'
  BY DEF ListsVisible
<1>3. HoldsStripe' /\ ShardsSoFar'
  <2>1. ASSUME NEW k \in Key, w[k].pc \in {"shards", "giveup"}
        PROVE  /\ w[k].sid \in StripeId /\ ~Unheld(w[k].sid)
               /\ stripe[w[k].sid].state = "pending" /\ stripe[w[k].sid].obj = w[k].obj
    BY <2>1, OwnStripe DEF Unheld, InHand
  <2>2. HoldsStripe'
    BY <2>1 DEF HoldsStripe
  <2>3. ShardsSoFar'
    <3> SUFFICES ASSUME NEW k \in Key, w[k].pc = "shards", NEW i \in Shard, w[k].rows[i].state = "ok"
                 PROVE  <<w[k].rows[i].disk, w[k].sid, i>> \in files'
      BY DEF ShardsSoFar
    <3>1. <<w[k].rows[i].disk, w[k].sid, i>> \in files
      BY DEF ShardsSoFar
    <3> QED BY <3>1, <2>1
  <2> QED BY <2>2, <2>3
<1>4. DoomedIsGone'
  <2>1. \A k \in Key : w[k].doomed \subseteq File
    BY DEF TypeOK, Writer
  <2>2. bootDoomed \subseteq File /\ \A f \in File : f[2] \in StripeId
    BY DEF TypeOK, File
  <2> QED BY <2>1, <2>2 DEF DoomedIsGone
<1> QED BY <1>1, <1>2, <1>3, <1>4

(* Steps that touch no row. *)
LEMMA ProcessStillFiles ==
  ASSUME FilesInv, TypeOK', UNCHANGED <<object, stripe, shard, w, rd, phase, bootDoomed>>,
         \A f \in files : f \in files' \/ (Unheld(f[2]) /\ stripe[f[2]].state \notin Visible)
  PROVE  FilesInv'
<1>1. StripesHaveObject' /\ DistinctDisks' /\ Redundant'
  BY DEF FilesInv, StripesHaveObject, DistinctDisks, Redundant
<1>2. VisibleInPlace'
  BY DEF FilesInv, VisibleInPlace
<1>3. \A s \in StripeId :
        /\ Unheld(s) \/ (stripe'[s].state = stripe[s].state /\ stripe'[s].obj = stripe[s].obj)
        /\ stripe[s].state = "gone" => stripe'[s].state = "gone"
        /\ stripe[s].state \in Visible => stripe'[s].state \in Visible \cup {"gone"}
  OBVIOUS
<1>4. \A f \in files : f \in files' \/ Unheld(f[2])
  OBVIOUS
<1> QED BY <1>1, <1>2, <1>3, <1>4, ProcessFiles

LEMMA IdleRsFields ==
  /\ IdleRs \in RsLocals
  /\ IdleRs.pc = "idle" /\ IdleRs.obj = 0 /\ IdleRs.old = {} /\ IdleRs.todo = {}
  /\ IdleRs.from = None /\ IdleRs.sid = None /\ IdleRs.rows = NoRows
  /\ IdleRs.new = {} /\ IdleRs.doomed = {}
BY IdleTypes DEF IdleRs, RsLocals, RsPc

LEMMA RaisedFields ==
  ASSUME rs \in RsLocals
  PROVE  /\ Raised \in RsLocals /\ Raised.pc = "undo" /\ Raised.from = None /\ Raised.sid = None
         /\ Raised.rows = NoRows /\ Raised.obj = rs.obj /\ Raised.old = rs.old
         /\ Raised.todo = rs.todo /\ Raised.new = rs.new /\ Raised.doomed = rs.doomed
BY IdleTypes DEF Raised, RsLocals, RsPc

LEMMA IdleProcess ==
  ASSUME FilesInv', rs' = IdleRs
  PROVE  RestripeFilesInv'
<1>1. RsOK' /\ DraftsApart' /\ ReplacesListed'
  BY IdleRsFields DEF RsOK, DraftsApart, ReplacesListed, Drafts, InFlight, Converting
<1>2. DraftsWritten'
  BY IdleRsFields, IdleFields DEF DraftsWritten
<1> QED BY <1>1, <1>2 DEF RestripeFilesInv

(* The process raises: it keeps what it has completed, to undo it.           *)
LEMMA RaisedProcess ==
  ASSUME RestripeFilesInv, FilesInv', rs' = Raised, rs.pc \in Converting, UNCHANGED <<w, phase>>,
         \A s \in StripeId :
           /\ stripe[s].state \in Visible \cup {"gone"} => stripe'[s].state \in Visible \cup {"gone"}
           /\ stripe[s].state = "gone" => stripe'[s].state = "gone",
         \A s \in rs.new : /\ stripe'[s].state = stripe[s].state
                           /\ \A i \in Shard : shard'[s][i].disk = shard[s][i].disk,
         \A f \in files : f \in files'
  PROVE  RestripeFilesInv'
<1>r. rs \in RsLocals /\ Serving /\ rs.obj \in ObjId
  BY DEF RestripeFilesInv, RsOK, Converting, InFlight
<1>1. rs'.pc = "undo" /\ rs' \in RsLocals /\ rs'.from = None /\ rs'.sid = None /\ rs'.rows = NoRows
      /\ rs'.obj = rs.obj /\ rs'.old = rs.old /\ rs'.todo = rs.todo /\ rs'.new = rs.new
      /\ rs'.doomed = rs.doomed
  BY <1>r, RaisedFields
<1>2. RsOK'
  BY <1>r, <1>1 DEF RestripeFilesInv, RsOK, InFlight, Converting, Serving
<1>3. rs.new \subseteq StripeId /\ rs.old \subseteq StripeId /\ rs.doomed \subseteq File
  BY <1>r DEF RsLocals
<1>4. DraftsApart'
  <2>1. ASSUME NEW s, s \in Drafts' PROVE s \in Drafts /\ s \in rs.new
    BY <2>1, <1>1 DEF Drafts
  <2> QED BY <2>1, <1>1, <1>3, NoneAssumption DEF RestripeFilesInv, DraftsApart
<1>5. ReplacesListed'
  BY <1>1, <1>3 DEF RestripeFilesInv, ReplacesListed, File
<1>6. DraftsWritten'
  <2>1. ASSUME NEW s \in rs.new, stripe'[s].state = "pending"
        PROVE  Written(s, shard[s])
    BY <2>1, <1>r DEF RestripeFilesInv, DraftsWritten, Converting, InFlight
  <2>2. ASSUME NEW s \in rs.new, stripe'[s].state = "pending"
        PROVE  Written(s, shard[s])'
    <3>1. {i \in Shard : shard'[s][i].disk # None} = {i \in Shard : shard[s][i].disk # None}
      BY <2>2
    <3> QED BY <3>1, <2>1, <2>2 DEF Written
  <2> QED BY <2>2, <1>1, IdleFields DEF DraftsWritten
<1> QED BY <1>2, <1>4, <1>5, <1>6 DEF RestripeFilesInv

-----------------------------------------------------------------------------
(* Steps of the process.                                                     *)

LEMMA RestripeBeginFiles ==
  ASSUME RestripeFilesInv, NEW o \in ObjId, RestripeBegin(o)
  PROVE  RestripeFilesInv'
<1> DEFINE q == [IdleRs EXCEPT !.pc = "read", !.obj = o, !.old = VisibleStripes(o), !.todo = VisibleStripes(o)]
<1>0. UNCHANGED vars /\ rs' = q /\ Serving
  BY DEF RestripeBegin, SetRs
<1>1. FilesInv'
  BY <1>0, StutterFiles DEF RestripeFilesInv
<1>2. VisibleStripes(o) \subseteq StripeId
  BY DEF VisibleStripes, StripesOf
<1>3. /\ q \in RsLocals /\ q.pc = "read" /\ q.obj = o /\ q.old = VisibleStripes(o) /\ q.todo = VisibleStripes(o)
      /\ q.sid = None /\ q.rows = NoRows /\ q.new = {} /\ q.doomed = {}
  BY <1>2, IdleTypes DEF RsLocals, RsPc, IdleRs
<1> HIDE DEF q
<1>4. RsOK'
  BY <1>0, <1>3 DEF RsOK, InFlight, Converting, Serving, vars
<1>5. DraftsApart'
  BY <1>0, <1>3 DEF DraftsApart, Drafts
<1>6. ReplacesListed'
  BY <1>0, <1>3 DEF ReplacesListed, VisibleStripes, vars
<1>7. DraftsWritten'
  BY <1>0, <1>3, IdleFields DEF DraftsWritten
<1> QED BY <1>1, <1>4, <1>5, <1>6, <1>7 DEF RestripeFilesInv

LEMMA RestripeReadFiles ==
  ASSUME RestripeFilesInv, RestripeRead
  PROVE  RestripeFilesInv'
<1>r. FilesInv /\ TypeOK /\ rs \in RsLocals /\ rs.pc = "read" /\ Serving /\ rs.obj \in ObjId
  BY DEF RestripeFilesInv, RsOK, FilesInv, RestripeRead, Converting, InFlight
<1>0. PICK s \in rs.todo :
        /\ \E lost \in SUBSET (Tries(s) \ Reads(s)) :
             shard' = [shard EXCEPT ![s] = [i \in Shard |->
                         IF i \in lost THEN [shard[s][i] EXCEPT !.state = "missing"] ELSE shard[s][i]]]
        /\ IF Cardinality(Reads(s)) >= K
           THEN SetRs([rs EXCEPT !.pc = "insert", !.from = s]) /\ UNCHANGED stripe
           ELSE /\ SetRs(Raised)
                /\ stripe' = IF stripe[s].state = "gone" THEN stripe
                             ELSE [stripe EXCEPT ![s].state = "unrecoverable"]
  BY DEF RestripeRead
<1>s. s \in StripeId /\ s \in rs.old /\ stripe[s].state \in Visible \cup {"gone"}
  BY <1>r DEF RestripeFilesInv, RsOK, ReplacesListed, RsLocals
<1>u. UNCHANGED <<diskStatus, up, files, object, w, rd, phase, bootDoomed, crashes, faults>>
  BY DEF RestripeRead, bootVars
<1>1. PICK lost \in SUBSET (Tries(s) \ Reads(s)) :
        shard' = [shard EXCEPT ![s] = [i \in Shard |->
                   IF i \in lost THEN [shard[s][i] EXCEPT !.state = "missing"] ELSE shard[s][i]]]
  BY <1>0
<1>2. \A i \in lost : i \in Shard /\ shard[s][i].disk # None /\ shard[s][i].state = "ok"
  BY DEF Tries
<1>3. \A t \in StripeId : t # s => shard'[t] = shard[t]
  BY <1>1, <1>r, <1>s DEF TypeOK
<1>4. \A i \in Shard : /\ shard[s][i] \in ShardRow /\ shard'[s][i] \in ShardRow
                       /\ shard'[s][i].disk = shard[s][i].disk
                       /\ i \notin lost => shard'[s][i] = shard[s][i]
  <2>1. shard'[s] = [i \in Shard |-> IF i \in lost THEN [shard[s][i] EXCEPT !.state = "missing"] ELSE shard[s][i]]
    BY <1>1, <1>r, <1>s DEF TypeOK
  <2>2. ASSUME NEW i \in Shard
        PROVE  LET r == [shard[s][i] EXCEPT !.state = "missing"] IN
               /\ shard[s][i] \in ShardRow /\ r \in ShardRow /\ r.disk = shard[s][i].disk
    <3>1. shard[s][i] \in ShardRow
      BY <1>r, <1>s DEF TypeOK
    <3> QED BY <3>1 DEF ShardRow
  <2> QED BY <2>1, <2>2
<1>5. shard' \in [StripeId -> [Shard -> ShardRow]]
  <2>1. [i \in Shard |-> IF i \in lost THEN [shard[s][i] EXCEPT !.state = "missing"] ELSE shard[s][i]]
          = [i \in Shard |-> shard'[s][i]]
    BY <1>1, <1>r, <1>s DEF TypeOK
  <2>2. [i \in Shard |-> shard'[s][i]] \in [Shard -> ShardRow]
    BY <1>4
  <2> QED BY <2>1, <2>2, <1>1, <1>r DEF TypeOK
<1>6. \A t \in StripeId :
        /\ stripe'[t] \in StripeRow /\ stripe'[t].obj = stripe[t].obj /\ stripe'[t].key = stripe[t].key
        /\ stripe'[t].seq = stripe[t].seq
        /\ \/ stripe'[t].state = stripe[t].state
           \/ stripe[t].state \in Visible /\ stripe'[t].state \in Visible
  BY <1>0, <1>r, <1>s DEF TypeOK, StripeRow, Visible
<1>7. stripe' \in [StripeId -> StripeRow]
  <2>1. stripe' = stripe \/ stripe' = [stripe EXCEPT ![s].state = "unrecoverable"]
    BY <1>0
  <2>2. [stripe[s] EXCEPT !.state = "unrecoverable"] \in StripeRow
    BY <1>r, <1>s DEF TypeOK, StripeRow
  <2> QED BY <2>1, <2>2, <1>r, <1>s DEF TypeOK
<1>8. TypeOK'
  BY <1>5, <1>7, <1>u, <1>r DEF TypeOK
<1>9. \A t \in StripeId : QuietStripe(t)
  <2>1. shard[s] = NoRows => lost = {}
    BY <1>2, IdleFields
  <2>2. shard'[s] \in [Shard -> ShardRow] /\ shard[s] \in [Shard -> ShardRow]
    BY <1>5, <1>r, <1>s DEF TypeOK
  <2>3. lost = {} => shard'[s] = shard[s]
    BY <2>2, <1>4
  <2> QED BY <2>1, <2>3, <1>3, <1>4, <1>6 DEF QuietStripe
<1>10. ListsVisible'
  BY <1>6, <1>u, <1>r DEF FilesInv, ListsVisible, Visible
<1>11. FilesInv'
  BY <1>8, <1>9, <1>10, <1>u, <1>r, QuietFiles
<1>q. /\ \A t \in StripeId :
           /\ stripe[t].state \in Visible \cup {"gone"} => stripe'[t].state \in Visible \cup {"gone"}
           /\ stripe[t].state = "gone" => stripe'[t].state = "gone"
      /\ \A t \in rs.new : /\ t \in StripeId
                           /\ stripe'[t].state = stripe[t].state
                           /\ \A i \in Shard : shard'[t][i].disk = shard[t][i].disk
  <2>1. \A t \in rs.new : t \in StripeId /\ stripe[t].state \notin Visible
    BY <1>r DEF RestripeFilesInv, DraftsApart, Drafts, RsLocals, Visible
  <2> QED BY <2>1, <1>3, <1>4, <1>6 DEF Visible
<1>12. CASE Cardinality(Reads(s)) >= K
  <2> DEFINE q == [rs EXCEPT !.pc = "insert", !.from = s]
  <2>0. rs' = q /\ UNCHANGED stripe
    BY <1>0, <1>12 DEF SetRs
  <2>1. /\ q \in RsLocals /\ q.pc = "insert" /\ q.from = s /\ q.obj = rs.obj /\ q.old = rs.old
        /\ q.todo = rs.todo /\ q.sid = rs.sid /\ q.rows = rs.rows /\ q.new = rs.new /\ q.doomed = rs.doomed
    BY <1>r, <1>s DEF RsLocals, RsPc
  <2> HIDE DEF q
  <2>2. RsOK'
    BY <2>0, <2>1, <1>r, <1>u DEF RestripeFilesInv, RsOK, InFlight, Converting, Serving
  <2>3. DraftsApart'
    BY <2>0, <2>1, <1>u DEF RestripeFilesInv, DraftsApart, Drafts
  <2>4. ReplacesListed'
    BY <2>0, <2>1 DEF RestripeFilesInv, ReplacesListed
  <2>5. DraftsWritten'
    <3>1. ASSUME NEW t \in rs.new, stripe[t].state = "pending"
          PROVE  Written(t, shard[t])'
      <4>1. Written(t, shard[t])
        BY <3>1, <1>r DEF RestripeFilesInv, DraftsWritten
      <4>2. {i \in Shard : shard'[t][i].disk # None} = {i \in Shard : shard[t][i].disk # None}
        BY <1>q
      <4> QED BY <4>1, <4>2, <1>q, <1>u DEF Written
    <3> QED BY <3>1, <2>0, <2>1 DEF RestripeFilesInv, DraftsWritten
  <2> QED BY <1>11, <2>2, <2>3, <2>4, <2>5 DEF RestripeFilesInv
<1>13. CASE ~(Cardinality(Reads(s)) >= K)
  <2>1. rs' = Raised
    BY <1>0, <1>13 DEF SetRs
  <2> QED BY <2>1, <1>11, <1>q, <1>u, <1>r, RaisedProcess DEF Converting
<1> QED BY <1>12, <1>13

LEMMA RestripeInsertFiles ==
  ASSUME RestripeFilesInv, RestripeInsert
  PROVE  RestripeFilesInv'
<1>r. FilesInv /\ TypeOK /\ rs \in RsLocals /\ rs.pc = "insert" /\ Serving /\ rs.obj \in ObjId
      /\ rs.from \in rs.todo /\ rs.from \in StripeId /\ rs.sid = None
  BY DEF RestripeFilesInv, RsOK, FilesInv, RestripeInsert, Converting, InFlight, RsLocals
<1>u. UNCHANGED <<diskStatus, up, files, object, shard, w, rd, phase, bootDoomed, crashes, faults>>
  BY DEF RestripeInsert, bootVars
<1>1. CASE object[rs.obj].state = "none"
  <2>1. rs' = Raised /\ UNCHANGED stripe
    BY <1>1 DEF RestripeInsert, SetRs
  <2>2. FilesInv'
    BY <2>1, <1>u, <1>r, StutterFiles DEF vars
  <2> QED BY <2>1, <2>2, <1>u, <1>r, RaisedProcess DEF Converting
<1>2. CASE object[rs.obj].state # "none"
  <2>0. PICK s \in StripeId, p \in Placement :
          /\ stripe[s].state = "none"
          /\ stripe' = [stripe EXCEPT ![s] = [state |-> "pending", obj |-> rs.obj,
                          key |-> object[rs.obj].key, seq |-> stripe[rs.from].seq]]
          /\ rs' = [rs EXCEPT !.pc = "write", !.sid = s,
               !.rows = [i \in Shard |-> [disk |-> p[i], state |-> IF p[i] = None THEN "missing" ELSE "todo"]]]
    BY <1>2 DEF RestripeInsert, SetRs
  <2> DEFINE row == [state |-> "pending", obj |-> rs.obj, key |-> object[rs.obj].key, seq |-> stripe[rs.from].seq]
             rows == [i \in Shard |-> [disk |-> p[i], state |-> IF p[i] = None THEN "missing" ELSE "todo"]]
             q == [rs EXCEPT !.pc = "write", !.sid = s, !.rows = rows]
  <2>1. row \in StripeRow /\ row.state = "pending" /\ row.obj = rs.obj /\ row.key = object[rs.obj].key
    BY <1>r DEF TypeOK, StripeRow, ObjectRow
  <2>2. /\ rows \in [Shard -> ShardRow] /\ \A i \in Shard : rows[i].disk = p[i]
        /\ \A i, j \in Shard : i # j /\ p[i] # None => p[i] # p[j]
    BY <1>r, PlacementIs DEF TypeOK, CanWrite, ShardRow
  <2>3. stripe'[s] = row /\ \A t \in StripeId : t # s => stripe'[t] = stripe[t]
    BY <2>0, <1>r DEF TypeOK
  <2>4. stripe' \in [StripeId -> StripeRow]
    BY <2>0, <2>1, <1>r DEF TypeOK
  <2> HIDE DEF row, rows
  <2>5. /\ q \in RsLocals /\ q.pc = "write" /\ q.sid = s /\ q.rows = rows /\ q.from = rs.from
        /\ q.obj = rs.obj /\ q.old = rs.old /\ q.todo = rs.todo /\ q.new = rs.new /\ q.doomed = rs.doomed
    BY <2>2, <1>r DEF RsLocals, RsPc
  <2>6. rs' = q
    BY <2>0 DEF rows
  <2> HIDE DEF q
  <2>7. TypeOK'
    BY <2>4, <1>u, <1>r DEF TypeOK
  <2>8. FilesInv'
    <3>1. StripesHaveObject'
      BY <2>1, <2>3, <1>2, <1>u, <1>r DEF FilesInv, StripesHaveObject
    <3>2. VisibleInPlace' /\ DistinctDisks'
      BY <2>1, <2>3, <1>u, <1>r DEF FilesInv, VisibleInPlace, DistinctDisks, Visible
    <3>3. Redundant'
      BY <2>1, <2>3, <1>u, <1>r DEF FilesInv, Redundant
    <3>4. Unheld(s)
      BY <2>0, <1>r, NobodyHolds
    <3>5. \A t \in StripeId :
            /\ Unheld(t) \/ (stripe'[t].state = stripe[t].state /\ stripe'[t].obj = stripe[t].obj)
            /\ stripe[t].state = "gone" => stripe'[t].state = "gone"
            /\ stripe[t].state \in Visible => stripe'[t].state \in Visible \cup {"gone"}
      BY <3>4, <2>0, <2>3 DEF Visible
    <3> QED BY <3>1, <3>2, <3>3, <3>5, <2>7, <1>u, <1>r, ProcessFiles
  <2>9. RsOK'
    BY <2>5, <2>6, <1>r, <1>u, NoneAssumption DEF RestripeFilesInv, RsOK, InFlight, Converting, Serving
  <2>10. rs.new \subseteq StripeId /\ s \notin rs.new /\ rs.old \subseteq StripeId /\ s \notin rs.old
         /\ rs.doomed \subseteq File /\ \A f \in rs.doomed : f[2] # s
    BY <2>0, <1>r DEF RestripeFilesInv, DraftsApart, ReplacesListed, Drafts, RsLocals, Visible
  <2>11. DraftsApart'
    <3>1. Unheld(s)
      BY <2>0, <1>r, NobodyHolds
    <3>2. \A k \in Key : w'[k].pc \in {"shards", "giveup"} => w'[k].sid # s
      BY <3>1, <1>u DEF Unheld, InHand
    <3>3. ASSUME NEW t, t \in Drafts', t # s
          PROVE  t \in rs.new /\ t \in Drafts /\ t \in StripeId
      BY <3>3, <2>5, <2>6, <2>10 DEF Drafts
    <3>4. stripe'[s].state = "pending"
      BY <2>1, <2>3
    <3> QED BY <3>2, <3>3, <3>4, <2>3, <2>5, <2>6, <2>10, <1>u DEF RestripeFilesInv, DraftsApart
  <2>12. ReplacesListed'
    <3>1. \A f \in rs.doomed : f[2] \in StripeId
      BY <2>10 DEF File
    <3> QED BY <3>1, <2>3, <2>5, <2>6, <2>10 DEF RestripeFilesInv, ReplacesListed
  <2>13. DraftsWritten'
    <3>1. \A t \in rs.new : Written(t, shard[t])' <=> Written(t, shard[t])
      BY <1>u DEF Written
    <3>2. \A i, j \in Shard : i # j /\ rows[i].disk # None => rows[i].disk # rows[j].disk
      BY <2>2
    <3> QED BY <3>1, <3>2, <2>3, <2>5, <2>6, <2>10, <1>r DEF RestripeFilesInv, DraftsWritten
  <2> QED BY <2>8, <2>9, <2>11, <2>12, <2>13 DEF RestripeFilesInv
<1> QED BY <1>1, <1>2

LEMMA RestripeWriteFiles ==
  ASSUME RestripeFilesInv, RestripeWrite
  PROVE  RestripeFilesInv'
<1>r. FilesInv /\ TypeOK /\ rs \in RsLocals /\ rs.pc = "write" /\ Serving /\ rs.obj \in ObjId
      /\ rs.sid \in StripeId /\ rs.rows \in [Shard -> ShardRow]
  BY DEF RestripeFilesInv, RsOK, FilesInv, RestripeWrite, Converting, InFlight, RsLocals
<1>u. UNCHANGED <<up, object, stripe, shard, w, rd, phase, bootDoomed, crashes, faults>>
  BY DEF RestripeWrite, bootVars, dbVars
<1>1. diskStatus' \in [Disk -> Status]
  BY <1>r DEF RestripeWrite, TypeOK, Status
<1>2. Lands \subseteq Shard /\ \A i \in Lands : rs.rows[i].disk \in Disk
  BY <1>r DEF Lands, ShardRow
<1> DEFINE rows == [i \in Shard |-> IF i \in Lands THEN [rs.rows[i] EXCEPT !.state = "ok"] ELSE LostRow(rs.rows[i].disk)]
<1>3. \/ /\ Cardinality(Lands) >= Need
         /\ files' = files \cup {<<rs.rows[i].disk, rs.sid, i>> : i \in Lands}
         /\ rs' = [rs EXCEPT !.pc = "rows", !.rows = rows]
      \/ rs' = [rs EXCEPT !.pc = "giveup"] /\ UNCHANGED files
  BY DEF RestripeWrite, SetRs
<1>4. files' \subseteq File /\ \A f \in files : f \in files'
  BY <1>2, <1>3, <1>r DEF TypeOK, File
<1>5. /\ rows \in [Shard -> ShardRow]
      /\ \A i \in Shard : rows[i].disk = IF i \in Lands THEN rs.rows[i].disk ELSE None
  <2>1. \A i \in Shard : rs.rows[i] \in ShardRow
    BY <1>r
  <2> QED BY <2>1 DEF ShardRow, LostRow
<1> HIDE DEF rows
<1>6. FilesInv'
  <2>1. TypeOK'
    BY <1>1, <1>4, <1>u, <1>r DEF TypeOK
  <2> QED BY <2>1, <1>4, <1>u, <1>r, ProcessStillFiles
<1>7. /\ rs' \in RsLocals /\ rs'.pc \in {"rows", "giveup"} /\ rs'.sid = rs.sid /\ rs'.from = rs.from
      /\ rs'.obj = rs.obj /\ rs'.old = rs.old /\ rs'.todo = rs.todo /\ rs'.new = rs.new /\ rs'.doomed = rs.doomed
      /\ rs'.rows \in {rows, rs.rows}
      /\ rs'.pc = "rows" => rs'.rows = rows /\ Cardinality(Lands) >= Need
                            /\ files' = files \cup {<<rs.rows[i].disk, rs.sid, i>> : i \in Lands}
  BY <1>3, <1>5, <1>r DEF RsLocals, RsPc
<1>8. RsOK'
  BY <1>7, <1>r, <1>u DEF RestripeFilesInv, RsOK, InFlight, Converting, Serving
<1>9. DraftsApart'
  BY <1>7, <1>u DEF RestripeFilesInv, DraftsApart, Drafts
<1>10. ReplacesListed'
  BY <1>7, <1>u DEF RestripeFilesInv, ReplacesListed
<1>11. DraftsWritten'
  <2>1. \A i, j \in Shard : i # j /\ rs'.rows[i].disk # None => rs'.rows[i].disk # rs'.rows[j].disk
    BY <1>5, <1>7 DEF RestripeFilesInv, DraftsWritten
  <2>2. ASSUME rs'.pc = "rows"
        PROVE  Written(rs.sid, rs.rows)'
    <3> DEFINE L == Lands
    <3>0. /\ rs'.rows = rows /\ rs'.sid = rs.sid /\ Cardinality(L) >= Need
          /\ files' = files \cup {<<rs.rows[i].disk, rs.sid, i>> : i \in L}
      BY <2>2, <1>7
    <3>1. {i \in Shard : rs'.rows[i].disk # None} = L
      BY <3>0, <1>2, <1>5, NoneAssumption
    <3>2. \A i \in Shard : rs'.rows[i].disk # None => <<rs'.rows[i].disk, rs'.sid, i>> \in files'
      BY <3>0, <1>5
    <3> QED BY <3>0, <3>1, <3>2 DEF Written
  <2>3. ASSUME NEW t \in rs.new, stripe[t].state = "pending"
        PROVE  Written(t, shard[t])'
    <3>1. Written(t, shard[t])
      BY <2>3, <1>r DEF RestripeFilesInv, DraftsWritten
    <3> QED BY <3>1, <1>4, <1>u DEF Written
  <2> QED BY <2>1, <2>2, <2>3, <1>7, <1>u DEF DraftsWritten
<1> QED BY <1>6, <1>8, <1>9, <1>10, <1>11 DEF RestripeFilesInv

LEMMA RestripeGiveUpFiles ==
  ASSUME RestripeFilesInv, RestripeGiveUp
  PROVE  RestripeFilesInv'
<1>r. FilesInv /\ TypeOK /\ rs \in RsLocals /\ rs.pc = "giveup" /\ Serving /\ rs.obj \in ObjId
      /\ rs.sid \in StripeId /\ rs.sid \notin rs.new /\ rs.sid \in Drafts
  BY NoneAssumption
     DEF RestripeFilesInv, RsOK, FilesInv, RestripeGiveUp, Converting, InFlight, RsLocals, DraftsApart, Drafts
<1>u. /\ UNCHANGED <<diskStatus, up, files, object, w, rd, phase, bootDoomed, crashes, faults>>
      /\ DropStripes({rs.sid}) /\ rs' = Raised
  BY DEF RestripeGiveUp, bootVars, SetRs
<1>1. /\ \A s \in StripeId :
           /\ stripe'[s].obj = stripe[s].obj /\ stripe'[s].key = stripe[s].key
           /\ s = rs.sid => stripe'[s].state = "gone"
           /\ s # rs.sid => stripe'[s] = stripe[s] /\ shard'[s] = shard[s]
      /\ VisibleInPlace' /\ DistinctDisks' /\ Redundant'
  <2>1. \A s \in StripeId : s # rs.sid => shard'[s] = shard[s]
    BY <1>u DEF DropStripes
  <2> QED BY <2>1, <1>r, <1>u, DropRows
<1>2. TypeOK'
  BY <1>u, <1>r, DropStripesType DEF TypeOK
<1>3. StripesHaveObject'
  BY <1>1, <1>u, <1>r DEF FilesInv, StripesHaveObject, Live
<1>4. Unheld(rs.sid)
  BY <1>r DEF RestripeFilesInv, DraftsApart, Unheld, InHand
<1>5. stripe[rs.sid].state \in {"pending", "gone"}
  BY <1>r DEF RestripeFilesInv, DraftsApart
<1>6. FilesInv'
  <2>1. \A s \in StripeId :
           /\ Unheld(s) \/ (stripe'[s].state = stripe[s].state /\ stripe'[s].obj = stripe[s].obj)
           /\ stripe[s].state = "gone" => stripe'[s].state = "gone"
           /\ stripe[s].state \in Visible => stripe'[s].state \in Visible \cup {"gone"}
    BY <1>1, <1>4
  <2> QED BY <2>1, <1>1, <1>2, <1>3, <1>u, <1>r, ProcessFiles
<1>7. rs.new \subseteq StripeId
  BY <1>r DEF RsLocals
<1> QED BY <1>1, <1>5, <1>6, <1>7, <1>u, <1>r, RaisedProcess DEF Converting, InFlight, Visible

LEMMA RestripeRowsFiles ==
  ASSUME RestripeFilesInv, RestripeRows
  PROVE  RestripeFilesInv'
<1>r. FilesInv /\ TypeOK /\ rs \in RsLocals /\ rs.pc = "rows" /\ Serving /\ rs.obj \in ObjId
      /\ rs.sid \in StripeId /\ rs.sid \notin rs.new /\ rs.sid \in Drafts /\ rs.from \in rs.todo
      /\ rs.todo \subseteq rs.old /\ rs.new \subseteq StripeId /\ rs.rows \in [Shard -> ShardRow]
  BY NoneAssumption
     DEF RestripeFilesInv, RsOK, FilesInv, RestripeRows, Converting, InFlight, RsLocals, DraftsApart, Drafts
<1>u. UNCHANGED <<diskStatus, up, files, object, w, rd, phase, bootDoomed, crashes, faults>>
  BY DEF RestripeRows, bootVars
<1>s. stripe[rs.sid].state \in {"pending", "gone"} /\ Unheld(rs.sid)
  BY <1>r DEF RestripeFilesInv, DraftsApart, Unheld, InHand
<1>1. CASE stripe[rs.sid].state = "gone"
  <2>1. rs' = Raised /\ UNCHANGED <<stripe, shard>>
    BY <1>1 DEF RestripeRows, SetRs
  <2>2. FilesInv'
    BY <2>1, <1>u, <1>r, StutterFiles DEF vars
  <2> QED BY <2>1, <2>2, <1>u, <1>r, RaisedProcess DEF Converting, InFlight
<1>2. CASE stripe[rs.sid].state # "gone"
  <2> DEFINE q == [rs EXCEPT !.pc = IF rs.todo = {rs.from} THEN "swap" ELSE "read",
                              !.todo = @ \ {rs.from}, !.from = None,
                              !.new = @ \cup {rs.sid}, !.sid = None, !.rows = NoRows]
  <2>0. /\ shard' = [shard EXCEPT ![rs.sid] = rs.rows]
        /\ stripe' = [stripe EXCEPT ![rs.sid].state = "pending"]
        /\ rs' = q
    BY <1>2 DEF RestripeRows, SetRs, StateAfter
  <2>1. UNCHANGED stripe
    <3>1. stripe[rs.sid].state = "pending" /\ stripe[rs.sid] \in StripeRow
      BY <1>2, <1>s, <1>r DEF TypeOK
    <3>2. [stripe[rs.sid] EXCEPT !.state = "pending"] = stripe[rs.sid]
      BY <3>1 DEF StripeRow
    <3> QED BY <3>2, <2>0, <1>r DEF TypeOK
  <2>2. /\ shard'[rs.sid] = rs.rows /\ \A t \in StripeId : t # rs.sid => shard'[t] = shard[t]
        /\ shard' \in [StripeId -> [Shard -> ShardRow]]
    BY <2>0, <1>r DEF TypeOK
  <2>3. \A i, j \in Shard : i # j /\ rs.rows[i].disk # None => rs.rows[i].disk # rs.rows[j].disk
    BY DEF RestripeFilesInv, DraftsWritten
  <2>4. FilesInv'
    <3>1. TypeOK'
      BY <2>1, <2>2, <1>u, <1>r DEF TypeOK
    <3>2. StripesHaveObject'
      BY <2>1, <1>u, <1>r DEF FilesInv, StripesHaveObject
    <3>3. DistinctDisks'
      BY <2>2, <2>3, <1>r DEF FilesInv, DistinctDisks
    <3>4. VisibleInPlace' /\ Redundant'
      BY <2>1, <2>2, <1>s, <1>u, <1>r DEF FilesInv, VisibleInPlace, Redundant, Visible
    <3>5. \A s \in StripeId :
           /\ Unheld(s) \/ (stripe'[s].state = stripe[s].state /\ stripe'[s].obj = stripe[s].obj)
           /\ stripe[s].state = "gone" => stripe'[s].state = "gone"
           /\ stripe[s].state \in Visible => stripe'[s].state \in Visible \cup {"gone"}
      BY <2>1
    <3> QED BY <3>1, <3>2, <3>3, <3>4, <3>5, <1>u, <1>r, ProcessFiles
  <2>5. /\ q \in RsLocals /\ q.pc \in {"swap", "read"} /\ q.todo = rs.todo \ {rs.from} /\ q.from = None
        /\ q.pc = "swap" => q.todo = {}
        /\ q.new = rs.new \cup {rs.sid} /\ q.sid = None /\ q.rows = NoRows
        /\ q.obj = rs.obj /\ q.old = rs.old /\ q.doomed = rs.doomed
    BY <1>r, IdleTypes DEF RsLocals, RsPc
  <2> HIDE DEF q
  <2>6. RsOK'
    BY <2>0, <2>5, <1>r, <1>u DEF RsOK, InFlight, Converting, Serving
  <2>7. DraftsApart'
    <3>1. ASSUME NEW s, s \in Drafts' PROVE s \in Drafts
      BY <3>1, <2>0, <2>5, <1>r DEF Drafts
    <3> QED BY <3>1, <2>0, <2>1, <2>5, <1>u, <1>r, NoneAssumption DEF RestripeFilesInv, DraftsApart
  <2>8. ReplacesListed'
    BY <2>0, <2>1, <2>5 DEF RestripeFilesInv, ReplacesListed
  <2>9. DraftsWritten'
    <3>1. Written(rs.sid, rs.rows)
      BY <1>2, <1>s, <1>r DEF RestripeFilesInv, DraftsWritten
    <3>2. ASSUME NEW t \in rs.new, stripe[t].state = "pending" PROVE Written(t, shard[t])
      BY <3>2, <1>r DEF RestripeFilesInv, DraftsWritten
    <3>3. ASSUME NEW t \in rs'.new, stripe'[t].state = "pending" PROVE Written(t, shard[t])'
      <4>1. t \in rs.new \/ t = rs.sid
        BY <3>3, <2>0, <2>5
      <4>2. Written(t, shard'[t])
        BY <4>1, <3>1, <3>2, <3>3, <2>1, <2>2, <1>r
      <4> QED BY <4>2, <1>u DEF Written
    <3> QED BY <3>3, <2>0, <2>5, IdleFields DEF DraftsWritten
  <2> QED BY <2>4, <2>6, <2>7, <2>8, <2>9 DEF RestripeFilesInv
<1> QED BY <1>1, <1>2

(* The swap lists what is written, and unlists what it replaces. *)
LEMMA SwapEffect ==
  ASSUME RestripeFilesInv, RestripeSwap
  PROVE  /\ \A s \in StripeId :
              /\ stripe'[s] \in StripeRow
              /\ stripe'[s].obj = stripe[s].obj /\ stripe'[s].key = stripe[s].key /\ stripe'[s].seq = stripe[s].seq
              /\ s \in rs.old => stripe'[s].state = "gone" /\ shard'[s] = NoRows
                                 /\ stripe[s].state \in Visible \cup {"gone"}
              /\ s \notin rs.old => shard'[s] = shard[s]
              /\ s \notin rs.old /\ s \in rs.new /\ stripe[s].state # "gone" =>
                   stripe[s].state = "pending" /\ stripe'[s].state = "committed"
              /\ s \notin rs.old /\ (s \notin rs.new \/ stripe[s].state = "gone") =>
                   stripe'[s].state = stripe[s].state
         /\ stripe' \in [StripeId -> StripeRow]
<1>r. TypeOK /\ rs \in RsLocals
  BY DEF RestripeFilesInv, RsOK, FilesInv
<1>1. stripe' = [s \in StripeId |-> [stripe[s] EXCEPT !.state = Swapped(s)]]
      /\ shard' = [s \in StripeId |-> IF s \in rs.old THEN NoRows ELSE shard[s]]
  BY DEF RestripeSwap
<1>2. ASSUME NEW s \in StripeId
      PROVE  /\ stripe'[s] \in StripeRow
             /\ stripe'[s].obj = stripe[s].obj /\ stripe'[s].key = stripe[s].key /\ stripe'[s].seq = stripe[s].seq
             /\ stripe'[s].state = Swapped(s)
  <2>1. stripe[s] \in StripeRow
    BY <1>r DEF TypeOK
  <2>2. Swapped(s) \in {"none", "pending", "committed", "unrecoverable", "gone"}
    BY <2>1 DEF Swapped, StripeRow
  <2> QED BY <1>1, <2>1, <2>2 DEF StripeRow
<1>3. \A s \in rs.old : stripe[s].state \in Visible \cup {"gone"}
  BY DEF RestripeFilesInv, ReplacesListed
<1>4. \A s \in rs.new : stripe[s].state \in {"pending", "gone"}
  BY DEF RestripeFilesInv, DraftsApart, Drafts
<1>5. stripe' \in [StripeId -> StripeRow]
  BY <1>1, <1>2
<1> QED BY <1>1, <1>2, <1>3, <1>4, <1>5 DEF Swapped

LEMMA RestripeSwapFiles ==
  ASSUME RestripeFilesInv, RestripeSwap
  PROVE  RestripeFilesInv'
<1>r. FilesInv /\ TypeOK /\ rs \in RsLocals /\ rs.pc = "swap" /\ Serving
      /\ rs.new \subseteq StripeId /\ rs.old \subseteq StripeId
  BY DEF RestripeFilesInv, RsOK, FilesInv, RestripeSwap, RsLocals
<1>u. /\ UNCHANGED <<diskStatus, up, files, object, w, rd, phase, bootDoomed, crashes, faults>>
      /\ shard' = [s \in StripeId |-> IF s \in rs.old THEN NoRows ELSE shard[s]]
      /\ rs' = [IdleRs EXCEPT !.pc = "unlink", !.doomed = OldFiles]
  BY DEF RestripeSwap, bootVars, SetRs
<1>1. TypeOK'
  <2>1. shard' \in [StripeId -> [Shard -> ShardRow]]
    BY <1>u, <1>r, RowsType DEF TypeOK
  <2> QED BY <2>1, SwapEffect, <1>u, <1>r DEF TypeOK
<1>2. ASSUME NEW s \in StripeId, stripe'[s].state \in Visible
      PROVE  /\ shard'[s] = shard[s]
             /\ stripe[s].state \in Visible \/ (stripe[s].state = "pending" /\ Written(s, shard[s]))
  <2>1. s \notin rs.old /\ shard'[s] = shard[s]
    BY <1>2, SwapEffect DEF Visible
  <2>2. s \in rs.new /\ stripe[s].state = "pending" => Written(s, shard[s])
    BY <1>r DEF RestripeFilesInv, DraftsWritten
  <2> QED BY <2>1, <2>2, <1>2, SwapEffect DEF Visible
<1>3. VisibleInPlace'
  BY <1>2, <1>u, <1>r DEF FilesInv, VisibleInPlace, Written
<1>4. DistinctDisks'
  <2>1. \A s \in StripeId : shard'[s] = shard[s] \/ shard'[s] = NoRows
    BY SwapEffect
  <2> QED BY <2>1, <1>r, IdleFields DEF FilesInv, DistinctDisks
<1>5. Redundant'
  <2> SUFFICES ASSUME NEW s \in StripeId, stripe'[s].state \in {"committed", "unrecoverable"}
               PROVE  LET placed == Cardinality({i \in Shard : shard'[s][i].disk # None}) IN
                      placed >= K + MinWriteExtra \/ placed >= K + M
    BY DEF Redundant
  <2>1. shard'[s] = shard[s]
    BY <1>2 DEF Visible
  <2>2. CASE stripe[s].state \in Visible
    BY <2>1, <2>2, <1>r DEF FilesInv, Redundant, Visible
  <2>3. CASE Written(s, shard[s])
    BY <2>1, <2>3 DEF Written, Need
  <2> QED BY <1>2, <2>2, <2>3 DEF Visible
<1>6. StripesHaveObject'
  BY SwapEffect, <1>u, <1>r DEF FilesInv, StripesHaveObject, Live
<1>7. \A s \in StripeId :
        /\ Unheld(s) \/ (stripe'[s].state = stripe[s].state /\ stripe'[s].obj = stripe[s].obj)
        /\ stripe[s].state = "gone" => stripe'[s].state = "gone"
        /\ stripe[s].state \in Visible => stripe'[s].state \in Visible \cup {"gone"}
  <2>1. \A s \in rs.new : Unheld(s)
    BY DEF RestripeFilesInv, DraftsApart, Drafts, Unheld, InHand
  <2>2. \A s \in rs.old : Unheld(s)
    BY SwapEffect, NobodyHolds, <1>r DEF Visible
  <2> QED BY <2>1, <2>2, SwapEffect DEF Visible
<1>8. FilesInv'
  BY <1>1, <1>3, <1>4, <1>5, <1>6, <1>7, <1>u, <1>r, ProcessFiles
<1>9. OldFiles \subseteq File /\ \A f \in OldFiles : f[2] \in rs.old
  BY DEF OldFiles, RowFiles
<1>10. /\ rs' \in RsLocals /\ rs'.pc = "unlink" /\ rs'.doomed = OldFiles /\ rs'.obj = 0 /\ rs'.old = {}
       /\ rs'.todo = {} /\ rs'.from = None /\ rs'.sid = None /\ rs'.rows = NoRows /\ rs'.new = {}
  BY <1>9, <1>u, IdleTypes DEF IdleRs, RsLocals, RsPc
<1>11. RsOK' /\ DraftsApart'
  BY <1>10, <1>r, <1>u DEF RsOK, InFlight, Converting, Serving, DraftsApart, Drafts
<1>12. ReplacesListed'
  BY <1>9, <1>10, <1>r, SwapEffect DEF ReplacesListed
<1>13. DraftsWritten'
  BY <1>10, IdleFields DEF DraftsWritten
<1> QED BY <1>8, <1>11, <1>12, <1>13 DEF RestripeFilesInv

LEMMA RestripeUnlinkFiles ==
  ASSUME RestripeFilesInv, RestripeUnlink
  PROVE  RestripeFilesInv'
<1>1. /\ UNCHANGED <<diskStatus, up, object, stripe, shard, w, rd, phase, bootDoomed, crashes, faults>>
      /\ files' = Unlinked(rs.doomed) /\ rs' = IdleRs
  BY DEF RestripeUnlink, bootVars, dbVars, SetRs
<1>2. \A f \in rs.doomed : f[2] \in StripeId /\ stripe[f[2]].state = "gone"
  BY DEF RestripeFilesInv, RsOK, RsLocals, ReplacesListed, File
<1>3. \A f \in files : f \in files' \/ (Unheld(f[2]) /\ stripe[f[2]].state \notin Visible)
  BY <1>1, <1>2, NobodyHolds DEF RestripeFilesInv, Unlinked, Visible
<1>4. TypeOK'
  BY <1>1 DEF RestripeFilesInv, FilesInv, TypeOK, Unlinked
<1>5. FilesInv'
  BY <1>1, <1>3, <1>4, ProcessStillFiles DEF RestripeFilesInv
<1> QED BY <1>1, <1>5, IdleProcess

LEMMA RestripeRaisesFiles ==
  ASSUME RestripeFilesInv, RestripeRaises
  PROVE  RestripeFilesInv'
<1>1. UNCHANGED vars
  BY DEF RestripeRaises
<1>2. FilesInv'
  BY <1>1, StutterFiles DEF RestripeFilesInv
<1>3. CASE rs.pc \in {"read", "insert", "write", "giveup", "rows"} /\ rs' = Raised
  BY <1>1, <1>2, <1>3, RaisedProcess DEF Converting, InFlight, vars
<1>4. CASE rs' = IdleRs
  BY <1>2, <1>4, IdleProcess
<1> QED BY <1>3, <1>4 DEF RestripeRaises, SetRs

LEMMA RestripeUndoFiles ==
  ASSUME RestripeFilesInv, RestripeUndo
  PROVE  RestripeFilesInv'
<1>r. rs \in RsLocals /\ rs.pc = "undo" /\ Serving /\ rs.obj \in ObjId /\ rs.new \subseteq StripeId
  BY DEF RestripeFilesInv, RsOK, RestripeUndo, RsLocals
<1>1. /\ UNCHANGED <<diskStatus, up, object, stripe, shard, w, rd, phase, bootDoomed, crashes, faults>>
      /\ files' = Unlinked(RowFiles(rs.new)) /\ rs' = [rs EXCEPT !.pc = "undone"]
  BY DEF RestripeUndo, bootVars, dbVars, SetRs
<1>2. \A s \in rs.new : Unheld(s) /\ stripe[s].state \notin Visible
  BY DEF RestripeFilesInv, DraftsApart, Drafts, Unheld, InHand, Visible
<1>3. \A f \in files : f \in files' \/ (Unheld(f[2]) /\ stripe[f[2]].state \notin Visible)
  BY <1>1, <1>2 DEF Unlinked, RowFiles
<1>4. TypeOK'
  BY <1>1 DEF RestripeFilesInv, FilesInv, TypeOK, Unlinked
<1>5. FilesInv'
  BY <1>1, <1>3, <1>4, ProcessStillFiles DEF RestripeFilesInv
<1>6. /\ rs' \in RsLocals /\ rs'.pc = "undone" /\ rs'.sid = rs.sid /\ rs'.from = rs.from /\ rs'.rows = rs.rows
      /\ rs'.obj = rs.obj /\ rs'.old = rs.old /\ rs'.todo = rs.todo /\ rs'.new = rs.new /\ rs'.doomed = rs.doomed
  BY <1>1, <1>r DEF RsLocals, RsPc
<1>7. RsOK'
  BY <1>6, <1>r, <1>1 DEF RestripeFilesInv, RsOK, InFlight, Converting, Serving
<1>8. DraftsApart' /\ ReplacesListed'
  BY <1>6, <1>1 DEF RestripeFilesInv, DraftsApart, Drafts, ReplacesListed
<1>9. DraftsWritten'
  BY <1>6 DEF RestripeFilesInv, DraftsWritten
<1> QED BY <1>5, <1>7, <1>8, <1>9 DEF RestripeFilesInv

LEMMA RestripeUndoneFiles ==
  ASSUME RestripeFilesInv, RestripeUndone
  PROVE  RestripeFilesInv'
<1>r. FilesInv /\ TypeOK /\ rs.new \subseteq StripeId
  BY DEF RestripeFilesInv, RsOK, FilesInv, RsLocals
<1>u. /\ UNCHANGED <<diskStatus, up, files, object, w, rd, phase, bootDoomed, crashes, faults>>
      /\ DropStripes(rs.new) /\ rs' = IdleRs
  BY DEF RestripeUndone, bootVars, SetRs
<1>1. TypeOK'
  BY <1>u, <1>r, DropStripesType DEF TypeOK
<1>2. StripesHaveObject'
  BY <1>u, <1>r, DropRows DEF FilesInv, StripesHaveObject, Live
<1>3. \A s \in rs.new : Unheld(s)
  BY DEF RestripeFilesInv, DraftsApart, Drafts, Unheld, InHand
<1>4. \A s \in StripeId :
        /\ Unheld(s) \/ (stripe'[s].state = stripe[s].state /\ stripe'[s].obj = stripe[s].obj)
        /\ stripe[s].state = "gone" => stripe'[s].state = "gone"
        /\ stripe[s].state \in Visible => stripe'[s].state \in Visible \cup {"gone"}
  BY <1>3, <1>u, <1>r, DropRows
<1>5. VisibleInPlace' /\ DistinctDisks' /\ Redundant'
  BY <1>u, <1>r, DropRows
<1>6. FilesInv'
  BY <1>1, <1>2, <1>4, <1>5, <1>u, <1>r, ProcessFiles
<1> QED BY <1>6, <1>u, IdleProcess

-----------------------------------------------------------------------------
(* The steps of the server, and the invariant.                               *)

LEMMA ServerFiles ==
  ASSUME RestripeFilesInv, ServerStep, "restart" \notin Beside
  PROVE  RestripeFilesInv'
<1>0. Next /\ FilesInv /\ TypeOK
  BY DEF ServerStep, RestripeFilesInv, FilesInv
<1>1. FilesInv'
  BY <1>0, NextFiles
<1>2. CASE rs' = IdleRs
  BY <1>1, <1>2, IdleProcess
<1>3. CASE rs' # IdleRs
  <2>1. UNCHANGED rs /\ crashes' = crashes
    BY <1>3 DEF ServerStep
  <2>r. rs.pc # "idle" /\ Serving /\ rs \in RsLocals
    BY <1>3, <2>1 DEF RestripeFilesInv, RsOK
  <2>2. Serving'
    BY <1>0, <2>1, <2>r, NoBoot
  <2>3. RsOK'
    BY <2>1, <2>2, <2>r DEF RestripeFilesInv, RsOK, Serving, IdleRs
  <2>4. ASSUME NEW s \in StripeId
        PROVE  RowsSpared(s)
    BY <1>0, <2>1, <2>r, RowsStaySpared
  <2>5. Drafts \subseteq StripeId /\ rs.old \subseteq StripeId /\ \A f \in rs.doomed : f[2] \in StripeId
    BY <2>r DEF Drafts, RsLocals, File
  <2>6. ASSUME NEW s \in Drafts
        PROVE  /\ Unheld(s) /\ Unheld(s)' /\ stripe[s].state \in {"pending", "gone"}
               /\ stripe'[s].state \in {"pending", "gone"}
               /\ stripe'[s].state = "pending" =>
                    stripe[s].state = "pending" /\ shard'[s] = shard[s]
                      /\ \A f \in files : f[2] = s => f \in files'
    <3>1. Unheld(s) /\ stripe[s].state \in {"pending", "gone"}
      BY DEF RestripeFilesInv, DraftsApart, Unheld, InHand
    <3>2. Unheld(s)'
      BY <3>1, <2>5, <1>0, StillUnheld
    <3>3. stripe'[s].state \in {"pending", "gone"}
          /\ (stripe'[s].state = "pending" => stripe[s].state = "pending" /\ shard'[s] = shard[s])
      BY <3>1, <2>4, <2>5 DEF RowsSpared
    <3>4. ASSUME NEW f \in files, f[2] = s, stripe'[s].state = "pending"
          PROVE  f \in files'
      BY <3>1, <3>3, <3>4, <1>0, <2>1, <2>r, FilesStay
    <3> QED BY <3>1, <3>2, <3>3, <3>4
  <2>7. DraftsApart'
    <3>1. \A s : s \in Drafts' <=> s \in Drafts
      BY <2>1 DEF Drafts
    <3> QED BY <3>1, <2>1, <2>6 DEF RestripeFilesInv, DraftsApart, Unheld, InHand
  <2>8. ReplacesListed'
    BY <2>1, <2>4, <2>5 DEF RestripeFilesInv, ReplacesListed, RowsSpared
  <2>9. DraftsWritten'
    <3>1. ASSUME NEW s \in Drafts, stripe'[s].state = "pending", NEW r, Written(s, r)
          PROVE  Written(s, r)'
      BY <3>1, <2>6 DEF Written
    <3>2. ASSUME rs.pc = "rows", stripe'[rs.sid].state = "pending"
          PROVE  Written(rs.sid, rs.rows)'
      <4>1. rs.sid \in Drafts
        BY <3>2 DEF RestripeFilesInv, RsOK, InFlight, Drafts
      <4>2. Written(rs.sid, rs.rows)
        BY <3>2, <4>1, <2>6 DEF RestripeFilesInv, DraftsWritten
      <4> DEFINE s0 == rs.sid  r0 == rs.rows
      <4>3. \A s \in Drafts : \A r : stripe'[s].state = "pending" /\ Written(s, r) =>
              /\ \A i \in Shard : r[i].disk # None => <<r[i].disk, s, i>> \in files'
              /\ Cardinality({i \in Shard : r[i].disk # None}) >= Need
        BY <2>6 DEF Written
      <4> QED BY <4>1, <4>2, <4>3, <3>2, <2>1 DEF Written
    <3>3. ASSUME rs.pc # "undone", NEW s \in rs.new, stripe'[s].state = "pending"
          PROVE  Written(s, shard[s])'
      <4>1. s \in Drafts
        BY DEF Drafts
      <4>2. Written(s, shard[s]) /\ shard'[s] = shard[s]
        BY <4>1, <3>3, <2>6 DEF RestripeFilesInv, DraftsWritten
      <4> QED BY <4>1, <4>2, <3>3, <2>6 DEF Written
    <3> QED BY <3>2, <3>3, <2>1 DEF RestripeFilesInv, DraftsWritten
  <2> QED BY <1>1, <2>3, <2>7, <2>8, <2>9 DEF RestripeFilesInv
<1> QED BY <1>2, <1>3

LEMMA RestripeInitFiles == RestripeInit => RestripeFilesInv
<1> SUFFICES ASSUME RestripeInit PROVE RestripeFilesInv
  OBVIOUS
<1>1. FilesInv /\ rs = IdleRs
  BY InitFiles DEF RestripeInit
<1>2. RsOK /\ DraftsApart /\ ReplacesListed
  BY <1>1, IdleRsFields DEF RsOK, DraftsApart, ReplacesListed, Drafts, InFlight, Converting
<1>3. DraftsWritten
  BY <1>1, IdleRsFields, IdleFields DEF DraftsWritten
<1> QED BY <1>1, <1>2, <1>3 DEF RestripeFilesInv

LEMMA RestripeStutterFiles ==
  ASSUME RestripeFilesInv, UNCHANGED rvars
  PROVE  RestripeFilesInv'
<1>1. FilesInv' /\ UNCHANGED vars /\ UNCHANGED rs
  BY StutterFiles DEF RestripeFilesInv, rvars
<1>2. RsOK' /\ DraftsApart' /\ ReplacesListed' /\ DraftsWritten'
  BY <1>1 DEF RestripeFilesInv, RsOK, DraftsApart, ReplacesListed, DraftsWritten, Drafts, Written, Serving, vars
<1> QED BY <1>1, <1>2 DEF RestripeFilesInv

LEMMA NextRestripeFiles ==
  ASSUME RestripeFilesInv, [ServerStep \/ RestripeStep]_rvars, "restart" \notin Beside
  PROVE  RestripeFilesInv'
<1>1. ASSUME RestripeStep PROVE RestripeFilesInv'
  BY <1>1, RestripeBeginFiles, RestripeReadFiles, RestripeInsertFiles, RestripeWriteFiles,
     RestripeGiveUpFiles, RestripeRowsFiles, RestripeSwapFiles, RestripeUnlinkFiles,
     RestripeRaisesFiles, RestripeUndoFiles, RestripeUndoneFiles DEF RestripeStep
<1> QED BY <1>1, ServerFiles, RestripeStutterFiles

(* FilesInv survives a restripe beside any calls, of the same object too,    *)
(* and a crash that ends both; without a lock in restripe_object this rests  *)
(* on the stripes it writes being nobody else's.                             *)
THEOREM RestripeCorrect ==
  ASSUME "restart" \notin Beside
  PROVE  RestripeSpec => []RestripeFilesInv
<1>1. RestripeInit => RestripeFilesInv
  BY RestripeInitFiles
<1>2. RestripeFilesInv /\ [ServerStep \/ RestripeStep]_rvars => RestripeFilesInv'
  BY NextRestripeFiles
<1> QED BY <1>1, <1>2, PTL DEF RestripeSpec

(* What a reader may list names files that are there, whatever a restripe    *)
(* and the calls for its object do to each other (restripe_object).          *)
THEOREM VisibleInPlaceHolds ==
  ASSUME "restart" \notin Beside
  PROVE  RestripeSpec => []VisibleInPlace
<1>1. RestripeFilesInv => VisibleInPlace
  BY DEF RestripeFilesInv, FilesInv
<1> QED BY <1>1, RestripeCorrect, PTL

(* So are the disks of a stripe distinct, and enough: a restripe keeps       *)
(* k + min_write_extra as a put does (_write_stripe for both).               *)
THEOREM RestripeRedundantHolds ==
  ASSUME "restart" \notin Beside
  PROVE  RestripeSpec => [](DistinctDisks /\ Redundant)
<1>1. RestripeFilesInv => DistinctDisks /\ Redundant
  BY DEF RestripeFilesInv, FilesInv
<1> QED BY <1>1, RestripeCorrect, PTL

-----------------------------------------------------------------------------
(* Where no call for the object runs: what the server leaves of it.          *)

StripeLeft(s, o) ==
  \/ stripe[s].state \in Live /\ stripe[s].obj = o
  \/ stripe'[s].state \in Live /\ stripe'[s].obj = o
  => SteadyStripe(s)
ObjectLeft(o) == object'[o] = object[o] /\ \A s \in StripeId : StripeLeft(s, o)

LEMMA SameLeft ==
  ASSUME NEW o, UNCHANGED <<object, stripe>>
  PROVE  ObjectLeft(o)
BY DEF ObjectLeft, StripeLeft, SteadyStripe

LEMMA DropLeft ==
  ASSUME FilesInv, NEW o, NEW S, DropStripes(S), UNCHANGED files,
         \A s \in S : s \in StripeId => stripe[s].obj # o
  PROVE  \A s \in StripeId : StripeLeft(s, o)
BY DropRows DEF StripeLeft, SteadyStripe, Live

LEMMA ObjectStays ==
  ASSUME FilesInv, Next, Serving, crashes' = crashes,
         NEW o \in ObjId, object[o].state # "none",
         \A k \in Key : KeyRow(k, o) => w[k].pc = "idle"
  PROVE  ObjectLeft(o)
<1>r. TypeOK
  BY DEF FilesInv
<1>0. \A k \in Key : /\ w[k].pc \in Writing \cup {"delete"} => w[k].obj # o
                     /\ w[k].pc \in Writing => w[k].obj \in ObjId
  BY FilesHolds, <1>r DEF Holds, Writing, TypeOK, WriterOK
<1>1. ASSUME NEW k \in Key, PutInsert(k) PROVE ObjectLeft(o)
  <2>1. PICK p \in ObjId : /\ object[p].state = "none"
                           /\ object' = [object EXCEPT ![p] = [state |-> "pending", key |-> k, size |-> 0]]
    BY <1>1 DEF PutInsert, IsNextRowId
  <2>2. object'[o] = object[o] /\ UNCHANGED stripe
    BY <2>1, <1>1, <1>r DEF PutInsert, TypeOK
  <2> QED BY <2>2 DEF ObjectLeft, StripeLeft, SteadyStripe
<1>2. ASSUME NEW k \in Key, StripeBegin(k) PROVE ObjectLeft(o)
  <2>1. PICK t \in StripeId :
          /\ stripe[t].state = "none"
          /\ stripe' = [stripe EXCEPT ![t] = [state |-> "pending", obj |-> w[k].obj, key |-> k, seq |-> w[k].seq]]
    BY <1>2 DEF StripeBegin
  <2>2. stripe'[t].obj = w[k].obj /\ \A u \in StripeId : u # t => stripe'[u] = stripe[u]
    BY <2>1, <1>r DEF TypeOK
  <2>3. w[k].obj # o /\ UNCHANGED object
    BY <1>0, <1>2 DEF StripeBegin, Writing
  <2> QED BY <2>1, <2>2, <2>3 DEF ObjectLeft, StripeLeft, SteadyStripe, Live
<1>3. ASSUME NEW k \in Key, StripeCommit(k) PROVE ObjectLeft(o)
  <2>1. w[k].sid \in StripeId /\ stripe[w[k].sid].obj # o /\ UNCHANGED object
    BY <1>3, <1>0, OwnStripe DEF StripeCommit, AllTried, Writing
  <2>2. stripe'[w[k].sid].obj # o /\ \A u \in StripeId : u # w[k].sid => stripe'[u] = stripe[u]
    BY <2>1, <1>3, <1>r DEF StripeCommit, TypeOK, StripeRow
  <2> QED BY <2>1, <2>2 DEF ObjectLeft, StripeLeft, SteadyStripe
<1>4. ASSUME NEW k \in Key, StripeDrop(k) PROVE ObjectLeft(o)
  <2>1. stripe[w[k].sid].obj # o
    BY <1>4, <1>0, OwnStripe DEF StripeDrop, Writing
  <2>2. DropStripes({w[k].sid}) /\ UNCHANGED <<object, files>>
    BY <1>4 DEF StripeDrop
  <2> QED BY <2>1, <2>2, DropLeft DEF ObjectLeft
<1>5. ASSUME NEW k \in Key, PutCommit(k) PROVE ObjectLeft(o)
  <2>1. w[k].obj # o /\ w[k].obj \in ObjId
    BY <1>5, <1>0 DEF PutCommit, Writing
  <2>2. object'[o] = object[o] /\ UNCHANGED stripe
    BY <2>1, <1>5, <1>r DEF PutCommit, TypeOK
  <2> QED BY <2>2 DEF ObjectLeft, StripeLeft, SteadyStripe
<1>6. ASSUME NEW k \in Key, DeleteRows(k) PROVE ObjectLeft(o)
  <2>1. w[k].obj # o
    BY <1>6, <1>0 DEF DeleteRows
  <2>2. object'[o] = object[o] /\ DropStripes(StripesOf(w[k].obj)) /\ UNCHANGED files
    BY <2>1, <1>6, <1>r DEF DeleteRows, TypeOK
  <2>3. \A s \in StripesOf(w[k].obj) : stripe[s].obj # o
    BY <2>1 DEF StripesOf
  <2> QED BY <2>2, <2>3, DropLeft DEF ObjectLeft
<1>7. ASSUME NEW x \in Reader, ReadUnrecoverable(x) PROVE ObjectLeft(o)
  <2>1. rd[x].sid \in StripeId /\ stripe[rd[x].sid].state \in Visible \cup {"gone"} /\ UNCHANGED object
    BY <1>7, <1>r DEF FilesInv, TypeOK, ReadUnrecoverable, ReadOver, ReaderOK, ListsVisible
  <2>2. \A s \in StripeId : SteadyStripe(s)
    BY <2>1, <1>7, <1>r DEF TypeOK, StripeRow, ReadUnrecoverable, SteadyStripe, Visible
  <2> QED BY <2>1, <2>2 DEF ObjectLeft, StripeLeft
<1>8. ASSUME NEW k \in Key,
             \/ \E n \in 1 .. MaxStripes : PutBegin(k, n)
             \/ (\E i \in Shard : WriteShard(k, i) \/ WriteShardFails(k, i))
             \/ StripeGiveUp(k) \/ PutRaises(k)
             \/ DeleteBegin(k) \/ DeleteRaises(k) \/ Unlink(k)
      PROVE  UNCHANGED <<object, stripe>>
  BY <1>8 DEF PutBegin, WriteShard, WriteShardFails, StripeGiveUp, PutRaises, DeleteBegin,
              DeleteRaises, Unlink, dbVars
<1>9. ASSUME NEW x \in Reader,
             \/ \E k \in Key : ReadStat(x, k)
             \/ ReadList(x) \/ ReadRows(x)
             \/ (\E i \in Shard : ReadSkip(x, i) \/ ReadShard(x, i) \/ ReadMissing(x, i) \/ ReadFails(x, i))
             \/ ReadDecode(x) \/ ReadEnd(x)
      PROVE  UNCHANGED <<object, stripe>>
  BY <1>9 DEF ReadStat, ReadList, ReadRows, ReadSkip, ReadShard, ReadMissing, ReadFails, ReadDecode,
              ReadEnd, dbVars
<1>10. ASSUME NEW d \in Disk, DiskDown(d) \/ DiskUp(d) \/ HealthCheck(d)
       PROVE  UNCHANGED <<object, stripe>>
  BY <1>10 DEF DiskDown, DiskUp, HealthCheck, dbVars
<1>11. ~Crash /\ ~BootSweep /\ ~BootDrop /\ ~(\E p \in ObjId : BootObject(p)) /\ ~BootUnlink /\ ~BootServe
  BY NoBoot, <1>r DEF BootStep
<1> QED BY Actions, SameLeft, <1>1, <1>2, <1>3, <1>4, <1>5, <1>6, <1>7, <1>8, <1>9, <1>10, <1>11

(* What a restripe knows of its object stays so beside such a server.        *)
RestInv == RestripeFilesInv /\ CallInv /\ ObjectAtRest /\ DraftsNumbered
Working == Converting \cup {"undo", "undone"}

LEMMA RestInvTypes ==
  ASSUME RestInv
  PROVE  /\ TypeOK /\ FilesInv /\ WholeInv /\ rs \in RsLocals
         /\ rs.old \subseteq StripeId /\ rs.new \subseteq StripeId /\ rs.todo \subseteq rs.old
         /\ rs.pc \in Working => rs.obj \in ObjId /\ Serving
         /\ rs.pc \in InFlight => rs.sid \in StripeId /\ rs.from \in rs.todo
         /\ Drafts \subseteq StripeId
BY DEF RestInv, RestripeFilesInv, CallInv, WholeInv, FilesInv, RsOK, RsLocals, Working, Converting, InFlight, Drafts

LEMMA VisibleIs ==
  ASSUME NEW o
  PROVE  /\ VisibleStripes(o) = {s \in StripeId : stripe[s].obj = o /\ stripe[s].state \in Visible}
         /\ VisibleStripes(o)' = {s \in StripeId : stripe'[s].obj = o /\ stripe'[s].state \in Visible}
BY DEF VisibleStripes, StripesOf

LEMMA VisibleNext ==
  ASSUME NEW o, rs'.obj = o
  PROVE  VisibleStripes(rs.obj)' = {s \in StripeId : stripe'[s].obj = o /\ stripe'[s].state \in Visible}
BY DEF VisibleStripes, StripesOf

LEMMA SteadyVisible ==
  ASSUME NEW o, \A s \in StripeId : StripeLeft(s, o)
  PROVE  VisibleStripes(o)' = VisibleStripes(o)
<1>1. ASSUME NEW s \in StripeId
      PROVE  stripe[s].obj = o /\ stripe[s].state \in Visible <=> stripe'[s].obj = o /\ stripe'[s].state \in Visible
  BY DEF StripeLeft, SteadyStripe, Live, Visible
<1> QED BY <1>1, VisibleIs

(* A step that leaves the process and its object as they are. *)
LEMMA RestStays ==
  ASSUME RestInv, UNCHANGED rs, rs.pc \in Working,
         ObjectLeft(rs.obj), \A k \in Key : KeyRow(k, rs.obj) => w'[k].pc = "idle"
  PROVE  ObjectAtRest' /\ DraftsNumbered'
<1>1. rs.obj \in ObjId /\ object'[rs.obj] = object[rs.obj] /\ \A s \in StripeId : StripeLeft(s, rs.obj)
  BY RestInvTypes DEF ObjectLeft
<1>2. \A k \in Key : KeyRow(k, rs.obj)' => w'[k].pc = "idle"
  BY <1>1 DEF KeyRow
<1>3. ASSUME NEW s \in Drafts
      PROVE  stripe'[s].state = "pending" /\ stripe'[s].obj = rs.obj /\ stripe'[s].seq = stripe[s].seq
  <2>1. stripe[s].state = "pending" /\ stripe[s].obj = rs.obj /\ s \in StripeId
    BY RestInvTypes DEF RestInv, ObjectAtRest, Working
  <2> QED BY <2>1, <1>1 DEF StripeLeft, SteadyStripe, Live, Visible
<1>4. ObjectAtRest'
  <2>1. \A s : s \in Drafts' <=> s \in Drafts
    BY DEF Drafts
  <2> QED BY <2>1, <1>1, <1>2, <1>3 DEF RestInv, ObjectAtRest, Working
<1>5. VisibleStripes(rs.obj)' = VisibleStripes(rs.obj)
  BY <1>1, SteadyVisible
<1>6. rs.pc \in Converting => rs.old = VisibleStripes(rs.obj)
  BY DEF RestInv, DraftsNumbered
<1>7. rs.pc \in Converting => \A s \in rs.old : stripe'[s].seq = stripe[s].seq
  <2>1. \A s \in VisibleStripes(rs.obj) : s \in StripeId /\ stripe[s].obj = rs.obj /\ stripe[s].state \in Live
    BY VisibleIs DEF Live, Visible
  <2> QED BY <2>1, <1>1, <1>6 DEF StripeLeft, SteadyStripe
<1>8. \A s \in rs.new : stripe'[s].seq = stripe[s].seq
  BY <1>3 DEF Drafts
<1>9. rs.pc \in InFlight => stripe'[rs.sid].seq = stripe[rs.sid].seq /\ rs.from \in rs.old
  BY <1>3, RestInvTypes, NoneAssumption DEF Drafts
<1>10. DraftsNumbered'
  <2> SUFFICES ASSUME rs.pc \in Converting
               PROVE  /\ rs.old = VisibleStripes(rs.obj)'
                      /\ rs.pc \in InFlight => stripe'[rs.sid].seq = stripe'[rs.from].seq
                      /\ object'[rs.obj].state = "committed" =>
                           /\ \A s \in rs.new : \E t \in rs.old \ rs.todo : stripe'[t].seq = stripe'[s].seq
                           /\ \A t \in rs.old \ rs.todo : \E s \in rs.new : stripe'[s].seq = stripe'[t].seq
                           /\ \A s, t \in rs.new : stripe'[s].seq = stripe'[t].seq => s = t
    BY DEF DraftsNumbered, VisibleStripes, StripesOf
  <2>1. rs.pc \in InFlight => stripe'[rs.sid].seq = stripe'[rs.from].seq
    BY <1>7, <1>9 DEF RestInv, DraftsNumbered
  <2>2. object'[rs.obj].state = "committed" =>
           /\ \A s \in rs.new : \E t \in rs.old \ rs.todo : stripe'[t].seq = stripe'[s].seq
           /\ \A t \in rs.old \ rs.todo : \E s \in rs.new : stripe'[s].seq = stripe'[t].seq
           /\ \A s, t \in rs.new : stripe'[s].seq = stripe'[t].seq => s = t
    <3>1. object[rs.obj].state = "committed" =>
           /\ \A s \in rs.new : \E t \in rs.old \ rs.todo : stripe[t].seq = stripe[s].seq
           /\ \A t \in rs.old \ rs.todo : \E s \in rs.new : stripe[s].seq = stripe[t].seq
           /\ \A s, t \in rs.new : stripe[s].seq = stripe[t].seq => s = t
      BY DEF RestInv, DraftsNumbered
    <3> QED BY <3>1, <1>1, <1>7, <1>8
  <2> QED BY <2>1, <2>2, <1>5, <1>6
<1> QED BY <1>4, <1>10

LEMMA ServerRest ==
  ASSUME RestInv, ServerStep, Beside = {}
  PROVE  Refines /\ ObjectAtRest' /\ DraftsNumbered'
<1>0. Next /\ FilesInv /\ WholeInv /\ CallInv
  BY DEF ServerStep, RestInv, RestripeFilesInv, CallInv
<1>1. Refines
  BY <1>0, NextWhole, NextRefines
<1>2. CASE rs' = IdleRs
  BY <1>1, <1>2, IdleRsFields DEF ObjectAtRest, DraftsNumbered, Converting, InFlight
<1>3. CASE rs' # IdleRs
  <2>1. UNCHANGED rs /\ crashes' = crashes
    BY <1>3 DEF ServerStep
  <2>2. CASE rs.pc \in Working
    <3>1. rs.obj \in ObjId /\ Serving
      BY <2>2, RestInvTypes
    <3>2. object[rs.obj].state # "none" /\ \A k \in Key : KeyRow(k, rs.obj) => w[k].pc = "idle"
      BY <2>2 DEF RestInv, ObjectAtRest, Working
    <3>3. \A k \in Key : KeyRow(k, rs.obj) => w'[k].pc = "idle"
      BY <3>1, <3>2 DEF ServerStep, Begins, Restriped
    <3>4. ObjectLeft(rs.obj)
      BY <3>1, <3>2, <2>1, <1>0, ObjectStays
    <3> QED BY <1>1, <2>1, <2>2, <3>3, <3>4, RestStays
  <2>3. CASE rs.pc \notin Working
    BY <1>1, <2>1, <2>3 DEF ObjectAtRest, DraftsNumbered, Working
  <2> QED BY <2>2, <2>3
<1> QED BY <1>2, <1>3

(* A step of the process changes stripes of its object only. *)
LEMMA ProcessWhole ==
  ASSUME RestInv, FilesInv', rs.pc \in Working, UNCHANGED <<object, w>>, TouchesOnly(rs.obj),
         object[rs.obj].state = "committed" => Numbered(stripe', rs.obj, object[rs.obj].size)
  PROVE  WholeInv'
<1>0. FilesInv /\ WholeInv /\ \A k \in Key : KeyRow(k, rs.obj) => w[k].pc = "idle"
  BY RestInvTypes DEF RestInv, ObjectAtRest, Working
<1>1. ASSUME NEW k \in Key
      PROVE  Writes(stripe', w[k])
  <2>1. CASE w[k].pc \notin Writing
    BY <2>1, <1>0 DEF WholeInv, Writes
  <2>2. CASE w[k].pc \in Writing
    <3>1. w[k].obj # rs.obj
      BY <2>2, <1>0, FilesHolds DEF Holds, Writing
    <3>2. w[k].pc \in {"shards", "giveup"} =>
            w[k].sid \in StripeId /\ stripe[w[k].sid].obj = w[k].obj /\ stripe[w[k].sid].state = "pending"
      BY <1>0, OwnStripe
    <3>3. w[k].pc \in {"shards", "giveup"} => stripe'[w[k].sid] = stripe[w[k].sid]
      BY <3>1, <3>2 DEF TouchesOnly
    <3>4. /\ \A n : Numbered(stripe, w[k].obj, n) => Numbered(stripe', w[k].obj, n)
          /\ \A s \in StripeId : stripe'[s].obj = w[k].obj /\ stripe'[s].state = "pending"
                                  => stripe[s].obj = w[k].obj /\ stripe[s].state = "pending"
      BY <3>1, <1>0, TouchesOnlySame
    <3>5. Writes(stripe, w[k])
      BY <1>0 DEF WholeInv
    <3> QED BY <2>2, <3>3, <3>4, <3>5 DEF Writes
  <2> QED BY <2>1, <2>2
<1>2. ASSUME NEW o \in ObjId PROVE Whole(stripe', object[o], o)
  <2>1. CASE o = rs.obj
    BY <2>1 DEF Whole
  <2>2. CASE o # rs.obj
    <3>1. \A n : Numbered(stripe, o, n) => Numbered(stripe', o, n)
      BY <2>2, <1>0, TouchesOnlySame
    <3> QED BY <3>1, <1>0 DEF WholeInv, Whole
  <2> QED BY <2>1, <2>2
<1> QED BY <1>1, <1>2 DEF WholeInv

(* Where the listed stripes of its object stay listed as they are. *)
LEMMA ProcessQuiet ==
  ASSUME RestInv, FilesInv', rs.pc \in Working, UNCHANGED <<object, w>>, TouchesOnly(rs.obj),
         \A s \in StripeId : stripe[s].obj = rs.obj /\ stripe[s].state \in Visible
                               <=> stripe'[s].obj = rs.obj /\ stripe'[s].state \in Visible,
         \A s \in StripeId : stripe[s].obj = rs.obj /\ stripe[s].state \in Visible
                               => stripe'[s].seq = stripe[s].seq
  PROVE  WholeInv' /\ Refines /\ VisibleStripes(rs.obj) = {s \in StripeId : stripe'[s].obj = rs.obj /\ stripe'[s].state \in Visible}
<1>1. ASSUME object[rs.obj].state = "committed"
      PROVE  Numbered(stripe', rs.obj, object[rs.obj].size)
  <2>1. Numbered(stripe, rs.obj, object[rs.obj].size)
    BY <1>1, RestInvTypes DEF WholeInv, Whole
  <2>2. {s \in StripeId : stripe'[s].obj = rs.obj /\ stripe'[s].state \in Visible}
          = {s \in StripeId : stripe[s].obj = rs.obj /\ stripe[s].state \in Visible}
    OBVIOUS
  <2> QED BY <2>1, <2>2 DEF Numbered
<1>2. WholeInv'
  BY <1>1, ProcessWhole
<1>3. Refines
  BY <1>2, BesideRefines DEF RestInv
<1> QED BY <1>2, <1>3, VisibleIs

LEMMA SameRows ==
  ASSUME RestInv, FilesInv', UNCHANGED <<object, stripe, w>>
  PROVE  Refines
<1>1. WholeInv'
  BY RestInvTypes, StillWhole
<1> QED BY <1>1, BesideRefines DEF RestInv

(* The process stops for the undoing: its complete drafts are as they were. *)
LEMMA RaisedRest ==
  ASSUME RestInv, rs' = Raised, rs.pc \in Working, UNCHANGED <<object, w>>,
         \A s \in rs.new : stripe'[s].state = stripe[s].state /\ stripe'[s].obj = stripe[s].obj
  PROVE  ObjectAtRest' /\ DraftsNumbered'
<1>1. rs'.pc = "undo" /\ rs'.sid = None /\ rs'.new = rs.new /\ rs'.obj = rs.obj
  BY RaisedFields, RestInvTypes
<1>2. \A s : s \in Drafts' => s \in Drafts /\ s \in rs.new
  BY <1>1 DEF Drafts
<1>3. ObjectAtRest'
  BY <1>1, <1>2 DEF RestInv, ObjectAtRest, Working, KeyRow
<1>4. DraftsNumbered'
  BY <1>1 DEF DraftsNumbered, Converting, InFlight
<1> QED BY <1>3, <1>4

LEMMA RestripeBeginRest ==
  ASSUME RestInv, RestripeFilesInv', NEW o \in ObjId, RestripeBegin(o), Beside = {}
  PROVE  Refines /\ ObjectAtRest' /\ DraftsNumbered'
<1> DEFINE q == [IdleRs EXCEPT !.pc = "read", !.obj = o, !.old = VisibleStripes(o), !.todo = VisibleStripes(o)]
<1>0. /\ UNCHANGED vars /\ rs' = q /\ VisibleStripes(o) # {}
      /\ \A k \in Key : KeyRow(k, o) => w[k].pc = "idle"
  BY DEF RestripeBegin, SetRs
<1>1. q.pc = "read" /\ q.obj = o /\ q.old = VisibleStripes(o) /\ q.todo = VisibleStripes(o)
      /\ q.sid = None /\ q.new = {}
  BY DEF IdleRs
<1> HIDE DEF q
<1>2. object[o].state # "none"
  <2>1. PICK s \in StripeId : stripe[s].obj = o /\ stripe[s].state \in Live
    BY <1>0, VisibleIs DEF Live, Visible
  <2> QED BY <2>1, RestInvTypes DEF FilesInv, StripesHaveObject
<1>3. Refines
  BY <1>0, SameRows DEF vars, RestripeFilesInv
<1>4. ObjectAtRest'
  BY <1>0, <1>1, <1>2 DEF ObjectAtRest, Drafts, vars, KeyRow
<1>5. DraftsNumbered'
  BY <1>0, <1>1 DEF DraftsNumbered, InFlight, VisibleStripes, StripesOf, vars
<1> QED BY <1>3, <1>4, <1>5

LEMMA RestripeReadRest ==
  ASSUME RestInv, RestripeFilesInv', RestripeRead
  PROVE  Refines /\ ObjectAtRest' /\ DraftsNumbered'
<1>0. rs.pc = "read" /\ rs.pc \in Working /\ rs.pc \in Converting /\ UNCHANGED <<object, w>>
      /\ TypeOK /\ rs \in RsLocals /\ FilesInv'
  BY RestInvTypes DEF RestripeRead, Working, Converting, RestripeFilesInv
<1>1. PICK s \in rs.todo :
        IF Cardinality(Reads(s)) >= K
        THEN SetRs([rs EXCEPT !.pc = "insert", !.from = s]) /\ UNCHANGED stripe
        ELSE /\ SetRs(Raised)
             /\ stripe' = IF stripe[s].state = "gone" THEN stripe
                          ELSE [stripe EXCEPT ![s].state = "unrecoverable"]
  BY DEF RestripeRead
<1>2. s \in StripeId /\ s \in rs.old /\ stripe[s].obj = rs.obj /\ stripe[s].state \in Visible
  BY <1>0, RestInvTypes, VisibleIs DEF RestInv, DraftsNumbered
<1>3. \A t \in StripeId :
        /\ stripe'[t].obj = stripe[t].obj /\ stripe'[t].seq = stripe[t].seq
        /\ t # s => stripe'[t] = stripe[t]
        /\ stripe'[t].state \in Visible <=> stripe[t].state \in Visible
  <2>1. stripe[s] \in StripeRow
    BY <1>0, <1>2 DEF TypeOK
  <2> QED BY <2>1, <1>0, <1>1, <1>2 DEF TypeOK, StripeRow, Visible
<1>4. TouchesOnly(rs.obj)
  BY <1>2, <1>3 DEF TouchesOnly
<1>5. Refines /\ VisibleStripes(rs.obj) = {t \in StripeId : stripe'[t].obj = rs.obj /\ stripe'[t].state \in Visible}
  BY <1>0, <1>3, <1>4, ProcessQuiet
<1>6. CASE rs' = Raised
  <2>1. \A t \in rs.new : t \in StripeId /\ t # s
    BY <1>0, <1>2, RestInvTypes DEF RestInv, ObjectAtRest, Working, Drafts, Visible
  <2> QED BY <2>1, <1>0, <1>3, <1>5, <1>6, RaisedRest
<1>7. CASE rs' = [rs EXCEPT !.pc = "insert", !.from = s] /\ UNCHANGED stripe
  <2>1. rs'.pc = "insert" /\ rs'.obj = rs.obj /\ rs'.old = rs.old /\ rs'.todo = rs.todo
        /\ rs'.sid = rs.sid /\ rs'.new = rs.new
    BY <1>0, <1>7 DEF RsLocals
  <2>2. ObjectAtRest'
    BY <2>1, <1>0, <1>7 DEF RestInv, ObjectAtRest, Working, Drafts, KeyRow
  <2>3. DraftsNumbered'
    BY <2>1, <1>0, <1>7 DEF RestInv, DraftsNumbered, InFlight, VisibleStripes, StripesOf
  <2> QED BY <2>2, <2>3, <1>5
<1> QED BY <1>1, <1>6, <1>7 DEF SetRs

LEMMA RestripeInsertRest ==
  ASSUME RestInv, RestripeFilesInv', RestripeInsert
  PROVE  Refines /\ ObjectAtRest' /\ DraftsNumbered'
<1>0. rs.pc = "insert" /\ rs.pc \in Working /\ rs.pc \in Converting /\ UNCHANGED <<object, w>>
      /\ TypeOK /\ rs \in RsLocals /\ FilesInv' /\ object[rs.obj].state # "none"
  BY RestInvTypes DEF RestripeInsert, Working, Converting, RestripeFilesInv, RestInv, ObjectAtRest
<1>1. PICK s \in StripeId, p \in Placement :
        /\ stripe[s].state = "none"
        /\ stripe' = [stripe EXCEPT ![s] = [state |-> "pending", obj |-> rs.obj,
                        key |-> object[rs.obj].key, seq |-> stripe[rs.from].seq]]
        /\ rs' = [rs EXCEPT !.pc = "write", !.sid = s,
             !.rows = [i \in Shard |-> [disk |-> p[i], state |-> IF p[i] = None THEN "missing" ELSE "todo"]]]
  BY <1>0 DEF RestripeInsert, SetRs
<1>2. /\ stripe'[s].state = "pending" /\ stripe'[s].obj = rs.obj /\ stripe'[s].seq = stripe[rs.from].seq
      /\ \A t \in StripeId : t # s => stripe'[t] = stripe[t]
  BY <1>0, <1>1 DEF TypeOK
<1>3. /\ rs'.pc = "write" /\ rs'.sid = s /\ rs'.obj = rs.obj /\ rs'.old = rs.old /\ rs'.todo = rs.todo
      /\ rs'.new = rs.new /\ rs'.from = rs.from
  BY <1>0, <1>1 DEF RsLocals
<1>4. /\ rs.new \subseteq StripeId /\ s \notin rs.new /\ rs.old \subseteq StripeId /\ s \notin rs.old
      /\ rs.from \in rs.old /\ rs.todo \subseteq rs.old
  BY <1>0, <1>1, RestInvTypes
     DEF RestInv, RestripeFilesInv, RsOK, ObjectAtRest, ReplacesListed, Working, Drafts, Visible, InFlight
<1>5. TouchesOnly(rs.obj)
  BY <1>1, <1>2 DEF TouchesOnly
<1>6. Refines /\ VisibleStripes(rs.obj) = {t \in StripeId : stripe'[t].obj = rs.obj /\ stripe'[t].state \in Visible}
  <2>1. \A t \in StripeId : /\ stripe[t].obj = rs.obj /\ stripe[t].state \in Visible
                               <=> stripe'[t].obj = rs.obj /\ stripe'[t].state \in Visible
                            /\ stripe[t].obj = rs.obj /\ stripe[t].state \in Visible
                               => stripe'[t].seq = stripe[t].seq
    BY <1>1, <1>2 DEF Visible
  <2> QED BY <2>1, <1>0, <1>5, ProcessQuiet
<1>7. ObjectAtRest'
  <2>1. \A t : t \in Drafts' => t = s \/ (t \in Drafts /\ t \in rs.new)
    BY <1>3 DEF Drafts
  <2> QED BY <2>1, <1>0, <1>2, <1>3, <1>4 DEF RestInv, ObjectAtRest, Working, KeyRow
<1>8. DraftsNumbered'
  <2>1. rs'.old = VisibleStripes(rs.obj)'
    BY <1>0, <1>3, <1>6, VisibleNext DEF RestInv, DraftsNumbered
  <2>2. stripe'[rs.from] = stripe[rs.from] /\ (\A t \in rs.old : stripe'[t] = stripe[t])
        /\ \A t \in rs.new : stripe'[t] = stripe[t]
    BY <1>2, <1>4
  <2>3. object[rs.obj].state = "committed" =>
           /\ \A t \in rs.new : \E u \in rs.old \ rs.todo : stripe[u].seq = stripe[t].seq
           /\ \A t \in rs.old \ rs.todo : \E u \in rs.new : stripe[u].seq = stripe[t].seq
           /\ \A u, t \in rs.new : stripe[u].seq = stripe[t].seq => u = t
    BY <1>0 DEF RestInv, DraftsNumbered
  <2>4. object[rs.obj].state = "committed" =>
           /\ \A t \in rs.new : \E u \in rs.old \ rs.todo : stripe'[u].seq = stripe'[t].seq
           /\ \A t \in rs.old \ rs.todo : \E u \in rs.new : stripe'[u].seq = stripe'[t].seq
           /\ \A u, t \in rs.new : stripe'[u].seq = stripe'[t].seq => u = t
    BY <2>2, <2>3
  <2> QED BY <2>1, <2>2, <2>4, <1>0, <1>2, <1>3 DEF DraftsNumbered
<1> QED BY <1>6, <1>7, <1>8

LEMMA RestripeWriteRest ==
  ASSUME RestInv, RestripeFilesInv', RestripeWrite
  PROVE  Refines /\ ObjectAtRest' /\ DraftsNumbered'
<1>0. rs.pc = "write" /\ rs.pc \in Working /\ rs.pc \in Converting /\ rs.pc \in InFlight
      /\ UNCHANGED <<object, stripe, w>> /\ rs \in RsLocals
  BY RestInvTypes DEF RestripeWrite, Working, Converting, InFlight, dbVars
<1>1. /\ rs'.pc \in {"rows", "giveup"} /\ rs'.sid = rs.sid /\ rs'.obj = rs.obj /\ rs'.old = rs.old
      /\ rs'.todo = rs.todo /\ rs'.new = rs.new /\ rs'.from = rs.from
  BY <1>0 DEF RestripeWrite, SetRs, RsLocals
<1>2. Refines
  BY <1>0, SameRows DEF RestripeFilesInv
<1>3. ObjectAtRest'
  BY <1>0, <1>1 DEF RestInv, ObjectAtRest, Working, Drafts, KeyRow
<1>4. DraftsNumbered'
  BY <1>0, <1>1 DEF RestInv, DraftsNumbered, VisibleStripes, StripesOf
<1> QED BY <1>2, <1>3, <1>4

LEMMA RestripeGiveUpRest ==
  ASSUME RestInv, RestripeFilesInv', RestripeGiveUp
  PROVE  Refines /\ ObjectAtRest' /\ DraftsNumbered'
<1>0. rs.pc = "giveup" /\ rs.pc \in Working /\ rs.pc \in Converting /\ UNCHANGED <<object, w, files>>
      /\ FilesInv /\ FilesInv' /\ DropStripes({rs.sid}) /\ rs' = Raised /\ rs.sid \in StripeId
  BY RestInvTypes DEF RestripeGiveUp, Working, Converting, InFlight, RestripeFilesInv, SetRs
<1>1. stripe[rs.sid].state = "pending" /\ stripe[rs.sid].obj = rs.obj
      /\ rs.sid \notin rs.new /\ rs.new \subseteq StripeId
  BY <1>0, RestInvTypes, NoneAssumption DEF RestInv, RestripeFilesInv, DraftsApart, ObjectAtRest, Working, Drafts
<1>2. /\ \A t \in StripeId : t # rs.sid => stripe'[t] = stripe[t]
      /\ stripe'[rs.sid].state = "gone" /\ stripe'[rs.sid].obj = stripe[rs.sid].obj
  BY <1>0, DropRows
<1>3. TouchesOnly(rs.obj)
  BY <1>1, <1>2 DEF TouchesOnly
<1>4. Refines
  <2>1. \A t \in StripeId : /\ stripe[t].obj = rs.obj /\ stripe[t].state \in Visible
                               <=> stripe'[t].obj = rs.obj /\ stripe'[t].state \in Visible
                            /\ stripe[t].obj = rs.obj /\ stripe[t].state \in Visible
                               => stripe'[t].seq = stripe[t].seq
    BY <1>1, <1>2 DEF Visible
  <2> QED BY <2>1, <1>0, <1>3, ProcessQuiet
<1> QED BY <1>0, <1>1, <1>2, <1>4, RaisedRest

LEMMA RestripeRowsRest ==
  ASSUME RestInv, RestripeFilesInv', RestripeRows
  PROVE  Refines /\ ObjectAtRest' /\ DraftsNumbered'
<1>0. rs.pc = "rows" /\ rs.pc \in Working /\ rs.pc \in Converting /\ rs.pc \in InFlight
      /\ UNCHANGED <<object, w, files>> /\ TypeOK /\ FilesInv' /\ rs \in RsLocals /\ rs.sid \in StripeId
      /\ rs.from \in rs.todo /\ rs.todo \subseteq rs.old /\ rs.old \subseteq StripeId
  BY RestInvTypes DEF RestripeRows, Working, Converting, InFlight, RestripeFilesInv
<1>1. stripe[rs.sid].state = "pending" /\ stripe[rs.sid].obj = rs.obj
  BY <1>0, NoneAssumption DEF RestInv, ObjectAtRest, Working, Drafts
<1>2. /\ stripe' = [stripe EXCEPT ![rs.sid].state = "pending"]
      /\ rs' = [rs EXCEPT !.pc = IF rs.todo = {rs.from} THEN "swap" ELSE "read",
                              !.todo = @ \ {rs.from}, !.from = None,
                              !.new = @ \cup {rs.sid}, !.sid = None, !.rows = NoRows]
  BY <1>1 DEF RestripeRows, SetRs, StateAfter
<1>3. UNCHANGED stripe
  <2>1. stripe[rs.sid] \in StripeRow
    BY <1>0 DEF TypeOK
  <2>2. [stripe[rs.sid] EXCEPT !.state = "pending"] = stripe[rs.sid]
    BY <2>1, <1>1 DEF StripeRow
  <2> QED BY <2>2, <1>2, <1>0 DEF TypeOK
<1>4. /\ rs'.pc \in {"swap", "read"} /\ rs'.todo = rs.todo \ {rs.from} /\ rs'.new = rs.new \cup {rs.sid}
      /\ rs'.sid = None /\ rs'.obj = rs.obj /\ rs'.old = rs.old
  BY <1>0, <1>2 DEF RsLocals
<1>5. Refines
  BY <1>0, <1>3, SameRows
<1>6. ObjectAtRest'
  <2>1. \A t : t \in Drafts' => t \in Drafts
    BY <1>0, <1>4, NoneAssumption DEF Drafts
  <2> QED BY <2>1, <1>0, <1>3, <1>4 DEF RestInv, ObjectAtRest, Working, KeyRow
<1>7. DraftsNumbered'
  <2>1. rs.old = VisibleStripes(rs.obj) /\ stripe[rs.sid].seq = stripe[rs.from].seq
    BY <1>0 DEF RestInv, DraftsNumbered
  <2>2. rs'.old = VisibleStripes(rs.obj)'
    <3>1. VisibleStripes(rs.obj) = {s \in StripeId : stripe'[s].obj = rs.obj /\ stripe'[s].state \in Visible}
      BY <1>3, VisibleIs
    <3>2. VisibleStripes(rs.obj)' = {s \in StripeId : stripe'[s].obj = rs.obj /\ stripe'[s].state \in Visible}
      BY <1>4, VisibleNext
    <3> QED BY <3>1, <3>2, <2>1, <1>4
  <2>3. ASSUME object[rs.obj].state = "committed"
        PROVE  /\ \A s \in rs'.new : \E t \in rs.old \ rs'.todo : stripe[t].seq = stripe[s].seq
               /\ \A t \in rs.old \ rs'.todo : \E s \in rs'.new : stripe[s].seq = stripe[t].seq
               /\ \A s, t \in rs'.new : stripe[s].seq = stripe[t].seq => s = t
    <3>1. /\ \A s \in rs.new : \E t \in rs.old \ rs.todo : stripe[t].seq = stripe[s].seq
          /\ \A t \in rs.old \ rs.todo : \E s \in rs.new : stripe[s].seq = stripe[t].seq
          /\ \A s, t \in rs.new : stripe[s].seq = stripe[t].seq => s = t
      BY <2>3, <1>0 DEF RestInv, DraftsNumbered
    <3>2. \A s, t \in rs.old : stripe[s].seq = stripe[t].seq => s = t
      <4>1. Numbered(stripe, rs.obj, object[rs.obj].size)
        BY <2>3, <1>0, RestInvTypes DEF WholeInv, Whole
      <4> QED BY <4>1, <2>1, VisibleIs DEF Numbered
    <3>3. rs.old \ rs'.todo = (rs.old \ rs.todo) \cup {rs.from}
      BY <1>0, <1>4
    <3>4. \A s \in rs.new : stripe[s].seq # stripe[rs.sid].seq
      BY <3>1, <3>2, <2>1, <1>0
    <3> QED BY <3>1, <3>3, <3>4, <2>1, <1>4
  <2> QED BY <2>2, <2>3, <1>0, <1>3, <1>4 DEF DraftsNumbered, InFlight
<1> QED BY <1>5, <1>6, <1>7

(* The swap: what was listed of the object is replaced number by number. *)
LEMMA RestripeSwapRest ==
  ASSUME RestInv, RestripeFilesInv', RestripeSwap
  PROVE  Refines /\ ObjectAtRest' /\ DraftsNumbered'
<1>0. rs.pc = "swap" /\ rs.pc \in Working /\ rs.pc \in Converting /\ rs.pc \notin InFlight
      /\ UNCHANGED <<object, w, files>> /\ FilesInv' /\ rs.sid = None /\ rs.todo = {}
      /\ rs.old \subseteq StripeId /\ rs.new \subseteq StripeId
  BY RestInvTypes DEF RestripeSwap, Working, Converting, InFlight, RestripeFilesInv, RestInv, RsOK
<1>1. rs' = [IdleRs EXCEPT !.pc = "unlink", !.doomed = OldFiles]
  BY DEF RestripeSwap, SetRs
<1>2. rs'.pc = "unlink"
  BY <1>1 DEF IdleRs
<1>3. ObjectAtRest' /\ DraftsNumbered'
  BY <1>2 DEF ObjectAtRest, DraftsNumbered, Converting, InFlight
<1>4. \A s \in rs.new : stripe[s].state = "pending" /\ stripe[s].obj = rs.obj
  BY <1>0 DEF RestInv, ObjectAtRest, Working, Drafts
<1>5. rs.old = {s \in StripeId : stripe[s].obj = rs.obj /\ stripe[s].state \in Visible}
  BY <1>0, VisibleIs DEF RestInv, DraftsNumbered
<1>6. ASSUME NEW s \in StripeId
      PROVE  /\ stripe'[s].obj = stripe[s].obj /\ stripe'[s].seq = stripe[s].seq /\ stripe'[s].key = stripe[s].key
             /\ s \in rs.old => stripe'[s].state = "gone"
             /\ s \in rs.new => stripe'[s].state = "committed" /\ s \notin rs.old
             /\ s \notin rs.old /\ s \notin rs.new => stripe'[s].state = stripe[s].state
  BY <1>4, <1>5, SwapEffect DEF Visible, RestInv
<1>7. TouchesOnly(rs.obj)
  <2>1. ASSUME NEW s \in StripeId, s \notin rs.old, s \notin rs.new
        PROVE  stripe'[s] = stripe[s]
    <3>1. stripe[s] \in StripeRow /\ stripe'[s] \in StripeRow
      BY SwapEffect, RestInvTypes DEF RestInv, TypeOK
    <3> QED BY <3>1, <1>6, <2>1 DEF StripeRow
  <2>2. ASSUME NEW s \in StripeId, s \in rs.old \cup rs.new
        PROVE  stripe[s].obj = rs.obj /\ stripe'[s].obj = rs.obj
    BY <2>2, <1>4, <1>5, <1>6
  <2> QED BY <2>1, <2>2 DEF TouchesOnly
<1>8. ASSUME object[rs.obj].state = "committed"
      PROVE  Numbered(stripe', rs.obj, object[rs.obj].size)
  <2> DEFINE n == object[rs.obj].size
  <2>1. {s \in StripeId : stripe'[s].obj = rs.obj /\ stripe'[s].state \in Visible} = rs.new
    <3>1. ASSUME NEW s \in StripeId
          PROVE  stripe'[s].obj = rs.obj /\ stripe'[s].state \in Visible <=> s \in rs.new
      BY <1>4, <1>5, <1>6 DEF Visible
    <3> QED BY <3>1, <1>0
  <2>2. /\ \A s \in rs.new : \E t \in rs.old : stripe[t].seq = stripe[s].seq
        /\ \A t \in rs.old : \E s \in rs.new : stripe[s].seq = stripe[t].seq
        /\ \A s, t \in rs.new : stripe[s].seq = stripe[t].seq => s = t
    BY <1>0, <1>8 DEF RestInv, DraftsNumbered
  <2>3. /\ \A t \in rs.old : stripe[t].seq < n
        /\ \A m \in 0 .. (n - 1) : \E t \in rs.old : stripe[t].seq = m
    <3>1. Numbered(stripe, rs.obj, n)
      BY <1>0, <1>8, RestInvTypes DEF WholeInv, Whole
    <3> HIDE DEF n
    <3> QED BY <3>1, <1>5 DEF Numbered
  <2>4. \A s \in rs.new : stripe'[s].seq = stripe[s].seq
    BY <1>0, <1>6
  <2> HIDE DEF n
  <2>5. /\ \A s \in rs.new : stripe'[s].seq < n
        /\ \A m \in 0 .. (n - 1) : \E s \in rs.new : stripe'[s].seq = m
        /\ \A s, t \in rs.new : stripe'[s].seq = stripe'[t].seq => s = t
    BY <2>2, <2>3, <2>4
  <2>6. Numbered(stripe', rs.obj, n)
    BY <2>1, <2>5 DEF Numbered
  <2> QED BY <2>6 DEF n
<1>9. WholeInv'
  BY <1>0, <1>7, <1>8, ProcessWhole
<1>10. Refines
  BY <1>0, <1>9, BesideRefines DEF RestInv
<1> QED BY <1>3, <1>10

LEMMA RestripeUndoneRest ==
  ASSUME RestInv, RestripeFilesInv', RestripeUndone
  PROVE  Refines /\ ObjectAtRest' /\ DraftsNumbered'
<1>0. rs.pc = "undone" /\ rs.pc \in Working /\ UNCHANGED <<object, w, files>> /\ FilesInv /\ FilesInv'
      /\ DropStripes(rs.new) /\ rs' = IdleRs /\ rs.new \subseteq StripeId
  BY RestInvTypes DEF RestripeUndone, Working, RestripeFilesInv, SetRs
<1>1. \A s \in rs.new : stripe[s].state = "pending" /\ stripe[s].obj = rs.obj
  BY <1>0 DEF RestInv, ObjectAtRest, Working, Drafts
<1>2. \A s \in StripeId :
        /\ stripe'[s].obj = stripe[s].obj
        /\ s \in rs.new => stripe'[s].state = "gone"
        /\ s \notin rs.new => stripe'[s] = stripe[s]
  BY <1>0, DropRows
<1>3. TouchesOnly(rs.obj)
  BY <1>0, <1>1, <1>2 DEF TouchesOnly
<1>4. Refines
  <2>1. \A t \in StripeId : /\ stripe[t].obj = rs.obj /\ stripe[t].state \in Visible
                               <=> stripe'[t].obj = rs.obj /\ stripe'[t].state \in Visible
                            /\ stripe[t].obj = rs.obj /\ stripe[t].state \in Visible
                               => stripe'[t].seq = stripe[t].seq
    BY <1>0, <1>1, <1>2 DEF Visible
  <2> QED BY <2>1, <1>0, <1>3, ProcessQuiet
<1> QED BY <1>0, <1>4, IdleRsFields DEF ObjectAtRest, DraftsNumbered, Converting, InFlight

LEMMA RestripeLastRest ==
  ASSUME RestInv, RestripeFilesInv', RestripeUnlink \/ RestripeRaises \/ RestripeUndo
  PROVE  Refines /\ ObjectAtRest' /\ DraftsNumbered'
<1>0. UNCHANGED <<object, stripe, w>> /\ FilesInv' /\ rs \in RsLocals
  BY RestInvTypes DEF RestripeUnlink, RestripeRaises, RestripeUndo, RestripeFilesInv, dbVars, vars
<1>1. Refines
  BY <1>0, SameRows
<1>2. CASE rs' = IdleRs
  BY <1>1, <1>2, IdleRsFields DEF ObjectAtRest, DraftsNumbered, Converting, InFlight
<1>3. CASE rs.pc \in {"read", "insert", "write", "giveup", "rows"} /\ rs' = Raised
  BY <1>0, <1>1, <1>3, RaisedRest DEF Working, Converting, InFlight
<1>4. CASE rs.pc = "undo" /\ rs' = [rs EXCEPT !.pc = "undone"]
  <2>1. rs'.pc = "undone" /\ rs'.sid = rs.sid /\ rs'.new = rs.new /\ rs'.obj = rs.obj
    BY <1>0, <1>4 DEF RsLocals
  <2>2. ObjectAtRest'
    BY <2>1, <1>0, <1>4 DEF RestInv, ObjectAtRest, Drafts, KeyRow
  <2>3. DraftsNumbered'
    BY <2>1 DEF DraftsNumbered, Converting, InFlight
  <2> QED BY <1>1, <2>2, <2>3
<1> QED BY <1>1, <1>2, <1>3, <1>4 DEF RestripeUnlink, RestripeRaises, RestripeUndo, SetRs

LEMMA NextRest ==
  ASSUME RestInv, [ServerStep \/ RestripeStep]_rvars, Beside = {}
  PROVE  RestInv' /\ Refines
<1>1. RestripeFilesInv'
  BY NextRestripeFiles DEF RestInv
<1>2. ASSUME RestripeStep PROVE Refines /\ ObjectAtRest' /\ DraftsNumbered'
  BY <1>1, <1>2, RestripeBeginRest, RestripeReadRest, RestripeInsertRest, RestripeWriteRest,
     RestripeGiveUpRest, RestripeRowsRest, RestripeSwapRest, RestripeUndoneRest, RestripeLastRest
     DEF RestripeStep
<1>3. ASSUME UNCHANGED rvars PROVE Refines /\ ObjectAtRest' /\ DraftsNumbered'
  <2>1. UNCHANGED <<object, stripe, w, rs>>
    BY <1>3 DEF rvars, vars
  <2>2. Refines
    BY <2>1, <1>1, SameRows DEF RestripeFilesInv
  <2>3. ObjectAtRest' /\ DraftsNumbered'
    BY <2>1 DEF RestInv, ObjectAtRest, DraftsNumbered, Drafts, KeyRow, VisibleStripes, StripesOf
  <2> QED BY <2>2, <2>3
<1>4. Refines /\ ObjectAtRest' /\ DraftsNumbered'
  BY <1>2, <1>3, ServerRest
<1> QED BY <1>1, <1>4 DEF RestInv, Refines

LEMMA InitRest == RestripeInit => RestInv /\ Atomic!Init
<1> SUFFICES ASSUME RestripeInit PROVE RestInv /\ Atomic!Init
  OBVIOUS
<1>1. RestripeFilesInv
  BY RestripeInitFiles
<1>2. CallInv /\ Atomic!Init
  BY InitRefines DEF RestripeInit
<1>3. ObjectAtRest /\ DraftsNumbered
  BY IdleRsFields DEF RestripeInit, ObjectAtRest, DraftsNumbered, Converting, InFlight
<1> QED BY <1>1, <1>2, <1>3 DEF RestInv

(* Where no call for the object runs, its restripe keeps the calls' own      *)
(* invariant and what it relies on: nobody touches the object it converts,   *)
(* and its drafts carry the numbers of the stripes already read.             *)
THEOREM RestCorrect ==
  ASSUME Beside = {}
  PROVE  RestripeSpec => []RestInv
<1>1. RestripeInit => RestInv
  BY InitRest
<1>2. RestInv /\ [ServerStep \/ RestripeStep]_rvars => RestInv'
  BY NextRest
<1> QED BY <1>1, <1>2, PTL DEF RestripeSpec

LEMMA RestLists ==
  ASSUME RestInv
  PROVE  ListedIsWhole
<1> SUFFICES ASSUME NEW o \in ObjId, object[o].state = "committed"
             PROVE  /\ {stripe[s].seq : s \in VisibleStripes(o)} = 0 .. (object[o].size - 1)
                    /\ \A s, t \in VisibleStripes(o) : stripe[s].seq = stripe[t].seq => s = t
  BY DEF ListedIsWhole
<1> DEFINE V == VisibleStripes(o)
           n == object[o].size
<1>1. Numbered(stripe, o, n) /\ TypeOK
  BY RestInvTypes DEF WholeInv, Whole
<1>2. V = {s \in StripeId : stripe[s].obj = o /\ stripe[s].state \in Visible} /\ V \in SUBSET StripeId
  BY VisibleIs
<1>3. n \in Nat
  BY <1>1, BoundAssumption DEF TypeOK, ObjectRow
<1> HIDE DEF V, n
<1>4. /\ \A s \in V : stripe[s].seq < n
      /\ \A m \in 0 .. (n - 1) : \E s \in V : stripe[s].seq = m
      /\ \A s, t \in V : stripe[s].seq = stripe[t].seq => s = t
  BY <1>1, <1>2 DEF Numbered
<1>5. {stripe[s].seq : s \in V} = 0 .. (n - 1)
  BY <1>1, <1>2, <1>3, <1>4, NumbersAre
<1> QED BY <1>4, <1>5 DEF V, n

(* All of RestripeInv, the strengthening that restripe_object is stated to   *)
(* rely on, is invariant then.                                               *)
THEOREM RestripeInvCorrect ==
  ASSUME Beside = {}
  PROVE  RestripeSpec => []RestripeInv
<1>1. RestInv => RestripeInv
  <2> SUFFICES ASSUME RestInv PROVE RestripeInv
    OBVIOUS
  <2>1. CallsMatch
    BY CallMeaning DEF RestInv, CallInv
  <2>2. StripesSoFar
    BY RestInvTypes, WritesMeaning DEF WholeInv
  <2> QED BY <2>1, <2>2, RestLists DEF RestInv, RestripeInv
<1> QED BY <1>1, RestCorrect, PTL

(* A reader lists each stripe of a stored object exactly once at every step  *)
(* of a restripe, of its failure and of its clean-up, where no other call    *)
(* for the object runs ("atomically swap", restripe_object).                 *)
THEOREM ListedIsWholeHolds ==
  ASSUME Beside = {}
  PROVE  RestripeSpec => []ListedIsWhole
<1>1. RestInv => ListedIsWhole
  BY RestLists
<1> QED BY <1>1, RestCorrect, PTL

(* A restripe is no step of the abstract store: the store goes on being an   *)
(* AtomicStore beside it (restripe_object).                                  *)
THEOREM RestripeIsAtomic ==
  ASSUME Beside = {}
  PROVE  RestripeSpec => IsAtomicStore
<1>1. RestripeInit => Atomic!Init
  BY InitRest
<1>2. RestInv /\ [ServerStep \/ RestripeStep]_rvars => [Atomic!Next]_Atomic!vars
  BY NextRest DEF Refines, Atomic!vars
<1> QED BY <1>1, <1>2, RestCorrect, PTL DEF RestripeSpec, IsAtomicStore, Atomic!Spec

=============================================================================
