---------------------------- MODULE ObjectStore ----------------------------
(***************************************************************************)
(* The durable store of server/cloudstore/storage/objectstore.py: objects  *)
(* cut into stripes, a stripe encoded into one shard file per disk, the    *)
(* rows that describe them in SQLite.  The module covers the write         *)
(* protocol of put_stream and _write_stripe, delete, degraded reads, the   *)
(* disk state machine as far as these use it, a crash of the server at any *)
(* step and the start-up recovery recover_pending.                         *)
(*                                                                         *)
(* Rows survive a crash, files on disks survive a crash, what a thread     *)
(* holds in its local variables does not.  Every step below is one SQLite  *)
(* transaction, one file operation, or a run of such operations between    *)
(* which nothing another thread does can make a difference.  Repair, scrub *)
(* and rebuild of existing stripes are the subject of StripeRepair.        *)
(***************************************************************************)
EXTENDS Integers, FiniteSets

CONSTANTS
  Key,            \* object keys
  Disk,           \* the registered, not retired disks
  StripeId,       \* the uuids _write_stripe may draw; each is drawn once
  Reader,         \* threads that run iter_range
  EcK, EcM,       \* config.ec_k, config.ec_m
  MinWriteExtra,  \* config.min_write_extra
  MaxStripes,     \* bound: stripes an object is cut into
  MaxObjId,       \* bound: row ids of the table objects
  MaxDown,        \* bound: disks unreachable at the same time
  MaxFaults,      \* bound: how often a disk becomes unreachable
  MaxCrashes,     \* bound: crashes of the server
  None            \* NULL

ASSUME DiskAssumption == IsFiniteSet(Disk) /\ Disk # {}
ASSUME CodeAssumption == /\ EcK \in Nat \ {0}
                         /\ EcM \in Nat
                         /\ MinWriteExtra \in Nat
ASSUME BoundAssumption == /\ MaxStripes \in Nat \ {0}
                          /\ MaxObjId \in Nat
                          /\ MaxDown \in Nat
                          /\ MaxFaults \in Nat
                          /\ MaxCrashes \in Nat
ASSUME NoneAssumption == None \notin Key \cup Disk \cup StripeId

(* profile(): the code for new stripes, from the number of disks. *)
Profile(n) ==
  IF n >= EcK + EcM THEN [k |-> EcK, m |-> EcM]
  ELSE [k |-> 1, m |-> IF n - 1 < 2 THEN n - 1 ELSE 2]

K == Profile(Cardinality(Disk)).k
M == Profile(Cardinality(Disk)).m

Shard == 0 .. (K + M - 1)

(* The number of shards that must land before a stripe may commit. *)
NeedForgetsExtra == K   \* mutant: min_write_extra is not added
Need == IF K + MinWriteExtra < K + M THEN K + MinWriteExtra ELSE K + M

Status == {"online", "degraded", "failed"}
Writable == {"online"}
Readable == {"online", "degraded"}

ObjId == 1 .. MaxObjId

VARIABLES
  diskStatus,  \* disks.status
  up,          \* does the file system of the disk answer?
  files,       \* shard files in place, <<disk, stripe, index>>
  object,      \* table objects
  stripe,      \* table stripes, and the key the shard headers carry
  shard,       \* table shards
  w,           \* the thread that holds the lock of each key
  rd,          \* the reading threads
  phase,       \* "serving", or how far the start-up has come
  bootDoomed,  \* files the start-up has still to unlink
  faults, crashes

dbVars   == <<object, stripe, shard>>
bootVars == <<phase, bootDoomed, crashes>>
vars == <<diskStatus, up, files, object, stripe, shard, w, rd,
          phase, bootDoomed, faults, crashes>>

-----------------------------------------------------------------------------
(* Rows.  A stripe that was never inserted is "none", a deleted one "gone":  *)
(* a uuid is not drawn twice.                                                *)

NoObject == [state |-> "none", key |-> None, size |-> 0]
NoShard  == [disk |-> None, state |-> "absent"]
NoRows   == [i \in Shard |-> NoShard]

ObjectRow == [state: {"none", "pending", "committed"},
              key: Key \cup {None}, size: 0 .. MaxStripes]
StripeRow == [state: {"none", "pending", "committed", "unrecoverable", "gone"},
              obj: ObjId \cup {0}, key: Key \cup {None},
              seq: 0 .. MaxStripes]
ShardRow  == [disk: Disk \cup {None},
              state: {"absent", "todo", "ok", "missing"}]
File      == Disk \X StripeId \X Shard

WriterPc == {"idle", "insert", "stripe", "shards", "giveup", "delete", "unlink"}
Writer == [pc: WriterPc,
           then: {"idle", "insert"},
           len: 0 .. MaxStripes,
           obj: ObjId \cup {0},
           seq: 0 .. MaxStripes,
           sid: StripeId \cup {None},
           rows: [Shard -> ShardRow],
           doomed: SUBSET File]
IdleWriter == [pc |-> "idle", then |-> "idle", len |-> 0, obj |-> 0, seq |-> 0,
               sid |-> None, rows |-> NoRows, doomed |-> {}]

ReaderPc == {"idle", "list", "next", "try", "done", "failed"}
ReadState == [pc: ReaderPc,
              obj: ObjId \cup {0}, key: Key \cup {None}, size: 0 .. MaxStripes,
              todo: SUBSET StripeId, sid: StripeId \cup {None},
              at: [Shard -> Disk \cup {None}],
              tried: SUBSET Shard, got: SUBSET Shard,
              out: SUBSET ((Key \cup {None}) \X (0 .. MaxStripes)),
              disturbed: BOOLEAN]
IdleReader == [pc |-> "idle", obj |-> 0, key |-> None, size |-> 0, todo |-> {},
               sid |-> None, at |-> [i \in Shard |-> None],
               tried |-> {}, got |-> {}, out |-> {}, disturbed |-> FALSE]

Serving == phase = "serving"
(* The states _stripes() lists. *)
Visible == {"committed", "unrecoverable"}

StripesOf(o) == {s \in StripeId : stripe[s].obj = o
                                  /\ stripe[s].state \in Visible \cup {"pending"}}
VisibleStripes(o) == {s \in StripesOf(o) : stripe[s].state \in Visible}

(* ON DELETE CASCADE from objects to stripes to shards.  The row of a        *)
(* deleted stripe keeps its key and number: they are what its files contain. *)
DropStripes(S) ==
  /\ stripe' = [s \in StripeId |->
                  IF s \in S THEN [stripe[s] EXCEPT !.state = "gone"]
                             ELSE stripe[s]]
  /\ shard' = [s \in StripeId |-> IF s \in S THEN NoRows ELSE shard[s]]

RowFiles(S) == {f \in File : f[2] \in S /\ shard[f[2]][f[3]].disk = f[1]}

(* sf.delete_shard: an OSError is swallowed, so the file stays on a disk     *)
(* that does not answer.                                                     *)
Unlinked(F) == files \ {f \in F : up[f[1]]}

(* What is left to unlink after the files F were tried.                      *)
StillDoomedRetries(D, F) == D \ {f \in F : up[f[1]]}   \* mutant: until gone
StillDoomed(D, F) == D \ F

(* disks.record_error: an online disk past the threshold becomes degraded.   *)
(* The counter is abstracted: any error may be the one.                      *)
RecordError(d) ==
  \/ UNCHANGED diskStatus
  \/ /\ diskStatus[d] = "online"
     /\ diskStatus' = [diskStatus EXCEPT ![d] = "degraded"]

-----------------------------------------------------------------------------
(* put_stream: one thread per key, the per-key lock is w[k].pc # "idle".     *)

SetW(k, r) == w' = [w EXCEPT ![k] = r]

KeyRow(k, o) == object[o].state # "none" /\ object[o].key = k

(* Bound: a put starts only while the uuids suffice for every put that runs. *)
UuidsSuffice ==
  Cardinality({s \in StripeId : stripe[s].state = "none"})
    >= MaxStripes * (1 + Cardinality({k \in Key : w[k].pc # "idle"}))

(* Take the lock; an existing committed object ends the call, so there is    *)
(* nothing to model.  A leftover row of a failed attempt is purged first.    *)
PutBegin(k, n) ==
  /\ Serving
  /\ w[k].pc = "idle"
  /\ UuidsSuffice
  /\ \A o \in ObjId : KeyRow(k, o) => object[o].state # "committed"
  /\ \/ \E o \in ObjId :
          /\ KeyRow(k, o)
          /\ SetW(k, [IdleWriter EXCEPT !.pc = "delete", !.then = "insert",
                                        !.len = n, !.obj = o])
     \/ /\ \A o \in ObjId : ~KeyRow(k, o)
        /\ SetW(k, [IdleWriter EXCEPT !.pc = "insert", !.len = n])
  /\ UNCHANGED <<diskStatus, up, files, dbVars, rd, bootVars, faults>>

(* SQLite's choice for an INTEGER PRIMARY KEY without AUTOINCREMENT: one     *)
(* more than the largest row id present.                                     *)
IsNextRowId(o) ==
  /\ object[o].state = "none"
  /\ \A p \in ObjId : p > o => object[p].state = "none"
  /\ o > 1 => object[o - 1].state # "none"

PutInsert(k) ==
  /\ w[k].pc = "insert"
  /\ \E o \in ObjId :
       /\ IsNextRowId(o)
       /\ object' = [object EXCEPT ![o] =
                       [state |-> "pending", key |-> k, size |-> 0]]
       /\ SetW(k, [w[k] EXCEPT !.pc = "stripe", !.obj = o])
  /\ UNCHANGED <<diskStatus, up, files, stripe, shard, rd, bootVars, faults>>

(* _place: of the writable disks as many as there are shards, if there are   *)
(* so many, each once, NULL for those that lack, and all of it rotated by a  *)
(* number from the stripe's uuid.  Which have the most free space, and the   *)
(* order of their ids, are left open.                                        *)
CanWrite == {d \in Disk : diskStatus[d] \in Writable}
Chosen == IF Cardinality(CanWrite) < K + M THEN Cardinality(CanWrite) ELSE K + M
Listings ==
  {order \in [0 .. (Chosen - 1) -> CanWrite] :
     \A i, j \in 0 .. (Chosen - 1) : i # j => order[i] # order[j]}
Slot(order, i) == IF i \in DOMAIN order THEN order[i] ELSE None

PlacementUnpadded ==   \* mutant: the rotation is modulo the disks chosen
  {[i \in Shard |-> IF Chosen = 0 THEN None ELSE Slot(order, (i + rot) % Chosen)] :
     order \in Listings, rot \in Shard}
Placement == {[i \in Shard |-> Slot(order, (i + rot) % (K + M))] : order \in Listings, rot \in Shard}

(* _write_stripe up to the journal entry: placement, then the pending row. *)
StripeBegin(k) ==
  /\ w[k].pc = "stripe"
  /\ w[k].seq < w[k].len
  /\ \E s \in StripeId, p \in Placement :
       /\ stripe[s].state = "none"
       /\ stripe' = [stripe EXCEPT ![s] =
                       [state |-> "pending", obj |-> w[k].obj, key |-> k,
                        seq |-> w[k].seq]]
       /\ SetW(k, [w[k] EXCEPT
                     !.pc = "shards", !.sid = s,
                     !.rows = [i \in Shard |->
                                 [disk |-> p[i],
                                  state |-> IF p[i] = None THEN "missing"
                                                           ELSE "todo"]]])
  /\ UNCHANGED <<diskStatus, up, files, object, shard, rd, bootVars, faults>>

(* The next shard of the loop over the placement. *)
NextShard(k, i) ==
  /\ w[k].pc = "shards"
  /\ i \in Shard
  /\ w[k].rows[i].state = "todo"
  /\ \A j \in Shard : j < i => w[k].rows[j].state # "todo"

WriteShard(k, i) ==
  /\ NextShard(k, i)
  /\ up[w[k].rows[i].disk]
  /\ files' = files \cup {<<w[k].rows[i].disk, w[k].sid, i>>}
  /\ w' = [w EXCEPT ![k].rows[i].state = "ok"]
  /\ UNCHANGED <<diskStatus, up, dbVars, rd, bootVars, faults>>

(* The row of a shard that did not land. *)
LostRowNamesDisk(d) == [disk |-> d, state |-> "missing"]   \* mutant
LostRow(d) == [disk |-> None, state |-> "missing"]

(* DiskIOError.  The error may come from the fsync of the directory, after   *)
(* the rename: then the file is in place although its row says missing.      *)
WriteShardFails(k, i) ==
  /\ NextShard(k, i)
  /\ ~up[w[k].rows[i].disk]
  /\ \E renamed \in SUBSET {<<w[k].rows[i].disk, w[k].sid, i>>} :
       files' = files \cup renamed
  /\ w' = [w EXCEPT ![k].rows[i] = LostRow(w[k].rows[i].disk)]
  /\ RecordError(w[k].rows[i].disk)
  /\ UNCHANGED <<up, dbVars, rd, bootVars, faults>>

Landed(k) == {i \in Shard : w[k].rows[i].state = "ok"}
AllTried(k) == /\ w[k].pc = "shards"
               /\ \A i \in Shard : w[k].rows[i].state # "todo"

(* Enough shards landed: the shard rows and the state in one transaction. *)
StripeCommit(k) ==
  /\ AllTried(k)
  /\ Cardinality(Landed(k)) >= Need
  /\ shard' = [shard EXCEPT ![w[k].sid] = w[k].rows]
  /\ stripe' = [stripe EXCEPT ![w[k].sid].state = "committed"]
  /\ SetW(k, [w[k] EXCEPT !.pc = "stripe", !.seq = @ + 1,
                          !.sid = None, !.rows = NoRows])
  /\ UNCHANGED <<diskStatus, up, files, object, rd, bootVars, faults>>

(* Too few landed: unlink them, drop the stripe row, raise WriteFailed. *)
StripeGiveUp(k) ==
  /\ AllTried(k)
  /\ Cardinality(Landed(k)) < Need
  /\ files' = Unlinked({<<w[k].rows[i].disk, w[k].sid, i>> : i \in Landed(k)})
  /\ SetW(k, [w[k] EXCEPT !.pc = "giveup", !.rows = NoRows])
  /\ UNCHANGED <<diskStatus, up, dbVars, rd, bootVars, faults>>

StripeDrop(k) ==
  /\ w[k].pc = "giveup"
  /\ DropStripes({w[k].sid})
  /\ SetW(k, [w[k] EXCEPT !.pc = "delete", !.sid = None])
  /\ UNCHANGED <<diskStatus, up, files, object, rd, bootVars, faults>>

(* stripe_count, as put_stream records it. *)
StripeCountShort(k) == w[k].seq - 1   \* mutant: the last seq
StripeCount(k) == w[k].seq

(* The last transaction of put_stream: the object becomes visible. *)
PutCommit(k) ==
  /\ w[k].pc = "stripe"
  /\ w[k].seq = w[k].len
  /\ object' = [object EXCEPT ![w[k].obj].state = "committed",
                              ![w[k].obj].size = StripeCount(k)]
  /\ SetW(k, IdleWriter)
  /\ UNCHANGED <<diskStatus, up, files, stripe, shard, rd, bootVars, faults>>

(* `except BaseException`: the source fails to deliver, SQLite reports the   *)
(* database locked, ...  What _write_stripe had written stays where it is.   *)
PutRaises(k) ==
  /\ \/ /\ w[k].pc = "insert"
        /\ SetW(k, IdleWriter)
     \/ /\ w[k].pc \in {"stripe", "shards", "giveup"}
        /\ SetW(k, [w[k] EXCEPT !.pc = "delete", !.sid = None, !.rows = NoRows])
  /\ UNCHANGED <<diskStatus, up, files, dbVars, rd, bootVars, faults>>

-----------------------------------------------------------------------------
(* delete(), and _delete_object_rows for all who call it.                    *)

DeleteBegin(k) ==
  /\ Serving
  /\ w[k].pc = "idle"
  /\ \E o \in ObjId :
       /\ KeyRow(k, o)
       /\ SetW(k, [IdleWriter EXCEPT !.pc = "delete", !.obj = o])
  /\ UNCHANGED <<diskStatus, up, files, dbVars, rd, bootVars, faults>>

Disturb(o) == rd' = [x \in Reader |-> IF rd[x].obj = o
                                      THEN [rd[x] EXCEPT !.disturbed = TRUE]
                                      ELSE rd[x]]

(* Rows first.  The rows to unlink by are read before the transaction;       *)
(* nobody moves a shard of the object meanwhile (but see StripeRepair).      *)
DeleteRows(k) ==
  /\ w[k].pc = "delete"
  /\ object' = [object EXCEPT ![w[k].obj] = NoObject]
  /\ DropStripes(StripesOf(w[k].obj))
  /\ LET F == RowFiles(StripesOf(w[k].obj)) IN
       SetW(k, IF F # {} THEN [w[k] EXCEPT !.pc = "unlink", !.doomed = F]
               ELSE IF w[k].then = "insert"
               THEN [IdleWriter EXCEPT !.pc = "insert", !.len = w[k].len]
               ELSE IdleWriter)
  /\ Disturb(w[k].obj)
  /\ UNCHANGED <<diskStatus, up, files, bootVars, faults>>

(* The clean-up itself may raise; the lock is released, the rows stay. *)
DeleteRaises(k) ==
  /\ w[k].pc = "delete"
  /\ SetW(k, IdleWriter)
  /\ UNCHANGED <<diskStatus, up, files, dbVars, rd, bootVars, faults>>

(* Then the files, stripe by stripe. *)
Unlink(k) ==
  /\ w[k].pc = "unlink"
  /\ \E s \in StripeId :
       LET F == {f \in w[k].doomed : f[2] = s} IN
       /\ F # {}
       /\ files' = Unlinked(F)
       /\ SetW(k, IF StillDoomed(w[k].doomed, F) # {}
                  THEN [w[k] EXCEPT !.doomed = StillDoomed(@, F)]
                  ELSE IF w[k].then = "insert"
                  THEN [IdleWriter EXCEPT !.pc = "insert", !.len = w[k].len]
                  ELSE IdleWriter)
  /\ UNCHANGED <<diskStatus, up, dbVars, rd, bootVars, faults>>

-----------------------------------------------------------------------------
(* iter_range over a whole object.                                           *)

SetR(x, r) == rd' = [rd EXCEPT ![x] = r]

ReadStat(x, k) ==
  /\ Serving
  /\ rd[x].pc = "idle"
  /\ \E o \in ObjId :
       /\ object[o].state = "committed"
       /\ object[o].key = k
       /\ SetR(x, [IdleReader EXCEPT !.pc = "list", !.obj = o, !.key = k,
                                     !.size = object[o].size])
  /\ UNCHANGED <<diskStatus, up, files, dbVars, w, bootVars, faults>>

(* _stripes(info["id"]): by row id, whatever object has that id by now. *)
ReadList(x) ==
  /\ rd[x].pc = "list"
  /\ LET S == VisibleStripes(rd[x].obj) IN
       SetR(x, [rd[x] EXCEPT !.pc = IF S = {} THEN "done" ELSE "next",
                             !.todo = S])
  /\ UNCHANGED <<diskStatus, up, files, dbVars, w, bootVars, faults>>

(* _read_stripe: the shard rows and the disk map as they are now.  A row     *)
(* that is missing, or on a disk that is not readable, is not tried.         *)
ReadRows(x) ==
  /\ rd[x].pc = "next"
  /\ \E s \in rd[x].todo :
       /\ \A t \in rd[x].todo : stripe[s].seq <= stripe[t].seq
       /\ SetR(x, [rd[x] EXCEPT
                     !.pc = "try", !.sid = s, !.tried = {}, !.got = {},
                     !.at = [i \in Shard |->
                               IF /\ shard[s][i].disk # None
                                  /\ shard[s][i].state = "ok"
                                  /\ diskStatus[shard[s][i].disk] \in Readable
                               THEN shard[s][i].disk ELSE None]])
  /\ UNCHANGED <<diskStatus, up, files, dbVars, w, bootVars, faults>>

(* Data shards all, then parity shards until K are held. *)
TryNext(x, i) ==
  /\ rd[x].pc = "try"
  /\ i \in Shard \ rd[x].tried
  /\ \A j \in Shard : j < i => j \in rd[x].tried
  /\ i < K \/ Cardinality(rd[x].got) < K

Tried(x, i) == [rd[x] EXCEPT !.tried = @ \cup {i}]

MarkMissing(s, i) ==
  shard' = IF shard[s][i].state = "absent" THEN shard
           ELSE [shard EXCEPT ![s][i].state = "missing"]

ReadSkip(x, i) ==
  /\ TryNext(x, i)
  /\ rd[x].at[i] = None
  /\ SetR(x, Tried(x, i))
  /\ UNCHANGED <<diskStatus, up, files, dbVars, w, bootVars, faults>>

ReadShard(x, i) ==
  /\ TryNext(x, i)
  /\ rd[x].at[i] # None
  /\ up[rd[x].at[i]]
  /\ <<rd[x].at[i], rd[x].sid, i>> \in files
  /\ SetR(x, [Tried(x, i) EXCEPT !.got = @ \cup {i}])
  /\ UNCHANGED <<diskStatus, up, files, dbVars, w, bootVars, faults>>

(* FileNotFoundError: the file is gone, or the disk is not mounted.  The row *)
(* is marked missing.                                                        *)
ReadMissing(x, i) ==
  /\ TryNext(x, i)
  /\ rd[x].at[i] # None
  /\ ~up[rd[x].at[i]] \/ <<rd[x].at[i], rd[x].sid, i>> \notin files
  /\ MarkMissing(rd[x].sid, i)
  /\ SetR(x, Tried(x, i))
  /\ UNCHANGED <<diskStatus, up, files, object, stripe, w, bootVars, faults>>

(* Any other OSError: counted against the disk. *)
ReadFails(x, i) ==
  /\ TryNext(x, i)
  /\ rd[x].at[i] # None
  /\ ~up[rd[x].at[i]]
  /\ RecordError(rd[x].at[i])
  /\ SetR(x, Tried(x, i))
  /\ UNCHANGED <<up, files, dbVars, w, bootVars, faults>>

ReadOver(x) == /\ rd[x].pc = "try"
               /\ \A i \in Shard : ~TryNext(x, i)

(* decode_bytes succeeds: the stripe is delivered. *)
ReadDecode(x) ==
  /\ ReadOver(x)
  /\ Cardinality(rd[x].got) >= K
  /\ LET s == rd[x].sid  T == rd[x].todo \ {s} IN
       SetR(x, [rd[x] EXCEPT !.pc = IF T = {} THEN "done" ELSE "next",
                             !.todo = T, !.sid = None,
                             !.at = IdleReader.at, !.tried = {}, !.got = {},
                             !.out = @ \cup {<<stripe[s].key, stripe[s].seq>>}])
  /\ UNCHANGED <<diskStatus, up, files, dbVars, w, bootVars, faults>>

(* NotEnoughShards: the stripe, if its row is still there, is unrecoverable. *)
ReadUnrecoverable(x) ==
  /\ ReadOver(x)
  /\ Cardinality(rd[x].got) < K
  /\ stripe' = IF stripe[rd[x].sid].state = "gone" THEN stripe
               ELSE [stripe EXCEPT ![rd[x].sid].state = "unrecoverable"]
  /\ SetR(x, [rd[x] EXCEPT !.pc = "failed", !.todo = {}, !.sid = None,
                           !.at = IdleReader.at, !.tried = {}, !.got = {}])
  /\ UNCHANGED <<diskStatus, up, files, object, shard, w, bootVars, faults>>

ReadEnd(x) ==
  /\ rd[x].pc \in {"done", "failed"}
  /\ SetR(x, IdleReader)
  /\ UNCHANGED <<diskStatus, up, files, dbVars, w, bootVars, faults>>

-----------------------------------------------------------------------------
(* Disks: the cable, and DiskManager.check_all.                              *)

DiskDown(d) ==
  /\ up[d]
  /\ faults < MaxFaults
  /\ Cardinality({e \in Disk : ~up[e]}) < MaxDown
  /\ up' = [up EXCEPT ![d] = FALSE]
  /\ faults' = faults + 1
  /\ UNCHANGED <<diskStatus, files, dbVars, w, rd, bootVars>>

DiskUp(d) ==
  /\ ~up[d]
  /\ up' = [up EXCEPT ![d] = TRUE]
  /\ UNCHANGED <<diskStatus, files, dbVars, w, rd, bootVars, faults>>

Checked(d) == IF ~up[d] THEN "failed"
              ELSE IF diskStatus[d] = "failed" THEN "online" ELSE diskStatus[d]

HealthCheck(d) ==
  /\ Serving
  /\ Checked(d) # diskStatus[d]
  /\ diskStatus' = [diskStatus EXCEPT ![d] = Checked(d)]
  /\ UNCHANGED <<up, files, dbVars, w, rd, bootVars, faults>>

-----------------------------------------------------------------------------
(* A crash, and startup(): recover_pending, then check_all, then the API.    *)

Crash ==
  /\ crashes < MaxCrashes
  /\ crashes' = crashes + 1
  /\ phase' = "sweep"
  /\ bootDoomed' = {}
  /\ w' = [k \in Key |-> IdleWriter]
  /\ rd' = [x \in Reader |-> IdleReader]
  /\ UNCHANGED <<diskStatus, up, files, dbVars, faults>>

PendingStripes == {s \in StripeId : stripe[s].state = "pending"}

(* The files of pending stripes, by name, on the readable disks. *)
BootSweep ==
  /\ phase = "sweep"
  /\ files' = Unlinked({f \in files : /\ f[2] \in PendingStripes
                                      /\ diskStatus[f[1]] \in Readable})
  /\ phase' = "drop"
  /\ UNCHANGED <<diskStatus, up, dbVars, w, rd, bootDoomed, faults, crashes>>

BootDrop ==
  /\ phase = "drop"
  /\ DropStripes(PendingStripes)
  /\ phase' = "objects"
  /\ UNCHANGED <<diskStatus, up, files, object, w, rd, bootDoomed, faults, crashes>>

UnfinishedAny(o) == object[o].state # "none"   \* mutant: state not tested
Unfinished(o) == object[o].state = "pending"

(* _delete_object_rows for each pending object: rows, then files. *)
BootObject(o) ==
  /\ phase = "objects"
  /\ Unfinished(o)
  /\ object' = [object EXCEPT ![o] = NoObject]
  /\ DropStripes(StripesOf(o))
  /\ bootDoomed' = RowFiles(StripesOf(o))
  /\ phase' = "unlink"
  /\ UNCHANGED <<diskStatus, up, files, w, rd, faults, crashes>>

BootUnlink ==
  /\ phase = "unlink"
  /\ files' = Unlinked(bootDoomed)
  /\ bootDoomed' = StillDoomed(bootDoomed, bootDoomed)
  /\ phase' = IF bootDoomed' = {} THEN "objects" ELSE "unlink"
  /\ UNCHANGED <<diskStatus, up, dbVars, w, rd, faults, crashes>>

BootServe ==
  /\ phase = "objects"
  /\ \A o \in ObjId : ~Unfinished(o)
  /\ diskStatus' = [d \in Disk |-> Checked(d)]
  /\ phase' = "serving"
  /\ UNCHANGED <<up, files, dbVars, w, rd, bootDoomed, faults, crashes>>

-----------------------------------------------------------------------------
Init ==
  /\ diskStatus = [d \in Disk |-> "online"]
  /\ up = [d \in Disk |-> TRUE]
  /\ files = {}
  /\ object = [o \in ObjId |-> NoObject]
  /\ stripe = [s \in StripeId |-> [state |-> "none", obj |-> 0, key |-> None,
                                   seq |-> 0]]
  /\ shard = [s \in StripeId |-> NoRows]
  /\ w = [k \in Key |-> IdleWriter]
  /\ rd = [x \in Reader |-> IdleReader]
  /\ phase = "serving"
  /\ bootDoomed = {}
  /\ faults = 0
  /\ crashes = 0

PutStep(k) ==
  \/ PutInsert(k)
  \/ StripeBegin(k)
  \/ \E i \in Shard : WriteShard(k, i) \/ WriteShardFails(k, i)
  \/ StripeCommit(k)
  \/ StripeGiveUp(k)
  \/ StripeDrop(k)
  \/ PutCommit(k)

DeleteStep(k) == DeleteRows(k) \/ Unlink(k)

WriterNext(k) ==
  \/ \E n \in 1 .. MaxStripes : PutBegin(k, n)
  \/ PutStep(k)
  \/ PutRaises(k)
  \/ DeleteBegin(k)
  \/ DeleteStep(k)
  \/ DeleteRaises(k)

ReadStep(x) ==
  \/ ReadList(x)
  \/ ReadRows(x)
  \/ \E i \in Shard :
       ReadSkip(x, i) \/ ReadShard(x, i) \/ ReadMissing(x, i) \/ ReadFails(x, i)
  \/ ReadDecode(x)
  \/ ReadUnrecoverable(x)
  \/ ReadEnd(x)

ReaderNext(x) == (\E k \in Key : ReadStat(x, k)) \/ ReadStep(x)

DiskNext(d) == DiskDown(d) \/ DiskUp(d) \/ HealthCheck(d)

BootStep ==
  \/ BootSweep
  \/ BootDrop
  \/ \E o \in ObjId : BootObject(o)
  \/ BootUnlink
  \/ BootServe

Next ==
  \/ \E k \in Key : WriterNext(k)
  \/ \E x \in Reader : ReaderNext(x)
  \/ \E d \in Disk : DiskNext(d)
  \/ Crash
  \/ BootStep

(* A thread that runs keeps running, and the start-up runs to its end. *)
Fairness ==
  /\ \A k \in Key : WF_vars(PutStep(k) \/ DeleteStep(k))
  /\ \A x \in Reader : WF_vars(ReadStep(x))
  /\ WF_vars(BootStep)

Spec == Init /\ [][Next]_vars
FairSpec == Spec /\ Fairness
-----------------------------------------------------------------------------
(* Properties.                                                               *)

(* A thread at a step holds what the step uses. *)
WriterOK(r) ==
  /\ r.seq <= r.len
  /\ r.pc \in {"stripe", "shards", "giveup"} => r.obj \in ObjId
  /\ r.pc \in {"shards", "giveup"} => r.sid \in StripeId
  /\ r.pc = "shards" => r.seq < r.len
  /\ \A i \in Shard : r.rows[i].state = "todo" => r.rows[i].disk \in Disk
ReaderOK(r) == r.pc = "try" => r.sid \in StripeId

(* Every table and every thread holds values of its type.                    *)
TypeOK ==
  /\ diskStatus \in [Disk -> Status]
  /\ up \in [Disk -> BOOLEAN]
  /\ files \subseteq File
  /\ object \in [ObjId -> ObjectRow]
  /\ stripe \in [StripeId -> StripeRow]
  /\ shard \in [StripeId -> [Shard -> ShardRow]]
  /\ w \in [Key -> Writer]
  /\ rd \in [Reader -> ReadState]
  /\ phase \in {"serving", "sweep", "drop", "objects", "unlink"}
  /\ bootDoomed \subseteq File
  /\ faults \in 0 .. MaxFaults
  /\ crashes \in 0 .. MaxCrashes
  /\ \A k \in Key : WriterOK(w[k])
  /\ \A x \in Reader : ReaderOK(rd[x])

(* A row that names a disk names a file that is there: deletes remove rows   *)
(* first, so a crash at any step leaves orphan files, never dangling rows    *)
(* (_delete_object_rows, _write_stripe, recover_pending).                    *)
NoDanglingRows ==
  \A s \in StripeId, i \in Shard :
    shard[s][i].disk # None => <<shard[s][i].disk, s, i>> \in files

(* The rows of what a reader may list name files that are there: a stripe is *)
(* listed after its files are durable, and unlinked after it is gone, also   *)
(* by a restripe, its clean-up and the recovery of one that was cut short    *)
(* (_write_stripe, restripe_object, recover_pending).                        *)
VisibleInPlace ==
  \A s \in StripeId, i \in Shard :
    stripe[s].state \in Visible /\ shard[s][i].disk # None => <<shard[s][i].disk, s, i>> \in files

(* Every shard of a stripe lives on a distinct disk (TDD 3).                 *)
DistinctDisks ==
  \A s \in StripeId, i, j \in Shard :
    /\ i # j
    /\ shard[s][i].disk # None
    => shard[s][i].disk # shard[s][j].disk

(* Whatever failed while it was written, a stripe that readers may list has  *)
(* at least k + min_write_extra shards on disks (all of them, if the code    *)
(* has fewer): losing min_write_extra disks loses no object (TDD 4.7).       *)
Redundant ==
  \A s \in StripeId :
    stripe[s].state \in {"committed", "unrecoverable"} =>
      LET placed == Cardinality({i \in Shard : shard[s][i].disk # None}) IN
      placed >= K + MinWriteExtra \/ placed >= K + M

(* A committed object is whole: its stripes are numbered 0 .. size - 1, each *)
(* exactly once, and none of them is pending or gone, whatever crashed,      *)
(* raised or was recovered (put_stream, recover_pending).                    *)
WholeObjects ==
  \A o \in ObjId : object[o].state = "committed" =>
    LET S == {s \in StripeId : stripe[s].obj = o /\ stripe[s].state \notin {"none", "gone"}} IN
    /\ \A s \in S : stripe[s].state \in {"committed", "unrecoverable"}
    /\ {stripe[s].seq : s \in S} = 0 .. (object[o].size - 1)
    /\ \A s, t \in S : stripe[s].seq = stripe[t].seq => s = t

(* A read of an object that is not deleted meanwhile, and that ends without  *)
(* an error, has delivered every stripe of the object and no other byte      *)
(* (iter_range, _stripes).                                                   *)
UndisturbedReadIsWhole ==
  \A x \in Reader :
    rd[x].pc = "done" /\ ~rd[x].disturbed =>
      rd[x].out = {<<rd[x].key, n>> : n \in 0 .. (rd[x].size - 1)}

(* Bytes of another object are never served under a key: "Yield bytes        *)
(* [start, end) of an object" (iter_range).  Row ids are reused by SQLite,   *)
(* and _stripes goes by row id.                                              *)
ReadsItsOwnKey ==
  \A x \in Reader : \A e \in rd[x].out : e[1] = rd[x].key

(* A stripe with k shard files in place where its rows say can be read once  *)
(* the disks answer: an unreachable disk is not a lost shard.                *)
FilesInPlaceAreReadable ==
  \A s \in StripeId : stripe[s].state \in Visible =>
    LET there == {i \in Shard : <<shard[s][i].disk, s, i>> \in files} IN
    Cardinality(there) >= K =>
      Cardinality({i \in there : shard[s][i].state = "ok"}) >= K

(* A put that fails leaves no file behind: "Otherwise delete what landed and *)
(* fail the put" (TDD 4.7).                                                  *)
FailedPutLeavesNoFile ==
  \A f \in files : stripe[f[2]].state = "gone" =>
    \E k \in Key : f \in w[k].doomed

-----------------------------------------------------------------------------
(* The inductive invariant behind NoDanglingRows, DistinctDisks, Redundant   *)
(* and WholeObjects (see ObjectStoreSafety, ObjectStoreWhole).               *)

Live == {"pending", "committed", "unrecoverable"}   \* the stripe's row exists
Writing == {"stripe", "shards", "giveup"}           \* inside put_stream's try

(* While the server starts no call runs. *)
StartsAlone == phase # "serving" => w = [k \in Key |-> IdleWriter]

(* Shard rows are inserted with the commit of their stripe, deleted with it. *)
RowsComeWithCommit == \A s \in StripeId : stripe[s].state \notin Visible => shard[s] = NoRows

(* objects.key is UNIQUE; the thread with the key's lock has its row, or     *)
(* knows that there is none.                                                 *)
OneRowPerKey == \A k \in Key, o, p \in ObjId : KeyRow(k, o) /\ KeyRow(k, p) => o = p
HoldsObject ==
  \A k \in Key :
    /\ w[k].pc \in Writing => object[w[k].obj].state = "pending" /\ KeyRow(k, w[k].obj)
    /\ w[k].pc = "delete" => w[k].obj \in ObjId /\ KeyRow(k, w[k].obj)
    /\ w[k].pc \in {"insert", "unlink"} => \A o \in ObjId : ~KeyRow(k, o)

(* Foreign keys: a stripe row has its object row; the key is in the header. *)
StripesHaveObject ==
  \A s \in StripeId : stripe[s].state \in Live =>
    /\ stripe[s].obj \in ObjId
    /\ object[stripe[s].obj].state # "none"
    /\ stripe[s].key = object[stripe[s].obj].key

(* What a reader listed was visible then. *)
ListsVisible ==
  \A x \in Reader, s \in StripeId :
    s \in rd[x].todo \/ s = rd[x].sid => stripe[s].state \in Visible \cup {"gone"}

(* The one stripe a thread writes, what it knows of it, and what is behind. *)
HoldsStripe ==
  \A k \in Key : w[k].pc \in {"shards", "giveup"} =>
    /\ stripe[w[k].sid].state = "pending"
    /\ stripe[w[k].sid].obj = w[k].obj
ShardsSoFar ==
  \A k \in Key : w[k].pc = "shards" => \A i \in Shard :
    /\ w[k].rows[i].disk # None <=> w[k].rows[i].state \in {"ok", "todo"}
    /\ w[k].rows[i].state = "ok" => <<w[k].rows[i].disk, w[k].sid, i>> \in files
    /\ \A j \in Shard : i # j /\ w[k].rows[i].disk # None
                          => w[k].rows[i].disk # w[k].rows[j].disk
StripesSoFar ==
  \A k \in Key :
    /\ w[k].pc = "insert" => w[k].seq = 0
    /\ w[k].pc \in Writing =>
         LET S == {s \in StripeId : stripe[s].obj = w[k].obj /\ stripe[s].state \in Visible} IN
         /\ \A s \in StripeId : stripe[s].obj = w[k].obj /\ stripe[s].state = "pending"
                                 => w[k].pc # "stripe" /\ s = w[k].sid
         /\ \A s \in S : stripe[s].seq < w[k].seq
         /\ \A n \in 0 .. (w[k].seq - 1) : \E s \in S : stripe[s].seq = n
         /\ \A s, t \in S : stripe[s].seq = stripe[t].seq => s = t
         /\ w[k].pc \in {"shards", "giveup"} => stripe[w[k].sid].seq = w[k].seq

(* What is still to be unlinked belongs to no stripe any more. *)
DoomedIsGone ==
  /\ \A k \in Key : \A f \in w[k].doomed : stripe[f[2]].state = "gone"
  /\ \A f \in bootDoomed : stripe[f[2]].state = "gone"

FilesInv == /\ TypeOK
            /\ StartsAlone /\ OneRowPerKey /\ HoldsObject
            /\ StripesHaveObject /\ ListsVisible /\ HoldsStripe /\ ShardsSoFar
            /\ DoomedIsGone
            /\ VisibleInPlace /\ DistinctDisks /\ Redundant
IInv == FilesInv /\ RowsComeWithCommit /\ NoDanglingRows /\ StripesSoFar /\ WholeObjects

(* A read that was not disturbed has delivered, or still lists, exactly the  *)
(* stripes of the object it found.                                           *)
ReadSoFar ==
  \A x \in Reader : rd[x].pc \in {"list", "next", "try", "done"} /\ ~rd[x].disturbed =>
    /\ rd[x].obj \in ObjId
    /\ object[rd[x].obj] = [state |-> "committed", key |-> rd[x].key, size |-> rd[x].size]
    /\ rd[x].pc = "list" => rd[x].out = {}
    /\ rd[x].pc = "try" => rd[x].sid \in rd[x].todo
    /\ rd[x].pc = "done" => rd[x].todo = {}
    /\ rd[x].pc # "list" =>
         /\ \A s \in rd[x].todo : stripe[s].state \in Visible /\ stripe[s].obj = rd[x].obj
         /\ rd[x].out \cup {<<stripe[s].key, stripe[s].seq>> : s \in rd[x].todo}
              = {<<rd[x].key, n>> : n \in 0 .. (rd[x].size - 1)}

(* What the call of a key still has to do: a put purges only leftovers.       *)
CallsMatch ==
  \A k \in Key :
    /\ w[k].pc = "idle" => w[k].len = 0
    /\ w[k].pc \in Writing \cup {"insert"} \/ w[k].then = "insert" => w[k].len # 0
    /\ w[k].pc = "delete" /\ w[k].len # 0 => object[w[k].obj].state # "committed"

(* The abstract store: what each key holds, and the call that runs for it.   *)
StoredContent == [k \in Key |->
  {stripe[s].seq : s \in
     {t \in StripeId : /\ stripe[t].state \in Visible
                       /\ object[stripe[t].obj].state = "committed"
                       /\ object[stripe[t].obj].key = k}}]
RunningCall == [k \in Key |->
  [op |-> IF w[k].pc = "idle" THEN "idle"
          ELSE IF w[k].len = 0 THEN "delete" ELSE "put",
   n |-> w[k].len]]

Atomic == INSTANCE AtomicStore WITH store <- StoredContent, call <- RunningCall

(* Readers, crashes and failing disks included, the store is an AtomicStore. *)
IsAtomicStore == Atomic!Spec

(* Every put and every delete comes to an end, also when disks stay away,    *)
(* unless the server crashes under it; and a started server gets to serve.   *)
ServerGoesOn ==
  /\ \A k \in Key : w[k].pc # "idle" ~> w[k].pc = "idle"
  /\ phase # "serving" ~> Serving
=============================================================================
