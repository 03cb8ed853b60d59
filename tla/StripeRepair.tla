---------------------------- MODULE StripeRepair ----------------------------
(***************************************************************************)
(* Stripes after they were written: repair_stripe, which scrub and rebuild *)
(* call, the reads that mark what they find, deletes and new stripes       *)
(* meanwhile, and check_all of the disk manager.                           *)
(*                                                                         *)
(* No lock covers a repair.  It reads the shard rows and the disk map once *)
(* and works from these copies through many file operations, while every   *)
(* other thread changes what they were copied from.  An action is one      *)
(* query, one file operation or one UPDATE, or one of each where the       *)
(* comment says so.  How a stripe is written is ObjectStore's subject; an  *)
(* object has one stripe here.                                             *)
(***************************************************************************)
EXTENDS Integers, FiniteSets

CONSTANTS
  Disk,        \* disks, registered or to be registered
  Registered,  \* the disks registered from the start
  StripeId,    \* stripes
  Stored,      \* the stripes stored from the start
  Scrubber,    \* threads that run a scrub: the worker, `cloudstore scrub`
  Reader,      \* threads in _read_stripe
  Rebuilder,   \* the thread in run_task (see Rebuild)
  K, M,        \* the code of the stripes
  Need,        \* shards that must land before a stripe commits
  MaxDamage,   \* bound: files that rot or vanish on their disk
  MaxFaults,   \* bound: how often a disk becomes unreachable
  MaxCrashes,  \* bound: crashes of the server
  None         \* NULL

ASSUME DiskAssumption == /\ IsFiniteSet(Disk)
                         /\ Registered \subseteq Disk
                         /\ Stored \subseteq StripeId
ASSUME CodeAssumption == /\ K \in Nat \ {0}
                         /\ M \in Nat
                         /\ Need \in K .. (K + M)
ASSUME BoundAssumption == /\ MaxDamage \in Nat
                          /\ MaxFaults \in Nat
                          /\ MaxCrashes \in Nat
ASSUME NoneAssumption == /\ None \notin Disk \cup StripeId
                         /\ Rebuilder \notin Scrubber \cup Reader
                         /\ Scrubber \cap Reader = {}

Shard == 0 .. (K + M - 1)
Repairer == Scrubber \cup {Rebuilder}
Thread == Repairer \cup Reader

Status == {"absent", "online", "degraded", "failed", "rebuilding", "retired"}
Writable == {"online", "rebuilding"}
Readable == {"online", "degraded", "rebuilding"}

VARIABLES
  diskStatus,  \* disks.status; "absent": no row
  up,          \* does the file system of the disk answer?
  files,       \* shard files in place, <<disk, stripe, index>>
  rotten,      \* those whose checksum no longer matches
  stripe,      \* stripes.state
  shard,       \* table shards
  th,          \* the threads that read or repair a stripe
  call,        \* the thread that puts or deletes the object of a stripe
  hc,          \* check_all between its list and what it makes of a disk
  damage, faults, crashes

tables == <<stripe, shard>>
disks  == <<diskStatus, up>>
bounds == <<damage, faults, crashes>>
vars == <<diskStatus, up, files, rotten, stripe, shard, th, call, hc,
          damage, faults, crashes>>

File == Disk \X StripeId \X Shard
ShardRow == [disk: Disk \cup {None}, state: {"absent", "ok", "missing", "corrupt"}]
NoRows == [i \in Shard |-> [disk |-> None, state |-> "absent"]]
StripeState == {"none", "pending", "committed", "unrecoverable", "gone"}
Visible == {"committed", "unrecoverable"}

(* pc: map - before the disk map is read; read - at shard next; mark - the  *)
(* row of that shard is to be marked; mend - at the first shard of todo;     *)
(* unlink, update - its new file is at the disk `at`.                        *)
ThreadState ==
  [pc: {"idle", "map", "read", "mark", "mend", "unlink", "update"},
   sid: StripeId \cup {None}, force: SUBSET Disk,
   rows: [Shard -> ShardRow], map: [Disk -> Status],
   next: 0 .. (K + M), got: SUBSET Shard, found: {"ok", "missing", "corrupt"},
   todo: SUBSET Shard, used: SUBSET Disk, at: Disk \cup {None}]
IdleThread ==
  [pc |-> "idle", sid |-> None, force |-> {}, rows |-> NoRows,
   map |-> [d \in Disk |-> "absent"], next |-> 0, got |-> {}, found |-> "ok",
   todo |-> {}, used |-> {}, at |-> None]

NoDisks == [i \in Shard |-> None]
CallState == [pc: {"idle", "write", "delete", "unlink"},
              at: [Shard -> Disk \cup {None}]]
IdleCall == [pc |-> "idle", at |-> NoDisks]

NoCheck == [disk |-> None, was |-> "absent"]
Check == [disk: Disk \cup {None}, was: Status]

SetT(t, r) == th' = [th EXCEPT ![t] = r]

(* UPDATE of a row that may have been deleted meanwhile. *)
SetStripe(s, state) ==
  stripe' = IF stripe[s] = "gone" THEN stripe ELSE [stripe EXCEPT ![s] = state]
SetRow(s, i, row) ==
  shard' = IF shard[s][i].state = "absent" THEN shard ELSE [shard EXCEPT ![s][i] = row]

RecordError(d) ==
  \/ UNCHANGED diskStatus
  \/ /\ diskStatus[d] = "online"
     /\ diskStatus' = [diskStatus EXCEPT ![d] = "degraded"]

-----------------------------------------------------------------------------
(* repair_stripe and _read_stripe: the rows, then the disk map. *)

Begin(t, s, force) ==
  /\ th[t].pc = "idle"
  /\ stripe[s] \in Visible
  /\ SetT(t, [IdleThread EXCEPT !.pc = "map", !.sid = s, !.force = force,
                                !.rows = shard[s]])
  /\ UNCHANGED <<disks, files, rotten, tables, call, hc, bounds>>

ListDisks(t) ==
  /\ th[t].pc = "map"
  /\ SetT(t, [th[t] EXCEPT !.pc = "read", !.map = diskStatus])
  /\ UNCHANGED <<disks, files, rotten, tables, call, hc, bounds>>

(* A repair reads every shard, a read the data shards and then parity until  *)
(* K are held.                                                               *)
ReadingNoParity(t) == /\ th[t].pc = "read"   \* mutant
                      /\ th[t].next \in Shard
                      /\ t \in Repairer \/ th[t].next < K
Reading(t) ==
  /\ th[t].pc = "read"
  /\ th[t].next \in Shard
  /\ t \in Repairer \/ th[t].next < K \/ Cardinality(th[t].got) < K
ReadOver(t) == th[t].pc = "read" /\ ~Reading(t)

(* _try_read of the shard at th[t].next. *)
Row(t) == th[t].rows[th[t].next]
Copy(t) == <<Row(t).disk, th[t].sid, th[t].next>>
Tried(t) ==
  /\ Reading(t)
  /\ Row(t).disk # None
  /\ th[t].map[Row(t).disk] \in Readable
  /\ Row(t).state # "missing"
Advance(t) == [th[t] EXCEPT !.next = @ + 1]

ReadSkip(t) ==
  /\ Reading(t)
  /\ ~Tried(t)
  /\ SetT(t, Advance(t))
  /\ UNCHANGED <<disks, files, rotten, tables, call, hc, bounds>>

ReadGood(t) ==
  /\ Tried(t)
  /\ up[Row(t).disk]
  /\ Copy(t) \in files \ rotten
  /\ SetT(t, [Advance(t) EXCEPT !.got = @ \cup {th[t].next}])
  /\ UNCHANGED <<disks, files, rotten, tables, call, hc, bounds>>

(* FileNotFoundError, also when the disk is not mounted; or a bad checksum. *)
ReadBad(t, found) ==
  /\ Tried(t)
  /\ \/ found = "missing" /\ (~up[Row(t).disk] \/ Copy(t) \notin files)
     \/ found = "corrupt" /\ up[Row(t).disk] /\ Copy(t) \in rotten
  /\ SetT(t, [th[t] EXCEPT !.pc = "mark", !.found = found])
  /\ UNCHANGED <<disks, files, rotten, tables, call, hc, bounds>>

(* DiskIOError *)
ReadFails(t) ==
  /\ Tried(t)
  /\ ~up[Row(t).disk]
  /\ RecordError(Row(t).disk)
  /\ SetT(t, Advance(t))
  /\ UNCHANGED <<up, files, rotten, tables, call, hc, bounds>>

(* _mark_shard: by stripe and index, wherever the shard is by now. *)
MarkShard(t) ==
  /\ th[t].pc = "mark"
  /\ SetRow(th[t].sid, th[t].next,
            [shard[th[t].sid][th[t].next] EXCEPT !.state = th[t].found])
  /\ SetT(t, [Advance(t) EXCEPT !.pc = "read", !.found = "ok"])
  /\ UNCHANGED <<disks, files, rotten, stripe, call, hc, bounds>>

(* The end of _read_stripe: decoded, or the stripe is unrecoverable. *)
ReadEnd(t) ==
  /\ t \in Reader
  /\ ReadOver(t)
  /\ IF Cardinality(th[t].got) >= K THEN UNCHANGED stripe
     ELSE SetStripe(th[t].sid, "unrecoverable")
  /\ SetT(t, IdleThread)
  /\ UNCHANGED <<disks, files, rotten, shard, call, hc, bounds>>

-----------------------------------------------------------------------------
(* repair_stripe after its reads.                                            *)

ToWrite(t) == {i \in Shard : \/ i \notin th[t].got
                             \/ th[t].rows[i].disk \in th[t].force}

(* Nothing to do, or too few shards are left. *)
RepairVerdict(t) ==
  /\ t \in Repairer
  /\ ReadOver(t)
  /\ \/ /\ ToWrite(t) = {}
        /\ SetStripe(th[t].sid, "committed")
     \/ /\ th[t].got # Shard
        /\ Cardinality(th[t].got) < K
        /\ SetStripe(th[t].sid, "unrecoverable")
  /\ SetT(t, IdleThread)
  /\ UNCHANGED <<disks, files, rotten, shard, call, hc, bounds>>

(* The disks that must not get a second shard of the stripe. *)
UsedByBad(t) == {th[t].rows[i].disk : i \in Shard} \ {None}   \* mutant
UsedAfterReads(t) == {th[t].rows[i].disk : i \in Shard \ ToWrite(t)} \ {None}

RepairPlan(t) ==
  /\ t \in Repairer
  /\ ReadOver(t)
  /\ ToWrite(t) # {}
  /\ th[t].got = Shard \/ Cardinality(th[t].got) >= K
  /\ SetT(t, [th[t] EXCEPT !.pc = "mend", !.todo = ToWrite(t),
                           !.used = UsedAfterReads(t)])
  /\ UNCHANGED <<disks, files, rotten, tables, call, hc, bounds>>

(* At the first shard of todo. *)
AtShard(t, pc, i) == /\ th[t].pc = pc
                     /\ i \in th[t].todo
                     /\ \A j \in th[t].todo : i <= j

(* Its own disk, if the map called it writable; else _place(1): a disk that  *)
(* is writable now.                                                          *)
Excluded(t) == th[t].used \cup th[t].force
OwnDisk(t, i) == {d \in Disk \ Excluded(t) : /\ d = th[t].rows[i].disk
                                             /\ th[t].map[d] \in Writable}
Targets(t, i) ==
  IF OwnDisk(t, i) # {} THEN OwnDisk(t, i)
  ELSE {d \in Disk \ Excluded(t) : diskStatus[d] \in Writable}

MendSkip(t) ==
  /\ \E i \in Shard : /\ AtShard(t, "mend", i)
                      /\ Targets(t, i) = {}
                      /\ SetT(t, [th[t] EXCEPT !.todo = @ \ {i}])
  /\ UNCHANGED <<disks, files, rotten, tables, call, hc, bounds>>

(* The old copy, if it is elsewhere on a disk the map called readable. *)
OldCopyAnywhere(t, i, d) ==   \* mutant: also on the target
  {f \in File : f = <<th[t].rows[i].disk, th[t].sid, i>> /\ th[t].map[f[1]] \in Readable}
OldCopy(t, i, d) == {f \in File : /\ f = <<th[t].rows[i].disk, th[t].sid, i>>
                                  /\ f[1] # d
                                  /\ th[t].map[f[1]] \in Readable}

(* The target is chosen and written: the choice depends on nothing another   *)
(* thread's file operation changes.                                          *)
MendWrite(t, d) ==
  /\ \E i \in Shard :
       /\ AtShard(t, "mend", i)
       /\ d \in Targets(t, i)
       /\ up[d]
       /\ files' = files \cup {<<d, th[t].sid, i>>}
       /\ rotten' = rotten \ {<<d, th[t].sid, i>>}
       /\ SetT(t, [th[t] EXCEPT !.at = d,
                     !.pc = IF OldCopy(t, i, d) # {} THEN "unlink" ELSE "update"])
  /\ UNCHANGED <<disks, tables, call, hc, bounds>>

(* DiskIOError, before the rename or after it. *)
MendFails(t, d) ==
  /\ \E i \in Shard :
       /\ AtShard(t, "mend", i)
       /\ d \in Targets(t, i)
       /\ ~up[d]
       /\ \E renamed \in SUBSET {<<d, th[t].sid, i>>} :
            /\ files' = files \cup renamed
            /\ rotten' = rotten \ renamed
       /\ SetT(t, [th[t] EXCEPT !.todo = @ \ {i}])
       /\ RecordError(d)
  /\ UNCHANGED <<up, tables, call, hc, bounds>>

(* The old file goes before the row names the new one. *)
UnlinkedByStripe(t, i) ==   \* mutant: the index is forgotten
  {f \in files : f[2] = th[t].sid /\ f[1] # th[t].at}
Unlinked(t, i) == {f \in OldCopy(t, i, th[t].at) : up[f[1]]}
UnlinkOld(t) ==
  /\ \E i \in Shard :
       /\ AtShard(t, "unlink", i)
       /\ files' = files \ Unlinked(t, i)
       /\ rotten' = rotten \ Unlinked(t, i)
  /\ SetT(t, [th[t] EXCEPT !.pc = "update"])
  /\ UNCHANGED <<disks, tables, call, hc, bounds>>

UpdateRow(t) ==
  /\ \E i \in Shard :
       /\ AtShard(t, "update", i)
       /\ SetRow(th[t].sid, i, [disk |-> th[t].at, state |-> "ok"])
       /\ SetT(t, [th[t] EXCEPT !.pc = "mend", !.todo = @ \ {i}, !.at = None,
                                !.used = @ \cup {th[t].at}])
  /\ UNCHANGED <<disks, files, rotten, stripe, call, hc, bounds>>

(* The stripe counts as committed again, whether every shard was mended or not. *)
RepairEnd(t) ==
  /\ th[t].pc = "mend"
  /\ th[t].todo = {}
  /\ SetStripe(th[t].sid, "committed")
  /\ SetT(t, IdleThread)
  /\ UNCHANGED <<disks, files, rotten, shard, call, hc, bounds>>

(* An exception, say SQLite's "database is locked", ends the scrub wherever   *)
(* it is.  It counts as a crash.                                             *)
Raises(t) ==
  /\ crashes < MaxCrashes
  /\ crashes' = crashes + 1
  /\ SetT(t, IdleThread)
ScrubRaises(t) ==
  /\ th[t].pc # "idle"
  /\ Raises(t)
  /\ UNCHANGED <<disks, files, rotten, tables, call, hc, damage, faults>>

-----------------------------------------------------------------------------
(* The thread with the lock of the object: put_stream and delete, as far as  *)
(* they meet a repair.                                                       *)

SetCall(s, c) == call' = [call EXCEPT ![s] = c]

(* _place: of the writable disks as many as there are shards, if there are   *)
(* so many, each once, NULL for those that lack, and all of it rotated by a  *)
(* number from the stripe's uuid.  Which have the most free space, and the   *)
(* order of their ids, are left open.                                        *)
CanWrite == {d \in Disk : diskStatus[d] \in Writable}
Chosen == IF Cardinality(CanWrite) < K + M THEN Cardinality(CanWrite) ELSE K + M
Listings ==
  {order \in [0 .. (Chosen - 1) -> CanWrite] :
     \A i, j \in 0 .. (Chosen - 1) : i # j => order[i] # order[j]}
Slot(order, i) == IF i \in DOMAIN order THEN order[i] ELSE None
Placement == {[i \in Shard |-> Slot(order, (i + rot) % (K + M))] : order \in Listings, rot \in Shard}

PutBegin(s) ==
  /\ stripe[s] = "none"
  /\ \E p \in Placement : SetCall(s, [pc |-> "write", at |-> p])
  /\ stripe' = [stripe EXCEPT ![s] = "pending"]
  /\ UNCHANGED <<disks, files, rotten, shard, th, hc, bounds>>

(* The shards on disks that answer land; the rows and the state follow. *)
PutEnd(s) ==
  /\ call[s].pc = "write"
  /\ LET landed == {i \in Shard : call[s].at[i] # None /\ up[call[s].at[i]]} IN
       IF Cardinality(landed) >= Need
       THEN /\ files' = files \cup {<<call[s].at[i], s, i>> : i \in landed}
            /\ shard' = [shard EXCEPT ![s] =
                 [i \in Shard |-> IF i \in landed
                                  THEN [disk |-> call[s].at[i], state |-> "ok"]
                                  ELSE [disk |-> None, state |-> "missing"]]]
            /\ stripe' = [stripe EXCEPT ![s] = "committed"]
       ELSE /\ stripe' = [stripe EXCEPT ![s] = "gone"]
            /\ UNCHANGED <<files, shard>>
  /\ SetCall(s, IdleCall)
  /\ UNCHANGED <<disks, rotten, th, hc, bounds>>

(* _delete_object_rows: the rows to unlink by are read before the rows go. *)
DeleteBegin(s) ==
  /\ stripe[s] \in Visible
  /\ call[s].pc = "idle"
  /\ SetCall(s, [pc |-> "delete", at |-> [i \in Shard |-> shard[s][i].disk]])
  /\ UNCHANGED <<disks, files, rotten, tables, th, hc, bounds>>

DeleteRows(s) ==
  /\ call[s].pc = "delete"
  /\ stripe' = [stripe EXCEPT ![s] = "gone"]
  /\ shard' = [shard EXCEPT ![s] = NoRows]
  /\ SetCall(s, [call[s] EXCEPT !.pc = "unlink"])
  /\ UNCHANGED <<disks, files, rotten, th, hc, bounds>>

DeleteFiles(s) ==
  /\ call[s].pc = "unlink"
  /\ LET F == {<<call[s].at[i], s, i>> : i \in {j \in Shard : call[s].at[j] # None}} IN
       /\ files' = files \ {f \in F : up[f[1]]}
       /\ rotten' = rotten \ {f \in F : up[f[1]]}
  /\ SetCall(s, IdleCall)
  /\ UNCHANGED <<disks, tables, th, hc, bounds>>

-----------------------------------------------------------------------------
(* check_all: a disk as it was listed, and what the probe makes of it.       *)
(* Bound: one disk at a time is between its listing and its probe.           *)

HealthList(d) ==
  /\ hc = NoCheck
  /\ diskStatus[d] \notin {"absent", "retired"}
  /\ hc' = [disk |-> d, was |-> diskStatus[d]]
  /\ UNCHANGED <<disks, files, rotten, tables, th, call, bounds>>

HealthProbe ==
  /\ hc.disk # None
  /\ diskStatus' = IF up[hc.disk] /\ hc.was = "failed"
                    THEN [diskStatus EXCEPT ![hc.disk] = "online"]
                   ELSE IF ~up[hc.disk] /\ hc.was # "failed"
                    THEN [diskStatus EXCEPT ![hc.disk] = "failed"]
                   ELSE diskStatus
  /\ hc' = NoCheck
  /\ UNCHANGED <<up, files, rotten, tables, th, call, bounds>>

-----------------------------------------------------------------------------
(* The environment. *)

Damage(f) ==
  /\ damage < MaxDamage
  /\ f \in files
  /\ \/ rotten' = rotten \cup {f} /\ f \notin rotten /\ UNCHANGED files
     \/ rotten' = rotten \ {f} /\ files' = files \ {f}
  /\ damage' = damage + 1
  /\ UNCHANGED <<disks, tables, th, call, hc, faults, crashes>>

DiskDown(d) ==
  /\ up[d]
  /\ faults < MaxFaults
  /\ up' = [up EXCEPT ![d] = FALSE]
  /\ faults' = faults + 1
  /\ UNCHANGED <<diskStatus, files, rotten, tables, th, call, hc, damage, crashes>>

DiskUp(d) ==
  /\ ~up[d]
  /\ up' = [up EXCEPT ![d] = TRUE]
  /\ UNCHANGED <<diskStatus, files, rotten, tables, th, call, hc, bounds>>

(* recover_pending drops what was pending. *)
Crash ==
  /\ crashes < MaxCrashes
  /\ crashes' = crashes + 1
  /\ th' = [t \in Thread |-> IdleThread]
  /\ call' = [s \in StripeId |-> IdleCall]
  /\ hc' = NoCheck
  /\ stripe' = [s \in StripeId |-> IF stripe[s] = "pending" THEN "gone" ELSE stripe[s]]
  /\ UNCHANGED <<disks, files, rotten, shard, damage, faults>>

-----------------------------------------------------------------------------
(* Each stored stripe lies on disks of its own. *)
Init ==
  /\ diskStatus = [d \in Disk |-> IF d \in Registered THEN "online" ELSE "absent"]
  /\ up = [d \in Disk |-> TRUE]
  /\ \E place \in [Stored -> {p \in [Shard -> Registered] :
                              \A i, j \in Shard : i # j => p[i] # p[j]}] :
       /\ files = {f \in File : f[2] \in Stored /\ place[f[2]][f[3]] = f[1]}
       /\ shard = [s \in StripeId |->
                     IF s \in Stored
                     THEN [i \in Shard |-> [disk |-> place[s][i], state |-> "ok"]]
                     ELSE NoRows]
  /\ rotten = {}
  /\ stripe = [s \in StripeId |-> IF s \in Stored THEN "committed" ELSE "none"]
  /\ th = [t \in Thread |-> IdleThread]
  /\ call = [s \in StripeId |-> IdleCall]
  /\ hc = NoCheck
  /\ damage = 0
  /\ faults = 0
  /\ crashes = 0

ReadShardStep(t) ==
  \/ ListDisks(t)
  \/ ReadSkip(t)
  \/ ReadGood(t)
  \/ \E found \in {"missing", "corrupt"} : ReadBad(t, found)
  \/ ReadFails(t)
  \/ MarkShard(t)

(* What a repair does until it returns, and how it returns. *)
RepairStep(t) ==
  \/ ReadShardStep(t)
  \/ RepairPlan(t)
  \/ MendSkip(t)
  \/ \E d \in Disk : MendWrite(t, d) \/ MendFails(t, d)
  \/ UnlinkOld(t)
  \/ UpdateRow(t)
RepairReturns(t) == RepairVerdict(t) \/ RepairEnd(t)

CallNext(s) ==
  \/ PutBegin(s)
  \/ PutEnd(s)
  \/ DeleteBegin(s)
  \/ DeleteRows(s)
  \/ DeleteFiles(s)

HealthNext == HealthProbe \/ \E d \in Disk : HealthList(d)

EnvNext ==
  \/ \E f \in File : Damage(f)
  \/ \E d \in Disk : DiskDown(d) \/ DiskUp(d)

ServerNext ==
  \/ \E t \in Scrubber \cup Reader, s \in StripeId : Begin(t, s, {})
  \/ \E t \in Scrubber : RepairStep(t) \/ RepairReturns(t) \/ ScrubRaises(t)
  \/ \E t \in Reader : ReadShardStep(t) \/ ReadEnd(t)
  \/ \E s \in StripeId : CallNext(s)
  \/ HealthNext

Next == ServerNext \/ EnvNext \/ Crash

Spec == Init /\ [][Next]_vars

(* A scrub takes the stripes in the order of their last verification, so it  *)
(* comes to each again and again; the health worker runs every minute; and   *)
(* the household plugs its disks back in.                                    *)
Fairness ==
  /\ \A t \in Scrubber : WF_vars(RepairStep(t) \/ RepairReturns(t))
  /\ \A t \in Scrubber, s \in StripeId : SF_vars(Begin(t, s, {}))
  /\ WF_vars(HealthProbe)
  /\ \A d \in Disk : SF_vars(HealthList(d)) /\ WF_vars(DiskUp(d))
FairSpec == Spec /\ Fairness
-----------------------------------------------------------------------------
(* Properties.                                                               *)

(* Every table and every thread holds values of its type; a thread at a step *)
(* holds what the step uses.                                                 *)
ThreadOK(r) ==
  /\ r.pc # "idle" => r.sid \in StripeId
  /\ r.pc = "mark" => r.next \in Shard
  /\ r.pc \in {"unlink", "update"} => r.at \in Disk /\ r.todo # {}
TypeOK ==
  /\ diskStatus \in [Disk -> Status]
  /\ up \in [Disk -> BOOLEAN]
  /\ files \subseteq File
  /\ rotten \subseteq files
  /\ stripe \in [StripeId -> StripeState]
  /\ shard \in [StripeId -> [Shard -> ShardRow]]
  /\ th \in [Thread -> ThreadState]
  /\ call \in [StripeId -> CallState]
  /\ hc \in Check
  /\ damage \in 0 .. MaxDamage
  /\ faults \in 0 .. MaxFaults
  /\ crashes \in 0 .. MaxCrashes
  /\ \A t \in Thread : ThreadOK(th[t])

(* A shard whose row leads to an intact copy, and one a read will find.      *)
Intact(s, i) == <<shard[s][i].disk, s, i>> \in files \ rotten
Sound(s, i) == Intact(s, i) /\ shard[s][i].state # "missing"

(* "Every shard of a stripe lives on a distinct disk": when no repair of it  *)
(* is under way, no two shards that count as good share one (TDD 3,          *)
(* repair_stripe).                                                           *)
DistinctDisks ==
  \A s \in StripeId, i, j \in Shard :
    /\ \A t \in Repairer : th[t].sid # s
    /\ i # j /\ shard[s][i].state = "ok" /\ shard[s][j].state = "ok"
    => shard[s][i].disk # shard[s][j].disk

(* Repairs, reads and deletes cost no data: while no more than M files were  *)
(* damaged, K shards of a stripe that was written whole are intact where     *)
(* their rows, or the repair about to update them, say.  Puts write stripes  *)
(* whole if Need is K + M.  A crash counts as one damage                     *)
(* for each repair, since it may come between the unlink of an old copy and  *)
(* the update of its row (repair_stripe).                                    *)
InHand(s, i) ==
  \E t \in Repairer : /\ th[t].sid = s
                      /\ AtShard(t, "update", i)
                      /\ <<th[t].at, s, i>> \in files \ rotten
Kept(s) == {i \in Shard : Intact(s, i) \/ InHand(s, i)}
DataKept ==
  \A s \in IF Need = K + M THEN StripeId ELSE Stored :
    stripe[s] \in Visible /\ damage + crashes * Cardinality(Scrubber) <= M
      => Cardinality(Kept(s)) >= K

(* As long as no file is damaged, the last file of a shard is never unlinked *)
(* under its stripe, whatever the repair was told by rows and disk states    *)
(* that were stale (repair_stripe).                                          *)
HasFile(s, i) == \E d \in Disk : <<d, s, i>> \in files
LastFileStays ==
  [][damage' = 0 =>
       \A s \in StripeId, i \in Shard :
         stripe[s] \in Visible /\ stripe'[s] \in Visible /\ HasFile(s, i)
           => HasFile(s, i)']_vars

(* When the disks stay well and enough of a stripe is left, the scrub makes  *)
(* it whole again, from whatever the crash or the faults before have left    *)
(* (Scrubber.run, repair_stripe).                                            *)
Well == \A d \in Registered : up[d] /\ diskStatus[d] = "online"
Mendable(s) == /\ stripe[s] \in Visible
               /\ Cardinality({i \in Shard : Sound(s, i)}) >= K
Whole(s) == \A i \in Shard : Intact(s, i)
Healed ==
  \A s \in StripeId : <>[](Well /\ Mendable(s)) => <>[]Whole(s)

(* After a scrub no row says that a shard is not ok (repair_stripe,          *)
(* test_write_survives_disk_failure_midway).                                 *)
MarksCleared ==
  \A s \in StripeId : <>[](Well /\ Mendable(s)) =>
    []<>(\A i \in Shard : shard[s][i].state = "ok")

-----------------------------------------------------------------------------
(* The inductive invariant behind DataKept, for one scrub (RebuildProofs).   *)
(* A shard is held if the row leads to it and, where a repair is between its *)
(* new file and its row, the new file is intact: then it stays whether the   *)
(* old copy goes or not.  Losing the old copy after the new one costs no     *)
(* second damage.                                                            *)
Replaces(t, s, i) == th[t].sid = s /\ (AtShard(t, "unlink", i) \/ AtShard(t, "update", i))
Held(s, i) ==
  /\ Intact(s, i) \/ \E t \in Repairer : th[t].sid = s /\ AtShard(t, "update", i)
  /\ \A t \in Repairer : Replaces(t, s, i) => <<th[t].at, s, i>> \in files \ rotten
Safe(s) == {i \in Shard : Held(s, i)}
Promised == IF Need = K + M THEN StripeId ELSE Stored

(* A stripe that is not stored yet has no files and no thread at it; one that *)
(* is gone stays so, and only its files are unlinked by a delete.            *)
Unstored == {"none", "pending"}
LifeOK ==
  /\ \A t \in Thread : th[t].pc # "idle" => stripe[th[t].sid] \notin Unstored
  /\ \A s \in StripeId : /\ call[s].pc = "write" => stripe[s] = "pending"
                         /\ call[s].pc = "unlink" => stripe[s] = "gone"
  /\ \A s \in Stored : stripe[s] \notin Unstored
  /\ \A f \in files : stripe[f[2]] \notin Unstored
  /\ \A s \in StripeId, i \in Shard : stripe[s] \in Visible => shard[s][i].state # "absent"
KeptInv ==
  /\ TypeOK /\ LifeOK /\ th[Rebuilder].pc = "idle"
  /\ \A s \in Promised :
       stripe[s] \in Visible => Cardinality(Shard \ Safe(s)) <= damage + crashes
=============================================================================
