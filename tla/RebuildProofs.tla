--------------------------- MODULE RebuildProofs ---------------------------
(***************************************************************************)
(* Proofs about StripeRepair and Rebuild: their types, for every number of *)
(* disks, stripes, scrubs and readers, that one scrub beside reads, puts   *)
(* and faults costs no data, and that a replacement beside any scrubs,     *)
(* reads, puts and crashes costs none, lets reads go on and never unlinks  *)
(* the last file of a shard.                                               *)
(***************************************************************************)
EXTENDS Rebuild, FiniteSetTheorems, TLAPS

-----------------------------------------------------------------------------
(* Records.                                                                  *)

LEMMA IdleType ==
  /\ IdleThread \in ThreadState /\ ThreadOK(IdleThread) /\ IdleThread.pc = "idle"
  /\ IdleCall \in CallState /\ IdleCall.pc = "idle"
  /\ NoCheck \in Check
  /\ NoRows \in [Shard -> ShardRow]
<1>1. 0 \in 0 .. (K + M)
  BY CodeAssumption
<1>2. NoRows \in [Shard -> ShardRow]
  BY DEF NoRows, ShardRow
<1>3. IdleThread \in ThreadState
  BY <1>1, <1>2 DEF IdleThread, ThreadState, Status
<1>4. IdleCall \in CallState
  BY DEF IdleCall, CallState, NoDisks
<1>5. NoCheck \in Check
  BY DEF NoCheck, Check, Status
<1> QED BY <1>2, <1>3, <1>4, <1>5 DEF ThreadOK, IdleThread, IdleCall

(* The rest of the state.                                                    *)
RestOK ==
  /\ diskStatus \in [Disk -> Status]
  /\ up \in [Disk -> BOOLEAN]
  /\ files \subseteq File
  /\ rotten \subseteq files
  /\ stripe \in [StripeId -> StripeState]
  /\ shard \in [StripeId -> [Shard -> ShardRow]]
  /\ call \in [StripeId -> CallState]
  /\ hc \in Check
  /\ damage \in 0 .. MaxDamage
  /\ faults \in 0 .. MaxFaults
  /\ crashes \in 0 .. MaxCrashes
LEMMA TypeParts ==
  /\ TypeOK <=> RestOK /\ th \in [Thread -> ThreadState] /\ \A t \in Thread : ThreadOK(th[t])
  /\ TypeOK' <=> RestOK' /\ th' \in [Thread -> ThreadState] /\ \A t \in Thread : ThreadOK(th'[t])
  BY DEF TypeOK, RestOK, ThreadOK

LEMMA RestStays ==
  ASSUME TypeOK, UNCHANGED <<disks, files, rotten, tables, call, hc, bounds>>
  PROVE  RestOK'
  BY DEF TypeOK, RestOK, disks, tables, bounds

LEMMA ThreadSet ==
  ASSUME TypeOK, NEW t \in Thread, NEW q \in ThreadState, ThreadOK(q), SetT(t, q)
  PROVE  /\ th' \in [Thread -> ThreadState] /\ \A o \in Thread : ThreadOK(th'[o])
         /\ th'[t] = q /\ \A o \in Thread : o # t => th'[o] = th[o]
         /\ RestOK' => TypeOK'
  BY TypeParts DEF TypeOK, SetT

(* What a thread at a step holds.                                            *)
LEMMA ThreadFields ==
  ASSUME TypeOK, NEW t \in Thread
  PROVE  /\ th[t] \in ThreadState /\ ThreadOK(th[t])
         /\ th[t].next \in 0 .. (K + M)
         /\ th[t].rows \in [Shard -> ShardRow] /\ th[t].map \in [Disk -> Status]
         /\ th[t].todo \subseteq Shard /\ th[t].used \subseteq Disk /\ th[t].force \subseteq Disk
         /\ th[t].at \in Disk \cup {None} /\ th[t].sid \in StripeId \cup {None}
         /\ th[t].pc # "idle" => th[t].sid \in StripeId
  BY DEF TypeOK, ThreadState, ThreadOK

LEMMA AdvanceType ==
  ASSUME TypeOK, NEW t \in Thread, th[t].next \in Shard, th[t].pc \in {"read", "mark"}
  PROVE  LET r == [Advance(t) EXCEPT !.pc = "read", !.found = "ok"] IN
         /\ Advance(t) \in ThreadState /\ Advance(t).pc = th[t].pc /\ Advance(t).sid = th[t].sid
         /\ Advance(t).got = th[t].got
         /\ th[t].pc = "read" => ThreadOK(Advance(t))
         /\ r \in ThreadState /\ r.pc = "read" /\ ThreadOK(r)
<1> DEFINE r == [Advance(t) EXCEPT !.pc = "read", !.found = "ok"]
<1>1. th[t] \in ThreadState /\ th[t].sid \in StripeId
  BY ThreadFields
<1>2. th[t].next + 1 \in 0 .. (K + M)
  BY CodeAssumption DEF Shard
<1>3. Advance(t) \in ThreadState /\ Advance(t).pc = th[t].pc /\ Advance(t).sid = th[t].sid
      /\ Advance(t).got = th[t].got
  BY <1>1, <1>2 DEF Advance, ThreadState
<1>4. r \in ThreadState /\ r.pc = "read" /\ r.sid = th[t].sid
  BY <1>3 DEF ThreadState
<1> QED BY <1>1, <1>3, <1>4 DEF ThreadOK

-----------------------------------------------------------------------------
(* Reading the shards.                                                       *)

LEMMA BeginType ==
  ASSUME TypeOK, NEW t \in Thread, NEW s \in StripeId, NEW force \in SUBSET Disk, Begin(t, s, force)
  PROVE  TypeOK'
<1> DEFINE q == [IdleThread EXCEPT !.pc = "map", !.sid = s, !.force = force, !.rows = shard[s]]
<1>1. shard[s] \in [Shard -> ShardRow]
  BY DEF TypeOK
<1>2. q \in ThreadState /\ q.pc = "map" /\ q.sid = s
  BY <1>1, IdleType DEF ThreadState
<1>3. SetT(t, q) /\ RestOK'
  BY RestStays DEF Begin
<1> HIDE DEF q
<1> QED BY <1>2, <1>3, ThreadSet DEF ThreadOK

LEMMA ListDisksType ==
  ASSUME TypeOK, NEW t \in Thread, ListDisks(t)
  PROVE  TypeOK'
<1> DEFINE q == [th[t] EXCEPT !.pc = "read", !.map = diskStatus]
<1>1. th[t] \in ThreadState /\ th[t].sid \in StripeId /\ diskStatus \in [Disk -> Status]
  BY ThreadFields DEF ListDisks, TypeOK
<1>2. q \in ThreadState /\ q.pc = "read" /\ q.sid = th[t].sid
  BY <1>1 DEF ThreadState
<1>3. SetT(t, q) /\ RestOK'
  BY RestStays DEF ListDisks
<1> HIDE DEF q
<1> QED BY <1>1, <1>2, <1>3, ThreadSet DEF ThreadOK

LEMMA AdvanceKeepsType ==
  ASSUME TypeOK, NEW t \in Thread, Reading(t), SetT(t, Advance(t))
  PROVE  RestOK' => TypeOK'
<1>1. th[t].pc = "read" /\ th[t].next \in Shard
  BY DEF Reading
<1> QED BY <1>1, AdvanceType, ThreadSet

LEMMA ErrorType ==
  ASSUME TypeOK, NEW d, RecordError(d)
  PROVE  diskStatus' \in [Disk -> Status]
  BY DEF TypeOK, RecordError, Status

(* A row is on a disk if it is tried.                                        *)
LEMMA TriedDisk ==
  ASSUME TypeOK, NEW t \in Thread, Tried(t)
  PROVE  Row(t).disk \in Disk /\ Reading(t) /\ th[t].pc = "read" /\ th[t].next \in Shard
<1>1. Reading(t) /\ th[t].pc = "read" /\ th[t].next \in Shard /\ Row(t).disk # None
  BY DEF Tried, Reading
<1>2. Row(t) \in ShardRow
  BY <1>1, ThreadFields DEF Row
<1> QED BY <1>1, <1>2 DEF ShardRow

LEMMA ReadShardType ==
  ASSUME TypeOK, NEW t \in Thread, ReadShardStep(t)
  PROVE  TypeOK'
<1>1. CASE ListDisks(t)
  BY <1>1, ListDisksType
<1>2. CASE ReadSkip(t)
  BY <1>2, RestStays, AdvanceKeepsType DEF ReadSkip
<1>3. CASE ReadGood(t)
  <2> DEFINE q == [Advance(t) EXCEPT !.got = @ \cup {th[t].next}]
  <2>1. th[t].pc = "read" /\ th[t].next \in Shard
    BY <1>3, TriedDisk DEF ReadGood
  <2>2. Advance(t) \in ThreadState /\ ThreadOK(Advance(t)) /\ Advance(t).pc = "read"
    BY <2>1, AdvanceType
  <2>3. q \in ThreadState /\ q.pc = "read" /\ q.sid = Advance(t).sid
    BY <2>1, <2>2 DEF ThreadState
  <2>4. SetT(t, q) /\ RestOK'
    BY <1>3, RestStays DEF ReadGood
  <2> HIDE DEF q
  <2> QED BY <2>2, <2>3, <2>4, ThreadSet DEF ThreadOK
<1>4. ASSUME NEW found \in {"missing", "corrupt"}, ReadBad(t, found)
      PROVE  TypeOK'
  <2> DEFINE q == [th[t] EXCEPT !.pc = "mark", !.found = found]
  <2>1. th[t].pc = "read" /\ th[t].next \in Shard /\ th[t] \in ThreadState /\ th[t].sid \in StripeId
    BY <1>4, TriedDisk, ThreadFields DEF ReadBad
  <2>2. q \in ThreadState /\ q.pc = "mark" /\ q.sid = th[t].sid /\ q.next = th[t].next
    BY <2>1 DEF ThreadState
  <2>3. SetT(t, q) /\ RestOK'
    BY <1>4, RestStays DEF ReadBad
  <2> HIDE DEF q
  <2> QED BY <2>1, <2>2, <2>3, ThreadSet DEF ThreadOK
<1>5. CASE ReadFails(t)
  <2>1. Reading(t) /\ SetT(t, Advance(t)) /\ RecordError(Row(t).disk)
        /\ UNCHANGED <<up, files, rotten, tables, call, hc, bounds>>
    BY <1>5, TriedDisk DEF ReadFails
  <2>2. RestOK'
    BY <2>1, ErrorType DEF TypeOK, RestOK, tables, bounds
  <2> QED BY <2>1, <2>2, AdvanceKeepsType
<1>6. CASE MarkShard(t)
  <2> DEFINE q == [Advance(t) EXCEPT !.pc = "read", !.found = "ok"]
             w == [shard[th[t].sid][th[t].next] EXCEPT !.state = th[t].found]
  <2>1. th[t].pc = "mark" /\ th[t].next \in Shard /\ th[t].sid \in StripeId /\ th[t] \in ThreadState
    BY <1>6, ThreadFields DEF MarkShard, ThreadOK
  <2>2. q \in ThreadState /\ ThreadOK(q)
    BY <2>1, AdvanceType
  <2>3. shard \in [StripeId -> [Shard -> ShardRow]] /\ th[t].found \in {"ok", "missing", "corrupt"}
    BY <2>1 DEF TypeOK, ThreadState
  <2>4. w \in ShardRow
    BY <2>1, <2>3 DEF ShardRow
  <2>5. SetRow(th[t].sid, th[t].next, w) /\ SetT(t, q)
        /\ UNCHANGED <<disks, files, rotten, stripe, call, hc, bounds>>
    BY <1>6 DEF MarkShard
  <2> HIDE DEF q, w
  <2>6. shard' \in [StripeId -> [Shard -> ShardRow]]
    BY <2>1, <2>3, <2>4, <2>5 DEF SetRow
  <2>7. RestOK'
    BY <2>5, <2>6 DEF TypeOK, RestOK, disks, bounds
  <2> QED BY <2>2, <2>5, <2>7, ThreadSet
<1> QED BY <1>1, <1>2, <1>3, <1>4, <1>5, <1>6 DEF ReadShardStep

-----------------------------------------------------------------------------
(* Mending.                                                                  *)

LEMMA SetStripeType ==
  ASSUME TypeOK, NEW s \in StripeId, NEW state \in StripeState, SetStripe(s, state)
  PROVE  stripe' \in [StripeId -> StripeState]
  BY DEF TypeOK, SetStripe

(* A thread that ends, with a verdict about its stripe or none.              *)
LEMMA EndType ==
  ASSUME TypeOK, NEW t \in Thread, SetT(t, IdleThread), stripe' \in [StripeId -> StripeState],
         UNCHANGED <<disks, files, rotten, shard, call, hc, bounds>>
  PROVE  TypeOK'
<1>1. RestOK'
  BY DEF TypeOK, RestOK, disks, bounds
<1> QED BY <1>1, IdleType, ThreadSet

LEMMA ReadEndType ==
  ASSUME TypeOK, NEW t \in Thread, ReadEnd(t)
  PROVE  TypeOK'
<1>1. th[t].sid \in StripeId
  BY ThreadFields DEF ReadEnd, ReadOver
<1>2. UNCHANGED stripe \/ SetStripe(th[t].sid, "unrecoverable")
  BY DEF ReadEnd
<1>3. stripe' \in [StripeId -> StripeState]
  BY <1>1, <1>2, SetStripeType DEF TypeOK, StripeState
<1> QED BY <1>3, EndType DEF ReadEnd

LEMMA RepairReturnsType ==
  ASSUME TypeOK, NEW t \in Thread, RepairReturns(t)
  PROVE  TypeOK'
<1>1. th[t].sid \in StripeId
  BY ThreadFields DEF RepairReturns, RepairVerdict, RepairEnd, ReadOver
<1>2. SetStripe(th[t].sid, "committed") \/ SetStripe(th[t].sid, "unrecoverable")
  BY DEF RepairReturns, RepairVerdict, RepairEnd
<1>3. stripe' \in [StripeId -> StripeState]
  BY <1>1, <1>2, SetStripeType DEF StripeState
<1> QED BY <1>3, EndType DEF RepairReturns, RepairVerdict, RepairEnd

LEMMA PlanType ==
  ASSUME TypeOK, NEW t \in Thread, RepairPlan(t)
  PROVE  TypeOK'
<1> DEFINE q == [th[t] EXCEPT !.pc = "mend", !.todo = ToWrite(t), !.used = UsedAfterReads(t)]
<1>1. th[t] \in ThreadState /\ th[t].sid \in StripeId
  BY ThreadFields DEF RepairPlan, ReadOver
<1>2. ToWrite(t) \subseteq Shard
  BY DEF ToWrite
<1>3. UsedAfterReads(t) \subseteq Disk
  <2>1. \A i \in Shard : th[t].rows[i].disk \in Disk \cup {None}
    BY ThreadFields DEF ShardRow
  <2> QED BY <2>1 DEF UsedAfterReads
<1>4. q \in ThreadState /\ q.pc = "mend" /\ q.sid = th[t].sid
  BY <1>1, <1>2, <1>3 DEF ThreadState
<1>5. SetT(t, q) /\ RestOK'
  BY RestStays DEF RepairPlan
<1> HIDE DEF q
<1> QED BY <1>1, <1>4, <1>5, ThreadSet DEF ThreadOK

(* A thread that is done with one of the shards it has to write.             *)
LEMMA DropType ==
  ASSUME TypeOK, NEW t \in Thread, NEW i \in Shard, th[t].pc = "mend",
         SetT(t, [th[t] EXCEPT !.todo = @ \ {i}])
  PROVE  RestOK' => TypeOK'
<1> DEFINE q == [th[t] EXCEPT !.todo = @ \ {i}]
<1>1. th[t] \in ThreadState /\ th[t].sid \in StripeId
  BY ThreadFields
<1>2. q \in ThreadState /\ q.pc = "mend" /\ q.sid = th[t].sid
  BY <1>1 DEF ThreadState
<1> HIDE DEF q
<1>3. SetT(t, q)
  BY DEF q
<1> QED BY <1>1, <1>2, <1>3, ThreadSet DEF ThreadOK

LEMMA SkipType ==
  ASSUME TypeOK, NEW t \in Thread, MendSkip(t)
  PROVE  TypeOK'
<1>1. PICK i \in Shard : AtShard(t, "mend", i) /\ SetT(t, [th[t] EXCEPT !.todo = @ \ {i}])
  BY DEF MendSkip
<1>2. RestOK'
  BY RestStays DEF MendSkip
<1> QED BY <1>1, <1>2, DropType DEF AtShard

LEMMA TargetIsDisk ==
  ASSUME NEW t \in Thread, NEW i \in Shard
  PROVE  Targets(t, i) \subseteq Disk
  BY DEF Targets, OwnDisk

LEMMA WriteType ==
  ASSUME TypeOK, NEW t \in Thread, NEW d \in Disk, MendWrite(t, d)
  PROVE  TypeOK'
<1>1. PICK i \in Shard :
        /\ AtShard(t, "mend", i)
        /\ files' = files \cup {<<d, th[t].sid, i>>}
        /\ rotten' = rotten \ {<<d, th[t].sid, i>>}
        /\ SetT(t, [th[t] EXCEPT !.at = d,
                      !.pc = IF OldCopy(t, i, d) # {} THEN "unlink" ELSE "update"])
  BY DEF MendWrite
<1> DEFINE pc == IF OldCopy(t, i, d) # {} THEN "unlink" ELSE "update"
           q == [th[t] EXCEPT !.at = d, !.pc = pc]
<1>2. th[t] \in ThreadState /\ th[t].sid \in StripeId /\ i \in th[t].todo
  BY <1>1, ThreadFields DEF AtShard
<1>3. pc \in {"unlink", "update"}
  OBVIOUS
<1>4. SetT(t, q)
  BY <1>1
<1> HIDE DEF pc
<1>5. /\ q \in ThreadState /\ q.pc \in {"unlink", "update"} /\ q.sid = th[t].sid
      /\ q.at = d /\ q.todo = th[t].todo
  BY <1>2, <1>3 DEF ThreadState
<1> HIDE DEF q
<1>6. RestOK'
  <2>1. UNCHANGED <<disks, tables, call, hc, bounds>>
    BY DEF MendWrite
  <2>2. <<d, th[t].sid, i>> \in File
    BY <1>2 DEF File
  <2> QED BY <1>1, <2>1, <2>2 DEF TypeOK, RestOK, disks, tables, bounds
<1> QED BY <1>2, <1>4, <1>5, <1>6, ThreadSet DEF ThreadOK

LEMMA FailsType ==
  ASSUME TypeOK, NEW t \in Thread, NEW d \in Disk, MendFails(t, d)
  PROVE  TypeOK'
<1>1. PICK i \in Shard :
        /\ AtShard(t, "mend", i)
        /\ \E renamed \in SUBSET {<<d, th[t].sid, i>>} :
             files' = files \cup renamed /\ rotten' = rotten \ renamed
        /\ SetT(t, [th[t] EXCEPT !.todo = @ \ {i}])
        /\ RecordError(d)
  BY DEF MendFails
<1>2. PICK renamed \in SUBSET {<<d, th[t].sid, i>>} :
        files' = files \cup renamed /\ rotten' = rotten \ renamed
  BY <1>1
<1>3. th[t].sid \in StripeId /\ th[t].pc = "mend"
  BY <1>1, ThreadFields DEF AtShard
<1>4. <<d, th[t].sid, i>> \in File
  BY <1>3 DEF File
<1>5. UNCHANGED <<up, tables, call, hc, bounds>>
  BY DEF MendFails
<1>6. files' \subseteq File /\ rotten' \subseteq files'
  BY <1>2, <1>4 DEF TypeOK
<1>7. diskStatus' \in [Disk -> Status]
  BY <1>1, ErrorType
<1>8. RestOK'
  BY <1>5, <1>6, <1>7 DEF TypeOK, RestOK, tables, bounds
<1> QED BY <1>1, <1>3, <1>8, DropType

LEMMA UnlinkType ==
  ASSUME TypeOK, NEW t \in Thread, UnlinkOld(t)
  PROVE  TypeOK'
<1> DEFINE q == [th[t] EXCEPT !.pc = "update"]
<1>1. PICK i \in Shard : /\ AtShard(t, "unlink", i)
                         /\ files' = files \ Unlinked(t, i)
                         /\ rotten' = rotten \ Unlinked(t, i)
  BY DEF UnlinkOld
<1>2. /\ th[t] \in ThreadState /\ th[t].sid \in StripeId /\ th[t].todo # {} /\ th[t].at \in Disk
  BY <1>1, ThreadFields DEF AtShard, ThreadOK
<1>3. /\ q \in ThreadState /\ q.pc = "update" /\ q.sid = th[t].sid /\ q.todo = th[t].todo
      /\ q.at = th[t].at
  BY <1>2 DEF ThreadState
<1>4. SetT(t, q) /\ UNCHANGED <<disks, tables, call, hc, bounds>>
  BY DEF UnlinkOld
<1> HIDE DEF q
<1>5. files' \subseteq File /\ rotten' \subseteq files'
  BY <1>1 DEF TypeOK
<1>6. RestOK'
  BY <1>4, <1>5 DEF TypeOK, RestOK, disks, tables, bounds
<1> QED BY <1>2, <1>3, <1>4, <1>6, ThreadSet DEF ThreadOK

LEMMA UpdateRowFacts ==
  ASSUME TypeOK, NEW t \in Thread, UpdateRow(t)
  PROVE  /\ th[t].pc = "update" /\ shard' \in [StripeId -> [Shard -> ShardRow]]
         /\ UNCHANGED <<diskStatus, stripe, call>>
         /\ TypeOK' /\ th'[t].pc = "mend"
<1>1. PICK i \in Shard :
        /\ AtShard(t, "update", i)
        /\ SetRow(th[t].sid, i, [disk |-> th[t].at, state |-> "ok"])
        /\ SetT(t, [th[t] EXCEPT !.pc = "mend", !.todo = @ \ {i}, !.at = None,
                                 !.used = @ \cup {th[t].at}])
  BY DEF UpdateRow
<1> DEFINE q == [th[t] EXCEPT !.pc = "mend", !.todo = @ \ {i}, !.at = None,
                              !.used = @ \cup {th[t].at}]
           w == [disk |-> th[t].at, state |-> "ok"]
<1>2. /\ th[t].pc = "update" /\ th[t] \in ThreadState /\ th[t].sid \in StripeId
      /\ th[t].at \in Disk
  BY <1>1, ThreadFields DEF AtShard, ThreadOK
<1>3. q \in ThreadState /\ q.pc = "mend" /\ q.sid = th[t].sid
  BY <1>2 DEF ThreadState
<1>4. SetT(t, q) /\ SetRow(th[t].sid, i, w)
  BY <1>1
<1>5. w \in ShardRow
  BY <1>2 DEF ShardRow
<1> HIDE DEF q, w
<1>6. shard' \in [StripeId -> [Shard -> ShardRow]]
  BY <1>2, <1>4, <1>5 DEF SetRow, TypeOK
<1>7. UNCHANGED <<disks, files, rotten, stripe, call, hc, bounds>>
  BY DEF UpdateRow
<1>8. RestOK'
  BY <1>6, <1>7 DEF TypeOK, RestOK, disks, bounds
<1>9. TypeOK' /\ th'[t] = q
  BY <1>2, <1>3, <1>4, <1>8, ThreadSet DEF ThreadOK
<1> QED BY <1>2, <1>3, <1>6, <1>7, <1>9 DEF disks

LEMMA RepairType ==
  ASSUME TypeOK, NEW t \in Thread, RepairStep(t)
  PROVE  TypeOK'
  BY ReadShardType, PlanType, SkipType, WriteType, FailsType, UnlinkType, UpdateRowFacts DEF RepairStep

LEMMA RaisesType ==
  ASSUME TypeOK, NEW t \in Thread, Raises(t),
         UNCHANGED <<disks, files, rotten, tables, call, hc, damage, faults>>
  PROVE  TypeOK'
<1>1. crashes' \in 0 .. MaxCrashes
  BY BoundAssumption DEF Raises, TypeOK
<1>2. RestOK'
  BY <1>1 DEF TypeOK, RestOK, disks, tables
<1> QED BY <1>2, IdleType, ThreadSet DEF Raises

-----------------------------------------------------------------------------
(* Calls, health checks and the environment.                                 *)

(* What _place gives: every shard a writable disk or none, and no disk two.   *)
LEMMA SlotsApart ==
  ASSUME NEW n \in Nat \ {0}, NEW i \in 0 .. (n - 1), NEW j \in 0 .. (n - 1), NEW rot \in 0 .. (n - 1), i # j
  PROVE  (i + rot) % n # (j + rot) % n
<1>1. ASSUME NEW x \in 0 .. (2 * n - 2) PROVE x % n = IF x < n THEN x ELSE x - n
  BY <1>1
<1>2. i + rot \in 0 .. (2 * n - 2) /\ j + rot \in 0 .. (2 * n - 2)
  OBVIOUS
<1> QED BY <1>1, <1>2

LEMMA PlacementIs ==
  ASSUME NEW p \in Placement
  PROVE  /\ p \in [Shard -> CanWrite \cup {None}]
         /\ \A i, j \in Shard : i # j /\ p[i] # None => p[i] # p[j]
<1> DEFINE n == K + M
<1>1. PICK order \in Listings, rot \in Shard : p = [i \in Shard |-> Slot(order, (i + rot) % n)]
  BY DEF Placement
<1>2. order \in [0 .. (Chosen - 1) -> CanWrite]
      /\ \A i, j \in 0 .. (Chosen - 1) : i # j => order[i] # order[j]
  BY DEF Listings
<1>3. \A i \in Shard : p[i] \in CanWrite \cup {None}
  BY <1>1, <1>2 DEF Slot
<1>4. ASSUME NEW i \in Shard, NEW j \in Shard, i # j, p[i] # None
      PROVE  p[i] # p[j]
  <2>1. K \in Nat \ {0} /\ M \in Nat
    BY CodeAssumption
  <2>2. Shard = 0 .. (n - 1)
    BY <2>1 DEF Shard
  <2>3. p[i] = Slot(order, (i + rot) % n) /\ p[j] = Slot(order, (j + rot) % n)
    BY <1>1
  <2>4. n \in Nat \ {0}
    BY <2>1
  <2> HIDE DEF n
  <2>5. (i + rot) % n # (j + rot) % n
    BY <1>4, <2>2, <2>4, SlotsApart
  <2> QED BY <1>2, <1>4, <2>3, <2>5 DEF Slot
<1>5. p \in [Shard -> CanWrite \cup {None}]
  BY <1>1, <1>3
<1> QED BY <1>4, <1>5

LEMMA CallType ==
  ASSUME TypeOK, NEW s \in StripeId, CallNext(s)
  PROVE  TypeOK'
<1>t. RestOK' /\ UNCHANGED th => TypeOK'
  BY TypeParts
<1>i. /\ call \in [StripeId -> CallState] /\ shard \in [StripeId -> [Shard -> ShardRow]]
      /\ stripe \in [StripeId -> StripeState] /\ files \subseteq File /\ rotten \subseteq files
  BY DEF TypeOK
<1>c. call[s] \in CallState /\ call[s].at \in [Shard -> Disk \cup {None}]
  BY <1>i DEF CallState
<1>1. CASE PutBegin(s)
  <2>1. PICK p \in Placement : SetCall(s, [pc |-> "write", at |-> p])
    BY <1>1 DEF PutBegin
  <2> DEFINE c == [pc |-> "write", at |-> p]
  <2>2. c \in CallState
    BY PlacementIs DEF CallState, CanWrite
  <2>3. SetCall(s, c) /\ stripe' = [stripe EXCEPT ![s] = "pending"]
        /\ UNCHANGED <<disks, files, rotten, shard, th, hc, bounds>>
    BY <1>1, <2>1 DEF PutBegin
  <2> HIDE DEF c
  <2>4. call' \in [StripeId -> CallState] /\ stripe' \in [StripeId -> StripeState]
    BY <1>i, <2>2, <2>3 DEF SetCall, StripeState
  <2> QED BY <1>t, <2>3, <2>4 DEF TypeOK, RestOK, disks, bounds
<1>2. CASE PutEnd(s)
  <2> DEFINE landed == {i \in Shard : call[s].at[i] # None /\ up[call[s].at[i]]}
             rows == [i \in Shard |-> IF i \in landed THEN [disk |-> call[s].at[i], state |-> "ok"]
                                      ELSE [disk |-> None, state |-> "missing"]]
             F == {<<call[s].at[i], s, i>> : i \in landed}
  <2>1. F \subseteq File
    BY <1>c DEF File
  <2>2. rows \in [Shard -> ShardRow]
    BY <1>c DEF ShardRow
  <2>3. \/ files' = files \cup F /\ shard' = [shard EXCEPT ![s] = rows]
           /\ stripe' = [stripe EXCEPT ![s] = "committed"]
        \/ stripe' = [stripe EXCEPT ![s] = "gone"] /\ UNCHANGED <<files, shard>>
    BY <1>2 DEF PutEnd
  <2>4. SetCall(s, IdleCall) /\ UNCHANGED <<disks, rotten, th, hc, bounds>>
    BY <1>2 DEF PutEnd
  <2> HIDE DEF rows, F
  <2>5. /\ files' \subseteq File /\ rotten' \subseteq files'
        /\ shard' \in [StripeId -> [Shard -> ShardRow]] /\ stripe' \in [StripeId -> StripeState]
    BY <1>i, <2>1, <2>2, <2>3, <2>4 DEF StripeState
  <2>6. call' \in [StripeId -> CallState]
    BY <1>i, <2>4, IdleType DEF SetCall
  <2> QED BY <1>t, <2>4, <2>5, <2>6 DEF TypeOK, RestOK, disks, bounds
<1>3. CASE DeleteBegin(s)
  <2> DEFINE c == [pc |-> "delete", at |-> [i \in Shard |-> shard[s][i].disk]]
  <2>1. SetCall(s, c) /\ UNCHANGED <<disks, files, rotten, tables, th, hc, bounds>>
    BY <1>3 DEF DeleteBegin
  <2>2. c \in CallState
    BY <1>i DEF CallState, ShardRow
  <2> HIDE DEF c
  <2>3. call' \in [StripeId -> CallState]
    BY <1>i, <2>1, <2>2 DEF SetCall
  <2> QED BY <1>t, <2>1, <2>3 DEF TypeOK, RestOK, disks, tables, bounds
<1>4. CASE DeleteRows(s)
  <2> DEFINE c == [call[s] EXCEPT !.pc = "unlink"]
  <2>1. /\ SetCall(s, c) /\ UNCHANGED <<disks, files, rotten, th, hc, bounds>>
        /\ stripe' = [stripe EXCEPT ![s] = "gone"] /\ shard' = [shard EXCEPT ![s] = NoRows]
    BY <1>4 DEF DeleteRows
  <2>2. c \in CallState
    BY <1>c DEF CallState
  <2> HIDE DEF c
  <2>3. /\ call' \in [StripeId -> CallState] /\ stripe' \in [StripeId -> StripeState]
        /\ shard' \in [StripeId -> [Shard -> ShardRow]]
    BY <1>i, <2>1, <2>2, IdleType DEF SetCall, StripeState
  <2> QED BY <1>t, <2>1, <2>3 DEF TypeOK, RestOK, disks, bounds
<1>5. CASE DeleteFiles(s)
  <2>1. \E F : files' = files \ F /\ rotten' = rotten \ F
    BY <1>5 DEF DeleteFiles
  <2>2. files' \subseteq File /\ rotten' \subseteq files'
    BY <1>i, <2>1
  <2>3. SetCall(s, IdleCall) /\ UNCHANGED <<disks, tables, th, hc, bounds>>
    BY <1>5 DEF DeleteFiles
  <2>4. call' \in [StripeId -> CallState]
    BY <1>i, <2>3, IdleType DEF SetCall
  <2> QED BY <1>t, <2>2, <2>3, <2>4 DEF TypeOK, RestOK, disks, tables, bounds
<1> QED BY <1>1, <1>2, <1>3, <1>4, <1>5 DEF CallNext

LEMMA HealthType ==
  ASSUME TypeOK, HealthNext
  PROVE  TypeOK'
<1>1. ASSUME NEW d \in Disk, HealthList(d)
      PROVE  RestOK' /\ UNCHANGED th
  <2>1. hc' \in Check
    BY <1>1 DEF HealthList, TypeOK, Check
  <2> QED BY <1>1, <2>1 DEF HealthList, TypeOK, RestOK, disks, tables, bounds
<1>2. CASE HealthProbe
  <2>1. diskStatus' \in [Disk -> Status]
    BY <1>2 DEF HealthProbe, TypeOK, Status
  <2>2. RestOK' /\ UNCHANGED th
    BY <1>2, <2>1, IdleType DEF HealthProbe, TypeOK, RestOK, tables, bounds
  <2> QED BY <2>2, TypeParts
<1> QED BY <1>1, <1>2, TypeParts DEF HealthNext

LEMMA EnvType ==
  ASSUME TypeOK, EnvNext
  PROVE  TypeOK'
<1>1. ASSUME NEW f \in File, Damage(f)
      PROVE  RestOK' /\ UNCHANGED th
  <2>1. damage' \in 0 .. MaxDamage
    BY <1>1, BoundAssumption DEF Damage, TypeOK
  <2> QED BY <1>1, <2>1 DEF Damage, TypeOK, RestOK, disks, tables
<1>2. ASSUME NEW d \in Disk, DiskDown(d)
      PROVE  RestOK' /\ UNCHANGED th
  <2>1. faults' \in 0 .. MaxFaults /\ up' \in [Disk -> BOOLEAN]
    BY <1>2, BoundAssumption DEF DiskDown, TypeOK
  <2> QED BY <1>2, <2>1 DEF DiskDown, TypeOK, RestOK, tables
<1>3. ASSUME NEW d \in Disk, DiskUp(d)
      PROVE  RestOK' /\ UNCHANGED th
  BY <1>3 DEF DiskUp, TypeOK, RestOK, tables, bounds
<1> QED BY <1>1, <1>2, <1>3, TypeParts DEF EnvNext

LEMMA CrashType ==
  ASSUME TypeOK, Crash
  PROVE  TypeOK'
<1>1. crashes' \in 0 .. MaxCrashes
  BY BoundAssumption DEF Crash, TypeOK
<1>2. stripe' \in [StripeId -> StripeState] /\ call' \in [StripeId -> CallState] /\ hc' \in Check
  BY IdleType DEF Crash, TypeOK, StripeState
<1>3. th' \in [Thread -> ThreadState] /\ \A t \in Thread : ThreadOK(th'[t])
  BY IdleType DEF Crash
<1>4. RestOK'
  BY <1>1, <1>2 DEF Crash, TypeOK, RestOK, disks
<1> QED BY <1>3, <1>4, TypeParts

LEMMA ServerType ==
  ASSUME TypeOK, ServerNext
  PROVE  TypeOK'
<1>1. \A t \in Scrubber \cup Reader : t \in Thread
  BY DEF Thread, Repairer
<1>2. ASSUME NEW t \in Scrubber \cup Reader, NEW s \in StripeId, Begin(t, s, {})
      PROVE  TypeOK'
  BY <1>1, <1>2, BeginType
<1>3. ASSUME NEW t \in Scrubber, RepairStep(t) \/ RepairReturns(t) \/ ScrubRaises(t)
      PROVE  TypeOK'
  BY <1>1, <1>3, RepairType, RepairReturnsType, RaisesType DEF ScrubRaises
<1>4. ASSUME NEW t \in Reader, ReadShardStep(t) \/ ReadEnd(t)
      PROVE  TypeOK'
  BY <1>1, <1>4, ReadShardType, ReadEndType
<1> QED BY <1>2, <1>3, <1>4, CallType, HealthType DEF ServerNext

LEMMA StuttersType ==
  ASSUME TypeOK, UNCHANGED vars
  PROVE  TypeOK'
<1>1. RestOK' /\ UNCHANGED th
  BY DEF vars, TypeOK, RestOK
<1> QED BY <1>1, TypeParts

LEMMA InitType == Init => TypeOK
<1> SUFFICES ASSUME Init
             PROVE  TypeOK
  OBVIOUS
<1>1. PICK place \in [Stored -> {p \in [Shard -> Registered] :
                                   \A i, j \in Shard : i # j => p[i] # p[j]}] :
        /\ files = {f \in File : f[2] \in Stored /\ place[f[2]][f[3]] = f[1]}
        /\ shard = [s \in StripeId |->
                      IF s \in Stored
                      THEN [i \in Shard |-> [disk |-> place[s][i], state |-> "ok"]]
                      ELSE NoRows]
  BY DEF Init
<1>2. \A s \in Stored, i \in Shard : place[s][i] \in Disk
  BY DiskAssumption
<1>3. \A s \in Stored : [i \in Shard |-> [disk |-> place[s][i], state |-> "ok"]] \in [Shard -> ShardRow]
  BY <1>2 DEF ShardRow
<1>4. shard \in [StripeId -> [Shard -> ShardRow]]
  BY <1>1, <1>3, IdleType
<1>5. files \subseteq File /\ rotten \subseteq files
  BY <1>1 DEF Init
<1>6. diskStatus \in [Disk -> Status] /\ stripe \in [StripeId -> StripeState]
  BY DEF Init, Status, StripeState
<1>7. th \in [Thread -> ThreadState] /\ \A t \in Thread : ThreadOK(th[t])
  BY IdleType DEF Init
<1>8. RestOK
  BY <1>4, <1>5, <1>6, IdleType, BoundAssumption DEF Init, RestOK
<1> QED BY <1>7, <1>8, TypeParts

(* Tables, files and threads hold values of their type, and a thread at a    *)
(* step holds what the step uses.                                            *)
THEOREM RepairTypesHold == Spec => []TypeOK
<1>1. TypeOK /\ [Next]_vars => TypeOK'
  BY ServerType, EnvType, CrashType, StuttersType DEF Next
<1> QED BY InitType, <1>1, PTL DEF Spec

-----------------------------------------------------------------------------
(* The task and its thread.                                                  *)

LEMMA CountType ==
  ASSUME NEW T \in SUBSET Shard
  PROVE  Cardinality(T) \in 0 .. (K + M)
<1>1. IsFiniteSet(Shard) /\ Cardinality(Shard) = K + M
  BY FS_Interval, CodeAssumption DEF Shard
<1>2. IsFiniteSet(T) /\ Cardinality(T) <= Cardinality(Shard)
  BY <1>1, FS_Subset
<1> QED BY <1>1, <1>2, FS_CardinalityType, CodeAssumption

(* What JobTypeOK adds to TypeOK.                                            *)
JobOK ==
  /\ task \in Task
  /\ job \in Job
  /\ job.pc \in {"before", "repair", "count", "detach"} => job.sid \in StripeId
  /\ task.st # "none" => task.src \in Disk /\ task.dst \in Disk
  /\ job.pc # "idle" => task.st # "none"
  /\ job.pc # "repair" => th[Rebuilder].pc = "idle"
LEMMA JobParts == (JobTypeOK <=> TypeOK /\ JobOK) /\ (JobTypeOK' <=> TypeOK' /\ JobOK')
  BY DEF JobTypeOK, JobOK

LEMMA IdleJobType == IdleJob \in Job /\ IdleJob.pc = "idle"
  BY CodeAssumption DEF IdleJob, Job, JobPc

(* A change of the status of a disk alone.                                   *)
LEMMA StatusType ==
  ASSUME TypeOK, NEW d \in Disk, NEW st \in Status, diskStatus' = [diskStatus EXCEPT ![d] = st],
         UNCHANGED <<up, files, rotten, tables, th, call, hc, bounds>>
  PROVE  TypeOK'
<1>1. diskStatus' \in [Disk -> Status]
  BY DEF TypeOK
<1>2. RestOK' /\ UNCHANGED th
  BY <1>1 DEF TypeOK, RestOK, tables, bounds
<1> QED BY <1>2, TypeParts

LEMMA JobSet ==
  ASSUME JobOK, NEW q \in Job, job' = q, UNCHANGED <<task, th>>, job.pc \notin {"idle", "repair"},
         q.pc \in {"before", "repair", "count", "detach"} => q.sid \in StripeId
  PROVE  JobOK'
  BY DEF JobOK

(* A repair that takes a step is under way; one that returns is over.        *)
LEMMA StepIsBusy ==
  ASSUME NEW t, RepairStep(t)
  PROVE  th[t].pc # "idle"
  BY DEF RepairStep, ReadShardStep, ListDisks, ReadSkip, ReadGood, ReadBad, ReadFails, MarkShard,
         Tried, Reading, RepairPlan, ReadOver, MendSkip, MendWrite, MendFails, UnlinkOld, UpdateRow,
         AtShard

LEMMA ReturnsIdle ==
  ASSUME TypeOK, NEW t \in Thread, SetT(t, IdleThread) \/ RepairReturns(t)
  PROVE  th'[t].pc = "idle" /\ \A o \in Thread : o # t => th'[o] = th[o]
<1>1. SetT(t, IdleThread)
  BY DEF RepairReturns, RepairVerdict, RepairEnd
<1> QED BY <1>1, IdleType, ThreadSet

LEMMA JobStepType ==
  ASSUME JobTypeOK, JobStep
  PROVE  JobTypeOK'
<1>i. TypeOK /\ JobOK /\ job \in Job /\ task \in Task
  BY JobParts DEF JobOK
<1>r. Rebuilder \in Thread
  BY DEF Thread, Repairer
<1>f. /\ job.ids \subseteq StripeId /\ job.sid \in StripeId \cup {None}
      /\ job.before \in 0 .. (K + M) /\ job.failed \in BOOLEAN
      /\ job.pc # "idle" => task.src \in Disk /\ task.dst \in Disk
  BY <1>i DEF Job, JobOK
<1>s. UNCHANGED vars => TypeOK' /\ UNCHANGED th
  BY <1>i, StuttersType DEF vars
<1>z. [job EXCEPT !.pc = "each", !.sid = None, !.before = 0] \in Job
  <2>1. 0 \in 0 .. (K + M)
    BY CodeAssumption
  <2> QED BY <1>i, <2>1 DEF Job, JobPc
<1>1. CASE JobStart
  <2> DEFINE q == [IdleJob EXCEPT !.pc = "batch"]
             k == [task EXCEPT !.st = "running"]
  <2>1. task.src \in Disk /\ task.dst \in Disk
    BY <1>1, <1>i DEF JobStart, PendingTask, JobOK
  <2>2. TypeOK'
    BY <1>1, <1>i, <2>1, StatusType DEF JobStart, Status
  <2>3. q \in Job /\ q.pc = "batch"
    BY IdleJobType DEF Job, JobPc
  <2>4. k \in Task /\ k.st = "running" /\ k.src = task.src /\ k.dst = task.dst
    BY <1>i DEF Task
  <2>5. job' = q /\ task' = k /\ UNCHANGED th /\ job.pc = "idle"
    BY <1>1 DEF JobStart
  <2> HIDE DEF q, k
  <2> QED BY <1>i, <2>1, <2>2, <2>3, <2>4, <2>5, JobParts DEF JobOK
<1>2. CASE JobBatch
  <2> DEFINE ids == {s \in StripeId : On(s, task.src) # {}}
  <2>1. job.pc = "batch" /\ UNCHANGED vars
    BY <1>2 DEF JobBatch
  <2>2. CASE ids # {}
    <3> DEFINE q == [job EXCEPT !.pc = "each", !.ids = ids]
    <3>1. job' = q /\ UNCHANGED task
      BY <1>2, <2>2 DEF JobBatch
    <3>2. q \in Job /\ q.pc = "each"
      BY <1>i DEF Job, JobPc
    <3> HIDE DEF q, ids
    <3> QED BY <1>i, <1>s, <2>1, <3>1, <3>2, JobSet, JobParts
  <2>3. CASE ids = {}
    <3> DEFINE q == [job EXCEPT !.pc = "retire"]
               st == IF job.failed THEN "failed" ELSE "done"
               k == [task EXCEPT !.st = st]
    <3>1. job' = q /\ task' = k
      BY <1>2, <2>3 DEF JobBatch
    <3>2. q \in Job /\ q.pc = "retire"
      BY <1>i DEF Job, JobPc
    <3>3. k \in Task /\ k.st # "none" /\ k.src = task.src /\ k.dst = task.dst
      BY <1>i DEF Task
    <3> HIDE DEF q, k, ids
    <3> QED BY <1>i, <1>f, <1>s, <2>1, <3>1, <3>2, <3>3, JobParts DEF JobOK
  <2> QED BY <2>2, <2>3
<1>3. ASSUME NEW s \in StripeId, JobEach(s)
      PROVE  JobTypeOK'
  <2> DEFINE n == Cardinality(On(s, task.src))
             q == [job EXCEPT !.pc = "before", !.ids = @ \ {s}, !.sid = s, !.before = n]
  <2>1. n \in 0 .. (K + M)
    BY CountType DEF On
  <2>2. job' = q /\ UNCHANGED <<vars, task>> /\ job.pc = "each"
    BY <1>3 DEF JobEach
  <2> HIDE DEF n
  <2>3. q \in Job /\ q.pc = "before" /\ q.sid = s
    BY <1>i, <2>1 DEF Job, JobPc
  <2> HIDE DEF q
  <2> QED BY <1>i, <1>s, <2>2, <2>3, JobSet, JobParts
<1>4. CASE JobEachEnds
  <2> DEFINE q == [job EXCEPT !.pc = "batch"]
  <2>1. job' = q /\ UNCHANGED <<vars, task>> /\ job.pc = "each"
    BY <1>4 DEF JobEachEnds
  <2>2. q \in Job /\ q.pc = "batch"
    BY <1>i DEF Job, JobPc
  <2> HIDE DEF q
  <2> QED BY <1>i, <1>s, <2>1, <2>2, JobSet, JobParts
<1>5. CASE JobRepair
  <2> DEFINE q == [job EXCEPT !.pc = "repair"]
  <2>1. job' = q /\ UNCHANGED task /\ job.pc = "before" /\ Begin(Rebuilder, job.sid, {task.src})
    BY <1>5 DEF JobRepair
  <2>2. job.sid \in StripeId /\ {task.src} \subseteq Disk
    BY <1>i, <1>f, <2>1 DEF JobOK
  <2>3. TypeOK'
    BY <1>i, <1>r, <2>1, <2>2, BeginType
  <2>4. q \in Job /\ q.pc = "repair" /\ q.sid = job.sid
    BY <1>i DEF Job, JobPc
  <2> HIDE DEF q
  <2> QED BY <1>i, <2>1, <2>2, <2>3, <2>4, JobParts DEF JobOK
<1>6. CASE JobSkip
  <2> DEFINE q == [job EXCEPT !.pc = "count"]
  <2>1. job' = q /\ UNCHANGED <<vars, task>> /\ job.pc = "before"
    BY <1>6 DEF JobSkip
  <2>2. q \in Job /\ q.pc = "count" /\ q.sid = job.sid /\ job.sid \in StripeId
    BY <1>i, <2>1 DEF Job, JobPc, JobOK
  <2> HIDE DEF q
  <2> QED BY <1>i, <1>s, <2>1, <2>2, JobSet, JobParts
<1>7. CASE RepairStep(Rebuilder) /\ UNCHANGED jobVars
  <2>1. TypeOK' /\ UNCHANGED <<task, job>>
    BY <1>7, <1>i, <1>r, RepairType DEF jobVars
  <2>2. job.pc = "repair"
    BY <1>7, <1>i, StepIsBusy DEF JobOK
  <2> QED BY <1>i, <2>1, <2>2, JobParts DEF JobOK
<1>9. CASE JobCount
  <2>1. job.pc = "count" /\ UNCHANGED <<vars, task>>
    BY <1>9 DEF JobCount
  <2> DEFINE q == [job EXCEPT !.pc = "detach", !.failed = @ \/ job.before > 0]
             r == [job EXCEPT !.pc = "each", !.sid = None, !.before = 0]
  <2>2. job' = q \/ job' = r
    BY <1>9 DEF JobCount
  <2>3. q \in Job /\ q.pc = "detach" /\ q.sid = job.sid /\ job.sid \in StripeId
    <3>1. (job.failed \/ job.before > 0) \in BOOLEAN
      OBVIOUS
    <3>2. q \in Job
      BY <1>i, <3>1 DEF Job, JobPc
    <3>3. q.pc = "detach" /\ q.sid = job.sid /\ job.sid \in StripeId
      BY <1>i, <2>1 DEF Job, JobOK
    <3> QED BY <3>2, <3>3
  <2>4. r \in Job /\ r.pc = "each"
    BY <1>z, <1>i DEF Job
  <2> HIDE DEF q, r
  <2> QED BY <1>i, <1>s, <2>1, <2>2, <2>3, <2>4, JobSet, JobParts
<1>10. CASE JobDetach
  <2> DEFINE w == [i \in Shard |-> IF i \in On(job.sid, task.src)
                                   THEN [disk |-> None, state |-> "missing"]
                                   ELSE shard[job.sid][i]]
             r == [job EXCEPT !.pc = "each", !.sid = None, !.before = 0]
  <2>1. /\ job.pc = "detach" /\ shard' = [shard EXCEPT ![job.sid] = w] /\ job' = r
        /\ UNCHANGED <<disks, files, rotten, stripe, th, call, hc, bounds, task>>
    BY <1>10 DEF JobDetach
  <2>2. job.sid \in StripeId /\ shard \in [StripeId -> [Shard -> ShardRow]]
    BY <1>i, <2>1 DEF JobOK, TypeOK
  <2>3. w \in [Shard -> ShardRow]
    BY <2>2 DEF ShardRow
  <2>4. r \in Job /\ r.pc = "each"
    BY <1>z, <1>i DEF Job
  <2> HIDE DEF w, r
  <2>5. shard' \in [StripeId -> [Shard -> ShardRow]]
    BY <2>1, <2>2, <2>3
  <2>6. RestOK' /\ UNCHANGED th
    BY <1>i, <2>1, <2>5 DEF TypeOK, RestOK, disks, bounds
  <2>7. TypeOK'
    BY <1>i, <2>6, TypeParts
  <2> QED BY <1>i, <2>1, <2>4, <2>7, JobSet, JobParts
<1>11. CASE JobRetire
  <2> DEFINE q == [job EXCEPT !.pc = "open"]
  <2>1. job' = q /\ UNCHANGED <<task, th>> /\ job.pc = "retire"
    BY <1>11 DEF JobRetire
  <2>2. TypeOK'
    BY <1>11, <1>i, <1>f, StatusType DEF JobRetire, Status
  <2>3. q \in Job /\ q.pc = "open"
    BY <1>i DEF Job, JobPc
  <2> HIDE DEF q
  <2> QED BY <1>i, <2>1, <2>2, <2>3, JobSet, JobParts
<1>12. CASE JobOpen
  <2>1. job' = IdleJob /\ UNCHANGED <<task, th>> /\ job.pc = "open"
    BY <1>12 DEF JobOpen
  <2>2. TypeOK'
    BY <1>12, <1>i, <1>f, StatusType DEF JobOpen, Status
  <2> QED BY <1>i, <2>1, <2>2, IdleJobType, JobSet, JobParts
<1>8. CASE JobRepairReturns
  <2> DEFINE q == [job EXCEPT !.pc = "count"]
  <2>1. RepairReturns(Rebuilder) /\ job' = q /\ UNCHANGED task
    BY <1>8 DEF JobRepairReturns
  <2>2. th[Rebuilder].pc # "idle"
    BY <2>1 DEF RepairReturns, RepairVerdict, RepairEnd, ReadOver
  <2>3. job.pc = "repair" /\ job.sid \in StripeId
    BY <1>i, <2>2 DEF JobOK
  <2>4. q \in Job /\ q.pc = "count" /\ q.sid = job.sid
    BY <1>i DEF Job, JobPc
  <2>5. TypeOK' /\ th'[Rebuilder].pc = "idle"
    BY <1>i, <1>r, <2>1, RepairReturnsType, ReturnsIdle
  <2> HIDE DEF q
  <2> QED BY <1>i, <2>1, <2>3, <2>4, <2>5, JobParts DEF JobOK
<1> QED BY <1>1, <1>2, <1>3, <1>4, <1>5, <1>6, <1>7, <1>8, <1>9, <1>10, <1>11, <1>12 DEF JobStep

(* A step of another thread leaves the rebuild's alone.                      *)
LEMMA SetsOne ==
  ASSUME NEW t, ReadShardStep(t) \/ RepairStep(t) \/ RepairReturns(t) \/ ReadEnd(t) \/ Raises(t)
  PROVE  \E q : SetT(t, q)
<1>1. ASSUME ReadShardStep(t) PROVE \E q : SetT(t, q)
  BY <1>1 DEF ReadShardStep, ListDisks, ReadSkip, ReadGood, ReadBad, ReadFails, MarkShard
<1>2. ASSUME RepairPlan(t) \/ MendSkip(t) \/ UnlinkOld(t) \/ UpdateRow(t) PROVE \E q : SetT(t, q)
  BY <1>2 DEF RepairPlan, MendSkip, UnlinkOld, UpdateRow
<1>3. ASSUME NEW d \in Disk, MendWrite(t, d) \/ MendFails(t, d) PROVE \E q : SetT(t, q)
  BY <1>3 DEF MendWrite, MendFails
<1>4. ASSUME RepairReturns(t) \/ ReadEnd(t) \/ Raises(t) PROVE \E q : SetT(t, q)
  BY <1>4 DEF RepairReturns, RepairVerdict, RepairEnd, ReadEnd, Raises
<1> QED BY <1>1, <1>2, <1>3, <1>4 DEF RepairStep

LEMMA OthersLeave ==
  ASSUME TypeOK, ServerNext \/ EnvNext
  PROVE  th'[Rebuilder] = th[Rebuilder]
<1>1. \A t \in Scrubber \cup Reader : t # Rebuilder
  BY NoneAssumption
<1>2. ASSUME NEW t, t # Rebuilder, NEW q, SetT(t, q)
      PROVE  th'[Rebuilder] = th[Rebuilder]
  BY <1>2 DEF SetT, TypeOK, Thread, Repairer
<1>3. ASSUME NEW t \in Scrubber \cup Reader, NEW s \in StripeId, Begin(t, s, {})
      PROVE  th'[Rebuilder] = th[Rebuilder]
  BY <1>1, <1>2, <1>3 DEF Begin
<1>4. ASSUME NEW t \in Scrubber, RepairStep(t) \/ RepairReturns(t) \/ ScrubRaises(t)
      PROVE  th'[Rebuilder] = th[Rebuilder]
  BY <1>1, <1>2, <1>4, SetsOne DEF ScrubRaises
<1>5. ASSUME NEW t \in Reader, ReadShardStep(t) \/ ReadEnd(t)
      PROVE  th'[Rebuilder] = th[Rebuilder]
  BY <1>1, <1>2, <1>5, SetsOne
<1>6. ASSUME NEW s \in StripeId, CallNext(s)
      PROVE  UNCHANGED th
  BY <1>6 DEF CallNext, PutBegin, PutEnd, DeleteBegin, DeleteRows, DeleteFiles
<1>7. ASSUME HealthNext \/ EnvNext
      PROVE  UNCHANGED th
  BY <1>7 DEF HealthNext, HealthProbe, HealthList, EnvNext, Damage, DiskDown, DiskUp
<1> QED BY <1>3, <1>4, <1>5, <1>6, <1>7 DEF ServerNext

LEMMA JobIdles ==
  ASSUME TypeOK', task' \in Task, job' = IdleJob, th'[Rebuilder].pc = "idle",
         task'.st # "none" => task'.src \in Disk /\ task'.dst \in Disk
  PROVE  JobTypeOK'
  BY IdleJobType, JobParts DEF JobOK

LEMMA JobType ==
  ASSUME JobTypeOK, RNext
  PROVE  JobTypeOK'
<1>i. TypeOK /\ JobOK /\ job \in Job /\ task \in Task
  BY JobParts DEF JobOK
<1>r. Rebuilder \in Thread
  BY DEF Thread, Repairer
<1>1. CASE (ServerNext \/ EnvNext) /\ UNCHANGED jobVars
  <2>1. TypeOK' /\ UNCHANGED <<task, job>> /\ th'[Rebuilder] = th[Rebuilder]
    BY <1>1, <1>i, ServerType, EnvType, OthersLeave DEF jobVars
  <2> QED BY <1>i, <2>1, JobParts DEF JobOK
<1>2. CASE Crash /\ job' = IdleJob /\ UNCHANGED task
  <2>1. TypeOK' /\ th'[Rebuilder].pc = "idle"
    BY <1>2, <1>i, <1>r, CrashType, IdleType DEF Crash
  <2> QED BY <1>2, <1>i, <2>1, JobIdles DEF JobOK
<1>3. ASSUME NEW src \in Disk, NEW dst \in Disk, Replace(src, dst)
      PROVE  JobTypeOK'
  <2>1. TypeOK'
    BY <1>3, <1>i, StatusType DEF Replace, Status
  <2>2. task' = [st |-> "queued", src |-> src, dst |-> dst] /\ UNCHANGED <<job, th>>
        /\ task.st = "none"
    BY <1>3 DEF Replace
  <2>3. task' \in Task
    BY <2>2 DEF Task
  <2> QED BY <1>i, <2>1, <2>2, <2>3, JobParts DEF JobOK
<1>4. CASE JobRaises
  <2> DEFINE k == [task EXCEPT !.st = "failed"]
  <2>1. job.pc # "idle" /\ Raises(Rebuilder) /\ task' = k /\ job' = IdleJob
        /\ UNCHANGED <<disks, files, rotten, tables, call, hc, damage, faults>>
    BY <1>4 DEF JobRaises
  <2>2. TypeOK' /\ th'[Rebuilder].pc = "idle"
    BY <1>i, <1>r, <2>1, RaisesType, ReturnsIdle DEF Raises
  <2>3. k \in Task /\ k.src = task.src /\ k.dst = task.dst
    BY <1>i DEF Task
  <2> HIDE DEF k
  <2> QED BY <1>i, <2>1, <2>2, <2>3, JobIdles DEF JobOK
<1>5. CASE JobStops
  <2> DEFINE k == [task EXCEPT !.st = "queued"]
  <2>1. job.pc = "batch" /\ Crash /\ task' = k /\ job' = IdleJob
    BY <1>5 DEF JobStops
  <2>2. TypeOK' /\ th'[Rebuilder].pc = "idle"
    BY <1>i, <1>r, <2>1, CrashType, IdleType DEF Crash
  <2>3. k \in Task /\ k.src = task.src /\ k.dst = task.dst
    BY <1>i DEF Task
  <2> HIDE DEF k
  <2> QED BY <1>i, <2>1, <2>2, <2>3, JobIdles DEF JobOK
<1> QED BY <1>1, <1>2, <1>3, <1>4, <1>5, JobStepType DEF RNext

LEMMA JobInit == RInit => JobTypeOK
<1>1. RInit => task \in Task /\ task.st = "none" /\ job = IdleJob /\ job \in Job /\ job.pc = "idle"
  BY IdleJobType DEF RInit, NoTask, Task
<1>2. RInit => th[Rebuilder].pc = "idle"
  BY IdleType DEF RInit, Init, Thread, Repairer
<1> QED BY <1>1, <1>2, InitType, JobParts DEF RInit, JobOK

LEMMA JobStutters ==
  ASSUME JobTypeOK, UNCHANGED rvars
  PROVE  JobTypeOK'
<1>1. UNCHANGED <<vars, th, task, job>>
  BY DEF rvars, vars, jobVars
<1>2. TypeOK' /\ JobOK
  BY <1>1, StuttersType, JobParts
<1> QED BY <1>1, <1>2, JobParts DEF JobOK

(* The task and the locals of its thread hold values of their type beside    *)
(* everything that repairs, reads, puts or deletes (run_task).               *)
THEOREM JobTypesHold == RSpec => []JobTypeOK
<1>1. JobTypeOK /\ [RNext]_rvars => JobTypeOK'
  BY JobType, JobStutters
<1> QED BY JobInit, <1>1, PTL DEF RSpec

-----------------------------------------------------------------------------
(* One scrub costs no data.  First what is stored, gone and at work.         *)

KeepsStripes ==
  \A s \in StripeId : stripe'[s] = stripe[s] \/ (stripe[s] \in Visible /\ stripe'[s] \in Visible)
QuietRows ==
  \A s \in StripeId, i \in Shard :
    /\ shard'[s][i].disk = shard[s][i].disk
    /\ shard[s][i].state # "absent" => shard'[s][i].state # "absent"
RowsThere ==
  \A s \in StripeId, i \in Shard : shard[s][i].state # "absent" => shard'[s][i].state # "absent"
FilesAt == \A f \in files' : f \in files \/ stripe[f[2]] \notin Unstored
(* One thread moves, at the stripe it had or at one it finds.                *)
Moves(t) ==
  /\ \A o \in Thread : o # t => th'[o] = th[o]
  /\ th'[t].pc # "idle" =>
       \/ th[t].pc # "idle" /\ th'[t].sid = th[t].sid
       \/ stripe[th'[t].sid] \in Visible

LEMMA LifeStays ==
  ASSUME LifeOK, TypeOK', KeepsStripes, RowsThere, FilesAt, UNCHANGED call,
         UNCHANGED th \/ \E t \in Thread : Moves(t)
  PROVE  LifeOK'
<1>s. \A s \in StripeId : stripe[s] \notin Unstored => stripe'[s] \notin Unstored
  BY DEF KeepsStripes, Unstored, Visible
<1>1. ASSUME NEW t \in Thread, th'[t].pc # "idle"
      PROVE  stripe'[th'[t].sid] \notin Unstored
  <2>1. th'[t].sid \in StripeId
    BY <1>1 DEF TypeOK, ThreadOK
  <2>2. stripe[th'[t].sid] \notin Unstored
    BY <1>1 DEF Moves, LifeOK, Unstored, Visible
  <2> QED BY <1>s, <2>1, <2>2
<1>2. ASSUME NEW s \in StripeId
      PROVE  /\ call'[s].pc = "write" => stripe'[s] = "pending"
             /\ call'[s].pc = "unlink" => stripe'[s] = "gone"
  BY DEF LifeOK, KeepsStripes, Visible
<1>3. \A s \in Stored : stripe'[s] \notin Unstored
  BY <1>s, DiskAssumption DEF LifeOK
<1>4. ASSUME NEW f \in files'
      PROVE  stripe'[f[2]] \notin Unstored
  <2>1. f[2] \in StripeId
    BY <1>4 DEF TypeOK, File
  <2>2. stripe[f[2]] \notin Unstored
    BY <1>4 DEF FilesAt, LifeOK
  <2> QED BY <1>s, <2>1, <2>2
<1>5. \A s \in StripeId, i \in Shard : stripe'[s] \in Visible => shard'[s][i].state # "absent"
  BY DEF RowsThere, LifeOK, KeepsStripes
<1> QED BY <1>1, <1>2, <1>3, <1>4, <1>5 DEF LifeOK

(* A thread gives its verdict on a stripe.                                   *)
LEMMA VerdictKeeps ==
  ASSUME TypeOK, LifeOK, NEW t \in Thread, th[t].pc # "idle", NEW state \in Visible,
         SetStripe(th[t].sid, state)
  PROVE  KeepsStripes
<1>1. th[t].sid \in StripeId /\ stripe[th[t].sid] \notin Unstored
  BY ThreadFields DEF LifeOK
<1>2. stripe \in [StripeId -> StripeState]
  BY DEF TypeOK
<1>3. stripe[th[t].sid] \in Visible \cup {"gone"}
  BY <1>1, <1>2 DEF StripeState, Visible, Unstored
<1> QED BY <1>1, <1>2, <1>3 DEF SetStripe, KeepsStripes

-----------------------------------------------------------------------------
(* What is held, where one thread repairs.                                   *)

HeldBy(x, s, i) ==
  /\ Intact(s, i) \/ (th[x].sid = s /\ AtShard(x, "update", i))
  /\ Replaces(x, s, i) => <<th[x].at, s, i>> \in files \ rotten

LEMMA HeldMeaning ==
  ASSUME NEW x, Scrubber = {x}
  PROVE  /\ th[Rebuilder].pc = "idle" =>
              \A s \in StripeId, i \in Shard : Held(s, i) <=> HeldBy(x, s, i)
         /\ th'[Rebuilder].pc = "idle" =>
              \A s \in StripeId, i \in Shard : Held(s, i)' <=> HeldBy(x, s, i)'
  BY DEF Held, HeldBy, Repairer, AtShard, Replaces, Intact

(* A step after which every visible stripe holds what it held, or all.       *)
Stays(x) ==
  \A s \in Promised : stripe'[s] \in Visible =>
    \/ stripe[s] \in Visible /\ \A i \in Shard : HeldBy(x, s, i) => HeldBy(x, s, i)'
    \/ \A i \in Shard : HeldBy(x, s, i)'

LEMMA LostIsFinite ==
  IsFiniteSet(Shard) /\ \A T \in SUBSET Shard : IsFiniteSet(T) /\ Cardinality(T) \in Nat
<1>1. IsFiniteSet(Shard)
  BY FS_Interval, CodeAssumption DEF Shard
<1> QED BY <1>1, FS_Subset, FS_CardinalityType

(* At most one shard of a stripe is lost to one damage or one crash.         *)
ButOne(x) ==
  \A s \in StripeId : stripe'[s] \in Visible =>
    /\ stripe[s] \in Visible
    /\ \E j \in Shard : \A i \in Shard : i # j /\ HeldBy(x, s, i) => HeldBy(x, s, i)'

Counted == \A s \in Promised : stripe[s] \in Visible => Cardinality(Shard \ Safe(s)) <= damage + crashes

LEMMA CountStays ==
  ASSUME NEW x, Scrubber = {x}, KeptInv, th'[Rebuilder].pc = "idle", UNCHANGED <<damage, crashes>>,
         Stays(x)
  PROVE  Counted'
<1> SUFFICES ASSUME NEW s \in Promised, stripe'[s] \in Visible
             PROVE  Cardinality(Shard \ Safe(s)') <= damage' + crashes'
  BY DEF Counted, Promised
<1>1. s \in StripeId
  BY DiskAssumption DEF Promised
<1>2. damage' = damage /\ crashes' = crashes /\ damage \in Nat /\ crashes \in Nat
  BY BoundAssumption DEF KeptInv, TypeOK
<1>3. CASE \A i \in Shard : HeldBy(x, s, i)'
  <2>1. Shard \ Safe(s)' = {}
    BY <1>1, <1>3, HeldMeaning DEF Safe
  <2> QED BY <1>2, <2>1, FS_EmptySet
<1>4. CASE stripe[s] \in Visible /\ \A i \in Shard : HeldBy(x, s, i) => HeldBy(x, s, i)'
  <2>1. Shard \ Safe(s)' \subseteq Shard \ Safe(s)
    BY <1>1, <1>4, HeldMeaning DEF Safe, KeptInv
  <2>2. Cardinality(Shard \ Safe(s)') <= Cardinality(Shard \ Safe(s))
    BY <2>1, LostIsFinite, FS_Subset
  <2>3. Cardinality(Shard \ Safe(s)) <= damage + crashes
    BY <1>4 DEF KeptInv
  <2>4. Cardinality(Shard \ Safe(s)') \in Nat /\ Cardinality(Shard \ Safe(s)) \in Nat
    BY LostIsFinite
  <2> QED BY <1>2, <2>2, <2>3, <2>4
<1> QED BY <1>3, <1>4 DEF Stays

LEMMA CountGrows ==
  ASSUME NEW x, Scrubber = {x}, KeptInv, TypeOK', th'[Rebuilder].pc = "idle",
         damage' + crashes' = damage + crashes + 1, ButOne(x)
  PROVE  Counted'
<1> SUFFICES ASSUME NEW s \in Promised, stripe'[s] \in Visible
             PROVE  Cardinality(Shard \ Safe(s)') <= damage' + crashes'
  BY DEF Counted, Promised
<1>1. s \in StripeId
  BY DiskAssumption DEF Promised
<1>2. PICK j \in Shard : \A i \in Shard : i # j /\ HeldBy(x, s, i) => HeldBy(x, s, i)'
  BY <1>1 DEF ButOne
<1>3. stripe[s] \in Visible /\ Shard \ Safe(s)' \subseteq (Shard \ Safe(s)) \cup {j}
  BY <1>1, <1>2, HeldMeaning DEF ButOne, Safe, KeptInv
<1>4. /\ IsFiniteSet((Shard \ Safe(s)) \cup {j})
      /\ Cardinality((Shard \ Safe(s)) \cup {j}) <= Cardinality(Shard \ Safe(s)) + 1
      /\ Cardinality((Shard \ Safe(s)) \cup {j}) \in Nat
  <2>1. IsFiniteSet(Shard \ Safe(s)) /\ Cardinality(Shard \ Safe(s)) \in Nat
    BY LostIsFinite
  <2>2. IsFiniteSet((Shard \ Safe(s)) \cup {j})
        /\ Cardinality((Shard \ Safe(s)) \cup {j}) =
             IF j \in Shard \ Safe(s) THEN Cardinality(Shard \ Safe(s))
             ELSE Cardinality(Shard \ Safe(s)) + 1
    BY <2>1, FS_AddElement
  <2> QED BY <2>1, <2>2
<1>5. Cardinality(Shard \ Safe(s)') <= Cardinality((Shard \ Safe(s)) \cup {j})
  BY <1>3, <1>4, FS_Subset
<1>6. Cardinality(Shard \ Safe(s)) <= damage + crashes
  BY <1>3 DEF KeptInv
<1>7. damage \in Nat /\ crashes \in Nat /\ damage' \in Nat /\ crashes' \in Nat
  BY BoundAssumption DEF KeptInv, TypeOK
<1>8. Cardinality(Shard \ Safe(s)') \in Nat /\ Cardinality(Shard \ Safe(s)) \in Nat
  BY LostIsFinite
<1> DEFINE before == Cardinality(Shard \ Safe(s))
           after  == Cardinality(Shard \ Safe(s)')
           most   == Cardinality((Shard \ Safe(s)) \cup {j})
           harm   == damage + crashes
<1>9. after \in Nat /\ before \in Nat /\ most \in Nat /\ harm \in Nat
  BY <1>4, <1>7, <1>8
<1>10. before <= harm /\ after <= most /\ most <= before + 1
  BY <1>4, <1>5, <1>6
<1>11. damage' + crashes' = harm + 1
  OBVIOUS
<1>12. after <= harm + 1
  <2> HIDE DEF before, after, most, harm
  <2> QED BY <1>9, <1>10
<1> QED BY <1>11, <1>12

-----------------------------------------------------------------------------
(* What each step does to the rows, the files and the thread.                *)

Calm(r) == r.pc \notin {"unlink", "update"}
SafeFilesStay == files \ rotten \subseteq files' \ rotten'

LEMMA CalmStays ==
  ASSUME TypeOK, NEW x \in Thread, KeepsStripes, QuietRows, SafeFilesStay,
         th'[x] = th[x] \/ (Calm(th[x]) /\ Calm(th'[x]))
  PROVE  Stays(x)
<1> SUFFICES ASSUME NEW s \in StripeId, stripe'[s] \in Visible
             PROVE  stripe[s] \in Visible /\ \A i \in Shard : HeldBy(x, s, i) => HeldBy(x, s, i)'
  BY DiskAssumption DEF Stays, Promised
<1> SUFFICES ASSUME NEW i \in Shard
             PROVE  stripe[s] \in Visible /\ (HeldBy(x, s, i) => HeldBy(x, s, i)')
  BY DEF KeepsStripes
<1>1. stripe[s] \in Visible
  BY DEF KeepsStripes
<1>2. Intact(s, i) => Intact(s, i)'
  BY DEF Intact, QuietRows, SafeFilesStay
<1>3. CASE th'[x] = th[x]
  BY <1>1, <1>2, <1>3 DEF HeldBy, Replaces, AtShard, SafeFilesStay
<1>4. CASE Calm(th[x]) /\ Calm(th'[x])
  BY <1>1, <1>2, <1>4 DEF HeldBy, Replaces, AtShard, Calm
<1> QED BY <1>3, <1>4

LEMMA ReadFacts ==
  ASSUME TypeOK, NEW t \in Thread, ReadShardStep(t)
  PROVE  /\ Moves(t) /\ Calm(th[t]) /\ Calm(th'[t]) /\ QuietRows
         /\ UNCHANGED <<files, rotten, stripe, call, bounds>>
<1>q. UNCHANGED shard => QuietRows
  BY DEF QuietRows
<1>1. CASE ListDisks(t)
  <2> DEFINE q == [th[t] EXCEPT !.pc = "read", !.map = diskStatus]
  <2>1. th[t] \in ThreadState /\ th[t].pc = "map" /\ th[t].sid \in StripeId
        /\ diskStatus \in [Disk -> Status]
    BY <1>1, ThreadFields DEF ListDisks, TypeOK
  <2>2. q \in ThreadState /\ q.pc = "read" /\ q.sid = th[t].sid
    BY <2>1 DEF ThreadState
  <2>3. SetT(t, q) /\ UNCHANGED <<files, rotten, stripe, shard, call, bounds>>
    BY <1>1 DEF ListDisks, tables
  <2> HIDE DEF q
  <2> QED BY <1>q, <2>1, <2>2, <2>3, ThreadSet DEF ThreadOK, Moves, Calm
<1>2. ASSUME SetT(t, Advance(t)), Reading(t), UNCHANGED <<files, rotten, stripe, shard, call, bounds>>
      PROVE  /\ Moves(t) /\ Calm(th[t]) /\ Calm(th'[t]) /\ QuietRows
             /\ UNCHANGED <<files, rotten, stripe, call, bounds>>
  <2>1. th[t].pc = "read" /\ th[t].next \in Shard
    BY <1>2 DEF Reading
  <2> QED BY <1>q, <1>2, <2>1, AdvanceType, ThreadSet DEF Moves, Calm
<1>3. CASE ReadSkip(t) \/ ReadFails(t)
  BY <1>2, <1>3 DEF ReadSkip, ReadFails, Tried, tables
<1>4. CASE ReadGood(t)
  <2> DEFINE q == [Advance(t) EXCEPT !.got = @ \cup {th[t].next}]
  <2>1. th[t].pc = "read" /\ th[t].next \in Shard
    BY <1>4, TriedDisk DEF ReadGood
  <2>2. Advance(t) \in ThreadState /\ ThreadOK(Advance(t)) /\ Advance(t).pc = "read"
        /\ Advance(t).sid = th[t].sid
    BY <2>1, AdvanceType
  <2>3. q \in ThreadState /\ q.pc = "read" /\ q.sid = th[t].sid
    BY <2>1, <2>2 DEF ThreadState
  <2>4. SetT(t, q) /\ UNCHANGED <<files, rotten, stripe, shard, call, bounds>>
    BY <1>4 DEF ReadGood, tables
  <2> HIDE DEF q
  <2> QED BY <1>q, <2>1, <2>2, <2>3, <2>4, ThreadSet DEF ThreadOK, Moves, Calm
<1>5. ASSUME NEW found \in {"missing", "corrupt"}, ReadBad(t, found)
      PROVE  /\ Moves(t) /\ Calm(th[t]) /\ Calm(th'[t]) /\ QuietRows
             /\ UNCHANGED <<files, rotten, stripe, call, bounds>>
  <2> DEFINE q == [th[t] EXCEPT !.pc = "mark", !.found = found]
  <2>1. th[t].pc = "read" /\ th[t].next \in Shard /\ th[t] \in ThreadState /\ th[t].sid \in StripeId
    BY <1>5, TriedDisk, ThreadFields DEF ReadBad
  <2>2. q \in ThreadState /\ q.pc = "mark" /\ q.sid = th[t].sid /\ q.next = th[t].next
    BY <2>1 DEF ThreadState
  <2>3. SetT(t, q) /\ UNCHANGED <<files, rotten, stripe, shard, call, bounds>>
    BY <1>5 DEF ReadBad, tables
  <2> HIDE DEF q
  <2> QED BY <1>q, <2>1, <2>2, <2>3, ThreadSet DEF ThreadOK, Moves, Calm
<1>6. CASE MarkShard(t)
  <2> DEFINE q == [Advance(t) EXCEPT !.pc = "read", !.found = "ok"]
             w == [shard[th[t].sid][th[t].next] EXCEPT !.state = th[t].found]
  <2>1. th[t].pc = "mark" /\ th[t].next \in Shard /\ th[t].sid \in StripeId /\ th[t] \in ThreadState
    BY <1>6, ThreadFields DEF MarkShard, ThreadOK
  <2>2. q \in ThreadState /\ ThreadOK(q) /\ q.pc = "read"
    BY <2>1, AdvanceType
  <2>s. q.sid = th[t].sid
    BY <2>1, AdvanceType DEF ThreadState
  <2>3. shard \in [StripeId -> [Shard -> ShardRow]] /\ th[t].found \in {"ok", "missing", "corrupt"}
    BY <2>1 DEF TypeOK, ThreadState
  <2>4. w.disk = shard[th[t].sid][th[t].next].disk /\ w.state # "absent"
    BY <2>1, <2>3 DEF ShardRow
  <2>5. SetRow(th[t].sid, th[t].next, w) /\ SetT(t, q)
        /\ UNCHANGED <<files, rotten, stripe, call, bounds>>
    BY <1>6 DEF MarkShard
  <2> HIDE DEF q, w
  <2>6. QuietRows
    BY <2>1, <2>3, <2>4, <2>5 DEF SetRow, QuietRows
  <2> QED BY <2>1, <2>2, <2>s, <2>5, <2>6, ThreadSet DEF Moves, Calm
<1> QED BY <1>1, <1>3, <1>4, <1>5, <1>6 DEF ReadShardStep

(* Begin, and what ends a thread.                                            *)
LEMMA BeginFacts ==
  ASSUME TypeOK, NEW t \in Thread, NEW s \in StripeId, NEW force \in SUBSET Disk, Begin(t, s, force)
  PROVE  /\ Moves(t) /\ Calm(th[t]) /\ Calm(th'[t])
         /\ UNCHANGED <<files, rotten, stripe, shard, call, bounds>>
<1> DEFINE q == [IdleThread EXCEPT !.pc = "map", !.sid = s, !.force = force, !.rows = shard[s]]
<1>1. shard[s] \in [Shard -> ShardRow]
  BY DEF TypeOK
<1>2. q \in ThreadState /\ q.pc = "map" /\ q.sid = s
  BY <1>1, IdleType DEF ThreadState
<1>3. SetT(t, q) /\ th[t].pc = "idle" /\ stripe[s] \in Visible
      /\ UNCHANGED <<files, rotten, stripe, shard, call, bounds>>
  BY DEF Begin, tables
<1> HIDE DEF q
<1> QED BY <1>2, <1>3, ThreadSet DEF ThreadOK, Moves, Calm

LEMMA IdleFacts ==
  ASSUME TypeOK, NEW t \in Thread, SetT(t, IdleThread)
  PROVE  Moves(t) /\ Calm(th'[t]) /\ th'[t].pc = "idle"
BY IdleType, ThreadSet DEF Moves, Calm

LEMMA EndFacts ==
  ASSUME TypeOK, LifeOK, NEW t \in Thread, RepairReturns(t) \/ ReadEnd(t)
  PROVE  /\ Moves(t) /\ Calm(th[t]) /\ Calm(th'[t]) /\ KeepsStripes
         /\ UNCHANGED <<files, rotten, shard, call, bounds>>
<1>1. th[t].pc \in {"read", "mend"} /\ SetT(t, IdleThread)
      /\ UNCHANGED <<files, rotten, shard, call, bounds>>
  BY DEF RepairReturns, RepairVerdict, RepairEnd, ReadEnd, ReadOver
<1>2. \/ UNCHANGED stripe \/ SetStripe(th[t].sid, "unrecoverable")
      \/ SetStripe(th[t].sid, "committed")
  BY DEF RepairReturns, RepairVerdict, RepairEnd, ReadEnd
<1>3. KeepsStripes
  BY <1>1, <1>2, VerdictKeeps DEF Visible, KeepsStripes
<1> QED BY <1>1, <1>3, IdleFacts DEF Calm

-----------------------------------------------------------------------------
(* The repair's own steps.                                                   *)

LEMMA PlanFacts ==
  ASSUME TypeOK, NEW t \in Thread, RepairPlan(t)
  PROVE  /\ Moves(t) /\ Calm(th[t]) /\ Calm(th'[t])
         /\ UNCHANGED <<files, rotten, stripe, shard, call, bounds>>
<1> DEFINE q == [th[t] EXCEPT !.pc = "mend", !.todo = ToWrite(t), !.used = UsedAfterReads(t)]
<1>1. th[t] \in ThreadState /\ th[t].pc = "read" /\ SetT(t, q)
      /\ UNCHANGED <<files, rotten, stripe, shard, call, bounds>>
  BY ThreadFields DEF RepairPlan, ReadOver, tables
<1>2. q.pc = "mend" /\ q.sid = th[t].sid
  BY <1>1 DEF ThreadState
<1> HIDE DEF q
<1> QED BY <1>1, <1>2 DEF SetT, TypeOK, Moves, Calm

LEMMA DropFacts ==
  ASSUME TypeOK, NEW t \in Thread, NEW i \in Shard, th[t].pc = "mend",
         SetT(t, [th[t] EXCEPT !.todo = @ \ {i}])
  PROVE  Moves(t) /\ Calm(th[t]) /\ Calm(th'[t])
<1> DEFINE q == [th[t] EXCEPT !.todo = @ \ {i}]
<1>1. th[t] \in ThreadState /\ SetT(t, q)
  BY ThreadFields
<1>2. q.pc = "mend" /\ q.sid = th[t].sid
  BY <1>1 DEF ThreadState
<1> HIDE DEF q
<1> QED BY <1>1, <1>2 DEF SetT, TypeOK, Moves, Calm

LEMMA OneCurrent ==
  ASSUME TypeOK, NEW t \in Thread, NEW i \in Shard, NEW j \in Shard,
         \A k \in th[t].todo : i <= k, i \in th[t].todo, j \in th[t].todo,
         \A k \in th[t].todo : j <= k
  PROVE  i = j
<1>1. i \in Int /\ j \in Int
  BY CodeAssumption DEF Shard
<1>2. i <= j /\ j <= i
  OBVIOUS
<1> QED BY <1>1, <1>2

(* The new file: what was held is held, and the new file is intact.          *)
LEMMA WriteFacts ==
  ASSUME TypeOK, LifeOK, NEW t \in Thread, NEW d \in Disk, MendWrite(t, d)
  PROVE  /\ Moves(t) /\ Stays(t) /\ FilesAt
         /\ UNCHANGED <<stripe, shard, call, bounds>>
<1>1. PICK i \in Shard :
        /\ AtShard(t, "mend", i)
        /\ files' = files \cup {<<d, th[t].sid, i>>}
        /\ rotten' = rotten \ {<<d, th[t].sid, i>>}
        /\ SetT(t, [th[t] EXCEPT !.at = d,
                      !.pc = IF OldCopy(t, i, d) # {} THEN "unlink" ELSE "update"])
  BY DEF MendWrite
<1> DEFINE pc == IF OldCopy(t, i, d) # {} THEN "unlink" ELSE "update"
           q == [th[t] EXCEPT !.at = d, !.pc = pc]
<1>2. th[t] \in ThreadState /\ th[t].pc = "mend" /\ th[t].sid \in StripeId /\ SetT(t, q)
  BY <1>1, ThreadFields DEF AtShard
<1>3. q.pc \in {"unlink", "update"} /\ q.sid = th[t].sid /\ q.at = d /\ q.todo = th[t].todo
  BY <1>2 DEF ThreadState
<1> HIDE DEF q, pc
<1>4. th'[t] = q /\ \A o \in Thread : o # t => th'[o] = th[o]
  BY <1>2 DEF SetT, TypeOK
<1>5. Moves(t)
  BY <1>2, <1>3, <1>4 DEF Moves
<1>6. UNCHANGED <<stripe, shard, call, bounds>>
  BY DEF MendWrite, tables
<1>7. FilesAt
  BY <1>1, <1>2 DEF FilesAt, LifeOK
<1>8. SafeFilesStay /\ <<d, th[t].sid, i>> \in files' \ rotten'
  BY <1>1 DEF SafeFilesStay
<1>9. ASSUME NEW s \in StripeId, NEW j \in Shard, HeldBy(t, s, j)
      PROVE  HeldBy(t, s, j)'
  <2>1. Intact(s, j)
    BY <1>2, <1>9 DEF HeldBy, AtShard
  <2>2. Intact(s, j)'
    BY <1>6, <1>8, <2>1 DEF Intact, SafeFilesStay
  <2>3. ASSUME Replaces(t, s, j)'
        PROVE  <<th'[t].at, s, j>> \in files' \ rotten'
    <3>1. s = th[t].sid /\ j \in th[t].todo /\ \A k \in th[t].todo : j <= k
      BY <1>3, <1>4, <2>3 DEF Replaces, AtShard
    <3>2. j = i
      BY <1>1, <3>1, OneCurrent DEF AtShard
    <3> QED BY <1>3, <1>4, <1>8, <3>1, <3>2
  <2> QED BY <2>2, <2>3 DEF HeldBy
<1> QED BY <1>5, <1>6, <1>7, <1>9, DiskAssumption DEF Stays, Promised

LEMMA FailsFacts ==
  ASSUME TypeOK, LifeOK, NEW t \in Thread, NEW d \in Disk, MendFails(t, d)
  PROVE  /\ Moves(t) /\ Calm(th[t]) /\ Calm(th'[t]) /\ SafeFilesStay /\ FilesAt
         /\ UNCHANGED <<stripe, shard, call, bounds>>
<1>1. PICK i \in Shard :
        /\ AtShard(t, "mend", i)
        /\ \E renamed \in SUBSET {<<d, th[t].sid, i>>} :
             files' = files \cup renamed /\ rotten' = rotten \ renamed
        /\ SetT(t, [th[t] EXCEPT !.todo = @ \ {i}])
  BY DEF MendFails
<1>2. th[t].pc = "mend" /\ th[t].sid \in StripeId
  BY <1>1, ThreadFields DEF AtShard
<1>3. SafeFilesStay
  BY <1>1 DEF SafeFilesStay
<1>4. FilesAt
  BY <1>1, <1>2 DEF FilesAt, LifeOK
<1> QED BY <1>1, <1>2, <1>3, <1>4, DropFacts DEF MendFails, tables

(* The old copy goes: the shard at hand has its new file.                    *)
LEMMA UnlinkFacts ==
  ASSUME TypeOK, NEW t \in Thread, UnlinkOld(t)
  PROVE  /\ Moves(t) /\ Stays(t) /\ FilesAt
         /\ UNCHANGED <<stripe, shard, call, bounds>>
<1>1. PICK i \in Shard : /\ AtShard(t, "unlink", i)
                         /\ files' = files \ Unlinked(t, i)
                         /\ rotten' = rotten \ Unlinked(t, i)
  BY DEF UnlinkOld
<1> DEFINE q == [th[t] EXCEPT !.pc = "update"]
<1>2. th[t] \in ThreadState /\ th[t].pc = "unlink" /\ SetT(t, q)
  BY <1>1, ThreadFields DEF AtShard, UnlinkOld
<1>3. q.pc = "update" /\ q.sid = th[t].sid /\ q.at = th[t].at /\ q.todo = th[t].todo
  BY <1>2 DEF ThreadState
<1> HIDE DEF q
<1>4. th'[t] = q /\ \A o \in Thread : o # t => th'[o] = th[o]
  BY <1>2 DEF SetT, TypeOK
<1>5. Moves(t)
  BY <1>2, <1>3, <1>4 DEF Moves
<1>6. UNCHANGED <<stripe, shard, call, bounds>>
  BY DEF UnlinkOld, tables
<1>7. FilesAt
  BY <1>1 DEF FilesAt
<1>8. \A f \in Unlinked(t, i) : f[2] = th[t].sid /\ f[3] = i /\ f[1] # th[t].at
  BY DEF Unlinked, OldCopy
<1>9. ASSUME NEW s \in StripeId, NEW j \in Shard, HeldBy(t, s, j)
      PROVE  HeldBy(t, s, j)'
  <2>1. CASE s = th[t].sid /\ j = i
    <3>1. <<th[t].at, s, j>> \in files \ rotten
      BY <1>1, <1>9, <2>1 DEF HeldBy, Replaces
    <3>2. <<th[t].at, s, j>> \in files' \ rotten'
      BY <1>1, <1>8, <3>1
    <3>3. th'[t].sid = s /\ AtShard(t, "update", j)'
      BY <1>1, <1>3, <1>4, <2>1 DEF AtShard
    <3> QED BY <1>3, <1>4, <3>2, <3>3 DEF HeldBy
  <2>2. CASE ~(s = th[t].sid /\ j = i)
    <3>1. Intact(s, j)
      BY <1>2, <1>9 DEF HeldBy, AtShard
    <3>2. Intact(s, j)'
      BY <1>1, <1>6, <1>8, <2>2, <3>1 DEF Intact
    <3>3. ~Replaces(t, s, j)'
      <4>1. SUFFICES ASSUME s = th[t].sid, j \in th[t].todo, \A k \in th[t].todo : j <= k
                     PROVE  FALSE
        BY <1>3, <1>4 DEF Replaces, AtShard
      <4> QED BY <1>1, <2>2, <4>1, OneCurrent DEF AtShard
    <3> QED BY <3>2, <3>3 DEF HeldBy
  <2> QED BY <2>1, <2>2
<1> QED BY <1>5, <1>6, <1>7, <1>9, DiskAssumption DEF Stays, Promised

(* The row follows its file.                                                 *)
LEMMA UpdateFacts ==
  ASSUME TypeOK, LifeOK, NEW t \in Thread, UpdateRow(t)
  PROVE  /\ Moves(t) /\ Stays(t) /\ RowsThere
         /\ UNCHANGED <<files, rotten, stripe, call, bounds>>
<1>1. PICK i \in Shard :
        /\ AtShard(t, "update", i)
        /\ SetRow(th[t].sid, i, [disk |-> th[t].at, state |-> "ok"])
        /\ SetT(t, [th[t] EXCEPT !.pc = "mend", !.todo = @ \ {i}, !.at = None,
                                 !.used = @ \cup {th[t].at}])
  BY DEF UpdateRow
<1> DEFINE w == [disk |-> th[t].at, state |-> "ok"]
           q == [th[t] EXCEPT !.pc = "mend", !.todo = @ \ {i}, !.at = None,
                              !.used = @ \cup {th[t].at}]
<1>2. th[t] \in ThreadState /\ th[t].pc = "update" /\ th[t].sid \in StripeId /\ SetT(t, q)
  BY <1>1, ThreadFields DEF AtShard
<1>3. q.pc = "mend" /\ q.sid = th[t].sid
  BY <1>2 DEF ThreadState
<1>4. w.disk = th[t].at /\ w.state # "absent" /\ SetRow(th[t].sid, i, w)
  BY <1>1
<1> HIDE DEF q, w
<1>5. th'[t] = q /\ \A o \in Thread : o # t => th'[o] = th[o]
  BY <1>2 DEF SetT, TypeOK
<1>6. Moves(t)
  BY <1>2, <1>3, <1>5 DEF Moves
<1>7. UNCHANGED <<files, rotten, stripe, call, bounds>>
  BY DEF UpdateRow
<1>8. shard \in [StripeId -> [Shard -> ShardRow]]
  BY DEF TypeOK
<1>9. RowsThere
  BY <1>2, <1>4, <1>8 DEF RowsThere, SetRow
<1>10. ASSUME NEW s \in StripeId, stripe[s] \in Visible, NEW j \in Shard, HeldBy(t, s, j)
       PROVE  HeldBy(t, s, j)'
  <2>1. ~Replaces(t, s, j)'
    BY <1>3, <1>5 DEF Replaces, AtShard
  <2>2. CASE s = th[t].sid /\ j = i
    <3>1. <<th[t].at, s, j>> \in files \ rotten
      BY <1>1, <1>10, <2>2 DEF HeldBy, Replaces
    <3>2. shard'[s][j].disk = th[t].at
      BY <1>4, <1>8, <1>10, <2>2 DEF SetRow, LifeOK
    <3> QED BY <1>7, <2>1, <3>1, <3>2 DEF HeldBy, Intact
  <2>3. CASE ~(s = th[t].sid /\ j = i)
    <3>1. Intact(s, j)
      <4>1. ~(th[t].sid = s /\ AtShard(t, "update", j))
        BY <1>1, <2>3, OneCurrent DEF AtShard
      <4> QED BY <1>10, <4>1 DEF HeldBy
    <3>2. shard'[s][j] = shard[s][j]
      BY <1>2, <1>4, <1>8, <2>3 DEF SetRow
    <3> QED BY <1>7, <2>1, <3>1, <3>2 DEF HeldBy, Intact
  <2> QED BY <2>2, <2>3
<1> QED BY <1>6, <1>7, <1>9, <1>10, DiskAssumption DEF Stays, Promised

-----------------------------------------------------------------------------
(* Puts and deletes.                                                         *)

LEMMA CallLife ==
  ASSUME LifeOK, UNCHANGED th, TypeOK,
         \A s \in StripeId : stripe[s] \notin Unstored => stripe'[s] \notin Unstored,
         \A s \in StripeId : /\ call'[s].pc = "write" => stripe'[s] = "pending"
                             /\ call'[s].pc = "unlink" => stripe'[s] = "gone",
         \A f \in files' : stripe'[f[2]] \notin Unstored,
         \A s \in StripeId, i \in Shard : stripe'[s] \in Visible => shard'[s][i].state # "absent"
  PROVE  LifeOK'
<1>1. \A t \in Thread : th'[t].pc # "idle" => stripe'[th'[t].sid] \notin Unstored
  BY ThreadFields DEF LifeOK
<1>2. \A s \in Stored : stripe'[s] \notin Unstored
  BY DiskAssumption DEF LifeOK
<1> QED BY <1>1, <1>2 DEF LifeOK

LEMMA CallFacts ==
  ASSUME NEW x \in Thread, TypeOK, LifeOK, NEW s \in StripeId, CallNext(s)
  PROVE  LifeOK' /\ Stays(x) /\ UNCHANGED <<th, bounds>>
<1>t. /\ stripe \in [StripeId -> StripeState] /\ call \in [StripeId -> CallState]
      /\ shard \in [StripeId -> [Shard -> ShardRow]] /\ rotten \subseteq files
      /\ \A f \in files : f[2] \in StripeId /\ f \in File
  BY DEF TypeOK, File
<1>p. \A o \in Promised : o \in StripeId
  BY DiskAssumption DEF Promised
<1>1. CASE PutBegin(s)
  <2>1. PICK c : SetCall(s, [pc |-> "write", at |-> c])
    BY <1>1 DEF PutBegin
  <2>2. /\ stripe[s] = "none" /\ stripe' = [stripe EXCEPT ![s] = "pending"]
        /\ UNCHANGED <<files, rotten, shard, th, bounds>>
    BY <1>1 DEF PutBegin
  <2>3. \A o \in StripeId : stripe[o] \notin Unstored => stripe'[o] = stripe[o]
    BY <1>t, <2>2 DEF Unstored
  <2>4. LifeOK'
    <3>1. \A o \in StripeId : /\ call'[o].pc = "write" => stripe'[o] = "pending"
                              /\ call'[o].pc = "unlink" => stripe'[o] = "gone"
      BY <1>t, <2>1, <2>2 DEF SetCall, LifeOK
    <3>2. \A f \in files' : stripe'[f[2]] \notin Unstored
      BY <1>t, <2>2, <2>3 DEF LifeOK
    <3>3. \A o \in StripeId, i \in Shard : stripe'[o] \in Visible => shard'[o][i].state # "absent"
      BY <1>t, <2>2 DEF LifeOK, Visible
    <3> QED BY <2>2, <2>3, <3>1, <3>2, <3>3, CallLife
  <2>5. \A o \in StripeId : stripe'[o] \in Visible => stripe[o] \in Visible
    BY <1>t, <2>2 DEF Visible
  <2>6. \A o \in StripeId, i \in Shard : HeldBy(x, o, i) => HeldBy(x, o, i)'
    BY <2>2 DEF HeldBy, Intact, Replaces, AtShard
  <2> QED BY <1>p, <2>2, <2>4, <2>5, <2>6 DEF Stays
<1>2. CASE PutEnd(s)
  <2> DEFINE at == call[s].at
             landed == {i \in Shard : at[i] # None /\ up[at[i]]}
             rows == [i \in Shard |-> IF i \in landed THEN [disk |-> at[i], state |-> "ok"]
                                      ELSE [disk |-> None, state |-> "missing"]]
             new == {<<at[i], s, i>> : i \in landed}
  <2>1. call[s].pc = "write" /\ SetCall(s, IdleCall) /\ UNCHANGED <<rotten, th, bounds>>
    BY <1>2 DEF PutEnd
  <2>2. stripe[s] = "pending"
    BY <2>1 DEF LifeOK
  <2>3. \/ /\ Cardinality(landed) >= Need /\ files' = files \cup new
           /\ shard' = [shard EXCEPT ![s] = rows]
           /\ stripe' = [stripe EXCEPT ![s] = "committed"]
        \/ stripe' = [stripe EXCEPT ![s] = "gone"] /\ UNCHANGED <<files, shard>>
    BY <1>2 DEF PutEnd
  <2>4. \A i \in Shard : rows[i].state # "absent" /\ (i \in landed => rows[i].disk = at[i])
    OBVIOUS
  <2>5. landed \subseteq Shard /\ (\A f \in new : f[2] = s)
        /\ (\A i \in landed : <<at[i], s, i>> \in new)
    OBVIOUS
  <2> HIDE DEF landed, rows, new
  <2>6. \A o \in StripeId : o # s => stripe'[o] = stripe[o] /\ shard'[o] = shard[o]
    BY <1>t, <2>3
  <2>7. stripe'[s] \in {"committed", "gone"}
    BY <1>t, <2>3
  <2>8. \A f \in files' : f \in files \/ (f[2] = s /\ stripe'[s] = "committed")
    BY <1>t, <2>3, <2>5
  <2>9. LifeOK'
    <3>1. \A o \in StripeId : stripe[o] \notin Unstored => stripe'[o] \notin Unstored
      BY <2>6, <2>7 DEF Unstored
    <3>2. \A o \in StripeId : /\ call'[o].pc = "write" => stripe'[o] = "pending"
                              /\ call'[o].pc = "unlink" => stripe'[o] = "gone"
      BY <1>t, <2>1, <2>6, IdleType DEF SetCall, LifeOK
    <3>3. \A f \in files' : stripe'[f[2]] \notin Unstored
      BY <1>t, <2>7, <2>8, <3>1 DEF LifeOK, Unstored
    <3>4. \A o \in StripeId, i \in Shard : stripe'[o] \in Visible => shard'[o][i].state # "absent"
      BY <1>t, <2>3, <2>4, <2>6, <2>7 DEF LifeOK, Visible
    <3> QED BY <2>1, <3>1, <3>2, <3>3, <3>4, CallLife
  <2>10. ASSUME NEW o \in StripeId, o # s, NEW i \in Shard, HeldBy(x, o, i)
         PROVE  HeldBy(x, o, i)'
    <3>1. files \ rotten \subseteq files' \ rotten'
      BY <2>1, <2>3
    <3>2. Intact(o, i) => Intact(o, i)'
      BY <2>6, <2>10, <3>1 DEF Intact
    <3> QED BY <2>1, <2>10, <3>1, <3>2 DEF HeldBy, Replaces, AtShard
  <2>11. ASSUME s \in Promised, stripe'[s] \in Visible, NEW i \in Shard
         PROVE  HeldBy(x, s, i)'
    <3>1. Need = K + M
      BY <2>2, <2>11 DEF Promised, LifeOK, Unstored
    <3>2. /\ Cardinality(landed) >= K + M /\ files' = files \cup new
          /\ shard' = [shard EXCEPT ![s] = rows]
      BY <1>t, <2>3, <2>11, <3>1 DEF Visible
    <3>3. landed = Shard
      <4>1. IsFiniteSet(Shard) /\ Cardinality(Shard) = K + M
        BY FS_Interval, CodeAssumption DEF Shard
      <4>2. Cardinality(landed) <= Cardinality(Shard)
            /\ (Cardinality(landed) = Cardinality(Shard) => landed = Shard)
            /\ Cardinality(landed) \in Nat
        BY <2>5, <4>1, FS_Subset, FS_CardinalityType
      <4> QED BY <3>2, <4>1, <4>2, CodeAssumption
    <3>4. <<at[i], s, i>> \in files' /\ <<at[i], s, i>> \notin files
      <4>1. <<at[i], s, i>>[2] = s
        OBVIOUS
      <4> QED BY <2>2, <2>5, <3>2, <3>3, <4>1 DEF LifeOK, Unstored
    <3>5. Intact(s, i)'
      BY <1>t, <2>1, <2>4, <3>2, <3>3, <3>4 DEF Intact
    <3>6. ~Replaces(x, s, i)'
      BY <2>1, <2>2 DEF Replaces, AtShard, LifeOK, Unstored
    <3> QED BY <3>5, <3>6 DEF HeldBy
  <2>12. ASSUME NEW o \in Promised, stripe'[o] \in Visible
         PROVE  \/ stripe[o] \in Visible /\ \A i \in Shard : HeldBy(x, o, i) => HeldBy(x, o, i)'
                \/ \A i \in Shard : HeldBy(x, o, i)'
    BY <1>p, <2>6, <2>10, <2>11, <2>12
  <2> QED BY <2>1, <2>9, <2>12 DEF Stays
<1>3. CASE DeleteBegin(s)
  <2> DEFINE c == [pc |-> "delete", at |-> [i \in Shard |-> shard[s][i].disk]]
  <2>1. SetCall(s, c) /\ c.pc = "delete" /\ UNCHANGED <<files, rotten, stripe, shard, th, bounds>>
    BY <1>3 DEF DeleteBegin, tables
  <2> HIDE DEF c
  <2>2. LifeOK'
    <3>1. \A o \in StripeId : /\ call'[o].pc = "write" => stripe'[o] = "pending"
                              /\ call'[o].pc = "unlink" => stripe'[o] = "gone"
      BY <1>t, <2>1 DEF SetCall, LifeOK
    <3> QED BY <2>1, <3>1, CallLife DEF LifeOK
  <2>3. \A o \in StripeId, i \in Shard : HeldBy(x, o, i) => HeldBy(x, o, i)'
    BY <2>1 DEF HeldBy, Intact, Replaces, AtShard
  <2> QED BY <1>p, <2>1, <2>2, <2>3 DEF Stays
<1>4. CASE DeleteRows(s)
  <2> DEFINE c == [call[s] EXCEPT !.pc = "unlink"]
  <2>1. /\ SetCall(s, c) /\ stripe' = [stripe EXCEPT ![s] = "gone"]
        /\ shard' = [shard EXCEPT ![s] = NoRows] /\ UNCHANGED <<files, rotten, th, bounds>>
        /\ call[s].pc = "delete"
    BY <1>4 DEF DeleteRows
  <2>2. c.pc = "unlink"
    BY <1>t DEF CallState
  <2> HIDE DEF c
  <2>3. \A o \in StripeId : o # s => stripe'[o] = stripe[o] /\ shard'[o] = shard[o]
    BY <1>t, <2>1
  <2>4. stripe'[s] = "gone"
    BY <1>t, <2>1
  <2>5. LifeOK'
    <3>1. \A o \in StripeId : stripe[o] \notin Unstored => stripe'[o] \notin Unstored
      BY <2>3, <2>4 DEF Unstored
    <3>2. \A o \in StripeId : /\ call'[o].pc = "write" => stripe'[o] = "pending"
                              /\ call'[o].pc = "unlink" => stripe'[o] = "gone"
      BY <1>t, <2>1, <2>2, <2>3, <2>4 DEF SetCall, LifeOK
    <3>3. \A f \in files' : stripe'[f[2]] \notin Unstored
      BY <1>t, <2>1, <3>1 DEF LifeOK
    <3>4. \A o \in StripeId, i \in Shard : stripe'[o] \in Visible => shard'[o][i].state # "absent"
      BY <2>3, <2>4 DEF LifeOK, Visible
    <3> QED BY <2>1, <3>1, <3>2, <3>3, <3>4, CallLife
  <2>6. ASSUME NEW o \in StripeId, stripe'[o] \in Visible
        PROVE  stripe[o] \in Visible /\ \A i \in Shard : HeldBy(x, o, i) => HeldBy(x, o, i)'
    <3>1. o # s
      BY <2>4, <2>6 DEF Visible
    <3> QED BY <2>1, <2>3, <2>6, <3>1 DEF HeldBy, Intact, Replaces, AtShard
  <2> QED BY <1>p, <2>1, <2>5, <2>6 DEF Stays
<1>5. CASE DeleteFiles(s)
  <2>1. /\ call[s].pc = "unlink" /\ SetCall(s, IdleCall) /\ UNCHANGED <<stripe, shard, th, bounds>>
        /\ \E F : (\A f \in F : f[2] = s) /\ files' = files \ F /\ rotten' = rotten \ F
    <3> DEFINE A == {<<call[s].at[i], s, i>> : i \in {j \in Shard : call[s].at[j] # None}}
               F == {f \in A : up[f[1]]}
    <3>1. files' = files \ F /\ rotten' = rotten \ F
      BY <1>5 DEF DeleteFiles
    <3>2. \A f \in F : f[2] = s
      OBVIOUS
    <3> HIDE DEF F
    <3> QED BY <1>5, <3>1, <3>2 DEF DeleteFiles, tables
  <2>2. PICK F : (\A f \in F : f[2] = s) /\ files' = files \ F /\ rotten' = rotten \ F
    BY <2>1
  <2>3. stripe[s] = "gone"
    BY <2>1 DEF LifeOK
  <2>4. LifeOK'
    <3>1. \A o \in StripeId : /\ call'[o].pc = "write" => stripe'[o] = "pending"
                              /\ call'[o].pc = "unlink" => stripe'[o] = "gone"
      BY <1>t, <2>1, IdleType DEF SetCall, LifeOK
    <3>2. \A f \in files' : stripe'[f[2]] \notin Unstored
      BY <2>1, <2>2 DEF LifeOK
    <3> QED BY <2>1, <3>1, <3>2, CallLife DEF LifeOK
  <2>5. ASSUME NEW o \in StripeId, stripe'[o] \in Visible, NEW i \in Shard, HeldBy(x, o, i)
        PROVE  HeldBy(x, o, i)'
    <3>1. o # s
      BY <2>1, <2>3, <2>5 DEF Visible
    <3>2. \A d : <<d, o, i>> \in files \ rotten => <<d, o, i>> \in files' \ rotten'
      <4>1. \A d : <<d, o, i>>[2] = o
        OBVIOUS
      <4> QED BY <2>2, <3>1, <4>1
    <3> QED BY <2>1, <2>5, <3>2 DEF HeldBy, Intact, Replaces, AtShard
  <2> QED BY <1>p, <2>1, <2>4, <2>5 DEF Stays
<1> QED BY <1>1, <1>2, <1>3, <1>4, <1>5 DEF CallNext

-----------------------------------------------------------------------------
(* The invariant, step by step.                                              *)

LEMMA KeptIs == KeptInv' <=> TypeOK' /\ LifeOK' /\ th'[Rebuilder].pc = "idle" /\ Counted'
  BY DEF KeptInv, Counted

(* A step that unlinks nothing and moves no row.                             *)
LEMMA QuietStep ==
  ASSUME NEW x, Scrubber = {x}, KeptInv, TypeOK', th'[Rebuilder].pc = "idle",
         KeepsStripes, QuietRows, SafeFilesStay, FilesAt, UNCHANGED <<call, damage, crashes>>,
         UNCHANGED th \/ \E t \in Thread : Moves(t),
         th'[x] = th[x] \/ (Calm(th[x]) /\ Calm(th'[x]))
  PROVE  KeptInv'
<1>1. x \in Thread /\ TypeOK /\ LifeOK
  BY DEF KeptInv, Thread, Repairer
<1>2. LifeOK'
  BY <1>1, LifeStays DEF QuietRows, RowsThere
<1>3. Counted'
  BY <1>1, CalmStays, CountStays
<1> QED BY <1>2, <1>3, KeptIs

LEMMA SameQuiet ==
  /\ UNCHANGED stripe => KeepsStripes
  /\ UNCHANGED shard => QuietRows
  /\ UNCHANGED <<files, rotten>> => SafeFilesStay /\ FilesAt
BY DEF KeepsStripes, QuietRows, SafeFilesStay, FilesAt

LEMMA ThreadsKept ==
  ASSUME NEW x, Scrubber = {x}, KeptInv, TypeOK', th'[Rebuilder].pc = "idle",
         \/ \E t \in Scrubber \cup Reader, s \in StripeId : Begin(t, s, {})
         \/ RepairStep(x) \/ RepairReturns(x)
         \/ \E t \in Reader : ReadShardStep(t) \/ ReadEnd(t)
  PROVE  KeptInv'
<1>i. TypeOK /\ LifeOK /\ x \in Thread
  BY DEF KeptInv, Thread, Repairer
<1>m. ASSUME NEW t \in Thread, Moves(t), t = x \/ t \in Reader, Calm(th[t]), Calm(th'[t])
      PROVE  th'[x] = th[x] \/ (Calm(th[x]) /\ Calm(th'[x]))
  BY <1>i, <1>m DEF Moves
<1>c. UNCHANGED bounds => UNCHANGED <<damage, crashes>>
  BY DEF bounds
<1>q. ASSUME NEW t \in Thread, Moves(t), t = x \/ t \in Reader, Calm(th[t]), Calm(th'[t]),
             KeepsStripes, QuietRows, SafeFilesStay, FilesAt, UNCHANGED <<call, bounds>>
      PROVE  KeptInv'
  BY <1>c, <1>m, <1>q, QuietStep
<1>1. ASSUME NEW t \in Scrubber \cup Reader, NEW s \in StripeId, Begin(t, s, {})
      PROVE  KeptInv'
  <2>1. t \in Thread /\ (t = x \/ t \in Reader)
    BY DEF Thread, Repairer
  <2>2. Moves(t) /\ Calm(th[t]) /\ Calm(th'[t])
        /\ UNCHANGED <<files, rotten, stripe, shard, call, bounds>>
    BY <1>i, <1>1, <2>1, BeginFacts
  <2> QED BY <1>q, <2>1, <2>2, SameQuiet
<1>2. ASSUME NEW t \in Thread, t = x \/ t \in Reader, ReadShardStep(t)
      PROVE  KeptInv'
  <2>1. /\ Moves(t) /\ Calm(th[t]) /\ Calm(th'[t]) /\ QuietRows
        /\ UNCHANGED <<files, rotten, stripe, call, bounds>>
    BY <1>i, <1>2, ReadFacts
  <2> QED BY <1>q, <1>2, <2>1, SameQuiet
<1>3. ASSUME NEW t \in Thread, t = x \/ t \in Reader, RepairReturns(t) \/ ReadEnd(t)
      PROVE  KeptInv'
  <2>1. /\ Moves(t) /\ Calm(th[t]) /\ Calm(th'[t]) /\ KeepsStripes
        /\ UNCHANGED <<files, rotten, shard, call, bounds>>
    BY <1>i, <1>3, EndFacts
  <2> QED BY <1>q, <1>3, <2>1, SameQuiet
<1>4. CASE RepairPlan(x)
  <2>1. Moves(x) /\ Calm(th[x]) /\ Calm(th'[x])
        /\ UNCHANGED <<files, rotten, stripe, shard, call, bounds>>
    BY <1>i, <1>4, PlanFacts
  <2> QED BY <1>i, <1>q, <2>1, SameQuiet
<1>5. CASE MendSkip(x)
  <2>1. PICK i \in Shard : AtShard(x, "mend", i) /\ SetT(x, [th[x] EXCEPT !.todo = @ \ {i}])
    BY <1>5 DEF MendSkip
  <2>2. Moves(x) /\ Calm(th[x]) /\ Calm(th'[x])
    BY <1>i, <2>1, DropFacts DEF AtShard
  <2>3. UNCHANGED <<files, rotten, stripe, shard, call, bounds>>
    BY <1>5 DEF MendSkip, tables
  <2> QED BY <1>i, <1>q, <2>2, <2>3, SameQuiet
<1>6. ASSUME NEW d \in Disk, MendFails(x, d)
      PROVE  KeptInv'
  <2>1. /\ Moves(x) /\ Calm(th[x]) /\ Calm(th'[x]) /\ SafeFilesStay /\ FilesAt
        /\ UNCHANGED <<stripe, shard, call, bounds>>
    BY <1>i, <1>6, FailsFacts
  <2> QED BY <1>i, <1>q, <2>1, SameQuiet
<1>7. ASSUME Moves(x), Stays(x), FilesAt, RowsThere, UNCHANGED <<stripe, call, bounds>>
      PROVE  KeptInv'
  <2>1. LifeOK'
    BY <1>i, <1>7, SameQuiet, LifeStays
  <2>2. Counted'
    BY <1>c, <1>7, CountStays
  <2> QED BY <2>1, <2>2, KeptIs
<1>8. ASSUME NEW d \in Disk, MendWrite(x, d)
      PROVE  KeptInv'
  BY <1>i, <1>7, <1>8, WriteFacts DEF RowsThere
<1>9. CASE UnlinkOld(x)
  BY <1>i, <1>7, <1>9, UnlinkFacts DEF RowsThere
<1>10. CASE UpdateRow(x)
  BY <1>i, <1>7, <1>10, UpdateFacts, SameQuiet
<1>11. \A t \in Reader : t \in Thread
  BY DEF Thread
<1> QED BY <1>i, <1>1, <1>2, <1>3, <1>4, <1>5, <1>6, <1>8, <1>9, <1>10, <1>11 DEF RepairStep

(* What is lost at once, to a crash or to a damaged file, is one shard of a  *)
(* stripe.                                                                   *)
LEMMA StopsOne ==
  ASSUME NEW x \in Thread, TypeOK, Calm(th'[x]), UNCHANGED <<files, rotten, shard>>,
         \A s \in StripeId : stripe'[s] \in Visible => stripe[s] \in Visible
  PROVE  ButOne(x)
<1>1. 0 \in Shard
  BY CodeAssumption DEF Shard
<1> SUFFICES ASSUME NEW s \in StripeId
             PROVE  \E j \in Shard : \A i \in Shard : i # j /\ HeldBy(x, s, i) => HeldBy(x, s, i)'
  BY DEF ButOne
<1>2. \A i \in Shard : ~Replaces(x, s, i)'
  BY DEF Replaces, AtShard, Calm
<1>3. ASSUME NEW i \in Shard, HeldBy(x, s, i), ~Replaces(x, s, i)
      PROVE  HeldBy(x, s, i)'
  <2>1. Intact(s, i)
    BY <1>3 DEF HeldBy, Replaces
  <2> QED BY <1>2, <2>1 DEF HeldBy, Intact
<1>4. CASE \E j \in Shard : Replaces(x, s, j)
  <2>1. PICK j \in Shard : Replaces(x, s, j)
    BY <1>4
  <2>2. \A i \in Shard : Replaces(x, s, i) => i = j
    BY <2>1, OneCurrent DEF Replaces, AtShard
  <2> QED BY <1>3, <2>2
<1> QED BY <1>1, <1>3, <1>4

LEMMA CrashLife ==
  ASSUME TypeOK, LifeOK, Crash
  PROVE  LifeOK'
<1>1. /\ th' = [t \in Thread |-> IdleThread] /\ call' = [s \in StripeId |-> IdleCall]
      /\ stripe' = [s \in StripeId |-> IF stripe[s] = "pending" THEN "gone" ELSE stripe[s]]
      /\ UNCHANGED <<files, shard>>
  BY DEF Crash
<1>2. \A t \in Thread : th'[t].pc = "idle"
  BY <1>1, IdleType
<1>3. \A s \in StripeId : stripe[s] \notin Unstored => stripe'[s] = stripe[s]
  BY <1>1 DEF Unstored
<1>4. \A s \in StripeId : call'[s].pc = "idle"
  BY <1>1, IdleType
<1>5. \A f \in files' : stripe'[f[2]] \notin Unstored
  <2>1. \A f \in files : f[2] \in StripeId
    BY DEF TypeOK, File
  <2> QED BY <1>1, <1>3, <2>1 DEF LifeOK
<1>6. \A s \in StripeId, i \in Shard : stripe'[s] \in Visible => shard'[s][i].state # "absent"
  BY <1>1 DEF LifeOK, Visible
<1>7. \A s \in Stored : stripe'[s] \notin Unstored
  BY <1>3, DiskAssumption DEF LifeOK
<1> QED BY <1>2, <1>4, <1>5, <1>6, <1>7 DEF LifeOK

LEMMA CrashKept ==
  ASSUME NEW x, Scrubber = {x}, KeptInv, Crash
  PROVE  KeptInv'
<1>i. TypeOK /\ LifeOK /\ x \in Thread /\ Rebuilder \in Thread
  BY DEF KeptInv, Thread, Repairer
<1>1. /\ th' = [t \in Thread |-> IdleThread] /\ call' = [s \in StripeId |-> IdleCall]
      /\ stripe' = [s \in StripeId |-> IF stripe[s] = "pending" THEN "gone" ELSE stripe[s]]
      /\ UNCHANGED <<files, rotten, shard, damage>> /\ crashes' = crashes + 1
  BY DEF Crash
<1>2. TypeOK' /\ \A t \in Thread : th'[t].pc = "idle"
  BY <1>i, <1>1, CrashType, IdleType
<1>3. LifeOK'
  BY <1>i, CrashLife
<1>4. damage \in Nat /\ crashes \in Nat
  BY <1>i, BoundAssumption DEF TypeOK
<1>5. damage' + crashes' = damage + crashes + 1
  BY <1>1, <1>4
<1>6. ButOne(x)
  <2>1. \A s \in StripeId : stripe'[s] \in Visible => stripe[s] \in Visible
    BY <1>1 DEF Visible
  <2> QED BY <1>i, <1>1, <1>2, <2>1, StopsOne DEF Calm
<1>7. Counted'
  BY <1>i, <1>2, <1>5, <1>6, CountGrows
<1> QED BY <1>i, <1>2, <1>3, <1>7, KeptIs

LEMMA RaiseKept ==
  ASSUME NEW x, Scrubber = {x}, KeptInv, TypeOK', th'[Rebuilder].pc = "idle", ScrubRaises(x)
  PROVE  KeptInv'
<1>i. TypeOK /\ LifeOK /\ x \in Thread
  BY DEF KeptInv, Thread, Repairer
<1>1. /\ SetT(x, IdleThread) /\ crashes' = crashes + 1
      /\ UNCHANGED <<files, rotten, stripe, shard, call, damage>>
  BY DEF ScrubRaises, Raises, tables
<1>2. Moves(x) /\ Calm(th'[x])
  BY <1>i, <1>1, IdleFacts
<1>3. LifeOK'
  BY <1>i, <1>1, <1>2, SameQuiet, LifeStays DEF RowsThere
<1>4. damage \in Nat /\ crashes \in Nat
  BY <1>i, BoundAssumption DEF TypeOK
<1>5. ButOne(x)
  BY <1>i, <1>1, <1>2, StopsOne
<1>6. Counted'
  BY <1>1, <1>4, <1>5, CountGrows
<1> QED BY <1>3, <1>6, KeptIs

LEMMA DamageKept ==
  ASSUME NEW x, Scrubber = {x}, KeptInv, TypeOK', NEW f \in File, Damage(f)
  PROVE  KeptInv'
<1>i. TypeOK /\ LifeOK
  BY DEF KeptInv
<1>1. /\ UNCHANGED <<stripe, shard, th, call, crashes>> /\ damage' = damage + 1
      /\ files' \subseteq files /\ (files \ rotten) \ {f} \subseteq files' \ rotten'
  BY <1>i DEF Damage, tables, TypeOK
<1>2. LifeOK'
  BY <1>i, <1>1, SameQuiet, LifeStays DEF RowsThere, FilesAt
<1>3. damage \in Nat /\ crashes \in Nat
  BY <1>i, BoundAssumption DEF TypeOK
<1>4. ButOne(x)
  <2>1. f[3] \in Shard
    BY DEF File
  <2>2. ASSUME NEW s \in StripeId, NEW i \in Shard, i # f[3], HeldBy(x, s, i)
        PROVE  HeldBy(x, s, i)'
    <3>1. \A d : <<d, s, i>> \in files \ rotten => <<d, s, i>> \in files' \ rotten'
      <4>1. \A d : <<d, s, i>>[3] = i
        OBVIOUS
      <4> QED BY <1>1, <2>2, <4>1
    <3> QED BY <1>1, <2>2, <3>1 DEF HeldBy, Intact, Replaces, AtShard
  <2> QED BY <1>1, <2>1, <2>2 DEF ButOne
<1>5. th'[Rebuilder].pc = "idle"
  BY <1>1 DEF KeptInv
<1>6. Counted'
  BY <1>1, <1>3, <1>4, <1>5, CountGrows
<1> QED BY <1>2, <1>5, <1>6, KeptIs

LEMMA KeptStep ==
  ASSUME NEW x, Scrubber = {x}, KeptInv, Next
  PROVE  KeptInv'
<1>i. TypeOK /\ LifeOK /\ x \in Thread
  BY DEF KeptInv, Thread, Repairer
<1>t. TypeOK'
  BY <1>i, ServerType, EnvType, CrashType DEF Next
<1>r. ServerNext \/ EnvNext => th'[Rebuilder].pc = "idle"
  BY <1>i, OthersLeave DEF KeptInv
<1>1. ASSUME NEW s \in StripeId, CallNext(s), th'[Rebuilder].pc = "idle"
      PROVE  KeptInv'
  <2>1. LifeOK' /\ Stays(x) /\ UNCHANGED <<damage, crashes>>
    BY <1>i, <1>1, CallFacts DEF bounds
  <2>2. Counted'
    BY <1>1, <2>1, CountStays
  <2> QED BY <1>t, <1>1, <2>1, <2>2, KeptIs
<1>2. ASSUME UNCHANGED <<files, rotten, stripe, shard, th, call, damage, crashes>>
      PROVE  KeptInv'
  <2>1. th'[Rebuilder].pc = "idle"
    BY <1>2 DEF KeptInv
  <2> QED BY <1>t, <1>2, <2>1, SameQuiet, QuietStep
<1>3. CASE HealthNext
  BY <1>2, <1>3 DEF HealthNext, HealthProbe, HealthList, tables, bounds
<1>4. ASSUME NEW d \in Disk, DiskDown(d) \/ DiskUp(d)
      PROVE  KeptInv'
  BY <1>2, <1>4 DEF DiskDown, DiskUp, tables, bounds
<1>5. CASE EnvNext
  BY <1>t, <1>4, <1>5, DamageKept DEF EnvNext
<1>6. CASE ServerNext
  BY <1>t, <1>r, <1>1, <1>3, <1>6, ThreadsKept, RaiseKept DEF ServerNext
<1> QED BY <1>5, <1>6, CrashKept DEF Next

LEMMA KeptInit ==
  ASSUME NEW x, Scrubber = {x}, Init
  PROVE  KeptInv
<1>1. PICK place \in [Stored -> {p \in [Shard -> Registered] :
                                   \A i, j \in Shard : i # j => p[i] # p[j]}] :
        /\ files = {f \in File : f[2] \in Stored /\ place[f[2]][f[3]] = f[1]}
        /\ shard = [s \in StripeId |->
                      IF s \in Stored
                      THEN [i \in Shard |-> [disk |-> place[s][i], state |-> "ok"]]
                      ELSE NoRows]
  BY DEF Init
<1>2. /\ stripe = [s \in StripeId |-> IF s \in Stored THEN "committed" ELSE "none"]
      /\ th = [t \in Thread |-> IdleThread] /\ call = [s \in StripeId |-> IdleCall]
      /\ rotten = {} /\ damage = 0 /\ crashes = 0
  BY DEF Init
<1>3. TypeOK /\ \A t \in Thread : th[t].pc = "idle"
  BY <1>2, InitType, IdleType
<1>4. \A s \in Stored : s \in StripeId
  BY DiskAssumption
<1>5. LifeOK
  BY <1>1, <1>2, <1>3, <1>4, IdleType DEF LifeOK, Unstored, Visible
<1>6. Rebuilder \in Thread /\ x \in Thread
  BY DEF Thread, Repairer
<1>7. ASSUME NEW s \in Promised, stripe[s] \in Visible
      PROVE  Cardinality(Shard \ Safe(s)) <= damage + crashes
  <2>1. s \in Stored
    BY <1>2, <1>4, <1>7 DEF Promised, Visible
  <2>2. ASSUME NEW i \in Shard
        PROVE  Held(s, i)
    <3>1. shard[s][i].disk = place[s][i] /\ place[s][i] \in Disk
      BY <1>1, <1>4, <2>1, DiskAssumption
    <3>2. Intact(s, i)
      BY <1>1, <1>2, <1>4, <2>1, <3>1 DEF Intact, File
    <3>3. \A t \in Repairer : ~Replaces(t, s, i)
      BY <1>3 DEF Replaces, AtShard, Thread
    <3> QED BY <3>2, <3>3 DEF Held
  <2>3. Shard \ Safe(s) = {}
    BY <2>2 DEF Safe
  <2>4. Cardinality(Shard \ Safe(s)) = 0
    BY <2>3, FS_EmptySet
  <2> QED BY <1>2, <2>4
<1> QED BY <1>3, <1>5, <1>6, <1>7 DEF KeptInv

LEMMA KeptMeansKept ==
  ASSUME NEW x, Scrubber = {x}, KeptInv
  PROVE  DataKept
<1> SUFFICES ASSUME NEW s \in Promised, stripe[s] \in Visible,
                    damage + crashes * Cardinality(Scrubber) <= M
             PROVE  Cardinality(Kept(s)) >= K
  BY DEF DataKept, Promised
<1>1. Cardinality(Scrubber) = 1
  BY FS_Singleton
<1>2. damage \in Nat /\ crashes \in Nat
  BY BoundAssumption DEF KeptInv, TypeOK
<1>3. damage + crashes <= M
  BY <1>1, <1>2
<1>4. Safe(s) \subseteq Kept(s) /\ Kept(s) \subseteq Shard /\ Safe(s) \subseteq Shard
  BY DEF Safe, Held, Kept, InHand, Replaces
<1>5. IsFiniteSet(Shard) /\ Cardinality(Shard) = K + M
  BY FS_Interval, CodeAssumption DEF Shard
<1>6. Cardinality(Shard \ Safe(s)) <= M
  <2>1. Cardinality(Shard \ Safe(s)) \in Nat
    BY LostIsFinite
  <2>2. Cardinality(Shard \ Safe(s)) <= damage + crashes
    BY DEF KeptInv
  <2> QED BY <1>2, <1>3, <2>1, <2>2, CodeAssumption
<1>7. Cardinality(Shard \ Safe(s)) = Cardinality(Shard) - Cardinality(Shard \cap Safe(s))
  BY <1>5, FS_Difference
<1>8. Shard \cap Safe(s) = Safe(s)
  BY <1>4
<1>9. Cardinality(Safe(s)) <= Cardinality(Kept(s))
  <2>1. IsFiniteSet(Kept(s))
    BY <1>4, LostIsFinite
  <2> QED BY <1>4, <2>1, FS_Subset
<1>10. Cardinality(Safe(s)) \in Nat /\ Cardinality(Kept(s)) \in Nat
  <2>1. Safe(s) \in SUBSET Shard
    BY <1>4
  <2>2. Kept(s) \in SUBSET Shard
    BY <1>4
  <2> QED BY <2>1, <2>2, LostIsFinite
<1>11. Cardinality(Shard \ Safe(s)) \in Nat
  BY LostIsFinite
<1>12. Cardinality(Shard \ Safe(s)) = Cardinality(Shard) - Cardinality(Safe(s))
  BY <1>7, <1>8
<1> QED BY <1>5, <1>6, <1>9, <1>10, <1>11, <1>12, CodeAssumption

(* One scrub costs no data, beside any reads, puts, deletes, health checks   *)
(* and faults of disks: while no more than M files were damaged, each crash  *)
(* counted as one, K shards of every stripe that was written whole are       *)
(* intact where their rows, or the scrub about to update them, say           *)
(* (repair_stripe).                                                          *)
THEOREM DataKeptHolds ==
  ASSUME NEW x, Scrubber = {x}
  PROVE  Spec => []DataKept
<1>1. Init => KeptInv
  BY KeptInit
<1>2. KeptInv /\ [Next]_vars => KeptInv'
  <2>1. ASSUME KeptInv, UNCHANGED vars
        PROVE  KeptInv'
    <3>1. UNCHANGED <<files, rotten, stripe, shard, th, call, damage, crashes>> /\ TypeOK'
      BY <2>1, StuttersType DEF vars, KeptInv
    <3>2. th'[Rebuilder].pc = "idle"
      BY <2>1, <3>1 DEF KeptInv
    <3> QED BY <2>1, <3>1, <3>2, SameQuiet, QuietStep
  <2> QED BY <2>1, KeptStep
<1>3. KeptInv => DataKept
  BY KeptMeansKept
<1> QED BY <1>1, <1>2, <1>3, PTL DEF Spec

-----------------------------------------------------------------------------
(* Reads go on beside a replacement.  What a firm shard means, and when it   *)
(* stays firm.                                                               *)
OthersStay(t) == \A o \in Thread : o # t => th'[o] = th[o]
SameDisk(s, i) == shard'[s][i].disk = shard[s][i].disk

LEMMA FirmDisk ==
  ASSUME TypeOK, NEW s \in StripeId, NEW i \in Shard, Firm(s, i)
  PROVE  /\ shard[s][i].disk \in Disk /\ shard[s][i].disk # None
         /\ <<shard[s][i].disk, s, i>> \in files \ rotten
         /\ shard[s][i].state # "missing" /\ diskStatus[shard[s][i].disk] \in Readable
<1>1. <<shard[s][i].disk, s, i>> \in files \ rotten /\ shard[s][i].state # "missing"
      /\ diskStatus[shard[s][i].disk] \in Readable
  BY DEF Firm, Sound, Intact
<1>2. <<shard[s][i].disk, s, i>> \in File
  BY <1>1 DEF TypeOK
<1>3. shard[s][i].disk \in Disk
  BY <1>2 DEF File
<1> QED BY <1>1, <1>3, NoneAssumption

(* A shard stays firm if its row and its file stay, its disk reads and the   *)
(* thread that moves trusts it.                                              *)
LEMMA FirmStays ==
  ASSUME NEW t, NEW s \in StripeId, NEW i \in Shard, Firm(s, i),
         SameDisk(s, i), shard'[s][i].state # "missing",
         <<shard[s][i].disk, s, i>> \in files' \ rotten',
         diskStatus'[shard[s][i].disk] \in Readable,
         OthersStay(t), At(th'[t], s) => Trusts(th'[t], i, shard[s][i].disk)
  PROVE  Firm(s, i)' /\ SameDisk(s, i)
<1> DEFINE d == shard[s][i].disk
<1>1. ASSUME NEW o \in Thread, At(th'[o], s)
      PROVE  Trusts(th'[o], i, d)
  BY <1>1 DEF Firm, OthersStay
<1>2. shard'[s][i].disk = d
  BY DEF SameDisk
<1>3. <<shard'[s][i].disk, s, i>> \in files' \ rotten' /\ diskStatus'[shard'[s][i].disk] \in Readable
  BY <1>2
<1> QED BY <1>1, <1>2, <1>3 DEF Firm, Sound, Intact

(* What is firm and not on the old disk stays so and where it is.            *)
Keeps(s) ==
  \A i \in Shard : Firm(s, i) /\ shard[s][i].disk \notin OldDisk => Firm(s, i)' /\ SameDisk(s, i)

LEMMA RiskStays ==
  ASSUME NEW s \in StripeId, Keeps(s), RiskBound(s), damage \in Nat, damage' = damage,
         task'.st = "none" <=> task.st = "none", task'.src = task.src
  PROVE  RiskBound(s)'
<1>0. ASSUME NEW T \in SUBSET Shard, NEW U \in SUBSET Shard, T \subseteq U, NEW n \in Nat, Cardinality(U) <= n
      PROVE  Cardinality(T) <= n
  <2>1. Cardinality(T) <= Cardinality(U) /\ Cardinality(T) \in Nat /\ Cardinality(U) \in Nat
    BY <1>0, LostIsFinite, FS_Subset
  <2> QED BY <1>0, <2>1
<1>1. CASE task.st = "none"
  <2>1. Doubtful(s)' \subseteq Doubtful(s)
    BY <1>1 DEF Keeps, Doubtful, OldDisk
  <2>2. ASSUME NEW d \in Disk
        PROVE  AtRisk(s, d)' \subseteq AtRisk(s, d)
    BY <1>1 DEF Keeps, AtRisk, Doubtful, On, OldDisk, SameDisk
  <2>3. Cardinality(Doubtful(s)) <= damage /\ \A d \in Disk : Cardinality(AtRisk(s, d)) <= damage + 1
    BY <1>1 DEF RiskBound
  <2>4. Cardinality(Doubtful(s)') <= damage
    BY <1>0, <2>1, <2>3 DEF Doubtful
  <2>5. ASSUME NEW d \in Disk
        PROVE  Cardinality(AtRisk(s, d)') <= damage + 1
    <3>1. AtRisk(s, d)' \in SUBSET Shard /\ AtRisk(s, d) \in SUBSET Shard
      BY DEF AtRisk, Doubtful, On
    <3> QED BY <1>0, <2>2, <2>3, <3>1
  <2> QED BY <1>1, <2>4, <2>5 DEF RiskBound
<1>2. CASE task.st # "none"
  <2>1. AtRisk(s, task.src)' \subseteq AtRisk(s, task.src)
    BY <1>2 DEF Keeps, AtRisk, Doubtful, On, OldDisk, SameDisk
  <2>2. AtRisk(s, task.src)' \in SUBSET Shard /\ AtRisk(s, task.src) \in SUBSET Shard
    BY DEF AtRisk, Doubtful, On
  <2>3. Cardinality(AtRisk(s, task.src)) <= damage + 1
    BY <1>2 DEF RiskBound
  <2>4. Cardinality(AtRisk(s, task.src)') <= damage + 1
    BY <1>0, <2>1, <2>2, <2>3
  <2> QED BY <1>2, <2>4 DEF RiskBound
<1> QED BY <1>1, <1>2

StatusStays == \A d \in Disk \ OldDisk : diskStatus[d] \in Readable => diskStatus'[d] \in Readable
LEMMA QuietKeeps ==
  ASSUME TypeOK, NEW t, UNCHANGED shard, SafeFilesStay, StatusStays, OthersStay(t),
         \A s \in StripeId, i \in Shard :
           Firm(s, i) /\ At(th'[t], s) => Trusts(th'[t], i, shard[s][i].disk)
  PROVE  \A s \in StripeId : Keeps(s)
<1> SUFFICES ASSUME NEW s \in StripeId, NEW i \in Shard, Firm(s, i), shard[s][i].disk \notin OldDisk
             PROVE  Firm(s, i)' /\ SameDisk(s, i)
  BY DEF Keeps
<1>1. /\ shard[s][i].disk \in Disk /\ <<shard[s][i].disk, s, i>> \in files \ rotten
      /\ shard[s][i].state # "missing" /\ diskStatus[shard[s][i].disk] \in Readable
  BY FirmDisk
<1>2. SameDisk(s, i) /\ shard'[s][i].state # "missing"
  BY <1>1 DEF SameDisk
<1>3. <<shard[s][i].disk, s, i>> \in files' \ rotten' /\ diskStatus'[shard[s][i].disk] \in Readable
  BY <1>1 DEF SafeFilesStay, StatusStays
<1> QED BY <1>2, <1>3, FirmStays

LEMMA PlansStay ==
  ASSUME PlansOK, NEW t, OthersStay(t), Planned(th'[t]),
         th'[t].force \subseteq IF t = Rebuilder THEN OldDisk' ELSE {}, OldDisk \subseteq OldDisk'
  PROVE  PlansOK'
<1>1. ASSUME NEW o \in Thread
      PROVE  Planned(th'[o]) /\ th'[o].force \subseteq IF o = Rebuilder THEN OldDisk' ELSE {}
  BY DEF PlansOK, OthersStay
<1> QED BY <1>1 DEF PlansOK, Planned

(* What an idle thread trusts does not matter.                               *)
LEMMA IdlePlanned ==
  Planned(IdleThread) /\ IdleThread.force = {} /\ \A s : ~At(IdleThread, s)
BY DEF Planned, IdleThread, At, Mending

(* A thread at a shard that is firm and has it not reads it from where it    *)
(* is.                                                                       *)
LEMMA FirmAtNext ==
  ASSUME TypeOK, PlansOK, NEW t \in Thread, th[t].pc \in {"read", "mark"}, th[t].next \in Shard,
         th[t].sid \in StripeId, Firm(th[t].sid, th[t].next)
  PROVE  /\ th[t].pc = "read" /\ Row(t).disk = shard[th[t].sid][th[t].next].disk
         /\ Row(t).disk # None /\ Row(t).disk \in Disk
         /\ th[t].map[Row(t).disk] \in Readable
         /\ Row(t).state # "missing" /\ Copy(t) \in files \ rotten
<1> DEFINE s == th[t].sid
           i == th[t].next
<1>1. Trusts(th[t], i, shard[s][i].disk)
  BY DEF Firm, At
<1>2. i \notin th[t].got
  <2>1. i \in Int
    BY CodeAssumption DEF Shard
  <2> QED BY <2>1 DEF PlansOK, Planned
<1>3. i \in Int
  BY CodeAssumption DEF Shard
<1>4. th[t].pc = "read" /\ th[t].rows[i].disk = shard[s][i].disk
      /\ th[t].rows[i].state # "missing" /\ th[t].map[shard[s][i].disk] \in Readable
  BY <1>1, <1>2, <1>3 DEF Trusts, Ahead
<1>5. /\ shard[s][i].disk \in Disk /\ shard[s][i].disk # None
      /\ <<shard[s][i].disk, s, i>> \in files \ rotten
  BY FirmDisk
<1> QED BY <1>4, <1>5 DEF Row, Copy

LEMMA ReadWell ==
  ASSUME TypeOK, PlansOK, AllUp, NEW t \in Thread, ReadShardStep(t)
  PROVE  /\ \A s \in StripeId : Keeps(s)
         /\ OthersStay(t) /\ Planned(th'[t]) /\ th'[t].force = th[t].force
         /\ UNCHANGED diskStatus
<1>t. th[t] \in ThreadState /\ th[t].next \in 0 .. (K + M) /\ th[t].got \subseteq Shard
      /\ Planned(th[t]) /\ diskStatus \in [Disk -> Status]
  BY DEF TypeOK, PlansOK, ThreadState
<1>n. \A i \in Shard : i \in Int
  BY CodeAssumption DEF Shard
<1>u. th[t].next \in Int
  BY <1>t, CodeAssumption
<1>b. th[t].pc # "idle" /\ th[t].sid \in StripeId
  BY ThreadFields DEF ReadShardStep, ListDisks, ReadSkip, ReadGood, ReadBad, ReadFails, MarkShard,
                      Tried, Reading
<1>s. UNCHANGED diskStatus => StatusStays
  BY DEF StatusStays
<1>f. UNCHANGED <<files, rotten>> => SafeFilesStay
  BY DEF SafeFilesStay
<1>o. ASSUME NEW q, SetT(t, q)
      PROVE  th'[t] = q /\ OthersStay(t)
  BY <1>o DEF SetT, TypeOK, OthersStay
<1>1. CASE ListDisks(t)
  <2> DEFINE q == [th[t] EXCEPT !.pc = "read", !.map = diskStatus]
  <2>1. SetT(t, q) /\ UNCHANGED <<files, rotten, shard, diskStatus>> /\ th[t].pc = "map"
    BY <1>1 DEF ListDisks, disks, tables
  <2>2. /\ q.pc = "read" /\ q.sid = th[t].sid /\ q.rows = th[t].rows /\ q.next = th[t].next
        /\ q.got = th[t].got /\ q.map = diskStatus /\ q.force = th[t].force
    BY <1>t DEF ThreadState
  <2> HIDE DEF q
  <2>3. ASSUME NEW s \in StripeId, NEW i \in Shard, Firm(s, i), At(q, s)
        PROVE  Trusts(q, i, shard[s][i].disk)
    <3>1. Trusts(th[t], i, shard[s][i].disk) /\ diskStatus[shard[s][i].disk] \in Readable
      BY <1>b, <2>2, <2>3 DEF Firm, At
    <3> QED BY <2>1, <2>2, <3>1 DEF Trusts, Ahead
  <2>4. Planned(q)
    BY <1>t, <2>2 DEF Planned, Mending
  <2> QED BY <1>s, <1>f, <1>o, <2>1, <2>2, <2>3, <2>4, QuietKeeps
<1>2. ASSUME th[t].pc \in {"read", "mark"}, th[t].next \in Shard, NEW q, SetT(t, q), q.next = th[t].next + 1,
             q.pc = "read", q.sid = th[t].sid, q.rows = th[t].rows, q.map = th[t].map, q.force = th[t].force,
             q.got = th[t].got \/ q.got = th[t].got \cup {th[t].next},
             Firm(th[t].sid, th[t].next) => th[t].next \in q.got
      PROVE  /\ OthersStay(t) /\ Planned(th'[t]) /\ th'[t].force = th[t].force
             /\ \A s \in StripeId, i \in Shard :
                  Firm(s, i) /\ At(th'[t], s) => Trusts(th'[t], i, shard[s][i].disk)
  <2>1. th'[t] = q /\ OthersStay(t)
    BY <1>2, <1>o
  <2>2. Planned(q)
    BY <1>t, <1>n, <1>2 DEF Planned, Mending
  <2>3. ASSUME NEW s \in StripeId, NEW i \in Shard, Firm(s, i), At(q, s)
        PROVE  Trusts(q, i, shard[s][i].disk)
    <3>1. Trusts(th[t], i, shard[s][i].disk) /\ s = th[t].sid
      BY <1>b, <1>2, <2>3 DEF Firm, At
    <3>2. CASE i = th[t].next
      BY <1>2, <2>3, <3>1, <3>2 DEF Trusts
    <3>3. CASE i # th[t].next
      <4>1. i \in th[t].got => i \in q.got
        BY <1>2
      <4>2. Ahead(th[t], i) => Ahead(q, i)
        BY <1>n, <1>u, <1>2, <3>3 DEF Ahead
      <4> QED BY <1>2, <3>1, <4>1, <4>2 DEF Trusts
    <3> QED BY <3>2, <3>3
  <2> QED BY <1>2, <2>1, <2>2, <2>3
<1>a. ASSUME th[t].pc \in {"read", "mark"}, th[t].next \in Shard
      PROVE  LET r == [Advance(t) EXCEPT !.pc = "read", !.found = "ok"]
                 g == [Advance(t) EXCEPT !.got = @ \cup {th[t].next}] IN
             /\ \A q \in {Advance(t), r, g} :
                  /\ q.next = th[t].next + 1 /\ q.sid = th[t].sid /\ q.rows = th[t].rows
                  /\ q.map = th[t].map /\ q.force = th[t].force
             /\ Advance(t).got = th[t].got /\ r.got = th[t].got
             /\ g.got = th[t].got \cup {th[t].next}
             /\ r.pc = "read" /\ Advance(t).pc = th[t].pc /\ g.pc = th[t].pc
  BY <1>t DEF Advance, ThreadState
<1>3. CASE ReadSkip(t)
  <2>1. th[t].pc = "read" /\ th[t].next \in Shard /\ SetT(t, Advance(t)) /\ ~Tried(t) /\ Reading(t)
        /\ UNCHANGED <<files, rotten, shard, diskStatus>>
    BY <1>3 DEF ReadSkip, Reading, disks, tables
  <2>2. ~Firm(th[t].sid, th[t].next)
    BY <1>b, <2>1, FirmAtNext DEF Tried
  <2>3. /\ OthersStay(t) /\ Planned(th'[t]) /\ th'[t].force = th[t].force
        /\ \A s \in StripeId, i \in Shard :
             Firm(s, i) /\ At(th'[t], s) => Trusts(th'[t], i, shard[s][i].disk)
    BY <1>2, <1>a, <2>1, <2>2
  <2> QED BY <1>s, <1>f, <2>1, <2>3, QuietKeeps
<1>4. CASE ReadGood(t)
  <2> DEFINE g == [Advance(t) EXCEPT !.got = @ \cup {th[t].next}]
  <2>1. th[t].pc = "read" /\ th[t].next \in Shard /\ SetT(t, g)
        /\ UNCHANGED <<files, rotten, shard, diskStatus>>
    BY <1>4, TriedDisk DEF ReadGood, disks, tables
  <2>2. /\ g.next = th[t].next + 1 /\ g.sid = th[t].sid /\ g.rows = th[t].rows
        /\ g.map = th[t].map /\ g.force = th[t].force
        /\ g.got = th[t].got \cup {th[t].next} /\ g.pc = "read"
    BY <1>a, <2>1
  <2> HIDE DEF g
  <2>3. /\ OthersStay(t) /\ Planned(th'[t]) /\ th'[t].force = th[t].force
        /\ \A s \in StripeId, i \in Shard :
             Firm(s, i) /\ At(th'[t], s) => Trusts(th'[t], i, shard[s][i].disk)
    BY <1>2, <2>1, <2>2
  <2> QED BY <1>s, <1>f, <2>1, <2>3, QuietKeeps
<1>5. ASSUME NEW found \in {"missing", "corrupt"}, ReadBad(t, found)
      PROVE  /\ \A s \in StripeId : Keeps(s)
             /\ OthersStay(t) /\ Planned(th'[t]) /\ th'[t].force = th[t].force
             /\ UNCHANGED diskStatus
  <2> DEFINE q == [th[t] EXCEPT !.pc = "mark", !.found = found]
  <2>1. th[t].pc = "read" /\ th[t].next \in Shard /\ SetT(t, q) /\ Row(t).disk \in Disk
        /\ UNCHANGED <<files, rotten, shard, diskStatus>>
    BY <1>5, TriedDisk DEF ReadBad, disks, tables
  <2>2. /\ q.pc = "mark" /\ q.sid = th[t].sid /\ q.rows = th[t].rows /\ q.next = th[t].next
        /\ q.got = th[t].got /\ q.map = th[t].map /\ q.force = th[t].force
    BY <1>t DEF ThreadState
  <2>3. Copy(t) \notin files \ rotten
    BY <1>5, <2>1 DEF ReadBad, AllUp
  <2>4. ~Firm(th[t].sid, th[t].next)
    BY <1>b, <2>1, <2>3, FirmAtNext
  <2> HIDE DEF q
  <2>5. ASSUME NEW s \in StripeId, NEW i \in Shard, Firm(s, i), At(q, s)
        PROVE  Trusts(q, i, shard[s][i].disk)
    <3>1. Trusts(th[t], i, shard[s][i].disk) /\ s = th[t].sid
      BY <1>b, <2>2, <2>5 DEF Firm, At
    <3>2. i # th[t].next
      BY <2>4, <2>5, <3>1
    <3>3. Ahead(th[t], i) => Ahead(q, i)
      BY <1>n, <1>u, <2>1, <2>2, <3>2 DEF Ahead
    <3> QED BY <2>1, <2>2, <3>1, <3>3 DEF Trusts
  <2>6. Planned(q)
    BY <1>t, <2>2 DEF Planned, Mending
  <2> QED BY <1>s, <1>f, <1>o, <2>1, <2>2, <2>5, <2>6, QuietKeeps
<1>6. ~ReadFails(t)
  BY TriedDisk DEF ReadFails, AllUp
<1>7. CASE MarkShard(t)
  <2> DEFINE r == [Advance(t) EXCEPT !.pc = "read", !.found = "ok"]
             w == [shard[th[t].sid][th[t].next] EXCEPT !.state = th[t].found]
  <2>1. /\ th[t].pc = "mark" /\ th[t].next \in Shard /\ SetT(t, r)
        /\ SetRow(th[t].sid, th[t].next, w) /\ UNCHANGED <<files, rotten, diskStatus>>
    BY <1>7, ThreadFields DEF MarkShard, ThreadOK, disks
  <2>2. /\ r.next = th[t].next + 1 /\ r.sid = th[t].sid /\ r.rows = th[t].rows
        /\ r.map = th[t].map /\ r.force = th[t].force /\ r.got = th[t].got /\ r.pc = "read"
    BY <1>a, <2>1
  <2> HIDE DEF r, w
  <2>3. ~Firm(th[t].sid, th[t].next)
    BY <1>b, <2>1, FirmAtNext
  <2>4. /\ OthersStay(t) /\ Planned(th'[t]) /\ th'[t].force = th[t].force
        /\ \A s \in StripeId, i \in Shard :
             Firm(s, i) /\ At(th'[t], s) => Trusts(th'[t], i, shard[s][i].disk)
    BY <1>2, <2>1, <2>2, <2>3
  <2>5. shard \in [StripeId -> [Shard -> ShardRow]]
    BY DEF TypeOK
  <2>6. ASSUME NEW s \in StripeId, NEW i \in Shard, Firm(s, i)
        PROVE  Firm(s, i)' /\ SameDisk(s, i)
    <3>1. shard'[s][i] = shard[s][i]
      BY <1>b, <2>1, <2>3, <2>5, <2>6 DEF SetRow
    <3>2. /\ <<shard[s][i].disk, s, i>> \in files \ rotten
          /\ shard[s][i].state # "missing" /\ diskStatus[shard[s][i].disk] \in Readable
      BY <2>6, FirmDisk
    <3> QED BY <2>1, <2>4, <2>6, <3>1, <3>2, FirmStays DEF SameDisk
  <2> QED BY <2>1, <2>4, <2>6 DEF Keeps
<1> QED BY <1>1, <1>3, <1>4, <1>5, <1>6, <1>7 DEF ReadShardStep

LEMMA BeginWell ==
  ASSUME TypeOK, NEW t \in Thread, NEW s \in StripeId, NEW force \in SUBSET Disk, Begin(t, s, force)
  PROVE  /\ \A o \in StripeId : Keeps(o)
         /\ OthersStay(t) /\ Planned(th'[t]) /\ th'[t].force = force
         /\ UNCHANGED diskStatus
<1> DEFINE q == [IdleThread EXCEPT !.pc = "map", !.sid = s, !.force = force, !.rows = shard[s]]
<1>1. /\ q.pc = "map" /\ q.sid = s /\ q.force = force /\ q.rows = shard[s] /\ q.next = 0 /\ q.got = {}
  BY DEF IdleThread
<1>2. SetT(t, q) /\ UNCHANGED <<files, rotten, shard, diskStatus>>
  BY DEF Begin, disks, tables
<1> HIDE DEF q
<1>3. th'[t] = q /\ OthersStay(t)
  BY <1>2 DEF SetT, TypeOK, OthersStay
<1>4. ASSUME NEW o \in StripeId, NEW i \in Shard, Firm(o, i), At(q, o)
      PROVE  Trusts(q, i, shard[o][i].disk)
  <2>1. 0 <= i
    BY CodeAssumption DEF Shard
  <2>2. o = s /\ shard[o][i].state # "missing"
    BY <1>1, <1>4, FirmDisk DEF At
  <2> QED BY <1>1, <2>1, <2>2 DEF Trusts, Ahead
<1>5. Planned(q)
  BY <1>1 DEF Planned, Mending
<1>6. SafeFilesStay /\ StatusStays
  BY <1>2 DEF SafeFilesStay, StatusStays
<1> QED BY <1>1, <1>2, <1>3, <1>4, <1>5, <1>6, QuietKeeps

LEMMA EndWell ==
  ASSUME TypeOK, NEW t \in Thread, SetT(t, IdleThread), UNCHANGED <<files, rotten, shard, diskStatus>>
  PROVE  /\ \A s \in StripeId : Keeps(s)
         /\ OthersStay(t) /\ Planned(th'[t]) /\ th'[t].force = {}
<1>1. th'[t] = IdleThread /\ OthersStay(t)
  BY DEF SetT, TypeOK, OthersStay
<1>2. SafeFilesStay /\ StatusStays
  BY DEF SafeFilesStay, StatusStays
<1>3. \A s \in StripeId, i \in Shard : ~At(th'[t], s)
  BY <1>1, IdlePlanned
<1>4. \A s \in StripeId : Keeps(s)
  BY <1>1, <1>2, <1>3, QuietKeeps
<1> QED BY <1>1, <1>4, IdlePlanned

(* A repair that writes has read what is firm.                               *)
LEMMA FirmIsGot ==
  ASSUME NEW t \in Thread, NEW s \in StripeId, NEW i \in Shard, Firm(s, i), At(th[t], s),
         th[t].pc \in Mending \/ (th[t].pc = "read" /\ th[t].next = K + M)
  PROVE  i \in th[t].got /\ th[t].rows[i].disk = shard[s][i].disk
<1>1. Trusts(th[t], i, shard[s][i].disk)
  BY DEF Firm
<1>2. i < K + M
  BY CodeAssumption DEF Shard
<1>3. ~Ahead(th[t], i)
  <2>1. CASE th[t].pc \in Mending
    BY <2>1 DEF Ahead, Mending
  <2>2. CASE th[t].pc = "read" /\ th[t].next = K + M
    <3>1. i \in Int /\ K + M \in Int
      BY CodeAssumption DEF Shard
    <3> QED BY <1>2, <2>2, <3>1 DEF Ahead
  <2> QED BY <2>1, <2>2
<1> QED BY <1>1, <1>3 DEF Trusts

(* What is written is not firm where it is, or on the old disk.              *)
LEMMA TodoNotFirm ==
  ASSUME PlansOK, NEW t \in Thread, NEW s \in StripeId, NEW i \in Shard, At(th[t], s),
         th[t].pc \in Mending, i \in th[t].todo
  PROVE  ~Firm(s, i) \/ (shard[s][i].disk \in OldDisk /\ t = Rebuilder)
<1> SUFFICES ASSUME Firm(s, i) PROVE shard[s][i].disk \in OldDisk /\ t = Rebuilder
  OBVIOUS
<1>1. i \in th[t].got /\ th[t].rows[i].disk = shard[s][i].disk
  BY FirmIsGot
<1>2. shard[s][i].disk \in th[t].force
  BY <1>1 DEF PlansOK, Planned
<1> QED BY <1>2 DEF PlansOK

(* A step of a repair that does nothing but grow its files.                  *)
LEMMA MendingKeeps ==
  ASSUME TypeOK, NEW t \in Thread, NEW q, SetT(t, q), UNCHANGED <<shard, diskStatus>>, SafeFilesStay,
         th[t].pc \in Mending \/ (th[t].pc = "read" /\ th[t].next = K + M),
         q.sid = th[t].sid, q.rows = th[t].rows, q.got = th[t].got
  PROVE  (\A s \in StripeId : Keeps(s)) /\ OthersStay(t) /\ th'[t] = q
<1>1. th'[t] = q /\ OthersStay(t)
  BY DEF SetT, TypeOK, OthersStay
<1>2. StatusStays
  BY DEF StatusStays
<1>3. ASSUME NEW s \in StripeId, NEW i \in Shard, Firm(s, i), At(th'[t], s)
      PROVE  Trusts(th'[t], i, shard[s][i].disk)
  <2>1. At(th[t], s)
    BY <1>1, <1>3 DEF At, Mending
  <2> QED BY <1>1, <1>3, <2>1, FirmIsGot DEF Trusts
<1>4. \A s \in StripeId : Keeps(s)
  BY <1>1, <1>2, <1>3, QuietKeeps
<1> QED BY <1>1, <1>4

(* A repair has read all the shards when its reads are over.                 *)
LEMMA RepairReadAll ==
  ASSUME TypeOK, NEW t \in Repairer, ReadOver(t)
  PROVE  th[t].pc = "read" /\ th[t].next = K + M
<1>1. t \in Thread
  BY DEF Thread
<1>2. th[t].pc = "read" /\ th[t].next \notin Shard
  BY DEF ReadOver, Reading
<1>3. th[t].next \in 0 .. (K + M)
  BY <1>1, ThreadFields
<1> QED BY <1>2, <1>3, CodeAssumption DEF Shard

LEMMA PlanWell ==
  ASSUME TypeOK, PlansOK, NEW t \in Thread, RepairPlan(t)
  PROVE  /\ \A s \in StripeId : Keeps(s)
         /\ OthersStay(t) /\ Planned(th'[t]) /\ th'[t].force = th[t].force
         /\ UNCHANGED diskStatus
<1> DEFINE q == [th[t] EXCEPT !.pc = "mend", !.todo = ToWrite(t), !.used = UsedAfterReads(t)]
<1>1. th[t] \in ThreadState /\ Planned(th[t]) /\ th[t].pc = "read" /\ th[t].next = K + M
  BY RepairReadAll DEF TypeOK, PlansOK, RepairPlan
<1>2. SetT(t, q) /\ UNCHANGED <<files, rotten, shard, diskStatus>>
  BY DEF RepairPlan, disks, tables
<1>3. /\ q.pc = "mend" /\ q.sid = th[t].sid /\ q.rows = th[t].rows /\ q.got = th[t].got
      /\ q.next = th[t].next /\ q.force = th[t].force /\ q.todo = ToWrite(t)
  BY <1>1 DEF ThreadState
<1> HIDE DEF q
<1>4. Planned(q)
  BY <1>1, <1>3 DEF Planned, ToWrite
<1>5. SafeFilesStay
  BY <1>2 DEF SafeFilesStay
<1>6. (\A s \in StripeId : Keeps(s)) /\ OthersStay(t) /\ th'[t] = q
  BY <1>1, <1>2, <1>3, <1>5, MendingKeeps
<1> QED BY <1>2, <1>3, <1>4, <1>6

LEMMA SkipWell ==
  ASSUME TypeOK, PlansOK, NEW t \in Thread, MendSkip(t)
  PROVE  /\ \A s \in StripeId : Keeps(s)
         /\ OthersStay(t) /\ Planned(th'[t]) /\ th'[t].force = th[t].force
         /\ UNCHANGED diskStatus
<1>1. PICK i \in Shard : AtShard(t, "mend", i) /\ SetT(t, [th[t] EXCEPT !.todo = @ \ {i}])
  BY DEF MendSkip
<1> DEFINE q == [th[t] EXCEPT !.todo = @ \ {i}]
<1>2. th[t] \in ThreadState /\ Planned(th[t]) /\ th[t].pc = "mend" /\ SetT(t, q)
      /\ UNCHANGED <<files, rotten, shard, diskStatus>>
  BY <1>1 DEF TypeOK, PlansOK, AtShard, MendSkip, disks, tables
<1>3. /\ q.pc = "mend" /\ q.sid = th[t].sid /\ q.rows = th[t].rows /\ q.got = th[t].got
      /\ q.next = th[t].next /\ q.force = th[t].force /\ q.todo = th[t].todo \ {i}
  BY <1>2 DEF ThreadState
<1> HIDE DEF q
<1>4. Planned(q)
  BY <1>2, <1>3 DEF Planned, Mending
<1>5. SafeFilesStay
  BY <1>2 DEF SafeFilesStay
<1>6. (\A s \in StripeId : Keeps(s)) /\ OthersStay(t) /\ th'[t] = q
  BY <1>2, <1>3, <1>5, MendingKeeps DEF Mending
<1> QED BY <1>2, <1>3, <1>4, <1>6

LEMMA WriteWell ==
  ASSUME TypeOK, PlansOK, NEW t \in Thread, NEW d \in Disk, MendWrite(t, d)
  PROVE  /\ \A s \in StripeId : Keeps(s)
         /\ OthersStay(t) /\ Planned(th'[t]) /\ th'[t].force = th[t].force
         /\ UNCHANGED diskStatus
<1>1. PICK i \in Shard :
        /\ AtShard(t, "mend", i)
        /\ files' = files \cup {<<d, th[t].sid, i>>}
        /\ rotten' = rotten \ {<<d, th[t].sid, i>>}
        /\ SetT(t, [th[t] EXCEPT !.at = d,
                      !.pc = IF OldCopy(t, i, d) # {} THEN "unlink" ELSE "update"])
  BY DEF MendWrite
<1> DEFINE pc == IF OldCopy(t, i, d) # {} THEN "unlink" ELSE "update"
           q == [th[t] EXCEPT !.at = d, !.pc = pc]
<1>2. th[t] \in ThreadState /\ Planned(th[t]) /\ th[t].pc = "mend" /\ SetT(t, q)
      /\ UNCHANGED <<shard, diskStatus>>
  BY <1>1 DEF TypeOK, PlansOK, AtShard, MendWrite, disks, tables
<1>3. pc \in Mending
  BY DEF Mending
<1> HIDE DEF pc
<1>4. /\ q.pc = pc /\ q.sid = th[t].sid /\ q.rows = th[t].rows /\ q.got = th[t].got
      /\ q.next = th[t].next /\ q.force = th[t].force /\ q.todo = th[t].todo
  BY <1>2 DEF ThreadState
<1> HIDE DEF q
<1>5. Planned(q)
  BY <1>2, <1>3, <1>4 DEF Planned, Mending
<1>6. SafeFilesStay
  BY <1>1 DEF SafeFilesStay
<1>7. (\A s \in StripeId : Keeps(s)) /\ OthersStay(t) /\ th'[t] = q
  BY <1>2, <1>4, <1>6, MendingKeeps DEF Mending
<1> QED BY <1>2, <1>4, <1>5, <1>7

(* The old copy goes of a shard that is not firm, or on the old disk.        *)
LEMMA UnlinkWell ==
  ASSUME TypeOK, PlansOK, NEW t \in Thread, UnlinkOld(t)
  PROVE  /\ \A s \in StripeId : Keeps(s)
         /\ OthersStay(t) /\ Planned(th'[t]) /\ th'[t].force = th[t].force
         /\ UNCHANGED diskStatus
<1>1. PICK i \in Shard : /\ AtShard(t, "unlink", i)
                         /\ files' = files \ Unlinked(t, i)
                         /\ rotten' = rotten \ Unlinked(t, i)
  BY DEF UnlinkOld
<1> DEFINE q == [th[t] EXCEPT !.pc = "update"]
<1>2. th[t] \in ThreadState /\ Planned(th[t]) /\ th[t].pc = "unlink" /\ SetT(t, q)
      /\ UNCHANGED <<shard, diskStatus>> /\ i \in th[t].todo
  BY <1>1 DEF TypeOK, PlansOK, AtShard, UnlinkOld, disks, tables
<1>3. /\ q.pc = "update" /\ q.sid = th[t].sid /\ q.rows = th[t].rows /\ q.got = th[t].got
      /\ q.next = th[t].next /\ q.force = th[t].force /\ q.todo = th[t].todo
  BY <1>2 DEF ThreadState
<1> HIDE DEF q
<1>4. Planned(q)
  BY <1>2, <1>3 DEF Planned, Mending
<1>5. th'[t] = q /\ OthersStay(t)
  BY <1>2 DEF SetT, TypeOK, OthersStay
<1>6. \A f \in Unlinked(t, i) : f = <<th[t].rows[i].disk, th[t].sid, i>>
  BY DEF Unlinked, OldCopy
<1>7. ASSUME NEW s \in StripeId, NEW j \in Shard, Firm(s, j), shard[s][j].disk \notin OldDisk
      PROVE  Firm(s, j)' /\ SameDisk(s, j)
  <2>1. ~(s = th[t].sid /\ j = i)
    BY <1>2, <1>7, TodoNotFirm DEF At, Mending
  <2>2. /\ <<shard[s][j].disk, s, j>> \in files \ rotten
        /\ shard[s][j].state # "missing" /\ diskStatus[shard[s][j].disk] \in Readable
    BY <1>7, FirmDisk
  <2>3. <<shard[s][j].disk, s, j>> \in files' \ rotten'
    BY <1>1, <1>6, <2>1, <2>2
  <2>4. At(q, s) => Trusts(q, j, shard[s][j].disk)
    <3> SUFFICES ASSUME At(q, s) PROVE Trusts(q, j, shard[s][j].disk)
      OBVIOUS
    <3>1. At(th[t], s)
      BY <1>2, <1>3 DEF At
    <3>2. j \in th[t].got /\ th[t].rows[j].disk = shard[s][j].disk
      BY <1>2, <1>7, <3>1, FirmIsGot DEF Mending
    <3> QED BY <1>3, <3>2 DEF Trusts
  <2> QED BY <1>2, <1>5, <1>7, <2>2, <2>3, <2>4, FirmStays DEF SameDisk
<1> QED BY <1>2, <1>3, <1>4, <1>5, <1>7 DEF Keeps

LEMMA UpdateWell ==
  ASSUME TypeOK, PlansOK, NEW t \in Thread, UpdateRow(t)
  PROVE  /\ \A s \in StripeId : Keeps(s)
         /\ OthersStay(t) /\ Planned(th'[t]) /\ th'[t].force = th[t].force
         /\ UNCHANGED diskStatus
<1>1. PICK i \in Shard :
        /\ AtShard(t, "update", i)
        /\ SetRow(th[t].sid, i, [disk |-> th[t].at, state |-> "ok"])
        /\ SetT(t, [th[t] EXCEPT !.pc = "mend", !.todo = @ \ {i}, !.at = None,
                                 !.used = @ \cup {th[t].at}])
  BY DEF UpdateRow
<1> DEFINE w == [disk |-> th[t].at, state |-> "ok"]
           q == [th[t] EXCEPT !.pc = "mend", !.todo = @ \ {i}, !.at = None,
                              !.used = @ \cup {th[t].at}]
<1>2. /\ th[t] \in ThreadState /\ Planned(th[t]) /\ th[t].pc = "update" /\ i \in th[t].todo
      /\ th[t].sid \in StripeId /\ SetT(t, q) /\ SetRow(th[t].sid, i, w)
      /\ UNCHANGED <<files, rotten, diskStatus>>
  BY <1>1, ThreadFields DEF PlansOK, AtShard, UpdateRow, disks
<1>3. /\ q.pc = "mend" /\ q.sid = th[t].sid /\ q.rows = th[t].rows /\ q.got = th[t].got
      /\ q.next = th[t].next /\ q.force = th[t].force /\ q.todo = th[t].todo \ {i}
  BY <1>2 DEF ThreadState
<1> HIDE DEF q, w
<1>4. Planned(q)
  BY <1>2, <1>3 DEF Planned, Mending
<1>5. th'[t] = q /\ OthersStay(t)
  BY <1>2 DEF SetT, TypeOK, OthersStay
<1>6. shard \in [StripeId -> [Shard -> ShardRow]]
  BY DEF TypeOK
<1>7. ASSUME NEW s \in StripeId, NEW j \in Shard, Firm(s, j), shard[s][j].disk \notin OldDisk
      PROVE  Firm(s, j)' /\ SameDisk(s, j)
  <2>1. ~(s = th[t].sid /\ j = i)
    BY <1>2, <1>7, TodoNotFirm DEF At, Mending
  <2>2. /\ <<shard[s][j].disk, s, j>> \in files \ rotten
        /\ shard[s][j].state # "missing" /\ diskStatus[shard[s][j].disk] \in Readable
    BY <1>7, FirmDisk
  <2>3. shard'[s][j] = shard[s][j]
    BY <1>2, <1>6, <2>1 DEF SetRow
  <2>4. At(q, s) => Trusts(q, j, shard[s][j].disk)
    <3> SUFFICES ASSUME At(q, s) PROVE Trusts(q, j, shard[s][j].disk)
      OBVIOUS
    <3>1. At(th[t], s)
      BY <1>2, <1>3 DEF At
    <3>2. j \in th[t].got /\ th[t].rows[j].disk = shard[s][j].disk
      BY <1>2, <1>7, <3>1, FirmIsGot DEF Mending
    <3> QED BY <1>3, <3>2 DEF Trusts
  <2> QED BY <1>2, <1>5, <1>7, <2>2, <2>3, <2>4, FirmStays DEF SameDisk
<1> QED BY <1>2, <1>3, <1>4, <1>5, <1>7 DEF Keeps

LEMMA RepairWell ==
  ASSUME TypeOK, PlansOK, AllUp, NEW t \in Thread, RepairStep(t)
  PROVE  /\ \A s \in StripeId : Keeps(s)
         /\ OthersStay(t) /\ Planned(th'[t]) /\ th'[t].force = th[t].force
         /\ UNCHANGED diskStatus
<1>1. \A d \in Disk : ~MendFails(t, d)
  BY DEF MendFails, AllUp
<1> QED BY <1>1, ReadWell, PlanWell, SkipWell, WriteWell, UnlinkWell, UpdateWell DEF RepairStep

-----------------------------------------------------------------------------
(* LifeOK beside the rebuild.                                                *)

LEMMA QuietLife ==
  ASSUME LifeOK, TypeOK', UNCHANGED <<stripe, call>>, UNCHANGED th \/ \E t \in Thread : Moves(t),
         FilesAt, UNCHANGED shard
  PROVE  LifeOK'
BY SameQuiet, LifeStays DEF RowsThere

LEMMA RepairLife ==
  ASSUME TypeOK, LifeOK, TypeOK', NEW t \in Thread,
         RepairStep(t) \/ RepairReturns(t) \/ ReadShardStep(t) \/ ReadEnd(t)
  PROVE  LifeOK'
<1>1. CASE ReadShardStep(t)
  <2>1. Moves(t) /\ QuietRows /\ UNCHANGED <<files, stripe, call>> /\ FilesAt
    BY <1>1, ReadFacts DEF FilesAt
  <2> QED BY <2>1, SameQuiet, LifeStays DEF QuietRows, RowsThere
<1>2. CASE RepairReturns(t) \/ ReadEnd(t)
  <2>1. Moves(t) /\ KeepsStripes /\ UNCHANGED <<files, shard, call>> /\ FilesAt
    BY <1>2, EndFacts DEF FilesAt
  <2> QED BY <2>1, LifeStays DEF RowsThere
<1>3. CASE RepairPlan(t)
  BY <1>3, PlanFacts, QuietLife DEF FilesAt
<1>4. CASE MendSkip(t)
  <2>1. PICK i \in Shard : AtShard(t, "mend", i) /\ SetT(t, [th[t] EXCEPT !.todo = @ \ {i}])
    BY <1>4 DEF MendSkip
  <2>2. Moves(t)
    BY <2>1, DropFacts DEF AtShard
  <2> QED BY <1>4, <2>2, QuietLife DEF MendSkip, FilesAt, tables
<1>5. ASSUME NEW d \in Disk, MendWrite(t, d) \/ MendFails(t, d)
      PROVE  LifeOK'
  BY <1>5, WriteFacts, FailsFacts, QuietLife
<1>6. CASE UnlinkOld(t)
  BY <1>6, UnlinkFacts, QuietLife
<1>7. CASE UpdateRow(t)
  BY <1>7, UpdateFacts, SameQuiet, LifeStays DEF FilesAt
<1> QED BY <1>1, <1>2, <1>3, <1>4, <1>5, <1>6, <1>7 DEF RepairStep

LEMMA ServerLife ==
  ASSUME TypeOK, LifeOK, TypeOK', ServerNext \/ EnvNext
  PROVE  LifeOK'
<1>1. \A t \in Scrubber \cup Reader : t \in Thread
  BY DEF Thread, Repairer
<1>r. Rebuilder \in Thread
  BY DEF Thread, Repairer
<1>2. ASSUME NEW t \in Scrubber \cup Reader, NEW s \in StripeId, Begin(t, s, {})
      PROVE  LifeOK'
  <2>1. Moves(t) /\ UNCHANGED <<files, stripe, shard, call>>
    BY <1>1, <1>2, BeginFacts
  <2> QED BY <1>1, <2>1, QuietLife DEF FilesAt
<1>3. ASSUME NEW t \in Scrubber, ScrubRaises(t)
      PROVE  LifeOK'
  BY <1>1, <1>3, IdleFacts, QuietLife DEF ScrubRaises, Raises, FilesAt, tables
<1>4. ASSUME UNCHANGED <<stripe, shard, call, th>>, files' \subseteq files
      PROVE  LifeOK'
  BY <1>4, QuietLife DEF FilesAt
<1>5. ASSUME HealthNext
      PROVE  LifeOK'
  BY <1>4, <1>5 DEF HealthNext, HealthProbe, HealthList, tables
<1>6. ASSUME EnvNext
      PROVE  LifeOK'
  <2>1. UNCHANGED <<stripe, shard, call, th>> /\ files' \subseteq files
    BY <1>6 DEF EnvNext, Damage, DiskDown, DiskUp, tables
  <2> QED BY <1>4, <2>1
<1> QED BY <1>1, <1>r, <1>2, <1>3, <1>5, <1>6, RepairLife, CallFacts DEF ServerNext

LEMMA JobLife ==
  ASSUME JobTypeOK, LifeOK, TypeOK', JobStep
  PROVE  LifeOK'
<1>i. TypeOK
  BY DEF JobTypeOK
<1>r. Rebuilder \in Thread
  BY DEF Thread, Repairer
<1>1. ASSUME UNCHANGED <<files, stripe, shard, call, th>>
      PROVE  LifeOK'
  BY <1>1, QuietLife DEF FilesAt
<1>2. CASE JobStart \/ JobRetire \/ JobOpen
  BY <1>1, <1>2 DEF JobStart, JobRetire, JobOpen, tables
<1>3. CASE JobBatch \/ (\E s \in StripeId : JobEach(s)) \/ JobEachEnds \/ JobSkip \/ JobCount
  BY <1>1, <1>3 DEF JobBatch, JobEach, JobEachEnds, JobSkip, JobCount, vars
<1>4. CASE JobRepair
  <2>1. job.sid \in StripeId /\ {task.src} \in SUBSET Disk /\ Begin(Rebuilder, job.sid, {task.src})
    BY <1>4 DEF JobTypeOK, JobRepair
  <2>2. Moves(Rebuilder) /\ UNCHANGED <<files, stripe, shard, call>>
    BY <1>i, <1>r, <2>1, BeginFacts
  <2> QED BY <1>r, <2>2, QuietLife DEF FilesAt
<1>5. CASE RepairStep(Rebuilder) \/ JobRepairReturns
  BY <1>i, <1>r, <1>5, RepairLife DEF JobRepairReturns
<1>6. CASE JobDetach
  <2> DEFINE w == [i \in Shard |-> IF i \in On(job.sid, task.src)
                                   THEN [disk |-> None, state |-> "missing"]
                                   ELSE shard[job.sid][i]]
  <2>1. shard' = [shard EXCEPT ![job.sid] = w] /\ UNCHANGED <<files, stripe, th, call>>
    BY <1>6 DEF JobDetach
  <2>2. job.sid \in StripeId /\ shard \in [StripeId -> [Shard -> ShardRow]]
    BY <1>6, <1>i DEF JobTypeOK, JobDetach, TypeOK
  <2>3. \A i \in Shard : w[i].state \in {shard[job.sid][i].state, "missing"}
    OBVIOUS
  <2> HIDE DEF w
  <2>4. RowsThere
    BY <2>1, <2>2, <2>3 DEF RowsThere
  <2> QED BY <2>1, <2>4, SameQuiet, LifeStays DEF FilesAt
<1> QED BY <1>2, <1>3, <1>4, <1>5, <1>6 DEF JobStep

LEMMA LifeStep ==
  ASSUME JobTypeOK, LifeOK, TypeOK', RNext
  PROVE  LifeOK'
<1>i. TypeOK /\ Rebuilder \in Thread
  BY DEF JobTypeOK, Thread, Repairer
<1>1. ASSUME NEW src \in Disk, NEW dst \in Disk, Replace(src, dst)
      PROVE  LifeOK'
  BY <1>1, QuietLife DEF Replace, FilesAt, tables
<1>2. CASE JobRaises
  BY <1>i, <1>2, IdleFacts, QuietLife DEF JobRaises, Raises, FilesAt, tables
<1> QED BY <1>i, <1>1, <1>2, ServerLife, CrashLife, JobLife DEF RNext, JobStops

-----------------------------------------------------------------------------
(* The invariant while no disk was ever away.                                *)

WellNow == AllUp /\ PlansOK /\ PutsOK /\ RiskOK
SameTask == (task'.st = "none" <=> task.st = "none") /\ task'.src = task.src
StaysWell(s) == stripe'[s] \in Visible => stripe[s] \in Visible /\ Keeps(s)

LEMMA SameOldDisk ==
  ASSUME SameTask
  PROVE  OldDisk' = OldDisk
BY DEF SameTask, OldDisk

LEMMA PromisedStripe == \A s \in Promised : s \in StripeId
BY DiskAssumption DEF Promised

LEMMA PutsStay ==
  ASSUME TypeOK, PutsOK, StatusStays, SameTask,
         \A s \in StripeId : call'[s].pc = "write" => call'[s] = call[s]
  PROVE  PutsOK'
<1> SUFFICES ASSUME NEW s \in StripeId, NEW i \in Shard, call'[s].pc = "write", call'[s].at[i] # None
             PROVE  /\ \A j \in Shard : j # i => call'[s].at[j] # call'[s].at[i]
                    /\ diskStatus'[call'[s].at[i]] \in Readable \/ call'[s].at[i] \in OldDisk'
  BY DEF PutsOK
<1>1. call'[s] = call[s]
  OBVIOUS
<1>2. call[s].at[i] \in Disk
  BY <1>1 DEF TypeOK, CallState
<1>3. /\ \A j \in Shard : j # i => call[s].at[j] # call[s].at[i]
      /\ diskStatus[call[s].at[i]] \in Readable \/ call[s].at[i] \in OldDisk
  BY <1>1 DEF PutsOK
<1> QED BY <1>1, <1>2, <1>3, SameOldDisk DEF StatusStays

LEMMA RiskStep ==
  ASSUME TypeOK, RiskOK,
         \A s \in Promised : stripe'[s] \in Visible =>
           \/ SameTask /\ damage' = damage /\ StaysWell(s)
           \/ RiskBound(s)'
  PROVE  RiskOK'
<1>1. damage \in Nat
  BY BoundAssumption DEF TypeOK
<1>2. ASSUME NEW s \in Promised, stripe'[s] \in Visible
      PROVE  RiskBound(s)'
  <2>1. CASE SameTask /\ damage' = damage /\ StaysWell(s)
    <3>1. s \in StripeId
      BY PromisedStripe
    <3>2. RiskBound(s) /\ Keeps(s)
      BY <1>2, <2>1, <3>1 DEF RiskOK, StaysWell
    <3> QED BY <1>1, <2>1, <3>1, <3>2, RiskStays DEF SameTask
  <2> QED BY <1>2, <2>1
<1> QED BY <1>2 DEF RiskOK, Promised

LEMMA WellStays ==
  ASSUME TypeOK, WellNow, AllUp', PlansOK', PutsOK', SameTask, damage' = damage,
         \A s \in StripeId : StaysWell(s)
  PROVE  WellNow'
<1>1. RiskOK'
  BY PromisedStripe, RiskStep DEF WellNow
<1> QED BY <1>1 DEF WellNow

(* No thread moves.                                                          *)
LEMMA StripeKeeps ==
  ASSUME TypeOK, NEW s \in StripeId, UNCHANGED th, shard'[s] = shard[s], StatusStays,
         \A d, i : <<d, s, i>> \in files \ rotten => <<d, s, i>> \in files' \ rotten'
  PROVE  Keeps(s)
<1> SUFFICES ASSUME NEW i \in Shard, Firm(s, i), shard[s][i].disk \notin OldDisk
             PROVE  Firm(s, i)' /\ SameDisk(s, i)
  BY DEF Keeps
<1>1. /\ shard[s][i].disk \in Disk /\ <<shard[s][i].disk, s, i>> \in files \ rotten
      /\ shard[s][i].state # "missing" /\ diskStatus[shard[s][i].disk] \in Readable
  BY FirmDisk
<1>2. SameDisk(s, i) /\ shard'[s][i].state # "missing" /\ OthersStay(Rebuilder)
  BY <1>1 DEF SameDisk, OthersStay
<1>3. At(th'[Rebuilder], s) => Trusts(th'[Rebuilder], i, shard[s][i].disk)
  BY DEF Firm, Thread, Repairer
<1>4. <<shard[s][i].disk, s, i>> \in files' \ rotten' /\ diskStatus'[shard[s][i].disk] \in Readable
  BY <1>1 DEF StatusStays
<1> QED BY <1>2, <1>3, <1>4, FirmStays

LEMMA IdleWell ==
  ASSUME TypeOK, WellNow, UNCHANGED <<th, stripe, shard, damage>>, SafeFilesStay, StatusStays,
         AllUp', SameTask, \A s \in StripeId : call'[s].pc = "write" => call'[s] = call[s]
  PROVE  WellNow'
<1>1. \A s \in StripeId : StaysWell(s)
  BY StripeKeeps DEF StaysWell, SafeFilesStay
<1>2. PlansOK'
  BY SameOldDisk DEF WellNow, PlansOK, Planned
<1>3. PutsOK'
  BY PutsStay DEF WellNow
<1> QED BY <1>1, <1>2, <1>3, WellStays

(* One thread moves.                                                         *)
LEMMA ThreadWell ==
  ASSUME TypeOK, WellNow, NEW t \in Thread, \A s \in StripeId : Keeps(s),
         OthersStay(t), Planned(th'[t]), th'[t].force \subseteq IF t = Rebuilder THEN OldDisk ELSE {},
         UNCHANGED <<diskStatus, up, call, damage>>, SameTask,
         \A s \in StripeId : stripe'[s] \in Visible => stripe[s] \in Visible
  PROVE  WellNow'
<1>1. \A s \in StripeId : StaysWell(s)
  BY DEF StaysWell
<1>2. OldDisk' = OldDisk
  BY SameOldDisk
<1>3. PlansOK'
  BY <1>2, PlansStay DEF WellNow
<1>4. PutsOK'
  BY PutsStay DEF WellNow, StatusStays
<1>5. AllUp'
  BY DEF WellNow, AllUp
<1> QED BY <1>1, <1>3, <1>4, <1>5, WellStays

LEMMA StepUnchanged ==
  ASSUME NEW t, RepairStep(t) \/ ReadShardStep(t)
  PROVE  UNCHANGED <<up, stripe, call, damage, faults>>
<1>1. ASSUME ReadShardStep(t) PROVE UNCHANGED <<up, stripe, call, damage, faults>>
  BY <1>1 DEF ReadShardStep, ListDisks, ReadSkip, ReadGood, ReadBad, ReadFails, MarkShard,
              disks, tables, bounds
<1>2. ASSUME RepairPlan(t) \/ MendSkip(t) \/ UnlinkOld(t) \/ UpdateRow(t)
      PROVE  UNCHANGED <<up, stripe, call, damage, faults>>
  BY <1>2 DEF RepairPlan, MendSkip, UnlinkOld, UpdateRow, disks, tables, bounds
<1>3. ASSUME NEW d \in Disk, MendWrite(t, d) \/ MendFails(t, d)
      PROVE  UNCHANGED <<up, stripe, call, damage, faults>>
  BY <1>3 DEF MendWrite, MendFails, disks, tables, bounds
<1> QED BY <1>1, <1>2, <1>3 DEF RepairStep

LEMMA RepairStepWell ==
  ASSUME TypeOK, WellNow, NEW t \in Thread, RepairStep(t) \/ ReadShardStep(t), SameTask
  PROVE  WellNow'
<1>1. /\ \A s \in StripeId : Keeps(s)
      /\ OthersStay(t) /\ Planned(th'[t]) /\ th'[t].force = th[t].force
      /\ UNCHANGED diskStatus
  BY RepairWell, ReadWell DEF WellNow
<1>2. th[t].force \subseteq IF t = Rebuilder THEN OldDisk ELSE {}
  BY DEF WellNow, PlansOK
<1> QED BY <1>1, <1>2, StepUnchanged, ThreadWell

LEMMA BeginStepWell ==
  ASSUME TypeOK, WellNow, NEW t \in Thread, NEW s \in StripeId, NEW force \in SUBSET Disk,
         Begin(t, s, force), force \subseteq IF t = Rebuilder THEN OldDisk ELSE {}, SameTask
  PROVE  WellNow'
<1>1. /\ \A o \in StripeId : Keeps(o)
      /\ OthersStay(t) /\ Planned(th'[t]) /\ th'[t].force = force
  BY BeginWell
<1>2. UNCHANGED <<diskStatus, up, call, damage, stripe>>
  BY DEF Begin, disks, tables, bounds
<1> QED BY <1>1, <1>2, ThreadWell

LEMMA EndStepWell ==
  ASSUME TypeOK, LifeOK, WellNow, NEW t \in Thread, SetT(t, IdleThread),
         UNCHANGED <<disks, files, rotten, shard, call, damage>>, KeepsStripes, SameTask
  PROVE  WellNow'
<1>1. /\ \A s \in StripeId : Keeps(s)
      /\ OthersStay(t) /\ Planned(th'[t]) /\ th'[t].force = {}
  BY EndWell DEF disks
<1>2. \A s \in StripeId : stripe'[s] \in Visible => stripe[s] \in Visible
  BY DEF KeepsStripes
<1> QED BY <1>1, <1>2, ThreadWell DEF disks

-----------------------------------------------------------------------------
(* Puts and deletes, the environment, crashes.                               *)

LEMMA PlansSame ==
  ASSUME PlansOK, UNCHANGED th, OldDisk' = OldDisk
  PROVE  PlansOK'
BY DEF PlansOK, Planned

LEMMA SubsetBound ==
  ASSUME NEW T \in SUBSET Shard, NEW U \in SUBSET Shard, T \subseteq U, NEW n \in Nat, Cardinality(U) <= n
  PROVE  Cardinality(T) <= n
<1>1. Cardinality(T) <= Cardinality(U) /\ Cardinality(T) \in Nat /\ Cardinality(U) \in Nat
  BY LostIsFinite, FS_Subset
<1> QED BY <1>1

(* A stripe that was put with all its shards is at no more risk than the one *)
(* shard that may be on the old disk.                                        *)
LEMMA PutRisk ==
  ASSUME TypeOK, LifeOK, PutsOK, AllUp, SameTask, damage' = damage, NEW s \in Promised, PutEnd(s),
         stripe'[s] \in Visible
  PROVE  RiskBound(s)'
<1>s. s \in StripeId
  BY PromisedStripe
<1> DEFINE at == call[s].at
           landed == {i \in Shard : at[i] # None /\ up[at[i]]}
           rows == [i \in Shard |-> IF i \in landed THEN [disk |-> at[i], state |-> "ok"]
                                    ELSE [disk |-> None, state |-> "missing"]]
           new == {<<at[i], s, i>> : i \in landed}
<1>t. /\ stripe \in [StripeId -> StripeState] /\ call \in [StripeId -> CallState]
      /\ shard \in [StripeId -> [Shard -> ShardRow]] /\ rotten \subseteq files /\ files \subseteq File
      /\ damage \in Nat
  BY BoundAssumption DEF TypeOK
<1>1. call[s].pc = "write" /\ UNCHANGED <<diskStatus, rotten, th>>
  BY DEF PutEnd, disks
<1>2. stripe[s] = "pending"
  BY <1>s, <1>1 DEF LifeOK
<1>3. Need = K + M
  BY <1>2 DEF Promised, LifeOK, Unstored
<1>4. /\ Cardinality(landed) >= K + M /\ files' = files \cup new
      /\ shard' = [shard EXCEPT ![s] = rows]
  BY <1>s, <1>t, <1>3 DEF PutEnd, Visible
<1>5. landed = Shard
  <2>1. IsFiniteSet(Shard) /\ Cardinality(Shard) = K + M
    BY FS_Interval, CodeAssumption DEF Shard
  <2>2. Cardinality(landed) <= Cardinality(Shard)
        /\ (Cardinality(landed) = Cardinality(Shard) => landed = Shard)
        /\ Cardinality(landed) \in Nat
    BY <2>1, FS_Subset, FS_CardinalityType
  <2> QED BY <1>4, <2>1, <2>2, CodeAssumption
<1>6. ASSUME NEW i \in Shard
      PROVE  /\ shard'[s][i].disk = at[i] /\ shard'[s][i].state = "ok" /\ at[i] # None
             /\ at[i] \in Disk /\ <<at[i], s, i>> \in files' \ rotten'
  <2>1. rows[i] = [disk |-> at[i], state |-> "ok"] /\ at[i] # None /\ <<at[i], s, i>> \in new
    BY <1>5
  <2>2. shard'[s] = rows
    BY <1>s, <1>t, <1>4
  <2>3. <<at[i], s, i>> \notin files
    <3>1. <<at[i], s, i>>[2] = s
      OBVIOUS
    <3> QED BY <1>2, <3>1 DEF LifeOK, Unstored
  <2>4. at[i] \in Disk
    BY <1>s, <1>t, <2>1 DEF CallState
  <2> HIDE DEF rows, new
  <2> QED BY <1>t, <1>1, <1>4, <2>1, <2>2, <2>3, <2>4
<1>7. \A t \in Thread : ~At(th'[t], s)
  BY <1>1, <1>2 DEF At, LifeOK, Unstored
<1>8. \A i \in Shard : at[i] \notin OldDisk => diskStatus[at[i]] \in Readable
  BY <1>s, <1>1, <1>6 DEF PutsOK
<1>9. ASSUME NEW i \in Shard, at[i] \notin OldDisk
      PROVE  Firm(s, i)'
  BY <1>1, <1>6, <1>7, <1>8, <1>9 DEF Firm, Sound, Intact
<1>10. \A i, j \in Shard : i # j => at[i] # at[j]
  BY <1>s, <1>1, <1>6 DEF PutsOK
<1> HIDE DEF at, landed, rows, new
<1>11. ASSUME NEW T \in SUBSET Shard, \A i, j \in T : i = j
       PROVE  Cardinality(T) <= damage + 1
  <2>1. CASE T = {}
    BY <1>t, <2>1, FS_EmptySet
  <2>2. CASE T # {}
    <3>1. PICK i \in T : T = {i}
      BY <1>11, <2>2
    <3>2. Cardinality(T) = 1
      BY <3>1, FS_Singleton
    <3> QED BY <1>t, <3>2
  <2> QED BY <2>1, <2>2
<1>12. CASE task.st = "none"
  <2>1. Doubtful(s)' = {}
    BY <1>9, <1>12 DEF Doubtful, OldDisk
  <2>2. Cardinality(Doubtful(s)') <= damage
    BY <1>t, <2>1, FS_EmptySet
  <2>3. ASSUME NEW d \in Disk
        PROVE  Cardinality(AtRisk(s, d)') <= damage + 1
    <3>1. \A i \in AtRisk(s, d)' : at[i] = d /\ i \in Shard
      BY <1>6, <2>1 DEF AtRisk, On
    <3>2. \A i, j \in AtRisk(s, d)' : i = j
      BY <1>10, <3>1
    <3>3. AtRisk(s, d)' \in SUBSET Shard
      BY DEF AtRisk, Doubtful, On
    <3> QED BY <1>11, <3>2, <3>3
  <2> QED BY <1>12, <2>2, <2>3 DEF RiskBound, SameTask
<1>13. CASE task.st # "none"
  <2>1. \A i \in AtRisk(s, task.src)' : at[i] = task.src /\ i \in Shard
    BY <1>6, <1>9, <1>13 DEF AtRisk, On, Doubtful, OldDisk, SameTask
  <2>2. \A i, j \in AtRisk(s, task.src)' : i = j
    BY <1>10, <2>1
  <2>3. AtRisk(s, task.src)' \in SUBSET Shard
    BY DEF AtRisk, Doubtful, On
  <2>4. Cardinality(AtRisk(s, task.src)') <= damage + 1
    BY <1>11, <2>2, <2>3
  <2> QED BY <1>13, <2>4 DEF RiskBound, SameTask
<1> QED BY <1>12, <1>13

LEMMA CallWell ==
  ASSUME TypeOK, LifeOK, WellNow, NEW s \in StripeId, CallNext(s), SameTask
  PROVE  WellNow'
<1>t. /\ stripe \in [StripeId -> StripeState] /\ call \in [StripeId -> CallState]
      /\ shard \in [StripeId -> [Shard -> ShardRow]] /\ rotten \subseteq files /\ files \subseteq File
  BY DEF TypeOK
<1>u. UNCHANGED <<diskStatus, up, th, damage>>
  BY DEF CallNext, PutBegin, PutEnd, DeleteBegin, DeleteRows, DeleteFiles, disks, bounds
<1>1. AllUp' /\ PlansOK' /\ StatusStays
  BY <1>u, SameOldDisk, PlansSame DEF WellNow, AllUp, StatusStays
<1>2. ASSUME PutsOK', \A o \in StripeId : o # s => stripe'[o] = stripe[o] /\ shard'[o] = shard[o],
             \A f : f[2] # s /\ f \in files \ rotten => f \in files' \ rotten',
             s \in Promised /\ stripe'[s] \in Visible => StaysWell(s) \/ RiskBound(s)'
      PROVE  WellNow'
  <2>1. ASSUME NEW o \in StripeId, o # s
        PROVE  StaysWell(o)
    <3>1. \A d, i : <<d, o, i>> \in files \ rotten => <<d, o, i>> \in files' \ rotten'
      <4>1. \A d, i : <<d, o, i>>[2] = o
        OBVIOUS
      <4> QED BY <1>2, <2>1, <4>1
    <3> QED BY <1>u, <1>1, <1>2, <2>1, <3>1, StripeKeeps DEF StaysWell
  <2>2. RiskOK'
    BY <1>u, <1>2, <2>1, PromisedStripe, RiskStep DEF WellNow
  <2> QED BY <1>1, <1>2, <2>2 DEF WellNow
<1>3. ASSUME \A o \in StripeId : call'[o].pc = "write" => call'[o] = call[o]
      PROVE  PutsOK'
  BY <1>1, <1>3, PutsStay DEF WellNow
<1>4. CASE PutBegin(s)
  <2>1. PICK p \in Placement : SetCall(s, [pc |-> "write", at |-> p])
    BY <1>4 DEF PutBegin
  <2>0. /\ p \in [Shard -> CanWrite \cup {None}]
        /\ \A i, j \in Shard : i # j /\ p[i] # None => p[i] # p[j]
    BY <2>1, PlacementIs
  <2>2. stripe' = [stripe EXCEPT ![s] = "pending"] /\ UNCHANGED <<files, rotten, shard>>
    BY <1>4 DEF PutBegin
  <2>3. PutsOK'
    <3> SUFFICES ASSUME NEW o \in StripeId, NEW i \in Shard, call'[o].pc = "write", call'[o].at[i] # None
                 PROVE  /\ \A j \in Shard : j # i => call'[o].at[j] # call'[o].at[i]
                        /\ diskStatus'[call'[o].at[i]] \in Readable \/ call'[o].at[i] \in OldDisk'
      BY DEF PutsOK
    <3>1. CASE o = s
      <4>1. call'[o].at = p
        BY <1>t, <2>1, <3>1 DEF SetCall
      <4>2. diskStatus[p[i]] \in Writable
        BY <2>0, <4>1, <3>1 DEF CanWrite
      <4> QED BY <1>u, <2>0, <3>1, <4>1, <4>2 DEF Writable, Readable
    <3>2. CASE o # s
      <4>1. call'[o] = call[o]
        BY <1>t, <2>1, <3>2 DEF SetCall
      <4> QED BY <1>u, <4>1, SameOldDisk DEF WellNow, PutsOK
    <3> QED BY <3>1, <3>2
  <2>4. stripe'[s] \notin Visible
    BY <1>t, <2>2 DEF Visible
  <2> QED BY <1>t, <1>2, <2>2, <2>3, <2>4
<1>5. CASE PutEnd(s)
  <2>1. SetCall(s, IdleCall) /\ rotten' = rotten /\ files \subseteq files'
    BY <1>5 DEF PutEnd
  <2>2. \A o \in StripeId : o # s => stripe'[o] = stripe[o] /\ shard'[o] = shard[o]
    BY <1>5, <1>t DEF PutEnd
  <2>3. PutsOK'
    BY <1>3, <1>t, <2>1, IdleType DEF SetCall
  <2>4. s \in Promised /\ stripe'[s] \in Visible => RiskBound(s)'
    BY <1>5, <1>u, PutRisk DEF WellNow
  <2> QED BY <1>2, <2>1, <2>2, <2>3, <2>4
<1>6. CASE DeleteBegin(s)
  <2>1. UNCHANGED <<files, rotten, stripe, shard>> /\ \E a : SetCall(s, [pc |-> "delete", at |-> a])
    BY <1>6 DEF DeleteBegin, tables
  <2>2. PutsOK'
    BY <1>3, <1>t, <2>1 DEF SetCall
  <2>3. StaysWell(s)
    BY <1>u, <1>1, <2>1, StripeKeeps DEF StaysWell
  <2> QED BY <1>2, <2>1, <2>2, <2>3
<1>7. CASE DeleteRows(s)
  <2> DEFINE c == [call[s] EXCEPT !.pc = "unlink"]
  <2>1. /\ SetCall(s, c) /\ stripe' = [stripe EXCEPT ![s] = "gone"]
        /\ shard' = [shard EXCEPT ![s] = NoRows] /\ UNCHANGED <<files, rotten>>
    BY <1>7 DEF DeleteRows
  <2>2. c.pc = "unlink"
    BY <1>t DEF CallState
  <2> HIDE DEF c
  <2>3. PutsOK'
    BY <1>3, <1>t, <2>1, <2>2 DEF SetCall
  <2>4. stripe'[s] \notin Visible
    BY <1>t, <2>1 DEF Visible
  <2> QED BY <1>t, <1>2, <2>1, <2>3, <2>4
<1>8. CASE DeleteFiles(s)
  <2> DEFINE A == {<<call[s].at[i], s, i>> : i \in {j \in Shard : call[s].at[j] # None}}
             F == {f \in A : up[f[1]]}
  <2>1. call[s].pc = "unlink" /\ SetCall(s, IdleCall) /\ UNCHANGED <<stripe, shard>>
        /\ files' = files \ F /\ rotten' = rotten \ F
    BY <1>8 DEF DeleteFiles, tables
  <2>2. \A f \in F : f[2] = s
    OBVIOUS
  <2> HIDE DEF F
  <2>3. PutsOK'
    BY <1>3, <1>t, <2>1, IdleType DEF SetCall
  <2>4. stripe'[s] \notin Visible
    BY <2>1 DEF LifeOK, Visible
  <2> QED BY <1>2, <2>1, <2>2, <2>3, <2>4
<1> QED BY <1>4, <1>5, <1>6, <1>7, <1>8 DEF CallNext

(* A damaged file is one shard more in doubt.                                *)
LEMMA GrowsByOne ==
  ASSUME NEW T \in SUBSET Shard, NEW U \in SUBSET Shard, NEW j \in Shard, T \subseteq U \cup {j},
         NEW n \in Nat, Cardinality(U) <= n
  PROVE  Cardinality(T) <= n + 1
<1>1. Cardinality(U) \in Nat /\ IsFiniteSet(U)
  BY LostIsFinite
<1>2. Cardinality(U \cup {j}) = IF j \in U THEN Cardinality(U) ELSE Cardinality(U) + 1
  BY <1>1, FS_AddElement
<1>3. Cardinality(U \cup {j}) <= n + 1
  BY <1>1, <1>2
<1>4. U \cup {j} \in SUBSET Shard /\ n + 1 \in Nat
  OBVIOUS
<1> QED BY <1>3, <1>4, SubsetBound

LEMMA DamageWell ==
  ASSUME TypeOK, WellNow, NEW f \in File, Damage(f), SameTask
  PROVE  WellNow'
<1>1. /\ UNCHANGED <<diskStatus, up, stripe, shard, th, call>> /\ damage' = damage + 1
      /\ (files \ rotten) \ {f} \subseteq files' \ rotten'
  BY DEF Damage, disks, tables, TypeOK
<1>2. AllUp' /\ PlansOK' /\ PutsOK'
  BY <1>1, SameOldDisk, PlansSame, PutsStay DEF WellNow, AllUp, StatusStays
<1>3. f[3] \in Shard /\ damage \in Nat
  BY BoundAssumption DEF File, TypeOK
<1>4. ASSUME NEW s \in Promised, stripe'[s] \in Visible
      PROVE  RiskBound(s)'
  <2>1. s \in StripeId /\ RiskBound(s)
    BY <1>1, <1>4, PromisedStripe DEF WellNow, RiskOK
  <2>2. ASSUME NEW i \in Shard, i # f[3], Firm(s, i)
        PROVE  Firm(s, i)' /\ SameDisk(s, i)
    <3>1. /\ <<shard[s][i].disk, s, i>> \in files \ rotten
          /\ shard[s][i].state # "missing" /\ diskStatus[shard[s][i].disk] \in Readable
      BY <2>1, <2>2, FirmDisk
    <3>2. <<shard[s][i].disk, s, i>>[3] = i
      OBVIOUS
    <3>3. <<shard[s][i].disk, s, i>> \in files' \ rotten'
      BY <1>1, <2>2, <3>1, <3>2
    <3>4. OthersStay(Rebuilder)
      BY <1>1 DEF OthersStay
    <3>5. At(th'[Rebuilder], s) => Trusts(th'[Rebuilder], i, shard[s][i].disk)
      BY <1>1, <2>2 DEF Firm, Thread, Repairer
    <3> QED BY <1>1, <2>1, <2>2, <3>1, <3>3, <3>4, <3>5, FirmStays DEF SameDisk
  <2>3. /\ Doubtful(s) \in SUBSET Shard /\ Doubtful(s)' \in SUBSET Shard
        /\ \A d \in Disk : AtRisk(s, d) \in SUBSET Shard /\ AtRisk(s, d)' \in SUBSET Shard
    BY DEF AtRisk, Doubtful, On
  <2>4. Doubtful(s)' \subseteq Doubtful(s) \cup {f[3]}
    BY <2>2 DEF Doubtful
  <2>5. ASSUME NEW d \in Disk
        PROVE  AtRisk(s, d)' \subseteq AtRisk(s, d) \cup {f[3]}
    BY <1>1, <2>4 DEF AtRisk, On
  <2>6. CASE task.st = "none"
    <3>1. Cardinality(Doubtful(s)) <= damage /\ \A d \in Disk : Cardinality(AtRisk(s, d)) <= damage + 1
      BY <2>1, <2>6 DEF RiskBound
    <3>2. Cardinality(Doubtful(s)') <= damage + 1
      BY <1>3, <2>3, <2>4, <3>1, GrowsByOne
    <3>3. ASSUME NEW d \in Disk
          PROVE  Cardinality(AtRisk(s, d)') <= damage + 1 + 1
      <4>1. damage + 1 \in Nat
        BY <1>3
      <4> QED BY <1>3, <2>3, <2>5, <3>1, <4>1, GrowsByOne
    <3> QED BY <1>1, <2>6, <3>2, <3>3 DEF RiskBound, SameTask
  <2>7. CASE task.st # "none"
    <3>1. Cardinality(AtRisk(s, task.src)) <= damage + 1
      BY <2>1, <2>7 DEF RiskBound
    <3>2. AtRisk(s, task.src)' \subseteq AtRisk(s, task.src) \cup {f[3]}
      BY <1>1, <2>4 DEF AtRisk, On, SameTask
    <3>3. AtRisk(s, task.src) \in SUBSET Shard /\ AtRisk(s, task.src)' \in SUBSET Shard
      BY DEF AtRisk, Doubtful, On
    <3>4. Cardinality(AtRisk(s, task.src)') <= damage + 1 + 1
      <4>1. damage + 1 \in Nat
        BY <1>3
      <4> QED BY <1>3, <3>1, <3>2, <3>3, <4>1, GrowsByOne
    <3> QED BY <1>1, <2>7, <3>4 DEF RiskBound, SameTask
  <2> QED BY <2>6, <2>7
<1>5. RiskOK'
  BY <1>4 DEF RiskOK, Promised
<1> QED BY <1>2, <1>5 DEF WellNow

(* Crashes: the threads forget, and what they worked at stays as it is.      *)
LEMMA CrashWell ==
  ASSUME TypeOK, WellNow, Crash, SameTask
  PROVE  WellNow'
<1>1. /\ th' = [t \in Thread |-> IdleThread] /\ call' = [s \in StripeId |-> IdleCall]
      /\ stripe' = [s \in StripeId |-> IF stripe[s] = "pending" THEN "gone" ELSE stripe[s]]
      /\ UNCHANGED <<diskStatus, up, files, rotten, shard, damage>>
  BY DEF Crash, disks
<1>2. \A t \in Thread, s \in StripeId : ~At(th'[t], s)
  BY <1>1, IdlePlanned
<1>3. ASSUME NEW s \in StripeId
      PROVE  StaysWell(s)
  <2>1. stripe'[s] \in Visible => stripe[s] \in Visible
    BY <1>1 DEF Visible
  <2>2. \A i \in Shard : Firm(s, i) => Firm(s, i)' /\ SameDisk(s, i)
    BY <1>1, <1>2 DEF Firm, Sound, Intact, SameDisk
  <2> QED BY <2>1, <2>2 DEF StaysWell, Keeps
<1>4. PlansOK'
  BY <1>1, IdlePlanned DEF PlansOK, Planned
<1>5. PutsOK'
  BY <1>1, IdleType DEF PutsOK
<1> QED BY <1>1, <1>3, <1>4, <1>5, WellStays DEF WellNow, AllUp

(* The disk to replace is known.                                             *)
LEMMA ReplaceWell ==
  ASSUME TypeOK, WellNow, NEW src \in Disk, NEW dst \in Disk, Replace(src, dst)
  PROVE  WellNow'
<1>1. /\ task.st = "none" /\ diskStatus[dst] = "absent"
      /\ diskStatus' = [diskStatus EXCEPT ![dst] = "online"]
      /\ task' = [st |-> "queued", src |-> src, dst |-> dst]
      /\ UNCHANGED <<up, files, rotten, stripe, shard, th, call, damage>>
  BY DEF Replace, tables, bounds
<1>2. diskStatus \in [Disk -> Status] /\ OldDisk = {} /\ task'.st # "none" /\ task'.src = src
  BY <1>1 DEF TypeOK, OldDisk
<1>3. StatusStays
  BY <1>1, <1>2 DEF StatusStays, Readable
<1>4. AllUp' /\ PlansOK'
  BY <1>1, <1>2 DEF WellNow, AllUp, PlansOK, Planned, OldDisk
<1>5. PutsOK'
  <2> SUFFICES ASSUME NEW s \in StripeId, NEW i \in Shard, call[s].pc = "write", call[s].at[i] # None
               PROVE  /\ \A j \in Shard : j # i => call[s].at[j] # call[s].at[i]
                      /\ diskStatus'[call[s].at[i]] \in Readable
    BY <1>1 DEF PutsOK
  <2>1. call[s].at[i] \in Disk
    BY DEF TypeOK, CallState
  <2>2. diskStatus[call[s].at[i]] \in Readable
    BY <1>2 DEF WellNow, PutsOK
  <2> QED BY <1>2, <1>3, <2>1, <2>2 DEF StatusStays, WellNow, PutsOK
<1>6. ASSUME NEW s \in Promised, stripe'[s] \in Visible
      PROVE  RiskBound(s)'
  <2>1. s \in StripeId /\ RiskBound(s)
    BY <1>1, <1>6, PromisedStripe DEF WellNow, RiskOK
  <2>2. Keeps(s)
    BY <1>1, <1>3, <2>1, StripeKeeps
  <2>3. Cardinality(AtRisk(s, src)) <= damage + 1
    BY <1>1, <2>1 DEF RiskBound
  <2>4. AtRisk(s, src)' \subseteq AtRisk(s, src)
    BY <1>1, <1>2, <2>2 DEF Keeps, AtRisk, Doubtful, On
  <2>5. AtRisk(s, src) \in SUBSET Shard /\ AtRisk(s, src)' \in SUBSET Shard /\ damage + 1 \in Nat
    BY BoundAssumption DEF AtRisk, Doubtful, On, TypeOK
  <2>6. Cardinality(AtRisk(s, src)') <= damage + 1
    BY <2>3, <2>4, <2>5, SubsetBound
  <2>7. AtRisk(s, task.src)' = AtRisk(s, src)'
    BY <1>2 DEF AtRisk, Doubtful, On
  <2> QED BY <1>1, <1>2, <2>6, <2>7 DEF RiskBound
<1>7. RiskOK'
  BY <1>6 DEF RiskOK, Promised
<1> QED BY <1>4, <1>5, <1>7 DEF WellNow

-----------------------------------------------------------------------------
(* Enough is read.                                                           *)

LEMMA DoubtBound ==
  ASSUME TypeOK, task.st # "none" => task.src \in Disk, NEW s \in StripeId, RiskBound(s), damage < M
  PROVE  Cardinality(Doubtful(s)) <= M
<1>1. damage \in Nat /\ M \in Nat /\ damage + 1 \in Nat
  BY BoundAssumption, CodeAssumption DEF TypeOK
<1>2. Doubtful(s) \in SUBSET Shard /\ Cardinality(Doubtful(s)) \in Nat
  BY LostIsFinite DEF Doubtful
<1>3. Cardinality(Doubtful(s)) <= damage + 1
  <2>1. CASE task.st = "none"
    BY <1>1, <1>2, <2>1 DEF RiskBound
  <2>2. CASE task.st # "none"
    <3>1. Doubtful(s) \subseteq AtRisk(s, task.src) /\ AtRisk(s, task.src) \in SUBSET Shard
      BY DEF AtRisk, Doubtful, On
    <3>2. Cardinality(AtRisk(s, task.src)) <= damage + 1
      BY <2>2 DEF RiskBound
    <3> QED BY <1>1, <1>2, <3>1, <3>2, SubsetBound
  <2> QED BY <2>1, <2>2
<1> DEFINE c == Cardinality(Doubtful(s))
<1>4. c \in Nat /\ c <= damage + 1
  BY <1>2, <1>3
<1> HIDE DEF c
<1>5. c <= M
  BY <1>1, <1>4
<1> QED BY <1>5 DEF c

(* A set that holds all that is not in doubt holds K shards.                 *)
LEMMA EnoughLeft ==
  ASSUME NEW D \in SUBSET Shard, Cardinality(D) <= M, NEW G \in SUBSET Shard, Shard \ D \subseteq G
  PROVE  Cardinality(G) >= K
<1>1. IsFiniteSet(Shard) /\ Cardinality(Shard) = K + M
  BY FS_Interval, CodeAssumption DEF Shard
<1>2. Cardinality(Shard \ D) = Cardinality(Shard) - Cardinality(Shard \cap D)
  BY <1>1, FS_Difference
<1>3. Shard \cap D = D
  OBVIOUS
<1>4. Cardinality(Shard \ D) <= Cardinality(G)
  BY LostIsFinite, FS_Subset
<1>5. Cardinality(D) \in Nat /\ Cardinality(G) \in Nat /\ Cardinality(Shard \ D) \in Nat
  BY LostIsFinite
<1> DEFINE c == Cardinality(Shard \ D)
           e == Cardinality(D)
           g == Cardinality(G)
           a == Cardinality(Shard)
           b == Cardinality(Shard \cap D)
<1>6. b = e
  BY <1>3
<1>7. c <= g /\ c = a - b /\ a = K + M /\ e <= M /\ c \in Nat /\ e \in Nat /\ g \in Nat
  BY <1>1, <1>2, <1>4, <1>5
<1> HIDE DEF c, e, g, a, b
<1>8. g >= K
  BY <1>6, <1>7, CodeAssumption
<1> QED BY <1>8 DEF g

LEMMA EnoughRead ==
  ASSUME TypeOK, task.st # "none" => task.src \in Disk, NEW t \in Thread, ReadOver(t),
         RiskBound(th[t].sid), damage < M
  PROVE  Cardinality(th[t].got) >= K
<1> SUFFICES ASSUME ~(Cardinality(th[t].got) >= K)
             PROVE  FALSE
  OBVIOUS
<1>1. /\ th[t].pc = "read" /\ th[t].sid \in StripeId /\ th[t].got \in SUBSET Shard
      /\ th[t].next \in 0 .. (K + M)
  BY ThreadFields DEF ReadOver, ThreadState
<1>2. th[t].next = K + M
  <2>1. Cardinality(th[t].got) < K
    <3>1. Cardinality(th[t].got) \in Nat
      BY <1>1, LostIsFinite
    <3> QED BY <3>1, CodeAssumption
  <2>2. th[t].next \notin Shard
    BY <1>1, <2>1 DEF ReadOver, Reading
  <2> QED BY <1>1, <2>2, CodeAssumption DEF Shard
<1>3. Cardinality(Doubtful(th[t].sid)) <= M
  BY <1>1, DoubtBound
<1>4. Shard \ Doubtful(th[t].sid) \subseteq th[t].got
  BY <1>1, <1>2, FirmIsGot DEF Doubtful, At
<1> QED BY <1>1, <1>3, <1>4, EnoughLeft DEF Doubtful

(* No verdict is "unrecoverable".                                            *)
LEMMA VerdictWell ==
  ASSUME TypeOK, task.st # "none" => task.src \in Disk, LifeOK, RiskOK, damage < M,
         NEW t \in Thread, ReadEnd(t) \/ RepairReturns(t),
         NEW s \in Promised, stripe[s] # "unrecoverable"
  PROVE  stripe'[s] # "unrecoverable"
<1> SUFFICES ASSUME stripe'[s] = "unrecoverable" PROVE FALSE
  OBVIOUS
<1>t. stripe \in [StripeId -> StripeState] /\ s \in StripeId
  BY PromisedStripe DEF TypeOK
<1>1. ReadOver(t) \/ RepairEnd(t)
  BY DEF ReadEnd, RepairReturns, RepairVerdict
<1>2. th[t].pc # "idle" /\ th[t].sid \in StripeId
  BY <1>1, ThreadFields DEF ReadOver, RepairEnd
<1>3. \/ UNCHANGED stripe
      \/ SetStripe(th[t].sid, "committed")
      \/ /\ SetStripe(th[t].sid, "unrecoverable") /\ ReadOver(t)
         /\ ~(Cardinality(th[t].got) >= K)
  <2>1. CASE ReadEnd(t)
    BY <2>1 DEF ReadEnd
  <2>2. CASE RepairVerdict(t)
    <3>1. Cardinality(th[t].got) \in Nat
      BY LostIsFinite, ThreadFields DEF ThreadState
    <3> QED BY <2>2, <3>1, CodeAssumption DEF RepairVerdict
  <2>3. CASE RepairEnd(t)
    BY <2>3 DEF RepairEnd
  <2> QED BY <2>1, <2>2, <2>3 DEF RepairReturns
<1>4. CASE UNCHANGED stripe
  BY <1>4
<1>5. CASE SetStripe(th[t].sid, "committed")
  BY <1>t, <1>2, <1>5 DEF SetStripe
<1>6. CASE /\ SetStripe(th[t].sid, "unrecoverable") /\ ReadOver(t)
           /\ ~(Cardinality(th[t].got) >= K)
  <2>1. s = th[t].sid
    BY <1>t, <1>2, <1>6 DEF SetStripe
  <2>2. stripe[s] \in Visible
    <3>1. stripe[s] \notin Unstored
      BY <1>2, <2>1 DEF LifeOK
    <3>2. stripe[s] # "gone"
      BY <1>6, <2>1 DEF SetStripe
    <3> QED BY <1>t, <3>1, <3>2 DEF StripeState, Unstored, Visible
  <2>3. RiskBound(th[t].sid)
    BY <2>1, <2>2 DEF RiskOK
  <2> QED BY <1>6, <2>3, EnoughRead
<1> QED BY <1>3, <1>4, <1>5, <1>6

-----------------------------------------------------------------------------
(* The invariant, step by step.                                              *)

(* What a step of a replacement does to its task.                            *)
LEMMA TaskStays ==
  ASSUME JobTypeOK, RNext, \A src, dst \in Disk : ~Replace(src, dst)
  PROVE  SameTask /\ (task.st # "none" => task.src \in Disk)
<1>1. task \in Task /\ (task.st # "none" => task.src \in Disk) /\ (job.pc # "idle" => task.st # "none")
  BY DEF JobTypeOK
<1>2. ASSUME NEW st, st # "none", task.st # "none", task' = [task EXCEPT !.st = st]
      PROVE  SameTask
  <2>1. task'.st = st /\ task'.src = task.src
    BY <1>1, <1>2 DEF Task
  <2> QED BY <1>2, <2>1 DEF SameTask
<1>3. CASE UNCHANGED task
  BY <1>1, <1>3 DEF SameTask
<1>4. CASE JobStart
  <2>1. task.st # "none" /\ task' = [task EXCEPT !.st = "running"]
    BY <1>4 DEF JobStart, PendingTask
  <2>2. "running" # "none"
    OBVIOUS
  <2> QED BY <1>1, <1>2, <2>1, <2>2
<1>5. CASE JobBatch
  <2>1. task.st # "none"
    BY <1>1, <1>5 DEF JobBatch
  <2>2. CASE {s \in StripeId : On(s, task.src) # {}} # {}
    BY <1>3, <1>5, <2>2 DEF JobBatch
  <2>3. CASE {s \in StripeId : On(s, task.src) # {}} = {}
    <3> DEFINE st == IF job.failed THEN "failed" ELSE "done"
    <3>1. task' = [task EXCEPT !.st = st]
      BY <1>5, <2>3 DEF JobBatch
    <3>2. st # "none"
      OBVIOUS
    <3> HIDE DEF st
    <3> QED BY <1>1, <1>2, <2>1, <3>1, <3>2
  <2> QED BY <2>2, <2>3
<1>6. CASE JobRaises
  BY <1>1, <1>2, <1>6 DEF JobRaises
<1>7. CASE JobStops
  <2>1. job.pc # "idle" /\ task' = [task EXCEPT !.st = "queued"]
    BY <1>7 DEF JobStops
  <2> QED BY <1>1, <1>2, <2>1
<1>8. CASE \/ (\E s \in StripeId : JobEach(s)) \/ JobEachEnds \/ JobRepair \/ JobSkip
           \/ JobRepairReturns \/ JobCount \/ JobDetach \/ JobRetire \/ JobOpen
  BY <1>3, <1>8 DEF JobEach, JobEachEnds, JobRepair, JobSkip, JobRepairReturns, JobCount, JobDetach,
                    JobRetire, JobOpen
<1> QED BY <1>1, <1>3, <1>4, <1>5, <1>6, <1>7, <1>8 DEF RNext, JobStep, jobVars

(* Rows that are detached were on the old disk.                              *)
LEMMA DetachKeeps ==
  ASSUME JobTypeOK, JobDetach
  PROVE  \A s \in StripeId : Keeps(s)
<1> DEFINE w == [i \in Shard |-> IF i \in On(job.sid, task.src)
                                 THEN [disk |-> None, state |-> "missing"]
                                 ELSE shard[job.sid][i]]
<1>1. /\ shard' = [shard EXCEPT ![job.sid] = w]
      /\ UNCHANGED <<files, rotten, th, diskStatus>> /\ job.pc = "detach"
  BY DEF JobDetach, disks
<1>2. /\ TypeOK /\ job.sid \in StripeId /\ shard \in [StripeId -> [Shard -> ShardRow]]
      /\ task.st # "none"
  BY <1>1 DEF JobTypeOK, TypeOK
<1>3. \A i \in Shard : shard[job.sid][i].disk # task.src => w[i] = shard[job.sid][i]
  BY DEF On
<1> HIDE DEF w
<1> SUFFICES ASSUME NEW s \in StripeId, NEW i \in Shard, Firm(s, i), shard[s][i].disk \notin OldDisk
             PROVE  Firm(s, i)' /\ SameDisk(s, i)
  BY DEF Keeps
<1>4. shard[s][i].disk # task.src
  BY <1>2 DEF OldDisk
<1>5. shard'[s][i] = shard[s][i]
  BY <1>1, <1>2, <1>3, <1>4
<1>6. /\ <<shard[s][i].disk, s, i>> \in files \ rotten
      /\ shard[s][i].state # "missing" /\ diskStatus[shard[s][i].disk] \in Readable
  BY <1>2, FirmDisk
<1>7. OthersStay(Rebuilder)
  BY <1>1 DEF OthersStay
<1>8. At(th'[Rebuilder], s) => Trusts(th'[Rebuilder], i, shard[s][i].disk)
  BY <1>1 DEF Firm, Thread, Repairer
<1> QED BY <1>1, <1>5, <1>6, <1>7, <1>8, FirmStays DEF SameDisk

LEMMA ServerWell ==
  ASSUME TypeOK, LifeOK, WellNow, ServerNext \/ EnvNext, SameTask, faults' = 0
  PROVE  WellNow'
<1>1. \A t \in Scrubber \cup Reader : t \in Thread /\ t # Rebuilder
  BY NoneAssumption DEF Thread, Repairer
<1>f. UNCHANGED <<files, rotten>> => SafeFilesStay
  BY DEF SafeFilesStay
<1>2. ASSUME NEW t \in Scrubber \cup Reader, NEW s \in StripeId, Begin(t, s, {})
      PROVE  WellNow'
  BY <1>1, <1>2, BeginStepWell
<1>3. ASSUME NEW t \in Thread, RepairReturns(t) \/ ReadEnd(t)
      PROVE  WellNow'
  <2>1. SetT(t, IdleThread) /\ UNCHANGED <<disks, files, rotten, shard, call, damage>>
    BY <1>3 DEF RepairReturns, RepairVerdict, RepairEnd, ReadEnd, bounds
  <2> QED BY <1>3, <2>1, EndFacts, EndStepWell
<1>4. ASSUME NEW t \in Scrubber, ScrubRaises(t)
      PROVE  WellNow'
  <2>1. SetT(t, IdleThread) /\ UNCHANGED <<disks, files, rotten, shard, call, damage, stripe>>
    BY <1>4 DEF ScrubRaises, Raises, tables
  <2> QED BY <1>1, <2>1, SameQuiet, EndStepWell
<1>5. ASSUME NEW d \in Disk, HealthList(d)
      PROVE  WellNow'
  <2>1. UNCHANGED <<th, stripe, shard, damage, files, rotten, diskStatus, up, call>>
    BY <1>5 DEF HealthList, disks, tables, bounds
  <2> QED BY <1>f, <2>1, IdleWell DEF StatusStays, WellNow, AllUp
<1>6. CASE HealthProbe
  <2>1. UNCHANGED <<th, stripe, shard, damage, files, rotten, up, call>>
    BY <1>6 DEF HealthProbe, tables, bounds
  <2>2. hc.disk \in Disk /\ up[hc.disk]
    BY <1>6 DEF HealthProbe, TypeOK, Check, WellNow, AllUp
  <2>3. UNCHANGED diskStatus \/ diskStatus' = [diskStatus EXCEPT ![hc.disk] = "online"]
    BY <1>6, <2>2 DEF HealthProbe
  <2>4. StatusStays
    BY <2>3 DEF StatusStays, TypeOK, Readable
  <2> QED BY <1>f, <2>1, <2>4, IdleWell DEF WellNow, AllUp
<1>7. ASSUME NEW d \in Disk, DiskDown(d) \/ DiskUp(d)
      PROVE  FALSE
  <2>1. faults \in Nat
    BY BoundAssumption DEF TypeOK
  <2> QED BY <1>7, <2>1 DEF DiskDown, DiskUp, WellNow, AllUp
<1> QED BY <1>1, <1>2, <1>3, <1>4, <1>5, <1>6, <1>7, RepairStepWell, CallWell, DamageWell
        DEF ServerNext, EnvNext, HealthNext

LEMMA JobWell ==
  ASSUME JobTypeOK, LifeOK, WellNow, JobStep, SameTask
  PROVE  WellNow'
<1>i. TypeOK /\ Rebuilder \in Thread /\ diskStatus \in [Disk -> Status]
  BY DEF JobTypeOK, Thread, Repairer, TypeOK
<1>d. job.pc # "idle" => task.st # "none" /\ task.src \in Disk /\ task.dst \in Disk
  BY DEF JobTypeOK
<1>1. CASE JobStart \/ JobRetire \/ JobOpen
  <2>1. UNCHANGED <<th, stripe, shard, damage, files, rotten, up, call>>
    BY <1>1 DEF JobStart, JobRetire, JobOpen, tables, bounds
  <2>2. StatusStays
    <3>1. CASE JobStart
      BY <1>i, <3>1 DEF JobStart, StatusStays, Readable
    <3>2. CASE JobRetire
      BY <1>i, <1>d, <3>2 DEF JobRetire, StatusStays, OldDisk
    <3>3. CASE JobOpen
      BY <1>i, <3>3 DEF JobOpen, StatusStays, Readable
    <3> QED BY <1>1, <3>1, <3>2, <3>3
  <2>3. AllUp' /\ SafeFilesStay
    BY <2>1 DEF WellNow, AllUp, SafeFilesStay
  <2> QED BY <1>i, <2>1, <2>2, <2>3, IdleWell
<1>2. CASE JobBatch \/ (\E s \in StripeId : JobEach(s)) \/ JobEachEnds \/ JobSkip \/ JobCount
  <2>1. UNCHANGED <<th, stripe, shard, damage, files, rotten, up, call, diskStatus>>
    BY <1>2 DEF JobBatch, JobEach, JobEachEnds, JobSkip, JobCount, vars
  <2>2. AllUp' /\ SafeFilesStay /\ StatusStays
    BY <2>1 DEF WellNow, AllUp, SafeFilesStay, StatusStays
  <2> QED BY <1>i, <2>1, <2>2, IdleWell
<1>3. CASE JobRepair
  <2>1. job.pc = "before" /\ Begin(Rebuilder, job.sid, {task.src})
    BY <1>3 DEF JobRepair
  <2>2. job.sid \in StripeId /\ {task.src} \in SUBSET Disk /\ {task.src} \subseteq OldDisk
    BY <1>d, <2>1 DEF JobTypeOK, OldDisk
  <2> QED BY <1>i, <2>1, <2>2, BeginStepWell
<1>4. CASE RepairStep(Rebuilder)
  BY <1>i, <1>4, RepairStepWell
<1>5. CASE JobRepairReturns
  <2>1. RepairReturns(Rebuilder)
    BY <1>5 DEF JobRepairReturns
  <2>2. SetT(Rebuilder, IdleThread) /\ UNCHANGED <<disks, files, rotten, shard, call, damage>>
    BY <2>1 DEF RepairReturns, RepairVerdict, RepairEnd, bounds
  <2> QED BY <1>i, <2>1, <2>2, EndFacts, EndStepWell
<1>6. CASE JobDetach
  <2>1. UNCHANGED <<th, stripe, damage, up, call, diskStatus>>
    BY <1>6 DEF JobDetach, disks, bounds
  <2>2. \A s \in StripeId : StaysWell(s)
    BY <1>6, <2>1, DetachKeeps DEF StaysWell
  <2>3. PlansOK' /\ PutsOK' /\ AllUp'
    BY <1>i, <2>1, SameOldDisk, PlansSame, PutsStay DEF WellNow, AllUp, StatusStays
  <2> QED BY <1>i, <2>1, <2>2, <2>3, WellStays
<1> QED BY <1>1, <1>2, <1>3, <1>4, <1>5, <1>6 DEF JobStep

LEMMA WellNowStep ==
  ASSUME JobTypeOK, LifeOK, WellNow, RNext, faults' = 0
  PROVE  WellNow'
<1>i. TypeOK /\ Rebuilder \in Thread
  BY DEF JobTypeOK, Thread, Repairer
<1>1. ASSUME NEW src \in Disk, NEW dst \in Disk, Replace(src, dst)
      PROVE  WellNow'
  BY <1>i, <1>1, ReplaceWell
<1>2. CASE \A src, dst \in Disk : ~Replace(src, dst)
  <2>1. SameTask
    BY <1>2, TaskStays
  <2>2. CASE JobRaises
    <3>1. SetT(Rebuilder, IdleThread) /\ UNCHANGED <<disks, files, rotten, shard, call, damage, stripe>>
      BY <2>2 DEF JobRaises, Raises, tables
    <3> QED BY <1>i, <2>1, <3>1, SameQuiet, EndStepWell
  <2> QED BY <1>2, <1>i, <2>1, <2>2, ServerWell, CrashWell, JobWell DEF RNext, JobStops
<1> QED BY <1>1, <1>2

(* The counts of damage and faults only grow, and a stripe is taken for      *)
(* unrecoverable at the end of a read or repair alone.                       *)
Grows == faults <= faults' /\ damage <= damage'
OnlyVerdicts ==
  \A s \in StripeId : stripe'[s] = "unrecoverable" =>
    stripe[s] = "unrecoverable" \/ \E t \in Thread : ReadEnd(t) \/ RepairReturns(t)

LEMMA CallGrows ==
  ASSUME TypeOK, NEW s \in StripeId, CallNext(s)
  PROVE  UNCHANGED bounds /\ OnlyVerdicts
<1>i. stripe \in [StripeId -> StripeState]
  BY DEF TypeOK
<1>1. UNCHANGED bounds
  BY DEF CallNext, PutBegin, PutEnd, DeleteBegin, DeleteRows, DeleteFiles
<1>2. UNCHANGED stripe \/ \E st \in {"pending", "committed", "gone"} : stripe' = [stripe EXCEPT ![s] = st]
  BY DEF CallNext, PutBegin, PutEnd, DeleteBegin, DeleteRows, DeleteFiles, tables
<1> QED BY <1>i, <1>1, <1>2 DEF OnlyVerdicts

LEMMA GrowsStep ==
  ASSUME JobTypeOK, RNext
  PROVE  Grows /\ OnlyVerdicts
<1>i. TypeOK /\ faults \in Nat /\ damage \in Nat /\ Rebuilder \in Thread
  BY BoundAssumption DEF JobTypeOK, TypeOK, Thread, Repairer
<1>s. \A t \in Scrubber \cup Reader : t \in Thread
  BY DEF Thread, Repairer
<1>q. ASSUME UNCHANGED <<damage, faults>>, UNCHANGED stripe
      PROVE  Grows /\ OnlyVerdicts
  BY <1>i, <1>q DEF Grows, OnlyVerdicts
<1>1. ASSUME NEW t \in Thread, ReadEnd(t) \/ RepairReturns(t)
      PROVE  Grows /\ OnlyVerdicts
  <2>1. UNCHANGED bounds
    BY <1>1 DEF ReadEnd, RepairReturns, RepairVerdict, RepairEnd
  <2> QED BY <1>i, <1>1, <2>1 DEF Grows, OnlyVerdicts, bounds
<1>2. ASSUME NEW t \in Thread, RepairStep(t) \/ ReadShardStep(t)
      PROVE  Grows /\ OnlyVerdicts
  BY <1>q, <1>2, StepUnchanged
<1>3. CASE ServerNext \/ EnvNext
  <2>1. ASSUME NEW t \in Thread, NEW s \in StripeId, Begin(t, s, {})
        PROVE  Grows /\ OnlyVerdicts
    BY <1>q, <2>1 DEF Begin, tables, bounds
  <2>2. ASSUME NEW t \in Thread, ScrubRaises(t)
        PROVE  Grows /\ OnlyVerdicts
    BY <1>q, <2>2 DEF ScrubRaises, tables
  <2>3. CASE HealthNext
    BY <1>q, <2>3 DEF HealthNext, HealthProbe, HealthList, tables, bounds
  <2>4. ASSUME NEW s \in StripeId, CallNext(s)
        PROVE  Grows /\ OnlyVerdicts
    BY <1>i, <2>4, CallGrows DEF Grows, bounds
  <2>5. CASE EnvNext
    <3>1. UNCHANGED stripe /\ damage' \in {damage, damage + 1} /\ faults' \in {faults, faults + 1}
      BY <2>5 DEF EnvNext, Damage, DiskDown, DiskUp, tables, bounds
    <3> QED BY <1>i, <3>1 DEF Grows, OnlyVerdicts
  <2> QED BY <1>s, <1>1, <1>2, <1>3, <2>1, <2>2, <2>3, <2>4, <2>5 DEF ServerNext
<1>4. CASE Crash
  <2>1. UNCHANGED <<damage, faults>> /\ \A s \in StripeId : stripe'[s] \in {"gone", stripe[s]}
    BY <1>4 DEF Crash
  <2> QED BY <1>i, <2>1 DEF Grows, OnlyVerdicts
<1>5. ASSUME NEW src \in Disk, NEW dst \in Disk, Replace(src, dst)
      PROVE  Grows /\ OnlyVerdicts
  BY <1>q, <1>5 DEF Replace, tables, bounds
<1>6. CASE JobStep
  <2>1. CASE \/ JobStart \/ JobBatch \/ (\E s \in StripeId : JobEach(s)) \/ JobEachEnds \/ JobSkip
             \/ JobCount \/ JobDetach \/ JobRetire \/ JobOpen
    BY <1>q, <2>1 DEF JobStart, JobBatch, JobEach, JobEachEnds, JobSkip, JobCount, JobDetach, JobRetire,
                      JobOpen, vars, tables, bounds
  <2>2. CASE JobRepair
    BY <1>q, <2>2 DEF JobRepair, Begin, tables, bounds
  <2> QED BY <1>i, <1>1, <1>2, <1>6, <2>1, <2>2 DEF JobStep, JobRepairReturns
<1>7. CASE JobRaises
  BY <1>q, <1>7 DEF JobRaises, tables
<1> QED BY <1>3, <1>4, <1>5, <1>6, <1>7 DEF RNext, JobStops

LEMMA WellStep == WellInv /\ [RNext]_rvars => WellInv'
<1> SUFFICES ASSUME WellInv, [RNext]_rvars
             PROVE  WellInv'
  OBVIOUS
<1>i. JobTypeOK /\ LifeOK /\ ReadsContinue /\ (faults = 0 => WellNow) /\ TypeOK
  BY DEF WellInv, WellNow, JobTypeOK
<1>t. JobTypeOK' /\ TypeOK'
  BY <1>i, JobType, JobStutters DEF JobTypeOK
<1>n. damage \in Nat /\ damage' \in Nat /\ faults \in Nat /\ faults' \in Nat
  BY <1>i, <1>t, BoundAssumption DEF TypeOK
<1>1. CASE RNext
  <2>1. LifeOK'
    BY <1>i, <1>t, <1>1, LifeStep
  <2>2. faults' = 0 => faults = 0 /\ WellNow /\ WellNow'
    <3>1. faults <= faults'
      BY <1>i, <1>1, GrowsStep DEF Grows
    <3>2. faults' = 0 => faults = 0
      BY <1>n, <3>1
    <3> QED BY <1>i, <1>1, <3>2, WellNowStep
  <2>3. ReadsContinue'
    <3> SUFFICES ASSUME NEW s \in Promised, faults' = 0, damage' < M, stripe'[s] = "unrecoverable"
                 PROVE  FALSE
      BY DEF ReadsContinue
    <3>1. damage < M
      <4>1. damage <= damage'
        BY <1>i, <1>1, GrowsStep DEF Grows
      <4> QED BY <1>n, <4>1, CodeAssumption
    <3>2. faults = 0 /\ RiskOK
      BY <2>2 DEF WellNow
    <3>3. stripe[s] # "unrecoverable" /\ s \in StripeId
      BY <1>i, <3>1, <3>2, PromisedStripe DEF ReadsContinue
    <3>4. PICK t \in Thread : ReadEnd(t) \/ RepairReturns(t)
      BY <1>i, <1>1, <3>3, GrowsStep DEF OnlyVerdicts
    <3>5. task.st # "none" => task.src \in Disk
      BY <1>i DEF JobTypeOK
    <3> QED BY <1>i, <3>1, <3>2, <3>3, <3>4, <3>5, VerdictWell
  <2> QED BY <1>t, <2>1, <2>2, <2>3 DEF WellInv, WellNow
<1>2. CASE UNCHANGED rvars
  <2>1. UNCHANGED <<diskStatus, up, files, rotten, stripe, shard, th, call, damage, faults, task>>
    BY <1>2 DEF rvars, vars, jobVars
  <2>2. LifeOK'
    BY <1>i, <1>t, <2>1, SameQuiet, QuietLife DEF FilesAt
  <2>3. ReadsContinue'
    BY <1>i, <2>1 DEF ReadsContinue
  <2>4. SafeFilesStay /\ StatusStays /\ SameTask
    BY <2>1 DEF SafeFilesStay, StatusStays, SameTask
  <2>5. faults' = 0 => WellNow'
    <3> SUFFICES ASSUME faults' = 0
                 PROVE  WellNow'
      OBVIOUS
    <3>1. WellNow /\ AllUp'
      BY <1>i, <2>1 DEF WellNow, AllUp
    <3> QED BY <1>i, <2>1, <2>4, <3>1, IdleWell
  <2> QED BY <1>t, <2>2, <2>3, <2>5 DEF WellInv, WellNow
<1> QED BY <1>1, <1>2

LEMMA WellInit == RInit => WellInv
<1> SUFFICES ASSUME RInit
             PROVE  WellInv
  OBVIOUS
<1>1. PICK place \in [Stored -> {p \in [Shard -> Registered] :
                                   \A i, j \in Shard : i # j => p[i] # p[j]}] :
        /\ files = {f \in File : f[2] \in Stored /\ place[f[2]][f[3]] = f[1]}
        /\ shard = [s \in StripeId |->
                      IF s \in Stored
                      THEN [i \in Shard |-> [disk |-> place[s][i], state |-> "ok"]]
                      ELSE NoRows]
  BY DEF RInit, Init
<1>2. /\ stripe = [s \in StripeId |-> IF s \in Stored THEN "committed" ELSE "none"]
      /\ th = [t \in Thread |-> IdleThread] /\ call = [s \in StripeId |-> IdleCall]
      /\ diskStatus = [d \in Disk |-> IF d \in Registered THEN "online" ELSE "absent"]
      /\ up = [d \in Disk |-> TRUE]
      /\ rotten = {} /\ damage = 0 /\ task = NoTask
  BY DEF RInit, Init
<1>3. JobTypeOK /\ (\A t \in Thread : th[t].pc = "idle") /\ \A s \in StripeId : call[s].pc = "idle"
  BY <1>2, JobInit, IdleType DEF IdleCall
<1>4. \A s \in Stored : s \in StripeId
  BY DiskAssumption
<1>5. LifeOK
  BY <1>1, <1>2, <1>3, <1>4, IdleType DEF LifeOK, Unstored, Visible
<1>6. ReadsContinue
  BY <1>2, PromisedStripe DEF ReadsContinue
<1>7. AllUp /\ PlansOK /\ PutsOK
  BY <1>2, <1>3, IdlePlanned DEF AllUp, PlansOK, PutsOK
<1>8. ASSUME NEW s \in Promised, stripe[s] \in Visible
      PROVE  RiskBound(s)
  <2>1. s \in Stored /\ s \in StripeId
    BY <1>2, <1>8, PromisedStripe DEF Visible
  <2>p. \A i, j \in Shard : place[s][i] \in Registered /\ (i # j => place[s][i] # place[s][j])
    BY <1>1, <2>1
  <2>2. ASSUME NEW i \in Shard
        PROVE  Firm(s, i) /\ shard[s][i].disk = place[s][i]
    <3>1. shard[s][i].disk = place[s][i] /\ place[s][i] \in Disk /\ shard[s][i].state = "ok"
      BY <1>1, <2>1, <2>p, DiskAssumption
    <3>2. <<place[s][i], s, i>> \in files \ rotten
      BY <1>1, <1>2, <2>1, <3>1 DEF File
    <3>3. diskStatus[place[s][i]] \in Readable
      BY <1>2, <2>p, <3>1 DEF Readable
    <3>4. \A t \in Thread : ~At(th[t], s)
      BY <1>3 DEF At
    <3> QED BY <3>1, <3>2, <3>3, <3>4 DEF Firm, Sound, Intact
  <2>3. Doubtful(s) = {}
    BY <2>2 DEF Doubtful
  <2>4. Cardinality(Doubtful(s)) <= damage
    <3>1. Cardinality(Doubtful(s)) = 0
      BY <2>3, FS_EmptySet
    <3> QED BY <1>2, <3>1
  <2>5. ASSUME NEW d \in Disk
        PROVE  Cardinality(AtRisk(s, d)) <= damage + 1
    <3>1. AtRisk(s, d) \in SUBSET Shard /\ \A i, j \in AtRisk(s, d) : i = j
      BY <2>2, <2>3, <2>p DEF AtRisk, On
    <3>2. CASE AtRisk(s, d) = {}
      <4>1. Cardinality(AtRisk(s, d)) = 0
        BY <3>2, FS_EmptySet
      <4> QED BY <1>2, <4>1
    <3>3. CASE AtRisk(s, d) # {}
      <4>1. PICK i \in AtRisk(s, d) : AtRisk(s, d) = {i}
        BY <3>1, <3>3
      <4>2. Cardinality(AtRisk(s, d)) = 1
        BY <4>1, FS_Singleton
      <4> QED BY <1>2, <4>2
    <3> QED BY <3>2, <3>3
  <2> QED BY <1>2, <2>4, <2>5 DEF RiskBound, NoTask
<1> QED BY <1>3, <1>5, <1>6, <1>7, <1>8 DEF WellInv, RiskOK

(* While no disk went away, a shard that is firm stays where its row says    *)
(* unless it is the rebuild that moves it, and what is in doubt or still on  *)
(* the old disk is at most the damage and one shard, beside any scrubs,      *)
(* reads, puts, deletes, crashes and a replacement (run_task, repair_stripe). *)
THEOREM WellCorrect == RSpec => []WellInv
  BY WellInit, WellStep, PTL DEF RSpec

(* "Foreground reads and writes continue meanwhile": with fewer than M files *)
(* damaged, no read or repair takes a stripe that was written whole for      *)
(* unrecoverable while a disk is replaced (run_task, _read_stripe).          *)
THEOREM ReadsContinueHolds == RSpec => []ReadsContinue
<1>1. WellInv => ReadsContinue
  BY DEF WellInv
<1> QED BY <1>1, WellCorrect, PTL

(* A replacement costs no data beside any scrubs, reads, puts and crashes:   *)
(* with fewer than M files damaged and no disk away, K shards of every       *)
(* stripe that was written whole stay where their rows say, in a state a     *)
(* read tries (run_task, repair_stripe).                                     *)
THEOREM EnoughStaysSound ==
  RSpec => [](faults = 0 /\ damage < M =>
                \A s \in Promised : stripe[s] \in Visible =>
                  Cardinality({i \in Shard : Sound(s, i)}) >= K)
<1>1. WellInv => (faults = 0 /\ damage < M =>
                    \A s \in Promised : stripe[s] \in Visible =>
                      Cardinality({i \in Shard : Sound(s, i)}) >= K)
  <2> SUFFICES ASSUME WellInv, damage < M, NEW s \in Promised, stripe[s] \in Visible, faults = 0
               PROVE  Cardinality({i \in Shard : Sound(s, i)}) >= K
    OBVIOUS
  <2>1. TypeOK /\ RiskOK /\ (task.st # "none" => task.src \in Disk) /\ s \in StripeId
    BY PromisedStripe DEF WellInv, JobTypeOK
  <2>2. Cardinality(Doubtful(s)) <= M
    BY <2>1, DoubtBound DEF RiskOK
  <2>3. Doubtful(s) \in SUBSET Shard /\ {i \in Shard : Sound(s, i)} \in SUBSET Shard
    BY DEF Doubtful
  <2>4. Shard \ Doubtful(s) \subseteq {i \in Shard : Sound(s, i)}
    BY DEF Doubtful, Firm
  <2> QED BY <2>2, <2>3, <2>4, EnoughLeft
<1> QED BY <1>1, WellCorrect, PTL

(* So a replacement keeps the data of every stripe written whole.  With M    *)
(* files damaged a scrub beside it may cost one shard more, which            *)
(* MCRebuild_beside shows (run_task, repair_stripe).                         *)
THEOREM ReplacementKeepsDataHolds == RSpec => []ReplacementKeepsData
<1>1. (TypeOK /\ (faults = 0 /\ damage < M =>
         \A s \in Promised : stripe[s] \in Visible =>
           Cardinality({i \in Shard : Sound(s, i)}) >= K))
      => ReplacementKeepsData
  <2> SUFFICES ASSUME NEW s \in Promised, Cardinality({i \in Shard : Sound(s, i)}) >= K
               PROVE  Cardinality(Kept(s)) >= K
    BY DEF ReplacementKeepsData
  <2>1. {i \in Shard : Sound(s, i)} \in SUBSET Kept(s) /\ Kept(s) \in SUBSET Shard
    BY DEF Sound, Kept
  <2>2. Cardinality({i \in Shard : Sound(s, i)}) <= Cardinality(Kept(s))
    BY <2>1, LostIsFinite, FS_Subset
  <2>3. Cardinality({i \in Shard : Sound(s, i)}) \in Nat /\ Cardinality(Kept(s)) \in Nat
    <3>1. {i \in Shard : Sound(s, i)} \in SUBSET Shard
      OBVIOUS
    <3>2. Cardinality({i \in Shard : Sound(s, i)}) \in Nat
      BY <3>1, LostIsFinite
    <3> QED BY <2>1, <3>2, LostIsFinite
  <2> DEFINE a == Cardinality({i \in Shard : Sound(s, i)})
             b == Cardinality(Kept(s))
  <2>4. a >= K /\ a <= b /\ a \in Nat /\ b \in Nat
    BY <2>2, <2>3
  <2> HIDE DEF a, b
  <2>5. b >= K
    BY <2>4, CodeAssumption
  <2> QED BY <2>5 DEF b
<1>2. WellInv => TypeOK
  BY DEF WellInv, JobTypeOK
<1> QED BY <1>1, <1>2, EnoughStaysSound, WellCorrect, PTL

-----------------------------------------------------------------------------
(* The last file stays: with no damage one shard at most is repaired.        *)
LEMMA AtMostOne ==
  ASSUME NEW T \in SUBSET Shard, Cardinality(T) <= 1, NEW i \in T, NEW j \in T
  PROVE  i = j
<1>1. IsFiniteSet(T) /\ Cardinality(T) \in Nat
  BY LostIsFinite
<1>2. IsFiniteSet(T \ {i}) /\ Cardinality(T \ {i}) = Cardinality(T) - 1
  BY <1>1, FS_RemoveElement
<1>3. Cardinality(T \ {i}) \in Nat
  BY <1>2, FS_CardinalityType
<1>4. Cardinality(T \ {i}) = 0
  BY <1>1, <1>2, <1>3
<1>5. T \ {i} = {}
  BY <1>2, <1>4, FS_EmptySet
<1> QED BY <1>5

(* What the proof takes of the state before a step.                          *)
ThreadClean(t) ==
  th[t].pc # "idle" /\ stripe[th[t].sid] \in Visible => MendOK(th[t]) /\ NewCopyThere(t)
ApartOK == \A s \in StripeId : stripe[s] \in Visible => RowsApart(shard[s])
CleanNow == NoDegraded /\ ApartOK /\ \A t \in Thread : ThreadClean(t)
Clean ==
  /\ TypeOK /\ LifeOK /\ WellNow /\ CleanNow /\ damage = 0 /\ Promised = StripeId
  /\ task.st # "none" => task.src \in Disk
LiveFilesStay == \A f \in files : stripe[f[2]] \in Visible => f \in files'

(* A shard that is being repaired is the only one.                           *)
LEMMA OthersFirm ==
  ASSUME Clean, NEW t \in Thread, th[t].pc \in Mending, stripe[th[t].sid] \in Visible,
         NEW i \in th[t].todo, NEW j \in Shard, j # i
  PROVE  /\ Firm(th[t].sid, j) /\ shard[th[t].sid][j].disk \notin OldDisk
         /\ j \in th[t].got /\ th[t].rows[j].disk = shard[th[t].sid][j].disk
         /\ j \notin th[t].todo
<1> DEFINE s == th[t].sid
<1>1. s \in StripeId /\ i \in Shard /\ At(th[t], s) /\ TypeOK /\ PlansOK
  BY ThreadFields DEF Clean, At, Mending, WellNow
<1>2. RiskBound(s) /\ damage = 0
  BY <1>1 DEF Clean, WellNow, RiskOK
<1> HIDE DEF s
<1>3. ASSUME NEW k \in th[t].todo, k \in Shard
      PROVE  ~Firm(s, k) \/ shard[s][k].disk \in OldDisk
  BY <1>1, <1>3, TodoNotFirm
<1>4. task.st # "none"
  <2> SUFFICES ASSUME task.st = "none" PROVE FALSE
    OBVIOUS
  <2>1. i \in Doubtful(s)
    BY <1>1, <1>3 DEF Doubtful, OldDisk
  <2>2. Doubtful(s) \in SUBSET Shard /\ Cardinality(Doubtful(s)) <= 0
    BY <1>2 DEF Doubtful, RiskBound
  <2>3. IsFiniteSet(Doubtful(s)) /\ Cardinality(Doubtful(s)) \in Nat
    BY <2>2, LostIsFinite
  <2>4. Doubtful(s) = {}
    BY <2>2, <2>3, FS_EmptySet
  <2> QED BY <2>1, <2>4
<1>5. AtRisk(s, task.src) \in SUBSET Shard /\ Cardinality(AtRisk(s, task.src)) <= 1
  BY <1>2, <1>4 DEF AtRisk, Doubtful, On, RiskBound
<1>6. i \in AtRisk(s, task.src)
  BY <1>1, <1>3, <1>4 DEF AtRisk, Doubtful, On, OldDisk
<1>7. j \notin AtRisk(s, task.src)
  BY <1>5, <1>6, AtMostOne
<1>8. Firm(s, j) /\ shard[s][j].disk \notin OldDisk
  BY <1>7 DEF AtRisk, Doubtful, On, OldDisk
<1>9. j \in th[t].got /\ th[t].rows[j].disk = shard[s][j].disk
  BY <1>1, <1>8, FirmIsGot
<1>10. j \notin th[t].todo
  BY <1>3, <1>8
<1> QED BY <1>8, <1>9, <1>10 DEF s

(* A thread that moves alone leaves the others clean.                        *)
LEMMA OthersClean ==
  ASSUME CleanNow, TypeOK, NEW t \in Thread, OthersStay(t), t = Rebuilder \/ LiveFilesStay,
         \A s \in StripeId : stripe'[s] \in Visible => stripe[s] \in Visible,
         ThreadClean(t)'
  PROVE  \A o \in Thread : ThreadClean(o)'
<1> SUFFICES ASSUME NEW o \in Thread, o # t, th'[o].pc # "idle", stripe'[th'[o].sid] \in Visible
             PROVE  MendOK(th'[o]) /\ NewCopyThere(o)'
  BY DEF ThreadClean
<1>1. th'[o] = th[o] /\ th[o].sid \in StripeId
  BY ThreadFields DEF OthersStay
<1>2. stripe[th[o].sid] \in Visible /\ MendOK(th[o]) /\ NewCopyThere(o)
  BY <1>1 DEF CleanNow, ThreadClean
<1>3. NewCopyThere(o)'
  <2> SUFFICES ASSUME th[o].pc = "unlink"
               PROVE  /\ o = Rebuilder
                      /\ \A i \in Shard : AtShard(o, "unlink", i)' => <<th[o].at, th[o].sid, i>> \in files'
    BY <1>1 DEF NewCopyThere
  <2>1. o = Rebuilder /\ LiveFilesStay
    BY <1>2 DEF NewCopyThere
  <2>2. ASSUME NEW i \in Shard, AtShard(o, "unlink", i)'
        PROVE  <<th[o].at, th[o].sid, i>> \in files'
    <3>1. AtShard(o, "unlink", i)
      BY <1>1, <2>2 DEF AtShard
    <3> DEFINE f == <<th[o].at, th[o].sid, i>>
    <3>2. f \in files /\ f[2] = th[o].sid
      BY <1>2, <3>1 DEF NewCopyThere
    <3> QED BY <1>2, <2>1, <3>2 DEF LiveFilesStay
  <2> QED BY <2>1, <2>2
<1> QED BY <1>1, <1>2, <1>3

(* A step of a thread at its stripe.                                         *)
Tidy(t) ==
  /\ th[t].pc # "idle" /\ th'[t].sid = th[t].sid
  /\ stripe[th[t].sid] \in Visible => MendOK(th'[t]) /\ NewCopyThere(t)'
  /\ th'[t].map \in {th[t].map, diskStatus}
  /\ t = Rebuilder \/ LiveFilesStay

LEMMA TidyClean ==
  ASSUME Clean, NEW t \in Thread, OthersStay(t), Tidy(t), ApartOK', UNCHANGED <<diskStatus, stripe>>
  PROVE  CleanNow'
<1>1. TypeOK /\ CleanNow
  BY DEF Clean
<1>2. ThreadClean(t)'
  BY DEF Tidy, ThreadClean
<1>3. \A o \in Thread : ThreadClean(o)'
  BY <1>1, <1>2, OthersClean DEF Tidy
<1>4. NoDegraded'
  BY <1>1 DEF CleanNow, NoDegraded, Tidy, OthersStay
<1> QED BY <1>3, <1>4 DEF CleanNow

(* Only the rows of a thread matter while it reads.                          *)
LEMMA ReadTidy ==
  ASSUME Clean, NEW t \in Thread, ReadShardStep(t)
  PROVE  Tidy(t) /\ ApartOK'
<1>i. TypeOK /\ AllUp /\ CleanNow
  BY DEF Clean, WellNow
<1>f. UNCHANGED <<files, rotten, stripe>> /\ QuietRows
  BY <1>i, ReadFacts
<1>a. ApartOK'
  BY <1>i, <1>f DEF CleanNow, ApartOK, RowsApart, QuietRows
<1>t. th[t] \in ThreadState
  BY <1>i, ThreadFields
<1>l. LiveFilesStay
  BY <1>f DEF LiveFilesStay
<1>1. ASSUME NEW q, SetT(t, q), q.pc \in {"read", "mark"}, q.sid = th[t].sid, q.rows = th[t].rows,
             q.map \in {th[t].map, diskStatus}, th[t].pc # "idle"
      PROVE  Tidy(t)
  <2>1. th'[t] = q
    BY <1>i, <1>1 DEF SetT, TypeOK
  <2>2. stripe[th[t].sid] \in Visible => MendOK(q)
    BY <1>i, <1>1 DEF CleanNow, ThreadClean, MendOK, Mending
  <2>3. NewCopyThere(t)'
    BY <1>1, <2>1 DEF NewCopyThere
  <2> QED BY <1>l, <1>1, <2>1, <2>2, <2>3 DEF Tidy
<1>2. CASE ListDisks(t)
  <2> DEFINE q == [th[t] EXCEPT !.pc = "read", !.map = diskStatus]
  <2>1. SetT(t, q) /\ th[t].pc # "idle"
    BY <1>2 DEF ListDisks
  <2>2. q.pc = "read" /\ q.sid = th[t].sid /\ q.rows = th[t].rows /\ q.map = diskStatus
    BY <1>t DEF ThreadState
  <2> HIDE DEF q
  <2> QED BY <1>1, <1>a, <2>1, <2>2
<1>3. CASE ReadSkip(t) \/ ReadFails(t)
  <2> DEFINE q == Advance(t)
  <2>1. SetT(t, q) /\ th[t].pc = "read"
    BY <1>3 DEF ReadSkip, ReadFails, Tried, Reading
  <2>2. q.pc = th[t].pc /\ q.sid = th[t].sid /\ q.rows = th[t].rows /\ q.map = th[t].map
    BY <1>t DEF ThreadState, Advance
  <2> HIDE DEF q
  <2> QED BY <1>1, <1>a, <2>1, <2>2
<1>4. CASE ReadGood(t)
  <2> DEFINE q == [Advance(t) EXCEPT !.got = @ \cup {th[t].next}]
  <2>1. SetT(t, q) /\ th[t].pc = "read"
    BY <1>4 DEF ReadGood, Tried, Reading
  <2>2. q.pc = th[t].pc /\ q.sid = th[t].sid /\ q.rows = th[t].rows /\ q.map = th[t].map
    BY <1>t DEF ThreadState, Advance
  <2> HIDE DEF q
  <2> QED BY <1>1, <1>a, <2>1, <2>2
<1>5. ASSUME NEW found \in {"missing", "corrupt"}, ReadBad(t, found)
      PROVE  Tidy(t) /\ ApartOK'
  <2> DEFINE q == [th[t] EXCEPT !.pc = "mark", !.found = found]
  <2>1. SetT(t, q) /\ th[t].pc = "read"
    BY <1>5 DEF ReadBad, Tried, Reading
  <2>2. q.pc = "mark" /\ q.sid = th[t].sid /\ q.rows = th[t].rows /\ q.map = th[t].map
    BY <1>t DEF ThreadState
  <2> HIDE DEF q
  <2> QED BY <1>1, <1>a, <2>1, <2>2
<1>6. CASE MarkShard(t)
  <2> DEFINE q == [Advance(t) EXCEPT !.pc = "read", !.found = "ok"]
  <2>1. SetT(t, q) /\ th[t].pc = "mark"
    BY <1>6 DEF MarkShard
  <2>2. q.pc = "read" /\ q.sid = th[t].sid /\ q.rows = th[t].rows /\ q.map = th[t].map
    BY <1>t DEF ThreadState, Advance
  <2> HIDE DEF q
  <2> QED BY <1>1, <1>a, <2>1, <2>2
<1> QED BY <1>2, <1>3, <1>4, <1>5, <1>6 DEF ReadShardStep

(* A scrub reads all rows before it plans; the disks of what it does not     *)
(* write are used.                                                           *)
LEMMA PlanTidy ==
  ASSUME Clean, NEW t \in Thread, RepairPlan(t)
  PROVE  Tidy(t) /\ ApartOK'
<1> DEFINE q == [th[t] EXCEPT !.pc = "mend", !.todo = ToWrite(t), !.used = UsedAfterReads(t)]
<1>i. TypeOK /\ CleanNow
  BY DEF Clean
<1>1. th[t] \in ThreadState /\ th[t].pc = "read" /\ SetT(t, q) /\ th[t].got \subseteq Shard
      /\ UNCHANGED <<files, shard, stripe>>
  BY <1>i, ThreadFields DEF RepairPlan, ReadOver, tables, ThreadState
<1>2. /\ q.pc = "mend" /\ q.sid = th[t].sid /\ q.rows = th[t].rows /\ q.got = th[t].got
      /\ q.force = th[t].force /\ q.todo = ToWrite(t) /\ q.used = UsedAfterReads(t) /\ q.map = th[t].map
  BY <1>1 DEF ThreadState
<1> HIDE DEF q
<1>3. th'[t] = q
  BY <1>i, <1>1 DEF SetT, TypeOK
<1>4. ASSUME stripe[th[t].sid] \in Visible
      PROVE  MendOK(q)
  <2>1. RowsApart(th[t].rows)
    BY <1>i, <1>1, <1>4 DEF CleanNow, ThreadClean, MendOK
  <2>2. ASSUME NEW i \in ToWrite(t)
        PROVE  th[t].rows[i].disk \notin UsedAfterReads(t)
    BY <2>1, <2>2 DEF UsedAfterReads, ToWrite, RowsApart
  <2>3. ASSUME NEW j \in th[t].got, th[t].rows[j].disk \notin th[t].force
        PROVE  th[t].rows[j].disk \in UsedAfterReads(t) \cup {None}
    BY <1>1, <2>3 DEF UsedAfterReads, ToWrite
  <2> QED BY <1>2, <2>1, <2>2, <2>3 DEF MendOK
<1>5. NewCopyThere(t)'
  BY <1>2, <1>3 DEF NewCopyThere
<1>6. LiveFilesStay /\ ApartOK'
  BY <1>i, <1>1 DEF LiveFilesStay, CleanNow, ApartOK
<1> QED BY <1>1, <1>2, <1>3, <1>4, <1>5, <1>6 DEF Tidy

LEMMA SkipTidy ==
  ASSUME Clean, NEW t \in Thread, MendSkip(t)
  PROVE  Tidy(t) /\ ApartOK'
<1>i. TypeOK /\ CleanNow
  BY DEF Clean
<1>1. PICK i \in Shard : AtShard(t, "mend", i) /\ SetT(t, [th[t] EXCEPT !.todo = @ \ {i}])
  BY DEF MendSkip
<1> DEFINE q == [th[t] EXCEPT !.todo = @ \ {i}]
<1>2. th[t] \in ThreadState /\ th[t].pc = "mend" /\ SetT(t, q) /\ UNCHANGED <<files, shard, stripe>>
  BY <1>i, <1>1, ThreadFields DEF AtShard, MendSkip, tables
<1>3. /\ q.pc = "mend" /\ q.sid = th[t].sid /\ q.rows = th[t].rows /\ q.got = th[t].got
      /\ q.force = th[t].force /\ q.todo = th[t].todo \ {i} /\ q.used = th[t].used /\ q.map = th[t].map
  BY <1>2 DEF ThreadState
<1> HIDE DEF q
<1>4. th'[t] = q
  BY <1>i, <1>2 DEF SetT, TypeOK
<1>5. stripe[th[t].sid] \in Visible => MendOK(q)
  BY <1>i, <1>2, <1>3 DEF CleanNow, ThreadClean, MendOK, Mending
<1>6. NewCopyThere(t)'
  BY <1>3, <1>4 DEF NewCopyThere
<1>7. LiveFilesStay /\ ApartOK'
  BY <1>i, <1>2 DEF LiveFilesStay, CleanNow, ApartOK
<1> QED BY <1>2, <1>3, <1>4, <1>5, <1>6, <1>7 DEF Tidy

(* A scrub writes a shard where its row says, so it has no old copy.         *)
LEMMA WriteTidy ==
  ASSUME Clean, NEW t \in Repairer, NEW d \in Disk, MendWrite(t, d)
  PROVE  Tidy(t) /\ ApartOK'
<1>i. TypeOK /\ CleanNow /\ t \in Thread /\ PlansOK
  BY DEF Clean, Thread, WellNow
<1>1. PICK i \in Shard :
        /\ AtShard(t, "mend", i) /\ d \in Targets(t, i)
        /\ files' = files \cup {<<d, th[t].sid, i>>}
        /\ rotten' = rotten \ {<<d, th[t].sid, i>>}
        /\ SetT(t, [th[t] EXCEPT !.at = d,
                      !.pc = IF OldCopy(t, i, d) # {} THEN "unlink" ELSE "update"])
  BY DEF MendWrite
<1> DEFINE pc == IF OldCopy(t, i, d) # {} THEN "unlink" ELSE "update"
           q == [th[t] EXCEPT !.at = d, !.pc = pc]
<1>2. th[t] \in ThreadState /\ th[t].pc = "mend" /\ SetT(t, q) /\ UNCHANGED <<shard, stripe>>
      /\ i \in th[t].todo /\ th[t].sid \in StripeId
  BY <1>i, <1>1, ThreadFields DEF AtShard, MendWrite, tables
<1>3. pc \in {"unlink", "update"} /\ (pc = "unlink" => OldCopy(t, i, d) # {})
  OBVIOUS
<1> HIDE DEF pc
<1>4. /\ q.pc = pc /\ q.sid = th[t].sid /\ q.rows = th[t].rows /\ q.got = th[t].got /\ q.at = d
      /\ q.force = th[t].force /\ q.todo = th[t].todo /\ q.used = th[t].used /\ q.map = th[t].map
  BY <1>2 DEF ThreadState
<1> HIDE DEF q
<1>5. th'[t] = q
  BY <1>i, <1>2 DEF SetT, TypeOK
<1>6. d \notin th[t].used \cup th[t].force
  BY <1>1 DEF Targets, OwnDisk, Excluded
<1>7. ASSUME stripe[th[t].sid] \in Visible
      PROVE  MendOK(q) /\ NewCopyThere(t)'
  <2>1. MendOK(th[t])
    BY <1>i, <1>2, <1>7 DEF CleanNow, ThreadClean
  <2>2. MendOK(q)
    BY <1>2, <1>3, <1>4, <1>6, <2>1 DEF MendOK, Mending
  <2>3. pc = "unlink" => t = Rebuilder
    <3> SUFFICES ASSUME pc = "unlink", t # Rebuilder PROVE FALSE
      OBVIOUS
    <3>1. th[t].force = {}
      BY <1>i DEF PlansOK
    <3> DEFINE e == th[t].rows[i].disk
    <3>2. e \in Disk /\ e # d /\ th[t].map[e] \in Readable
      <4>1. PICK f \in OldCopy(t, i, d) : TRUE
        BY <1>3
      <4>2. f = <<e, th[t].sid, i>> /\ f \in File /\ f[1] # d /\ th[t].map[f[1]] \in Readable
        BY <4>1 DEF OldCopy
      <4> HIDE DEF e
      <4> QED BY <4>2 DEF File
    <3>3. th[t].map[e] \in Writable
      BY <1>i, <3>2 DEF CleanNow, NoDegraded, Readable, Writable
    <3>4. e \notin th[t].used
      BY <1>2, <2>1 DEF MendOK
    <3>5. e \in OwnDisk(t, i)
      BY <3>1, <3>2, <3>3, <3>4 DEF OwnDisk, Excluded
    <3>6. d \in OwnDisk(t, i)
      BY <1>1, <3>5 DEF Targets
    <3> QED BY <3>2, <3>6 DEF OwnDisk
  <2>4. ASSUME NEW j \in Shard, AtShard(t, "unlink", j)'
        PROVE  <<d, th[t].sid, j>> \in files'
    <3>1. AtShard(t, "mend", j)
      BY <1>2, <1>4, <1>5, <2>4 DEF AtShard
    <3>2. i = j
      BY <1>i, <1>1, <3>1, OneCurrent DEF AtShard
    <3> QED BY <1>1, <3>2
  <2> QED BY <1>4, <1>5, <2>2, <2>3, <2>4 DEF NewCopyThere
<1>8. LiveFilesStay /\ ApartOK'
  BY <1>i, <1>1, <1>2 DEF LiveFilesStay, CleanNow, ApartOK
<1> QED BY <1>2, <1>4, <1>5, <1>7, <1>8 DEF Tidy

LEMMA UnlinkTidy ==
  ASSUME Clean, NEW t \in Thread, UnlinkOld(t)
  PROVE  Tidy(t) /\ ApartOK'
<1>i. TypeOK /\ CleanNow
  BY DEF Clean
<1>1. PICK i \in Shard : AtShard(t, "unlink", i) /\ files' = files \ Unlinked(t, i)
  BY DEF UnlinkOld
<1> DEFINE q == [th[t] EXCEPT !.pc = "update"]
<1>2. th[t] \in ThreadState /\ th[t].pc = "unlink" /\ SetT(t, q) /\ UNCHANGED <<shard, stripe>>
  BY <1>i, <1>1, ThreadFields DEF AtShard, UnlinkOld, tables
<1>3. /\ q.pc = "update" /\ q.sid = th[t].sid /\ q.rows = th[t].rows /\ q.got = th[t].got /\ q.at = th[t].at
      /\ q.force = th[t].force /\ q.todo = th[t].todo /\ q.used = th[t].used /\ q.map = th[t].map
  BY <1>2 DEF ThreadState
<1> HIDE DEF q
<1>4. th'[t] = q
  BY <1>i, <1>2 DEF SetT, TypeOK
<1>5. stripe[th[t].sid] \in Visible => MendOK(q) /\ t = Rebuilder
  BY <1>i, <1>2, <1>3 DEF CleanNow, ThreadClean, MendOK, Mending, NewCopyThere
<1>6. NewCopyThere(t)'
  BY <1>3, <1>4 DEF NewCopyThere
<1>7. stripe[th[t].sid] \notin Visible => LiveFilesStay
  <2>1. \A f \in Unlinked(t, i) : f[2] = th[t].sid
    BY DEF Unlinked, OldCopy
  <2> QED BY <1>1, <2>1 DEF LiveFilesStay
<1>8. ApartOK'
  BY <1>i, <1>2 DEF CleanNow, ApartOK
<1> QED BY <1>2, <1>3, <1>4, <1>5, <1>6, <1>7, <1>8 DEF Tidy

(* The only shard repaired goes to a disk that no other row names.           *)
LEMMA UpdateTidy ==
  ASSUME Clean, NEW t \in Thread, UpdateRow(t)
  PROVE  Tidy(t) /\ ApartOK'
<1>i. TypeOK /\ CleanNow /\ PlansOK /\ shard \in [StripeId -> [Shard -> ShardRow]]
  BY DEF Clean, TypeOK, WellNow
<1>1. PICK i \in Shard :
        /\ AtShard(t, "update", i)
        /\ SetRow(th[t].sid, i, [disk |-> th[t].at, state |-> "ok"])
        /\ SetT(t, [th[t] EXCEPT !.pc = "mend", !.todo = @ \ {i}, !.at = None,
                                 !.used = @ \cup {th[t].at}])
  BY DEF UpdateRow
<1> DEFINE w == [disk |-> th[t].at, state |-> "ok"]
           q == [th[t] EXCEPT !.pc = "mend", !.todo = @ \ {i}, !.at = None,
                              !.used = @ \cup {th[t].at}]
           s == th[t].sid
<1>2. /\ th[t] \in ThreadState /\ th[t].pc = "update" /\ i \in th[t].todo /\ th[t].got \subseteq Shard
      /\ s \in StripeId /\ SetT(t, q) /\ SetRow(s, i, w) /\ UNCHANGED <<files, stripe>>
      /\ th[t].todo \subseteq Shard
  BY <1>i, <1>1, ThreadFields DEF AtShard, UpdateRow, ThreadState
<1>3. /\ q.pc = "mend" /\ q.sid = th[t].sid /\ q.rows = th[t].rows /\ q.got = th[t].got
      /\ q.force = th[t].force /\ q.todo = th[t].todo \ {i} /\ q.map = th[t].map
      /\ q.used = th[t].used \cup {th[t].at}
  BY <1>2 DEF ThreadState
<1>4. w.disk = th[t].at
  OBVIOUS
<1> HIDE DEF q, w
<1>5. th'[t] = q
  BY <1>i, <1>2 DEF SetT, TypeOK
<1>6. ASSUME stripe[s] \in Visible
      PROVE  MendOK(q) /\ RowsApart(shard'[s])
  <2>1. MendOK(th[t])
    BY <1>i, <1>2, <1>6 DEF CleanNow, ThreadClean
  <2>2. ASSUME NEW j \in Shard, j # i
        PROVE  /\ Firm(s, j) /\ shard[s][j].disk \notin OldDisk /\ j \in th[t].got
               /\ th[t].rows[j].disk = shard[s][j].disk /\ j \notin th[t].todo
    BY <1>2, <1>6, <2>2, OthersFirm DEF Mending
  <2>3. q.todo = {}
    BY <1>2, <1>3, <2>2
  <2>4. MendOK(q)
    BY <1>2, <1>3, <2>1, <2>3 DEF MendOK, Mending
  <2>5. ASSUME NEW j \in Shard, j # i
        PROVE  shard[s][j].disk # th[t].at
    <3>1. shard[s][j].disk \notin th[t].force
      BY <1>i, <2>2, <2>5 DEF PlansOK
    <3>2. shard[s][j].disk # None
      BY <1>i, <1>2, <2>2, <2>5, FirmDisk
    <3>3. shard[s][j].disk \in th[t].used
      BY <1>2, <2>1, <2>2, <2>5, <3>1, <3>2 DEF MendOK, Mending
    <3> QED BY <1>2, <2>1, <3>3 DEF MendOK
  <2>6. \A j \in Shard : j # i => shard'[s][j] = shard[s][j]
    BY <1>i, <1>2 DEF SetRow
  <2>7. shard'[s][i] = shard[s][i] \/ shard'[s][i].disk = th[t].at
    BY <1>i, <1>2, <1>4 DEF SetRow
  <2>8. RowsApart(shard[s])
    BY <1>i, <1>2, <1>6 DEF CleanNow, ApartOK
  <2>9. RowsApart(shard'[s])
    <3> SUFFICES ASSUME NEW j \in Shard, NEW k \in Shard, j # k, shard'[s][j].disk # None
                 PROVE  shard'[s][j].disk # shard'[s][k].disk
      BY DEF RowsApart
    <3> QED BY <2>5, <2>6, <2>7, <2>8 DEF RowsApart
  <2> QED BY <2>4, <2>9
<1>7. \A o \in StripeId : o # s => shard'[o] = shard[o]
  BY <1>i, <1>2 DEF SetRow
<1>8. ApartOK'
  BY <1>i, <1>2, <1>6, <1>7 DEF CleanNow, ApartOK
<1>9. NewCopyThere(t)' /\ LiveFilesStay
  BY <1>2, <1>3, <1>5 DEF NewCopyThere, LiveFilesStay
<1> QED BY <1>2, <1>3, <1>5, <1>6, <1>8, <1>9 DEF Tidy

LEMMA RepairTidy ==
  ASSUME Clean, NEW t \in Thread, (RepairStep(t) /\ t \in Repairer) \/ ReadShardStep(t)
  PROVE  Tidy(t) /\ CleanNow'
<1>1. TypeOK /\ PlansOK /\ AllUp
  BY DEF Clean, WellNow
<1>2. \A d \in Disk : ~MendFails(t, d)
  BY <1>1, TargetIsDisk DEF MendFails, AllUp
<1>3. Tidy(t) /\ ApartOK'
  BY <1>2, ReadTidy, PlanTidy, SkipTidy, WriteTidy, UnlinkTidy, UpdateTidy DEF RepairStep
<1>4. OthersStay(t) /\ UNCHANGED <<diskStatus, stripe>>
  BY <1>1, RepairWell, ReadWell, StepUnchanged
<1> QED BY <1>3, <1>4, TidyClean

(* Steps at which no thread moves.                                           *)
LEMMA SameClean ==
  ASSUME TypeOK, CleanNow, UNCHANGED th, LiveFilesStay, ApartOK', \A d \in Disk : diskStatus'[d] # "degraded",
         \A s \in StripeId : stripe'[s] \in Visible =>
           stripe[s] \in Visible \/ \A t \in Thread : th[t].pc # "idle" => th[t].sid # s
  PROVE  CleanNow'
<1>1. NoDegraded'
  BY DEF CleanNow, NoDegraded
<1>2. ASSUME NEW t \in Thread, th[t].pc # "idle", stripe'[th[t].sid] \in Visible
      PROVE  MendOK(th[t]) /\ NewCopyThere(t)'
  <2>1. th[t].sid \in StripeId
    BY <1>2, ThreadFields
  <2>2. stripe[th[t].sid] \in Visible
    BY <1>2, <2>1
  <2>3. MendOK(th[t]) /\ NewCopyThere(t)
    BY <1>2, <2>2 DEF CleanNow, ThreadClean
  <2>4. ASSUME th[t].pc = "unlink", NEW i \in Shard, AtShard(t, "unlink", i)'
        PROVE  <<th[t].at, th[t].sid, i>> \in files'
    <3> DEFINE f == <<th[t].at, th[t].sid, i>>
    <3>1. f \in files /\ f[2] = th[t].sid
      BY <2>3, <2>4 DEF NewCopyThere, AtShard
    <3> QED BY <2>2, <3>1 DEF LiveFilesStay
  <2> QED BY <2>3, <2>4 DEF NewCopyThere
<1>3. \A t \in Thread : ThreadClean(t)'
  BY <1>2 DEF ThreadClean
<1> QED BY <1>1, <1>3 DEF CleanNow

LEMMA CallClean ==
  ASSUME Clean, NEW s \in StripeId, CallNext(s)
  PROVE  CleanNow'
<1>i. /\ TypeOK /\ CleanNow /\ LifeOK /\ PutsOK
      /\ stripe \in [StripeId -> StripeState] /\ shard \in [StripeId -> [Shard -> ShardRow]]
  BY DEF Clean, TypeOK, WellNow
<1>u. UNCHANGED <<diskStatus, th>>
  BY DEF CallNext, PutBegin, PutEnd, DeleteBegin, DeleteRows, DeleteFiles, disks
<1>d. \A d \in Disk : diskStatus'[d] # "degraded"
  BY <1>i, <1>u DEF CleanNow, NoDegraded
<1>1. ASSUME NEW st \in StripeState, st \notin Visible, stripe' = [stripe EXCEPT ![s] = st],
             \A o \in StripeId : o # s => shard'[o] = shard[o], files \subseteq files'
      PROVE  CleanNow'
  <2>1. ApartOK' /\ LiveFilesStay
    BY <1>i, <1>1 DEF ApartOK, CleanNow, LiveFilesStay
  <2>2. \A o \in StripeId : stripe'[o] \in Visible => stripe[o] \in Visible
    BY <1>i, <1>1
  <2> QED BY <1>i, <1>u, <1>d, <2>1, <2>2, SameClean
<1>2. CASE PutBegin(s)
  BY <1>1, <1>2 DEF PutBegin, Visible, StripeState
<1>3. CASE PutEnd(s)
  <2> DEFINE at == call[s].at
             landed == {i \in Shard : at[i] # None /\ up[at[i]]}
             rows == [i \in Shard |-> IF i \in landed THEN [disk |-> at[i], state |-> "ok"]
                                      ELSE [disk |-> None, state |-> "missing"]]
  <2>1. call[s].pc = "write" /\ files \subseteq files'
    BY <1>3 DEF PutEnd
  <2>2. CASE stripe' = [stripe EXCEPT ![s] = "gone"] /\ UNCHANGED shard
    BY <1>1, <2>1, <2>2 DEF Visible, StripeState
  <2>3. CASE stripe' = [stripe EXCEPT ![s] = "committed"] /\ shard' = [shard EXCEPT ![s] = rows]
    <3>1. RowsApart(rows)
      BY <1>i, <2>1 DEF RowsApart, PutsOK
    <3> HIDE DEF rows
    <3>2. ApartOK'
      BY <1>i, <2>3, <3>1 DEF ApartOK, CleanNow
    <3>3. \A t \in Thread : th[t].pc # "idle" => th[t].sid # s
      BY <1>i, <2>1 DEF LifeOK, Unstored
    <3>4. \A o \in StripeId : o # s => stripe'[o] = stripe[o]
      BY <1>i, <2>3
    <3> QED BY <1>i, <1>u, <1>d, <2>1, <3>2, <3>3, <3>4, SameClean DEF LiveFilesStay
  <2> QED BY <1>3, <2>2, <2>3 DEF PutEnd
<1>4. CASE DeleteBegin(s)
  <2>1. UNCHANGED <<files, stripe, shard>>
    BY <1>4 DEF DeleteBegin, tables
  <2>2. ApartOK' /\ LiveFilesStay
    BY <1>i, <2>1 DEF CleanNow, ApartOK, LiveFilesStay
  <2> QED BY <1>i, <1>u, <1>d, <2>1, <2>2, SameClean
<1>5. CASE DeleteRows(s)
  <2>1. /\ stripe' = [stripe EXCEPT ![s] = "gone"] /\ shard' = [shard EXCEPT ![s] = NoRows]
        /\ UNCHANGED files
    BY <1>5 DEF DeleteRows
  <2>2. \A o \in StripeId : o # s => shard'[o] = shard[o]
    BY <1>i, <2>1
  <2> QED BY <1>1, <2>1, <2>2 DEF Visible, StripeState
<1>6. CASE DeleteFiles(s)
  <2> DEFINE A == {<<call[s].at[i], s, i>> : i \in {j \in Shard : call[s].at[j] # None}}
             F == {f \in A : up[f[1]]}
  <2>1. call[s].pc = "unlink" /\ UNCHANGED <<stripe, shard>> /\ files' = files \ F
    BY <1>6 DEF DeleteFiles, tables
  <2>2. \A f \in F : f[2] = s
    OBVIOUS
  <2> HIDE DEF F
  <2>3. stripe[s] \notin Visible
    BY <1>i, <2>1 DEF LifeOK, Visible
  <2>4. ApartOK' /\ LiveFilesStay
    BY <1>i, <2>1, <2>2, <2>3 DEF CleanNow, ApartOK, LiveFilesStay
  <2> QED BY <1>i, <1>u, <1>d, <2>1, <2>4, SameClean
<1> QED BY <1>2, <1>3, <1>4, <1>5, <1>6 DEF CallNext

(* A thread that begins, and one that is over.                               *)
LEMMA BeginClean ==
  ASSUME Clean, NEW t \in Thread, NEW s \in StripeId, NEW force, Begin(t, s, force)
  PROVE  CleanNow'
<1> DEFINE q == [IdleThread EXCEPT !.pc = "map", !.sid = s, !.force = force, !.rows = shard[s]]
<1>1. /\ q.pc = "map" /\ q.sid = s /\ q.rows = shard[s] /\ \A d \in Disk : q.map[d] = "absent"
  BY DEF IdleThread
<1>2. SetT(t, q) /\ UNCHANGED <<files, stripe, shard, diskStatus>> /\ stripe[s] \in Visible
  BY DEF Begin, disks, tables
<1> HIDE DEF q
<1>3. th'[t] = q /\ OthersStay(t) /\ TypeOK /\ CleanNow
  BY <1>2 DEF SetT, TypeOK, OthersStay, Clean
<1>4. MendOK(q) /\ NewCopyThere(t)'
  BY <1>1, <1>2, <1>3 DEF MendOK, NewCopyThere, CleanNow, ApartOK, Mending
<1>5. ThreadClean(t)' /\ LiveFilesStay
  BY <1>2, <1>3, <1>4 DEF ThreadClean, LiveFilesStay
<1>6. \A o \in Thread : ThreadClean(o)'
  BY <1>2, <1>3, <1>5, OthersClean
<1>7. NoDegraded' /\ ApartOK'
  BY <1>1, <1>2, <1>3 DEF CleanNow, NoDegraded, ApartOK, OthersStay
<1> QED BY <1>6, <1>7 DEF CleanNow

LEMMA EndClean ==
  ASSUME Clean, NEW t \in Thread, SetT(t, IdleThread), UNCHANGED <<files, shard, diskStatus>>, KeepsStripes
  PROVE  CleanNow'
<1>1. th'[t] = IdleThread /\ OthersStay(t) /\ TypeOK /\ CleanNow
  BY DEF SetT, TypeOK, OthersStay, Clean
<1>2. IdleThread.pc = "idle" /\ \A d \in Disk : IdleThread.map[d] = "absent"
  BY DEF IdleThread
<1>3. ThreadClean(t)' /\ LiveFilesStay
  BY <1>1, <1>2 DEF ThreadClean, LiveFilesStay
<1>4. \A s \in StripeId : stripe'[s] \in Visible => stripe[s] \in Visible
  BY DEF KeepsStripes
<1>5. \A o \in Thread : ThreadClean(o)'
  BY <1>1, <1>3, <1>4, OthersClean
<1>6. NoDegraded' /\ ApartOK'
  BY <1>1, <1>2, <1>4 DEF CleanNow, NoDegraded, ApartOK, OthersStay
<1> QED BY <1>5, <1>6 DEF CleanNow

LEMMA StatusClean ==
  ASSUME Clean, UNCHANGED <<th, files, stripe, shard>>, \A d \in Disk : diskStatus'[d] # "degraded"
  PROVE  CleanNow'
<1>1. TypeOK /\ CleanNow /\ ApartOK' /\ LiveFilesStay
  BY DEF Clean, CleanNow, ApartOK, LiveFilesStay
<1> QED BY <1>1, SameClean

LEMMA ServerClean ==
  ASSUME Clean, ServerNext \/ EnvNext, damage' = 0, faults' = 0
  PROVE  CleanNow'
<1>i. TypeOK /\ LifeOK /\ CleanNow /\ AllUp /\ damage = 0 /\ diskStatus \in [Disk -> Status]
  BY DEF Clean, WellNow, TypeOK
<1>s. \A t \in Scrubber \cup Reader : t \in Thread
  BY DEF Thread, Repairer
<1>1. ASSUME NEW t \in Thread, NEW s \in StripeId, Begin(t, s, {})
      PROVE  CleanNow'
  BY <1>1, BeginClean
<1>2. ASSUME NEW t \in Thread, RepairReturns(t) \/ ReadEnd(t)
      PROVE  CleanNow'
  <2>1. SetT(t, IdleThread) /\ UNCHANGED <<files, shard, diskStatus>>
    BY <1>2 DEF RepairReturns, RepairVerdict, RepairEnd, ReadEnd, disks
  <2> QED BY <1>i, <1>2, <2>1, EndFacts, EndClean
<1>3. ASSUME NEW t \in Thread, ScrubRaises(t)
      PROVE  CleanNow'
  <2>1. SetT(t, IdleThread) /\ UNCHANGED <<files, shard, diskStatus, stripe>>
    BY <1>3 DEF ScrubRaises, Raises, tables, disks
  <2> QED BY <2>1, SameQuiet, EndClean
<1>4. CASE HealthNext
  <2>1. UNCHANGED <<th, files, stripe, shard>>
    BY <1>4 DEF HealthNext, HealthProbe, HealthList, tables
  <2>2. \A d \in Disk : diskStatus'[d] \in {diskStatus[d], "online", "failed"}
    BY <1>i, <1>4 DEF HealthNext, HealthProbe, HealthList, disks
  <2> QED BY <1>i, <2>1, <2>2, StatusClean DEF CleanNow, NoDegraded
<1>5. CASE EnvNext
  <2>1. \A f \in File : ~Damage(f)
    BY <1>i DEF Damage
  <2>2. \A d \in Disk : ~DiskUp(d)
    BY <1>i DEF DiskUp, AllUp
  <2>3. \A d \in Disk : ~DiskDown(d)
    <3>1. faults \in Nat
      BY <1>i, BoundAssumption DEF TypeOK
    <3> QED BY <3>1 DEF DiskDown
  <2> QED BY <1>5, <2>1, <2>2, <2>3 DEF EnvNext
<1>6. ASSUME NEW t \in Scrubber, RepairStep(t)
      PROVE  CleanNow'
  BY <1>s, <1>6, RepairTidy DEF Repairer
<1>7. ASSUME NEW t \in Reader, ReadShardStep(t)
      PROVE  CleanNow'
  BY <1>s, <1>7, RepairTidy
<1> QED BY <1>s, <1>1, <1>2, <1>3, <1>4, <1>5, <1>6, <1>7, CallClean DEF ServerNext

LEMMA JobClean ==
  ASSUME Clean, JobTypeOK, JobStep
  PROVE  CleanNow'
<1>i. /\ TypeOK /\ LifeOK /\ CleanNow /\ diskStatus \in [Disk -> Status] /\ Rebuilder \in Thread
      /\ Rebuilder \in Repairer /\ shard \in [StripeId -> [Shard -> ShardRow]]
  BY DEF Clean, TypeOK, Thread, Repairer
<1>1. CASE JobStart \/ JobRetire \/ JobOpen
  <2>1. UNCHANGED <<th, files, stripe, shard>>
    BY <1>1 DEF JobStart, JobRetire, JobOpen, tables
  <2>2. \A d \in Disk : diskStatus'[d] \in {diskStatus[d], "online", "rebuilding", "retired"}
    BY <1>i, <1>1 DEF JobStart, JobRetire, JobOpen
  <2> QED BY <1>i, <2>1, <2>2, StatusClean DEF CleanNow, NoDegraded
<1>2. CASE JobBatch \/ (\E s \in StripeId : JobEach(s)) \/ JobEachEnds \/ JobSkip \/ JobCount
  <2>1. UNCHANGED <<th, files, stripe, shard, diskStatus>>
    BY <1>2 DEF JobBatch, JobEach, JobEachEnds, JobSkip, JobCount, vars
  <2> QED BY <1>i, <2>1, StatusClean DEF CleanNow, NoDegraded
<1>3. CASE JobRepair
  <2>1. job.sid \in StripeId /\ Begin(Rebuilder, job.sid, {task.src})
    BY <1>3 DEF JobRepair, JobTypeOK
  <2> QED BY <1>i, <2>1, BeginClean
<1>4. CASE RepairStep(Rebuilder)
  BY <1>i, <1>4, RepairTidy
<1>5. CASE JobRepairReturns
  <2>1. RepairReturns(Rebuilder)
    BY <1>5 DEF JobRepairReturns
  <2>2. SetT(Rebuilder, IdleThread) /\ UNCHANGED <<files, shard, diskStatus>>
    BY <2>1 DEF RepairReturns, RepairVerdict, RepairEnd, disks
  <2> QED BY <1>i, <2>1, <2>2, EndFacts, EndClean
<1>6. CASE JobDetach
  <2> DEFINE w == [i \in Shard |-> IF i \in On(job.sid, task.src)
                                   THEN [disk |-> None, state |-> "missing"]
                                   ELSE shard[job.sid][i]]
  <2>1. /\ shard' = [shard EXCEPT ![job.sid] = w] /\ UNCHANGED <<th, files, stripe, diskStatus>>
        /\ job.sid \in StripeId
    BY <1>6 DEF JobDetach, JobTypeOK, disks
  <2>2. RowsApart(shard[job.sid]) => RowsApart(w)
    BY DEF RowsApart
  <2> HIDE DEF w
  <2>3. ApartOK'
    BY <1>i, <2>1, <2>2 DEF CleanNow, ApartOK
  <2>4. LiveFilesStay /\ \A d \in Disk : diskStatus'[d] # "degraded"
    BY <1>i, <2>1 DEF LiveFilesStay, CleanNow, NoDegraded
  <2> QED BY <1>i, <2>1, <2>3, <2>4, SameClean
<1> QED BY <1>1, <1>2, <1>3, <1>4, <1>5, <1>6 DEF JobStep

LEMMA CleanStep ==
  ASSUME Clean, JobTypeOK, RNext, damage' = 0, faults' = 0
  PROVE  CleanNow'
<1>i. /\ TypeOK /\ CleanNow /\ diskStatus \in [Disk -> Status] /\ Rebuilder \in Thread
      /\ stripe \in [StripeId -> StripeState]
  BY DEF Clean, TypeOK, Thread, Repairer
<1>1. ASSUME NEW src \in Disk, NEW dst \in Disk, Replace(src, dst)
      PROVE  CleanNow'
  <2>1. UNCHANGED <<th, files, stripe, shard>> /\ diskStatus' = [diskStatus EXCEPT ![dst] = "online"]
    BY <1>1 DEF Replace, tables
  <2>2. \A d \in Disk : diskStatus'[d] \in {diskStatus[d], "online"}
    BY <1>i, <2>1
  <2> QED BY <1>i, <2>1, <2>2, StatusClean DEF CleanNow, NoDegraded
<1>2. CASE Crash
  <2>1. /\ th' = [t \in Thread |-> IdleThread] /\ UNCHANGED <<diskStatus, shard>>
        /\ stripe' = [s \in StripeId |-> IF stripe[s] = "pending" THEN "gone" ELSE stripe[s]]
    BY <1>2 DEF Crash, disks
  <2>2. IdleThread.pc = "idle" /\ \A d \in Disk : IdleThread.map[d] = "absent"
    BY DEF IdleThread
  <2>3. NoDegraded' /\ \A t \in Thread : ThreadClean(t)'
    BY <1>i, <2>1, <2>2 DEF CleanNow, NoDegraded, ThreadClean
  <2>4. ApartOK'
    BY <1>i, <2>1 DEF CleanNow, ApartOK, Visible
  <2> QED BY <2>3, <2>4 DEF CleanNow
<1>3. CASE JobRaises
  <2>1. SetT(Rebuilder, IdleThread) /\ UNCHANGED <<files, shard, diskStatus, stripe>>
    BY <1>3 DEF JobRaises, Raises, tables, disks
  <2> QED BY <1>i, <2>1, SameQuiet, EndClean
<1> QED BY <1>1, <1>2, <1>3, ServerClean, JobClean DEF RNext, JobStops

(* What removes a file.                                                      *)
LEMMA WhatRemoves ==
  ASSUME RNext
  PROVE  \/ files \subseteq files'
         \/ \E t \in Thread : UnlinkOld(t)
         \/ \E s \in StripeId : DeleteFiles(s)
         \/ damage' = damage + 1
<1> DEFINE Goal == \/ files \subseteq files' \/ (\E t \in Thread : UnlinkOld(t))
                   \/ (\E s \in StripeId : DeleteFiles(s)) \/ damage' = damage + 1
<1>s. \A t \in Scrubber \cup Reader \cup {Rebuilder} : t \in Thread
  BY DEF Thread, Repairer
<1>1. ASSUME NEW t, ReadShardStep(t) \/ RepairReturns(t) \/ ReadEnd(t) \/ ScrubRaises(t)
      PROVE  files' = files
  BY <1>1 DEF ReadShardStep, ListDisks, ReadSkip, ReadGood, ReadBad, ReadFails, MarkShard, RepairReturns,
              RepairVerdict, RepairEnd, ReadEnd, ScrubRaises
<1>2. ASSUME NEW t \in Thread, RepairStep(t)
      PROVE  Goal
  <2>1. CASE RepairPlan(t) \/ MendSkip(t) \/ UpdateRow(t)
    BY <2>1 DEF RepairPlan, MendSkip, UpdateRow
  <2>2. ASSUME NEW d \in Disk, MendWrite(t, d) \/ MendFails(t, d)
        PROVE  Goal
    BY <2>2 DEF MendWrite, MendFails
  <2> QED BY <1>1, <1>2, <2>1, <2>2 DEF RepairStep
<1>3. ASSUME NEW s \in StripeId, CallNext(s)
      PROVE  Goal
  BY <1>3 DEF CallNext, PutBegin, PutEnd, DeleteBegin, DeleteRows
<1>4. CASE ServerNext
  <2>1. ASSUME NEW t, NEW s, Begin(t, s, {})
        PROVE  Goal
    BY <2>1 DEF Begin
  <2>2. CASE HealthNext
    BY <2>2 DEF HealthNext, HealthProbe, HealthList
  <2> QED BY <1>s, <1>1, <1>2, <1>3, <1>4, <2>1, <2>2 DEF ServerNext
<1>5. CASE EnvNext \/ Crash \/ (\E src, dst \in Disk : Replace(src, dst)) \/ JobRaises \/ JobStops
  BY <1>5 DEF EnvNext, Damage, DiskDown, DiskUp, Crash, Replace, JobRaises, JobStops
<1>6. CASE JobStep
  <2>1. CASE RepairStep(Rebuilder)
    BY <1>s, <1>2, <2>1
  <2>2. CASE JobRepairReturns
    BY <1>1, <2>2 DEF JobRepairReturns
  <2>3. CASE \/ JobStart \/ JobBatch \/ (\E s \in StripeId : JobEach(s)) \/ JobEachEnds \/ JobRepair \/ JobSkip
             \/ JobCount \/ JobDetach \/ JobRetire \/ JobOpen
    BY <2>3 DEF JobStart, JobBatch, JobEach, JobEachEnds, JobRepair, Begin, JobSkip, JobCount, JobDetach,
                JobRetire, JobOpen, vars
  <2> QED BY <1>6, <2>1, <2>2, <2>3 DEF JobStep
<1> QED BY <1>4, <1>5, <1>6 DEF RNext

LEMMA CleanIs == CleanInv <=> WellInv /\ (faults = 0 /\ damage = 0 => CleanNow)
  BY DEF CleanInv, CleanNow, ApartOK, ThreadClean

LEMMA CleanIsNext == CleanInv' <=> WellInv' /\ (faults' = 0 /\ damage' = 0 => CleanNow')
  BY DEF CleanInv, CleanNow, ApartOK, ThreadClean

LEMMA CleanInit == RInit => CleanInv
<1> SUFFICES ASSUME RInit
             PROVE  CleanInv
  OBVIOUS
<1>1. PICK place \in [Stored -> {p \in [Shard -> Registered] :
                                   \A i, j \in Shard : i # j => p[i] # p[j]}] :
        shard = [s \in StripeId |->
                   IF s \in Stored
                   THEN [i \in Shard |-> [disk |-> place[s][i], state |-> "ok"]]
                   ELSE NoRows]
  BY DEF RInit, Init
<1>2. /\ stripe = [s \in StripeId |-> IF s \in Stored THEN "committed" ELSE "none"]
      /\ th = [t \in Thread |-> IdleThread]
      /\ diskStatus = [d \in Disk |-> IF d \in Registered THEN "online" ELSE "absent"]
  BY DEF RInit, Init
<1>3. ASSUME NEW s \in StripeId, stripe[s] \in Visible
      PROVE  RowsApart(shard[s])
  <2>1. s \in Stored
    BY <1>2, <1>3 DEF Visible
  <2>2. \A i, j \in Shard : i # j => place[s][i] # place[s][j]
    BY <1>1, <2>1
  <2>3. \A i \in Shard : shard[s][i].disk = place[s][i]
    BY <1>1, <2>1
  <2> QED BY <2>2, <2>3 DEF RowsApart
<1>4. IdleThread.pc = "idle" /\ \A d \in Disk : IdleThread.map[d] = "absent"
  BY DEF IdleThread
<1>5. CleanNow
  BY <1>2, <1>3, <1>4 DEF CleanNow, NoDegraded, ApartOK, ThreadClean
<1> QED BY <1>5, WellInit, CleanIs

LEMMA CleanMeans ==
  ASSUME CleanInv, Promised = StripeId, faults = 0, damage = 0
  PROVE  Clean /\ JobTypeOK
BY CleanIs DEF Clean, WellInv, WellNow, JobTypeOK

LEMMA CleanNext ==
  ASSUME Promised = StripeId
  PROVE  CleanInv /\ [RNext]_rvars => CleanInv'
<1> SUFFICES ASSUME CleanInv, [RNext]_rvars
             PROVE  CleanInv'
  OBVIOUS
<1>1. WellInv /\ WellInv' /\ JobTypeOK /\ TypeOK /\ TypeOK'
  BY WellStep DEF CleanInv, WellInv, JobTypeOK
<1>n. damage \in Nat /\ damage' \in Nat /\ faults \in Nat /\ faults' \in Nat
  BY <1>1, BoundAssumption DEF TypeOK
<1>2. ASSUME faults' = 0, damage' = 0
      PROVE  CleanNow'
  <2>1. CASE RNext
    <3>1. faults <= faults' /\ damage <= damage'
      BY <1>1, <2>1, GrowsStep DEF Grows
    <3>2. faults = 0 /\ damage = 0
      BY <1>2, <1>n, <3>1
    <3>3. Clean
      BY <3>2, CleanMeans
    <3> QED BY <1>1, <1>2, <2>1, <3>3, CleanStep
  <2>2. CASE UNCHANGED rvars
    <3>1. UNCHANGED <<th, files, stripe, shard, diskStatus, faults, damage>>
      BY <2>2 DEF rvars, vars
    <3>2. Clean
      BY <1>2, <3>1, CleanMeans
    <3> QED BY <3>1, <3>2, StatusClean DEF Clean, CleanNow, NoDegraded
  <2> QED BY <2>1, <2>2
<1> QED BY <1>1, <1>2, CleanIsNext

(* What a step leaves of the files of a stripe that is not deleted.          *)
LEMMA FileStays ==
  ASSUME Clean, RNext, damage' = 0, NEW s \in StripeId, NEW i \in Shard, stripe[s] \in Visible,
         HasFile(s, i)
  PROVE  HasFile(s, i)'
<1>i. TypeOK /\ LifeOK /\ CleanNow /\ damage = 0
  BY DEF Clean
<1>0. PICK e \in Disk : <<e, s, i>> \in files
  BY DEF HasFile
<1>1. ASSUME files \subseteq files'
      PROVE  HasFile(s, i)'
  BY <1>0, <1>1 DEF HasFile
<1>2. ASSUME NEW t \in Thread, UnlinkOld(t)
      PROVE  HasFile(s, i)'
  <2>1. PICK j \in Shard : AtShard(t, "unlink", j) /\ files' = files \ Unlinked(t, j)
    BY <1>2 DEF UnlinkOld
  <2>2. \A f \in Unlinked(t, j) : f[1] # th[t].at /\ f[2] = th[t].sid /\ f[3] = j
    BY DEF Unlinked, OldCopy
  <2>3. CASE th[t].sid = s /\ j = i
    <3>1. <<th[t].at, s, i>> \in files /\ th[t].at \in Disk
      <4>1. th[t].pc = "unlink" /\ NewCopyThere(t) /\ ThreadOK(th[t])
        BY <1>i, <2>1, <2>3, ThreadFields DEF CleanNow, ThreadClean, AtShard
      <4> QED BY <2>1, <2>3, <4>1 DEF NewCopyThere, ThreadOK
    <3> DEFINE f == <<th[t].at, s, i>>
    <3>2. f[1] = th[t].at
      OBVIOUS
    <3>3. f \in files'
      BY <2>1, <2>2, <3>1, <3>2
    <3> QED BY <3>1, <3>3 DEF HasFile
  <2>4. CASE ~(th[t].sid = s /\ j = i)
    <3> DEFINE f == <<e, s, i>>
    <3>1. f[2] = s /\ f[3] = i
      OBVIOUS
    <3>2. f \in files'
      BY <1>0, <2>1, <2>2, <2>4, <3>1
    <3> QED BY <3>2 DEF HasFile
  <2> QED BY <2>3, <2>4
<1>3. ASSUME NEW o \in StripeId, DeleteFiles(o)
      PROVE  HasFile(s, i)'
  <2> DEFINE A == {<<call[o].at[k], o, k>> : k \in {j \in Shard : call[o].at[j] # None}}
             F == {f \in A : up[f[1]]}
  <2>1. call[o].pc = "unlink" /\ files' = files \ F
    BY <1>3 DEF DeleteFiles
  <2>2. \A f \in F : f[2] = o
    OBVIOUS
  <2> HIDE DEF F
  <2>3. o # s
    BY <1>i, <2>1 DEF LifeOK, Visible
  <2> DEFINE f == <<e, s, i>>
  <2>4. f[2] = s
    OBVIOUS
  <2>5. f \in files'
    BY <1>0, <2>1, <2>2, <2>3, <2>4
  <2> QED BY <2>5 DEF HasFile
<1>4. damage' # damage + 1
  BY <1>i
<1> QED BY <1>1, <1>2, <1>3, <1>4, WhatRemoves

(* As long as no file is damaged and no disk goes away, and where every      *)
(* stripe is written whole, a replacement beside any scrubs, reads, puts and *)
(* crashes never unlinks the last file of a shard (run_task, repair_stripe). *)
THEOREM LastFileStaysHolds ==
  ASSUME Promised = StripeId, MaxFaults = 0
  PROVE  RSpec => LastFileStays
<1>1. CleanInv /\ [RNext]_rvars => CleanInv'
  BY CleanNext
<1>2. CleanInv /\ CleanInv' /\ [RNext]_rvars =>
        [damage' = 0 =>
           \A s \in StripeId, i \in Shard :
             stripe[s] \in Visible /\ stripe'[s] \in Visible /\ HasFile(s, i)
               => HasFile(s, i)']_vars
  <2> SUFFICES ASSUME CleanInv, CleanInv', [RNext]_rvars, damage' = 0,
                      NEW s \in StripeId, NEW i \in Shard, stripe[s] \in Visible, HasFile(s, i)
               PROVE  HasFile(s, i)'
    OBVIOUS
  <2>1. TypeOK /\ JobTypeOK
    BY DEF CleanInv, WellInv, JobTypeOK
  <2>2. CASE RNext
    <3>1. damage <= damage' /\ damage \in Nat /\ faults \in 0 .. MaxFaults
      BY <2>1, <2>2, GrowsStep, BoundAssumption DEF Grows, TypeOK
    <3>2. damage = 0 /\ faults = 0
      BY <3>1
    <3>3. Clean
      BY <3>2, CleanMeans
    <3> QED BY <2>2, <3>3, FileStays
  <2>3. CASE UNCHANGED rvars
    BY <2>3 DEF rvars, vars, HasFile
  <2> QED BY <2>2, <2>3
<1> QED BY CleanInit, <1>1, <1>2, PTL DEF RSpec, LastFileStays
=============================================================================
