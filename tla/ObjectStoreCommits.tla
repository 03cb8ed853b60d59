------------------------- MODULE ObjectStoreCommits -------------------------
(***************************************************************************)
(* A committed object changes only when its row is deleted.  Two promises  *)
(* to the callers follow from it: a read that no delete disturbs delivers  *)
(* the object whole, and the store is an AtomicStore.  A third follows     *)
(* from what is known of its rows and files: the index can be built again  *)
(* from the disks.                                                         *)
(***************************************************************************)
EXTENDS ObjectStoreWhole, IndexRecovery

-----------------------------------------------------------------------------
(* Committed objects stay as they are.                                       *)

StaysCommitted(o) ==
  object[o].state = "committed" =>
    /\ object'[o] = object[o]
    /\ \A s \in StripeId : stripe[s].obj = o /\ stripe[s].state \in Visible =>
         /\ stripe'[s].obj = o
         /\ stripe'[s].seq = stripe[s].seq
         /\ stripe'[s].key = stripe[s].key
         /\ stripe'[s].state \in Visible

LEMMA SameStays ==
  ASSUME UNCHANGED <<object, stripe>>, NEW o
  PROVE  StaysCommitted(o)
BY DEF StaysCommitted

(* The thread of a put works on an object that is not committed yet.         *)
LEMMA PutStays ==
  ASSUME WholeInv, NEW k \in Key, NEW o \in ObjId,
         PutInsert(k) \/ StripeBegin(k) \/ StripeCommit(k) \/ StripeDrop(k) \/ PutCommit(k)
  PROVE  StaysCommitted(o)
<1>1. FilesInv /\ TypeOK
  BY DEF WholeInv, FilesInv
<1>2. CASE PutInsert(k)
  <2>1. PICK p \in ObjId :
          /\ object[p].state = "none"
          /\ object' = [object EXCEPT ![p] = [state |-> "pending", key |-> k, size |-> 0]]
    BY <1>2 DEF PutInsert, IsNextRowId
  <2>2. UNCHANGED stripe
    BY <1>2 DEF PutInsert
  <2> QED BY <2>1, <2>2, <1>1 DEF StaysCommitted, TypeOK
<1>3. CASE StripeBegin(k)
  <2>1. UNCHANGED object
    BY <1>3 DEF StripeBegin
  <2>2. PICK t \in StripeId, p \in Placement :
          /\ stripe[t].state = "none"
          /\ stripe' = [stripe EXCEPT ![t] =
                          [state |-> "pending", obj |-> w[k].obj, key |-> k,
                           seq |-> w[k].seq]]
    BY <1>3 DEF StripeBegin
  <2>3. \A s \in StripeId : stripe[s].state \in Visible => stripe'[s] = stripe[s]
    BY <2>2, <1>1 DEF TypeOK, Visible
  <2> QED BY <2>1, <2>3 DEF StaysCommitted
<1>4. CASE StripeCommit(k)
  <2>1. UNCHANGED object /\ w[k].pc = "shards"
    BY <1>4 DEF StripeCommit, AllTried
  <2>2. stripe[w[k].sid].state = "pending"
    BY <2>1, <1>1, OwnStripe
  <2>3. \A s \in StripeId : stripe[s].state \in Visible => stripe'[s] = stripe[s]
    BY <2>2, <1>4, <1>1 DEF StripeCommit, TypeOK, Visible
  <2> QED BY <2>1, <2>3 DEF StaysCommitted
<1>5. CASE StripeDrop(k)
  <2>1. UNCHANGED <<object, files>> /\ w[k].pc = "giveup" /\ DropStripes({w[k].sid})
    BY <1>5 DEF StripeDrop
  <2>2. stripe[w[k].sid].state = "pending"
    BY <2>1, <1>1, OwnStripe
  <2>3. \A s \in StripeId : stripe[s].state \in Visible => stripe'[s] = stripe[s]
    BY <2>1, <2>2, <1>1, DropRows DEF Visible
  <2> QED BY <2>1, <2>3 DEF StaysCommitted
<1>6. CASE PutCommit(k)
  <2>1. UNCHANGED stripe /\ w[k].pc = "stripe"
    BY <1>6 DEF PutCommit
  <2>2. object[w[k].obj].state = "pending"
    BY <2>1, <1>1, FilesHolds DEF Holds, Writing
  <2>3. object[o].state = "committed" => object'[o] = object[o]
    BY <2>2, <1>6, <1>1 DEF PutCommit, TypeOK
  <2> QED BY <2>1, <2>3 DEF StaysCommitted
<1> QED BY <1>2, <1>3, <1>4, <1>5, <1>6

LEMMA DeleteStays ==
  ASSUME WholeInv, NEW k \in Key, DeleteRows(k), NEW o \in ObjId, o # w[k].obj
  PROVE  StaysCommitted(o)
<1>1. FilesInv /\ TypeOK
  BY DEF WholeInv, FilesInv
<1>2. /\ UNCHANGED files /\ DropStripes(StripesOf(w[k].obj))
      /\ object' = [object EXCEPT ![w[k].obj] = NoObject]
  BY DEF DeleteRows
<1>3. \A s \in StripeId : stripe[s].obj = o => stripe'[s] = stripe[s]
  BY <1>1, <1>2, DropRows DEF StripesOf
<1> QED BY <1>1, <1>2, <1>3 DEF StaysCommitted, TypeOK

(* The start-up drops what is pending; a reader may give a stripe up for     *)
(* lost, whose row stays.                                                    *)
LEMMA BootStays ==
  ASSUME WholeInv, NEW o \in ObjId,
         BootDrop \/ \E p \in ObjId : BootObject(p)
  PROVE  StaysCommitted(o)
<1>1. FilesInv /\ TypeOK
  BY DEF WholeInv, FilesInv
<1>2. CASE BootDrop
  <2>1. UNCHANGED <<object, files>> /\ DropStripes(PendingStripes)
    BY <1>2 DEF BootDrop
  <2>2. \A s \in StripeId : stripe[s].state \in Visible => stripe'[s] = stripe[s]
    BY <2>1, <1>1, DropRows DEF PendingStripes, Visible
  <2> QED BY <2>1, <2>2 DEF StaysCommitted
<1>3. ASSUME NEW p \in ObjId, BootObject(p) PROVE StaysCommitted(o)
  <2>1. /\ UNCHANGED files /\ DropStripes(StripesOf(p)) /\ object[p].state = "pending"
        /\ object' = [object EXCEPT ![p] = NoObject]
    BY <1>3 DEF BootObject, Unfinished
  <2>2. \A s \in StripeId : stripe[s].obj # p => stripe'[s] = stripe[s]
    BY <2>1, <1>1, DropRows DEF StripesOf
  <2> QED BY <2>1, <2>2, <1>1 DEF StaysCommitted, TypeOK
<1> QED BY <1>2, <1>3

LEMMA UnrecoverableStays ==
  ASSUME WholeInv, NEW x \in Reader, ReadUnrecoverable(x), NEW o \in ObjId
  PROVE  StaysCommitted(o)
<1>1. FilesInv /\ TypeOK /\ UNCHANGED object
  BY DEF WholeInv, FilesInv, ReadUnrecoverable
<1>2. stripe' = stripe \/ stripe' = [stripe EXCEPT ![rd[x].sid].state = "unrecoverable"]
  BY DEF ReadUnrecoverable
<1> QED BY <1>1, <1>2 DEF StaysCommitted, TypeOK, StripeRow, Visible

(* Only the delete of its row changes a committed object.                    *)
LEMMA CommittedStays ==
  ASSUME WholeInv, [Next]_vars, NEW o \in ObjId,
         \A k \in Key : DeleteRows(k) => o # w[k].obj
  PROVE  StaysCommitted(o)
<1>1. ASSUME NEW k \in Key, NEW n, PutBegin(k, n) PROVE UNCHANGED <<object, stripe>>
  BY <1>1 DEF PutBegin, dbVars
<1>2. ASSUME NEW k \in Key, NEW i, WriteShard(k, i) \/ WriteShardFails(k, i)
      PROVE  UNCHANGED <<object, stripe>>
  <2>1. WriteShard(k, i) => UNCHANGED <<object, stripe>>
    BY DEF WriteShard, dbVars
  <2>2. WriteShardFails(k, i) => UNCHANGED <<object, stripe>>
    BY DEF WriteShardFails, dbVars
  <2> QED BY <1>2, <2>1, <2>2
<1>3. ASSUME NEW k \in Key,
             StripeGiveUp(k) \/ PutRaises(k) \/ DeleteBegin(k) \/ DeleteRaises(k) \/ Unlink(k)
      PROVE  UNCHANGED <<object, stripe>>
  BY <1>3 DEF StripeGiveUp, PutRaises, DeleteBegin, DeleteRaises, Unlink, dbVars
<1>4. ASSUME NEW x \in Reader, NEW i, ReadSkip(x, i) \/ ReadShard(x, i) \/ ReadMissing(x, i) \/ ReadFails(x, i)
      PROVE  UNCHANGED <<object, stripe>>
  <2>1. ReadSkip(x, i) \/ ReadShard(x, i) => UNCHANGED <<object, stripe>>
    BY DEF ReadSkip, ReadShard, dbVars
  <2>2. ReadMissing(x, i) => UNCHANGED <<object, stripe>>
    BY DEF ReadMissing
  <2>3. ReadFails(x, i) => UNCHANGED <<object, stripe>>
    BY DEF ReadFails, dbVars
  <2> QED BY <1>4, <2>1, <2>2, <2>3
<1>5. ASSUME NEW x \in Reader,
             \/ \E k \in Key : ReadStat(x, k)
             \/ ReadList(x) \/ ReadRows(x) \/ ReadDecode(x) \/ ReadEnd(x)
      PROVE  UNCHANGED <<object, stripe>>
  BY <1>5 DEF ReadStat, ReadList, ReadRows, ReadDecode, ReadEnd, dbVars
<1>6. ASSUME NEW d \in Disk, DiskDown(d) \/ DiskUp(d) \/ HealthCheck(d)
      PROVE  UNCHANGED <<object, stripe>>
  BY <1>6 DEF DiskDown, DiskUp, HealthCheck, dbVars
<1>7. Crash \/ BootSweep \/ BootUnlink \/ BootServe => UNCHANGED <<object, stripe>>
  BY DEF Crash, BootSweep, BootUnlink, BootServe, dbVars
<1>8. UNCHANGED vars => UNCHANGED <<object, stripe>>
  BY DEF vars, dbVars
<1> QED
  BY Actions, <1>1, <1>2, <1>3, <1>4, <1>5, <1>6, <1>7, <1>8, SameStays, PutStays,
     DeleteStays, BootStays, UnrecoverableStays

-----------------------------------------------------------------------------
(* Reads.  What ReadSoFar says of one reader.                                *)

Reading == {"list", "next", "try", "done"}
HasRead(r, st) ==
  /\ \A s \in r.todo : st[s].state \in Visible /\ st[s].obj = r.obj
  /\ r.out \cup {<<st[s].key, st[s].seq>> : s \in r.todo}
       = {<<r.key, n>> : n \in 0 .. (r.size - 1)}
Delivers(r, st, ob) ==
  r.pc \in Reading /\ ~r.disturbed =>
    /\ r.obj \in ObjId
    /\ ob[r.obj] = [state |-> "committed", key |-> r.key, size |-> r.size]
    /\ r.pc = "list" => r.out = {}
    /\ r.pc = "try" => r.sid \in r.todo
    /\ r.pc = "done" => r.todo = {}
    /\ r.pc # "list" => HasRead(r, st)

ReadInv == WholeInv /\ \A x \in Reader : Delivers(rd[x], stripe, object)

LEMMA ReadMeaning == (\A x \in Reader : Delivers(rd[x], stripe, object)) <=> ReadSoFar
BY DEF Delivers, HasRead, Reading, ReadSoFar

(* The stripes of a committed object, as its readers list them.              *)
LEMMA ListsAll ==
  ASSUME WholeInv, NEW o \in ObjId, object[o].state = "committed"
  PROVE  {<<stripe[s].key, stripe[s].seq>> : s \in VisibleStripes(o)}
           = {<<object[o].key, n>> : n \in 0 .. (object[o].size - 1)}
<1> DEFINE V == VisibleStripes(o)
<1>1. V = {s \in StripeId : stripe[s].obj = o /\ stripe[s].state \in Visible}
  BY DEF VisibleStripes, StripesOf
<1>2. \A s \in V : stripe[s].key = object[o].key
  BY <1>1 DEF WholeInv, FilesInv, StripesHaveObject, Live, Visible
<1>3. {stripe[s].seq : s \in V} = 0 .. (object[o].size - 1)
  <2>1. Numbered(stripe, o, object[o].size)
    BY DEF WholeInv, Whole
  <2>2. \A s \in V : stripe[s].seq \in Nat /\ stripe[s].seq < object[o].size
    BY <1>1, <2>1, BoundAssumption DEF Numbered, WholeInv, FilesInv, TypeOK, StripeRow
  <2>3. object[o].size \in Nat
    BY BoundAssumption DEF WholeInv, FilesInv, TypeOK, ObjectRow
  <2>4. \A s \in V : stripe[s].seq \in 0 .. (object[o].size - 1)
    BY <2>2, <2>3
  <2>5. \A m \in 0 .. (object[o].size - 1) : \E s \in V : stripe[s].seq = m
    BY <1>1, <2>1 DEF Numbered
  <2> HIDE DEF V
  <2> QED BY <2>4, <2>5
<1> HIDE DEF V
<1>4. {<<stripe[s].key, stripe[s].seq>> : s \in V} = {<<object[o].key, stripe[s].seq>> : s \in V}
  BY <1>2
<1>5. {<<object[o].key, stripe[s].seq>> : s \in V} = {<<object[o].key, n>> : n \in {stripe[s].seq : s \in V}}
  OBVIOUS
<1> QED BY <1>3, <1>4, <1>5 DEF V

(* A reader that takes no step goes on delivering what it began, unless its  *)
(* object is deleted.                                                        *)
LEMMA DeliversStays ==
  ASSUME TypeOK, NEW x \in Reader, Delivers(rd[x], stripe, object),
         rd[x].obj \in ObjId => StaysCommitted(rd[x].obj)
  PROVE  Delivers(rd[x], stripe', object')
<1> DEFINE r == rd[x]
<1>1. r.todo \subseteq StripeId
  BY DEF TypeOK, ReadState
<1> HIDE DEF r
<1> SUFFICES ASSUME r.pc \in Reading, ~r.disturbed
             PROVE  /\ object'[r.obj] = object[r.obj]
                    /\ r.pc # "list" => HasRead(r, stripe')
  BY DEF Delivers, r
<1>2. /\ r.obj \in ObjId
      /\ object[r.obj].state = "committed"
      /\ r.pc # "list" => HasRead(r, stripe)
  BY DEF Delivers, r
<1>3. StaysCommitted(r.obj)
  BY <1>2 DEF r
<1>4. ASSUME HasRead(r, stripe) PROVE HasRead(r, stripe')
  <2>1. \A s \in r.todo : /\ stripe'[s].state \in Visible /\ stripe'[s].obj = r.obj
                           /\ stripe'[s].key = stripe[s].key /\ stripe'[s].seq = stripe[s].seq
    BY <1>1, <1>2, <1>3, <1>4 DEF HasRead, StaysCommitted
  <2>2. {<<stripe'[s].key, stripe'[s].seq>> : s \in r.todo} = {<<stripe[s].key, stripe[s].seq>> : s \in r.todo}
    BY <2>1
  <2> QED BY <2>1, <2>2, <1>4 DEF HasRead
<1> QED BY <1>2, <1>3, <1>4 DEF StaysCommitted

(* One reader takes a step; nothing it reads by changes under the others.    *)
LEMMA ReaderDelivers ==
  ASSUME ReadInv, WholeInv', NEW x \in Reader, NEW r, SetR(x, r),
         \A o \in ObjId : StaysCommitted(o),
         Delivers(r, stripe', object')
  PROVE  ReadInv'
<1>1. TypeOK
  BY DEF ReadInv, WholeInv, FilesInv
<1>2. rd'[x] = r /\ \A y \in Reader : y # x => rd'[y] = rd[y]
  BY <1>1, SetRFun
<1>3. \A y \in Reader : Delivers(rd[y], stripe', object')
  BY <1>1, DeliversStays DEF ReadInv
<1> QED BY <1>2, <1>3 DEF ReadInv

(* Steps of a reader.                                                        *)
LEMMA ReadStatDelivers ==
  ASSUME ReadInv, WholeInv', NEW x \in Reader, NEW k \in Key, ReadStat(x, k)
  PROVE  ReadInv'
<1>1. PICK o \in ObjId :
        /\ object[o].state = "committed" /\ object[o].key = k
        /\ SetR(x, [IdleReader EXCEPT !.pc = "list", !.obj = o, !.key = k,
                                      !.size = object[o].size])
  BY DEF ReadStat
<1>2. UNCHANGED <<object, stripe>>
  BY DEF ReadStat, dbVars
<1> DEFINE q == [IdleReader EXCEPT !.pc = "list", !.obj = o, !.key = k, !.size = object[o].size]
<1>3. q.pc = "list" /\ q.obj = o /\ q.key = k /\ q.size = object[o].size /\ q.out = {}
  BY DEF IdleReader
<1>4. SetR(x, q)
  BY <1>1
<1> HIDE DEF q
<1>5. object[o] = [state |-> "committed", key |-> k, size |-> object[o].size]
  BY <1>1 DEF ReadInv, WholeInv, FilesInv, TypeOK, ObjectRow
<1>6. Delivers(q, stripe', object')
  BY <1>2, <1>3, <1>5 DEF Delivers
<1> QED BY <1>2, <1>4, <1>6, SameStays, ReaderDelivers

LEMMA ReadListDelivers ==
  ASSUME ReadInv, WholeInv', NEW x \in Reader, ReadList(x)
  PROVE  ReadInv'
<1> DEFINE S == VisibleStripes(rd[x].obj)
           q == [rd[x] EXCEPT !.pc = IF S = {} THEN "done" ELSE "next", !.todo = S]
<1>1. UNCHANGED <<object, stripe>> /\ rd[x].pc = "list" /\ SetR(x, q)
  BY DEF ReadList, dbVars
<1>2. rd[x] \in ReadState
  BY DEF ReadInv, WholeInv, FilesInv, TypeOK
<1>3. /\ q.pc = IF S = {} THEN "done" ELSE "next"
      /\ q.todo = S /\ q.obj = rd[x].obj /\ q.key = rd[x].key
      /\ q.size = rd[x].size /\ q.out = rd[x].out /\ q.disturbed = rd[x].disturbed
  BY <1>2 DEF ReadState
<1> HIDE DEF q
<1>4. ASSUME ~q.disturbed
      PROVE  /\ rd[x].obj \in ObjId /\ rd[x].out = {}
             /\ object[rd[x].obj] = [state |-> "committed", key |-> rd[x].key, size |-> rd[x].size]
  BY <1>1, <1>3, <1>4 DEF ReadInv, Delivers, Reading
<1>5. ASSUME ~q.disturbed PROVE HasRead(q, stripe)
  <2>1. {<<stripe[s].key, stripe[s].seq>> : s \in S} = {<<rd[x].key, n>> : n \in 0 .. (rd[x].size - 1)}
    BY <1>4, <1>5, ListsAll DEF ReadInv
  <2>2. \A s \in S : stripe[s].state \in Visible /\ stripe[s].obj = rd[x].obj
    BY DEF VisibleStripes, StripesOf
  <2> QED BY <1>3, <1>4, <1>5, <2>1, <2>2 DEF HasRead
<1>6. Delivers(q, stripe', object')
  BY <1>1, <1>3, <1>4, <1>5 DEF Delivers
<1> QED BY <1>1, <1>6, SameStays, ReaderDelivers

LEMMA ReadRowsDelivers ==
  ASSUME ReadInv, WholeInv', NEW x \in Reader, ReadRows(x)
  PROVE  ReadInv'
<1>1. PICK s \in rd[x].todo :
        SetR(x, [rd[x] EXCEPT
                   !.pc = "try", !.sid = s, !.tried = {}, !.got = {},
                   !.at = [i \in Shard |->
                             IF /\ shard[s][i].disk # None
                                /\ shard[s][i].state = "ok"
                                /\ diskStatus[shard[s][i].disk] \in Readable
                             THEN shard[s][i].disk ELSE None]])
  BY DEF ReadRows
<1> DEFINE q == [rd[x] EXCEPT
                   !.pc = "try", !.sid = s, !.tried = {}, !.got = {},
                   !.at = [i \in Shard |->
                             IF /\ shard[s][i].disk # None
                                /\ shard[s][i].state = "ok"
                                /\ diskStatus[shard[s][i].disk] \in Readable
                             THEN shard[s][i].disk ELSE None]]
<1>2. UNCHANGED <<object, stripe>> /\ rd[x].pc = "next" /\ SetR(x, q)
  BY <1>1 DEF ReadRows, dbVars
<1>3. rd[x] \in ReadState
  BY DEF ReadInv, WholeInv, FilesInv, TypeOK
<1>4. /\ q.pc = "try" /\ q.sid = s
      /\ q.todo = rd[x].todo /\ q.obj = rd[x].obj /\ q.key = rd[x].key
      /\ q.size = rd[x].size /\ q.out = rd[x].out /\ q.disturbed = rd[x].disturbed
  BY <1>3 DEF ReadState
<1> HIDE DEF q
<1>5. Delivers(q, stripe', object')
  BY <1>1, <1>2, <1>4 DEF ReadInv, Delivers, Reading, HasRead
<1> QED BY <1>2, <1>5, SameStays, ReaderDelivers

(* A shard tried changes nothing of what was delivered.                      *)
LEMMA TryDelivers ==
  ASSUME ReadInv, WholeInv', NEW x \in Reader, NEW i \in Shard,
         ReadSkip(x, i) \/ ReadShard(x, i) \/ ReadMissing(x, i) \/ ReadFails(x, i)
  PROVE  ReadInv'
<1>1. rd[x] \in ReadState /\ Delivers(rd[x], stripe, object)
  BY DEF ReadInv, WholeInv, FilesInv, TypeOK
<1>2. UNCHANGED <<object, stripe>>
  <2>1. ReadSkip(x, i) \/ ReadShard(x, i) => UNCHANGED <<object, stripe>>
    BY DEF ReadSkip, ReadShard, dbVars
  <2>2. ReadMissing(x, i) => UNCHANGED <<object, stripe>>
    BY DEF ReadMissing
  <2>3. ReadFails(x, i) => UNCHANGED <<object, stripe>>
    BY DEF ReadFails, dbVars
  <2> QED BY <2>1, <2>2, <2>3
<1>3. PICK q : /\ SetR(x, q)
               /\ q.pc = rd[x].pc /\ q.sid = rd[x].sid
               /\ q.todo = rd[x].todo /\ q.obj = rd[x].obj /\ q.key = rd[x].key
               /\ q.size = rd[x].size /\ q.out = rd[x].out /\ q.disturbed = rd[x].disturbed
  <2> DEFINE t == Tried(x, i)
             g == [t EXCEPT !.got = @ \cup {i}]
             Same(q) == /\ q.pc = rd[x].pc /\ q.sid = rd[x].sid
                        /\ q.todo = rd[x].todo /\ q.obj = rd[x].obj /\ q.key = rd[x].key
                        /\ q.size = rd[x].size /\ q.out = rd[x].out /\ q.disturbed = rd[x].disturbed
  <2>1. Same(t) /\ Same(g)
    BY <1>1 DEF Tried, ReadState
  <2>2. SetR(x, t) \/ SetR(x, g)
    <3>1. ReadSkip(x, i) => SetR(x, t)
      BY DEF ReadSkip
    <3>2. ReadShard(x, i) => SetR(x, g)
      BY DEF ReadShard
    <3>3. ReadMissing(x, i) => SetR(x, t)
      BY DEF ReadMissing
    <3>4. ReadFails(x, i) => SetR(x, t)
      BY DEF ReadFails
    <3> QED BY <3>1, <3>2, <3>3, <3>4
  <2> HIDE DEF t, g
  <2> QED BY <2>1, <2>2
<1>4. Delivers(q, stripe', object')
  BY <1>1, <1>2, <1>3 DEF Delivers, HasRead
<1> QED BY <1>2, <1>3, <1>4, SameStays, ReaderDelivers

LEMMA ReadDecodeDelivers ==
  ASSUME ReadInv, WholeInv', NEW x \in Reader, ReadDecode(x)
  PROVE  ReadInv'
<1> DEFINE s == rd[x].sid
           T == rd[x].todo \ {s}
           q == [rd[x] EXCEPT !.pc = IF T = {} THEN "done" ELSE "next",
                              !.todo = T, !.sid = None,
                              !.at = IdleReader.at, !.tried = {}, !.got = {},
                              !.out = @ \cup {<<stripe[s].key, stripe[s].seq>>}]
<1>1. UNCHANGED <<object, stripe>> /\ rd[x].pc = "try" /\ SetR(x, q)
  BY DEF ReadDecode, ReadOver, dbVars
<1>2. rd[x] \in ReadState
  BY DEF ReadInv, WholeInv, FilesInv, TypeOK
<1>3. /\ q.pc = IF T = {} THEN "done" ELSE "next"
      /\ q.todo = T /\ q.obj = rd[x].obj /\ q.key = rd[x].key
      /\ q.size = rd[x].size /\ q.disturbed = rd[x].disturbed
      /\ q.out = rd[x].out \cup {<<stripe[s].key, stripe[s].seq>>}
  BY <1>2 DEF ReadState
<1> HIDE DEF q
<1>4. ASSUME ~q.disturbed
      PROVE  /\ rd[x].obj \in ObjId /\ s \in rd[x].todo /\ HasRead(rd[x], stripe)
             /\ object[rd[x].obj] = [state |-> "committed", key |-> rd[x].key, size |-> rd[x].size]
  BY <1>1, <1>3, <1>4 DEF ReadInv, Delivers, Reading
<1>5. ASSUME ~q.disturbed PROVE HasRead(q, stripe)
  <2>1. q.out \cup {<<stripe[t].key, stripe[t].seq>> : t \in q.todo}
          = rd[x].out \cup {<<stripe[t].key, stripe[t].seq>> : t \in rd[x].todo}
    <3>1. {<<stripe[t].key, stripe[t].seq>> : t \in rd[x].todo}
            = {<<stripe[t].key, stripe[t].seq>> : t \in T} \cup {<<stripe[s].key, stripe[s].seq>>}
      BY <1>4, <1>5
    <3> QED BY <3>1, <1>3
  <2> QED BY <1>3, <1>4, <1>5, <2>1 DEF HasRead
<1>6. Delivers(q, stripe', object')
  BY <1>1, <1>3, <1>4, <1>5 DEF Delivers
<1> QED BY <1>1, <1>6, SameStays, ReaderDelivers

LEMMA ReadUnrecoverableDelivers ==
  ASSUME ReadInv, WholeInv', NEW x \in Reader, ReadUnrecoverable(x)
  PROVE  ReadInv'
<1> DEFINE q == [rd[x] EXCEPT !.pc = "failed", !.todo = {}, !.sid = None,
                              !.at = IdleReader.at, !.tried = {}, !.got = {}]
<1>1. q.pc = "failed"
  BY DEF ReadInv, WholeInv, FilesInv, TypeOK, ReadState
<1>2. SetR(x, q)
  BY DEF ReadUnrecoverable
<1> HIDE DEF q
<1>3. Delivers(q, stripe', object')
  BY <1>1 DEF Delivers, Reading
<1>4. \A o \in ObjId : StaysCommitted(o)
  BY UnrecoverableStays DEF ReadInv
<1> QED BY <1>2, <1>3, <1>4, ReaderDelivers

LEMMA ReadEndDelivers ==
  ASSUME ReadInv, WholeInv', NEW x \in Reader, ReadEnd(x)
  PROVE  ReadInv'
<1>1. UNCHANGED <<object, stripe>> /\ SetR(x, IdleReader)
  BY DEF ReadEnd, dbVars
<1>2. Delivers(IdleReader, stripe', object')
  BY IdleFields DEF Delivers, Reading
<1> QED BY <1>1, <1>2, SameStays, ReaderDelivers

(* The delete of an object disturbs its readers, a crash ends them all.      *)
LEMMA DeleteRowsDelivers ==
  ASSUME ReadInv, WholeInv', NEW k \in Key, DeleteRows(k)
  PROVE  ReadInv'
<1> SUFFICES ASSUME NEW x \in Reader PROVE Delivers(rd'[x], stripe', object')
  BY DEF ReadInv
<1>1. TypeOK /\ WholeInv /\ Delivers(rd[x], stripe, object)
  BY DEF ReadInv, WholeInv, FilesInv
<1>2. rd'[x] = IF rd[x].obj = w[k].obj THEN [rd[x] EXCEPT !.disturbed = TRUE] ELSE rd[x]
  BY DEF DeleteRows, Disturb
<1>3. CASE rd[x].obj = w[k].obj
  <2>1. rd'[x].disturbed
    BY <1>1, <1>2, <1>3 DEF TypeOK, ReadState
  <2> QED BY <2>1 DEF Delivers
<1>4. CASE rd[x].obj # w[k].obj
  <2>1. rd[x].obj \in ObjId => StaysCommitted(rd[x].obj)
    BY <1>1, <1>4, DeleteStays
  <2> QED BY <1>1, <1>2, <1>4, <2>1, DeliversStays
<1> QED BY <1>3, <1>4

LEMMA CrashDelivers ==
  ASSUME WholeInv', Crash
  PROVE  ReadInv'
<1>1. \A x \in Reader : rd'[x].pc = "idle"
  BY IdleFields DEF Crash
<1> QED BY <1>1 DEF ReadInv, Delivers, Reading

LEMMA OthersDeliver ==
  ASSUME ReadInv, WholeInv', UNCHANGED rd, \A o \in ObjId : StaysCommitted(o)
  PROVE  ReadInv'
BY DeliversStays DEF ReadInv, WholeInv, FilesInv

(* The steps of the writers, of the disks and of the start-up but a delete.  *)
LEMMA QuietDelivers ==
  ASSUME ReadInv, WholeInv', [Next]_vars, UNCHANGED rd, \A k \in Key : ~DeleteRows(k)
  PROVE  ReadInv'
<1>1. \A o \in ObjId : StaysCommitted(o)
  BY CommittedStays DEF ReadInv
<1> QED BY <1>1, OthersDeliver

LEMMA WriterKeepsReaders ==
  ASSUME NEW k \in Key,
         \/ \E n \in 1 .. MaxStripes : PutBegin(k, n)
         \/ PutInsert(k) \/ StripeBegin(k)
         \/ \E i \in Shard : WriteShard(k, i)
         \/ \E i \in Shard : WriteShardFails(k, i)
         \/ StripeCommit(k) \/ StripeGiveUp(k) \/ StripeDrop(k)
         \/ PutCommit(k) \/ PutRaises(k)
         \/ DeleteBegin(k) \/ DeleteRaises(k) \/ Unlink(k)
  PROVE  UNCHANGED rd
<1>1. ASSUME NEW n, PutBegin(k, n) PROVE UNCHANGED rd
  BY <1>1 DEF PutBegin
<1>2. ASSUME NEW i, WriteShard(k, i) PROVE UNCHANGED rd
  BY <1>2 DEF WriteShard
<1>3. ASSUME NEW i, WriteShardFails(k, i) PROVE UNCHANGED rd
  BY <1>3 DEF WriteShardFails
<1>4. PutInsert(k) \/ StripeBegin(k) => UNCHANGED rd
  BY DEF PutInsert, StripeBegin
<1>5. StripeCommit(k) \/ StripeGiveUp(k) \/ StripeDrop(k) => UNCHANGED rd
  BY DEF StripeCommit, StripeGiveUp, StripeDrop
<1>6. PutCommit(k) \/ PutRaises(k) \/ DeleteBegin(k) \/ DeleteRaises(k) \/ Unlink(k) => UNCHANGED rd
  BY DEF PutCommit, PutRaises, DeleteBegin, DeleteRaises, Unlink
<1> QED BY <1>1, <1>2, <1>3, <1>4, <1>5, <1>6

LEMMA InitReads == Init => ReadInv
<1> SUFFICES ASSUME Init PROVE ReadInv
  OBVIOUS
<1>1. \A x \in Reader : rd[x].pc = "idle"
  BY IdleFields DEF Init
<1> QED BY <1>1, InitWhole DEF ReadInv, Delivers, Reading

LEMMA NextReads ==
  ASSUME ReadInv, WholeInv', [Next]_vars
  PROVE  ReadInv'
<1>1. CASE UNCHANGED rd /\ \A k \in Key : ~DeleteRows(k)
  BY <1>1, QuietDelivers
<1>2. CASE \E k \in Key : DeleteRows(k)
  BY <1>2, DeleteRowsDelivers
<1>3. CASE Crash
  BY <1>3, CrashDelivers
<1>4. ASSUME NEW x \in Reader,
             \/ \E k \in Key : ReadStat(x, k)
             \/ ReadList(x) \/ ReadRows(x)
             \/ \E i \in Shard : ReadSkip(x, i)
             \/ \E i \in Shard : ReadShard(x, i)
             \/ \E i \in Shard : ReadMissing(x, i)
             \/ \E i \in Shard : ReadFails(x, i)
             \/ ReadDecode(x) \/ ReadUnrecoverable(x) \/ ReadEnd(x)
      PROVE  ReadInv'
  BY <1>4, ReadStatDelivers, ReadListDelivers, ReadRowsDelivers, TryDelivers,
     ReadDecodeDelivers, ReadUnrecoverableDelivers, ReadEndDelivers
<1>5. ASSUME NEW d \in Disk, DiskDown(d) \/ DiskUp(d) \/ HealthCheck(d)
      PROVE  UNCHANGED rd
  BY <1>5 DEF DiskDown, DiskUp, HealthCheck
<1>6. BootSweep \/ BootDrop \/ (\E o \in ObjId : BootObject(o)) \/ BootUnlink \/ BootServe
        => UNCHANGED rd
  BY DEF BootSweep, BootDrop, BootObject, BootUnlink, BootServe
<1>7. UNCHANGED vars => UNCHANGED rd
  BY DEF vars
<1> QED BY Actions, WriterKeepsReaders, <1>1, <1>2, <1>3, <1>4, <1>5, <1>6, <1>7

(* A reader holds or has delivered all of an object that nobody deletes:     *)
(* ReadSoFar is invariant on top of the inductive invariant IInv.            *)
THEOREM ReadsCorrect == Spec => []ReadSoFar
<1>1. Init => ReadInv
  BY InitReads
<1>2. ReadInv /\ WholeInv' /\ [Next]_vars => ReadInv'
  BY NextReads
<1>3. ReadInv => ReadSoFar
  BY ReadMeaning DEF ReadInv
<1> QED BY <1>1, <1>2, <1>3, WholeCorrect, PTL DEF Spec

(* A read that was not disturbed by a delete of its object, and that ends    *)
(* without an error, has delivered every stripe and nothing else, whatever   *)
(* disks failed and whatever else ran (iter_range).                          *)
THEOREM UndisturbedReadsAreWhole == Spec => []UndisturbedReadIsWhole
<1>1. ReadSoFar => UndisturbedReadIsWhole
  BY DEF ReadSoFar, UndisturbedReadIsWhole
<1> QED BY <1>1, ReadsCorrect, PTL

-----------------------------------------------------------------------------
(* The abstract store.  What a key holds is settled by its committed row.    *)

CommittedRow(ob, k, o) == ob[o].state = "committed" /\ ob[o].key = k

ContentIn(st, ob, k) ==
  {st[s].seq : s \in {t \in StripeId : /\ st[t].state \in Visible
                                       /\ ob[st[t].obj].state = "committed"
                                       /\ ob[st[t].obj].key = k}}

LEMMA ContentMeaning ==
  /\ \A k \in Key : StoredContent[k] = ContentIn(stripe, object, k)
  /\ \A k \in Key : StoredContent'[k] = ContentIn(stripe', object', k)
BY DEF StoredContent, ContentIn

LEMMA ContentOf ==
  ASSUME NEW st \in [StripeId -> StripeRow], NEW ob \in [ObjId -> ObjectRow],
         \A s \in StripeId : st[s].state \in Visible => st[s].obj \in ObjId,
         \A o \in ObjId : Whole(st, ob[o], o),
         NEW k \in Key, \A o, p \in ObjId : CommittedRow(ob, k, o) /\ CommittedRow(ob, k, p) => o = p
  PROVE  /\ \A o \in ObjId : CommittedRow(ob, k, o) => ContentIn(st, ob, k) = 0 .. (ob[o].size - 1)
         /\ (\A o \in ObjId : ~CommittedRow(ob, k, o)) => ContentIn(st, ob, k) = {}
<1>1. ASSUME NEW o \in ObjId, CommittedRow(ob, k, o)
      PROVE  ContentIn(st, ob, k) = 0 .. (ob[o].size - 1)
  <2> DEFINE V == {s \in StripeId : st[s].obj = o /\ st[s].state \in Visible}
  <2>1. {t \in StripeId : /\ st[t].state \in Visible
                          /\ ob[st[t].obj].state = "committed"
                          /\ ob[st[t].obj].key = k} = V
    BY <1>1 DEF CommittedRow
  <2>2. ContentIn(st, ob, k) = {st[s].seq : s \in V}
    BY <2>1 DEF ContentIn
  <2>3. Numbered(st, o, ob[o].size)
    BY <1>1 DEF Whole, CommittedRow
  <2>4. ob[o].size \in Nat /\ \A s \in V : st[s].seq \in Nat /\ st[s].seq < ob[o].size
    BY <2>3, BoundAssumption DEF Numbered, StripeRow, ObjectRow
  <2>5. \A s \in V : st[s].seq \in 0 .. (ob[o].size - 1)
    BY <2>4
  <2>6. \A m \in 0 .. (ob[o].size - 1) : \E s \in V : st[s].seq = m
    BY <2>3 DEF Numbered
  <2> HIDE DEF V
  <2> QED BY <2>2, <2>5, <2>6
<1>2. ASSUME \A o \in ObjId : ~CommittedRow(ob, k, o)
      PROVE  ContentIn(st, ob, k) = {}
  BY <1>2 DEF ContentIn, CommittedRow
<1> QED BY <1>1, <1>2

LEMMA RowsFit == WholeInv =>
  /\ stripe \in [StripeId -> StripeRow] /\ object \in [ObjId -> ObjectRow]
  /\ \A s \in StripeId : stripe[s].state \in Visible => stripe[s].obj \in ObjId
  /\ \A o \in ObjId : Whole(stripe, object[o], o)
  /\ \A k \in Key : \A o, p \in ObjId :
       CommittedRow(object, k, o) /\ CommittedRow(object, k, p) => o = p
BY DEF WholeInv, FilesInv, TypeOK, StripesHaveObject, Live, Visible, OneRowPerKey, KeyRow, CommittedRow

(* What key k holds now, and after the step. *)
LEMMA Holding ==
  ASSUME WholeInv, NEW k \in Key
  PROVE  /\ \A o \in ObjId : CommittedRow(object, k, o) => StoredContent[k] = 0 .. (object[o].size - 1)
         /\ (\A o \in ObjId : ~CommittedRow(object, k, o)) => StoredContent[k] = {}
BY RowsFit, ContentOf, ContentMeaning

LEMMA HoldingNext ==
  ASSUME WholeInv', NEW k \in Key
  PROVE  /\ \A o \in ObjId : CommittedRow(object', k, o) => StoredContent'[k] = 0 .. (object'[o].size - 1)
         /\ (\A o \in ObjId : ~CommittedRow(object', k, o)) => StoredContent'[k] = {}
<1>1. WholeInv' =>
        /\ stripe' \in [StripeId -> StripeRow] /\ object' \in [ObjId -> ObjectRow]
        /\ \A s \in StripeId : stripe'[s].state \in Visible => stripe'[s].obj \in ObjId
        /\ \A o \in ObjId : Whole(stripe', object'[o], o)
        /\ \A j \in Key : \A o, p \in ObjId :
             CommittedRow(object', j, o) /\ CommittedRow(object', j, p) => o = p
  BY DEF WholeInv, FilesInv, TypeOK, StripesHaveObject, Live, Visible, OneRowPerKey, KeyRow, CommittedRow
<1> QED BY <1>1, ContentOf, ContentMeaning

SameCommitted(k) ==
  \A o \in ObjId : /\ CommittedRow(object, k, o) <=> CommittedRow(object', k, o)
                   /\ CommittedRow(object, k, o) => object'[o].size = object[o].size

LEMMA KeyStays ==
  ASSUME WholeInv, WholeInv', NEW k \in Key, SameCommitted(k)
  PROVE  StoredContent'[k] = StoredContent[k]
<1>1. ASSUME NEW o \in ObjId, CommittedRow(object, k, o)
      PROVE  StoredContent'[k] = StoredContent[k]
  <2>1. CommittedRow(object', k, o) /\ object'[o].size = object[o].size
    BY <1>1 DEF SameCommitted
  <2>2. StoredContent[k] = 0 .. (object[o].size - 1)
    BY <1>1, Holding
  <2>3. StoredContent'[k] = 0 .. (object'[o].size - 1)
    BY <2>1, HoldingNext
  <2> QED BY <2>1, <2>2, <2>3
<1>2. ASSUME \A o \in ObjId : ~CommittedRow(object, k, o)
      PROVE  StoredContent'[k] = StoredContent[k]
  <2>1. \A o \in ObjId : ~CommittedRow(object', k, o)
    BY <1>2 DEF SameCommitted
  <2>2. StoredContent[k] = {}
    BY <1>2, Holding
  <2>3. StoredContent'[k] = {}
    BY <2>1, HoldingNext
  <2> QED BY <2>2, <2>3
<1> QED BY <1>1, <1>2

LEMMA StoreStays ==
  ASSUME WholeInv, WholeInv', \A k \in Key : SameCommitted(k)
  PROVE  StoredContent' = StoredContent
<1>1. \A k \in Key : StoredContent'[k] = StoredContent[k]
  BY KeyStays
<1> QED BY <1>1 DEF StoredContent

(* A step for key k alone. *)
LEMMA StoreExcept ==
  ASSUME WholeInv, WholeInv', NEW k \in Key, \A j \in Key : j # k => SameCommitted(j), NEW c,
         StoredContent'[k] = c
  PROVE  StoredContent' = [StoredContent EXCEPT ![k] = c]
<1>1. \A j \in Key : j # k => StoredContent'[j] = StoredContent[j]
  BY KeyStays
<1> QED BY <1>1 DEF StoredContent

(* Calls.  What CallsMatch says of one thread, and the call it runs.         *)
Matches(r, ob) ==
  /\ r.pc = "idle" => r.len = 0
  /\ r.pc \in Writing \cup {"insert"} \/ r.then = "insert" => r.len # 0
  /\ r.pc = "delete" /\ r.len # 0 => ob[r.obj].state # "committed"
CallOf(r) == [op |-> IF r.pc = "idle" THEN "idle" ELSE IF r.len = 0 THEN "delete" ELSE "put",
              n |-> r.len]

CallInv == WholeInv /\ \A k \in Key : Matches(w[k], object)

LEMMA CallMeaning == (\A k \in Key : Matches(w[k], object)) <=> CallsMatch
BY DEF Matches, CallsMatch

LEMMA CallsAre ==
  /\ RunningCall = [k \in Key |-> CallOf(w[k])]
  /\ RunningCall' = [k \in Key |-> CallOf(w'[k])]
BY DEF RunningCall, CallOf

LEMMA IdleCall == CallOf(IdleWriter) = Atomic!Idle
BY IdleFields DEF CallOf, Atomic!Idle

LEMMA CallExcept ==
  ASSUME NEW k \in Key, \A j \in Key : j # k => w'[j] = w[j]
  PROVE  RunningCall' = [RunningCall EXCEPT ![k] = CallOf(w'[k])]
BY CallsAre

(* Nobody commits the object that the thread of another key deletes.         *)
NoneCommits(k) ==
  \A o \in ObjId : object'[o].state = "committed" =>
    object[o].state = "committed" \/ (w[k].pc \in Writing /\ o = w[k].obj)

LEMMA OthersMatch ==
  ASSUME CallInv, WholeInv', NEW k \in Key, NoneCommits(k),
         \A j \in Key : j # k => w'[j] = w[j], Matches(w'[k], object')
  PROVE  CallInv'
<1>1. ASSUME NEW j \in Key, j # k PROVE Matches(w[j], object')
  <2>1. Matches(w[j], object) /\ FilesInv
    BY DEF CallInv, WholeInv
  <2>2. ASSUME w[j].pc = "delete", w[j].len # 0 PROVE object'[w[j].obj].state # "committed"
    <3>1. object[w[j].obj].state # "committed" /\ w[j].obj \in ObjId
      BY <2>1, <2>2, FilesHolds DEF Matches, Holds
    <3>2. w[k].pc \in Writing => w[j].obj # w[k].obj
      BY <1>1, <2>1, <2>2, OtherObject
    <3> QED BY <3>1, <3>2 DEF NoneCommits
  <2> QED BY <2>1, <2>2 DEF Matches
<1> QED BY <1>1 DEF CallInv

(* What one step of Next is to the abstract store: it leaves the calls       *)
(* matched and takes a step of AtomicStore or none.                          *)
Refines == CallInv' /\ [Atomic!Next]_<<StoredContent, RunningCall>>

(* The thread of k takes a step that leaves what is stored alone and its     *)
(* call running, or ends it.                                                 *)
LEMMA QuietRefines ==
  ASSUME CallInv, WholeInv', NEW k \in Key, NoneCommits(k),
         \A j \in Key : j # k => w'[j] = w[j], Matches(w'[k], object'),
         \A j \in Key : SameCommitted(j),
         w[k].pc # "idle",
         CallOf(w'[k]) = CallOf(w[k]) \/ w'[k] = IdleWriter
  PROVE  Refines
<1>1. CallInv'
  BY OthersMatch
<1>2. StoredContent' = StoredContent
  BY StoreStays DEF CallInv
<1>3. RunningCall' = [RunningCall EXCEPT ![k] = CallOf(w'[k])]
  BY CallExcept
<1>4. CASE CallOf(w'[k]) = CallOf(w[k])
  <2>1. RunningCall' = RunningCall
    BY <1>3, <1>4, CallsAre
  <2> QED BY <1>1, <1>2, <2>1 DEF Refines
<1>5. CASE w'[k] = IdleWriter
  <2>1. RunningCall' = [RunningCall EXCEPT ![k] = Atomic!Idle]
    BY <1>3, <1>5, IdleCall
  <2>2. RunningCall[k] # Atomic!Idle
    <3>1. RunningCall[k].op # "idle"
      BY CallsAre DEF CallOf
    <3> QED BY <3>1 DEF Atomic!Idle
  <2>3. Atomic!Return(k)
    BY <1>2, <2>1, <2>2 DEF Atomic!Return
  <2> QED BY <1>1, <2>3 DEF Refines, Atomic!Next
<1> QED BY <1>4, <1>5

LEMMA SameObjects ==
  ASSUME UNCHANGED object, NEW k
  PROVE  SameCommitted(k) /\ NoneCommits(k)
BY DEF SameCommitted, CommittedRow, NoneCommits

(* The thread moves on without touching the object rows. *)
LEMMA LocalRefines ==
  ASSUME CallInv, WholeInv', NEW k \in Key, UNCHANGED object, NEW q, SetW(k, q),
         w[k].pc # "idle", Matches(q, object),
         \/ q.pc # "idle" /\ q.len = w[k].len
         \/ q = IdleWriter
  PROVE  Refines
<1>1. w'[k] = q /\ \A j \in Key : j # k => w'[j] = w[j]
  BY SetWFun DEF CallInv, WholeInv, FilesInv
<1>2. CallOf(w'[k]) = CallOf(w[k]) \/ w'[k] = IdleWriter
  BY <1>1 DEF CallOf
<1> QED BY <1>1, <1>2, SameObjects, QuietRefines

LEMMA IdleMatches == ASSUME NEW ob PROVE Matches(IdleWriter, ob)
BY IdleFields DEF Matches, Writing

LEMMA CallTypes == ASSUME CallInv PROVE TypeOK /\ FilesInv /\ WholeInv
BY DEF CallInv, WholeInv, FilesInv

(* Steps of a put.                                                           *)
LEMMA PutBeginRefines ==
  ASSUME CallInv, WholeInv', NEW k \in Key, NEW n \in 1 .. MaxStripes, PutBegin(k, n)
  PROVE  Refines
<1>1. /\ UNCHANGED object /\ w[k].pc = "idle"
      /\ \A o \in ObjId : KeyRow(k, o) => object[o].state # "committed"
  BY DEF PutBegin, dbVars
<1>2. n # 0 /\ n \in Nat
  BY BoundAssumption
<1>3. PICK q : /\ SetW(k, q) /\ q.pc \in {"delete", "insert"} /\ q.len = n
               /\ q.pc = "delete" => q.obj \in ObjId /\ KeyRow(k, q.obj)
  <2>1. ASSUME NEW o \in ObjId, KeyRow(k, o),
               SetW(k, [IdleWriter EXCEPT !.pc = "delete", !.then = "insert",
                                          !.len = n, !.obj = o])
        PROVE  \E q : /\ SetW(k, q) /\ q.pc \in {"delete", "insert"} /\ q.len = n
                      /\ q.pc = "delete" => q.obj \in ObjId /\ KeyRow(k, q.obj)
    <3> DEFINE q == [IdleWriter EXCEPT !.pc = "delete", !.then = "insert", !.len = n, !.obj = o]
    <3>1. q.pc = "delete" /\ q.len = n /\ q.obj = o
      BY DEF IdleWriter
    <3>2. SetW(k, q)
      BY <2>1
    <3> HIDE DEF q
    <3> QED BY <2>1, <3>1, <3>2
  <2>2. ASSUME SetW(k, [IdleWriter EXCEPT !.pc = "insert", !.len = n])
        PROVE  \E q : /\ SetW(k, q) /\ q.pc \in {"delete", "insert"} /\ q.len = n
                      /\ q.pc = "delete" => q.obj \in ObjId /\ KeyRow(k, q.obj)
    <3> DEFINE q == [IdleWriter EXCEPT !.pc = "insert", !.len = n]
    <3>1. q.pc = "insert" /\ q.len = n
      BY DEF IdleWriter
    <3>2. SetW(k, q)
      BY <2>2
    <3> HIDE DEF q
    <3> QED BY <3>1, <3>2
  <2> QED BY <2>1, <2>2 DEF PutBegin
<1>4. w'[k] = q /\ \A j \in Key : j # k => w'[j] = w[j]
  BY <1>3, CallTypes, SetWFun
<1>5. Matches(q, object')
  BY <1>1, <1>2, <1>3 DEF Matches, Writing
<1>6. CallInv'
  BY <1>1, <1>4, <1>5, SameObjects, OthersMatch
<1>7. StoredContent' = StoredContent
  BY <1>1, SameObjects, StoreStays, CallTypes
<1>8. RunningCall' = [RunningCall EXCEPT ![k] = [op |-> "put", n |-> n]]
  <2>1. CallOf(q) = [op |-> "put", n |-> n]
    BY <1>2, <1>3 DEF CallOf
  <2> QED BY <2>1, <1>4, CallExcept
<1>9. RunningCall[k] = Atomic!Idle
  <2>1. w[k].len = 0
    BY <1>1 DEF CallInv, Matches
  <2> QED BY <1>1, <2>1, CallsAre DEF CallOf, Atomic!Idle
<1>10. StoredContent[k] = Atomic!Absent
  <2>1. \A o \in ObjId : ~CommittedRow(object, k, o)
    BY <1>1 DEF CommittedRow, KeyRow
  <2> QED BY <2>1, Holding, CallTypes DEF Atomic!Absent
<1>11. Atomic!BeginPut(k)
  BY <1>7, <1>8, <1>9, <1>10 DEF Atomic!BeginPut, Atomic!Begin
<1> QED BY <1>6, <1>11 DEF Refines, Atomic!Next

LEMMA PutInsertRefines ==
  ASSUME CallInv, WholeInv', NEW k \in Key, PutInsert(k)
  PROVE  Refines
<1>1. PICK o \in ObjId :
        /\ object[o].state = "none"
        /\ object' = [object EXCEPT ![o] = [state |-> "pending", key |-> k, size |-> 0]]
        /\ SetW(k, [w[k] EXCEPT !.pc = "stripe", !.obj = o])
  BY DEF PutInsert, IsNextRowId
<1> DEFINE q == [w[k] EXCEPT !.pc = "stripe", !.obj = o]
<1>2. q.pc = "stripe" /\ q.len = w[k].len
  BY CallTypes DEF TypeOK, Writer
<1>3. w'[k] = q /\ \A j \in Key : j # k => w'[j] = w[j]
  BY <1>1, CallTypes, SetWFun
<1> HIDE DEF q
<1>4. \A p \in ObjId : /\ object'[p].state = "committed" <=> object[p].state = "committed"
                       /\ object[p].state = "committed" => object'[p] = object[p]
  BY <1>1, CallTypes DEF TypeOK
<1>5. NoneCommits(k) /\ \A j \in Key : SameCommitted(j)
  BY <1>4 DEF NoneCommits, SameCommitted, CommittedRow
<1>6. w[k].pc = "insert" /\ w[k].len # 0
  BY DEF PutInsert, CallInv, Matches
<1>7. Matches(w'[k], object') /\ CallOf(w'[k]) = CallOf(w[k])
  <2>1. q.then = "insert" => q.len # 0
    BY <1>2, <1>6
  <2> QED BY <1>2, <1>3, <1>6, <2>1 DEF Matches, CallOf
<1> QED BY <1>3, <1>5, <1>6, <1>7, QuietRefines

LEMMA StripeBeginRefines ==
  ASSUME CallInv, WholeInv', NEW k \in Key, StripeBegin(k)
  PROVE  Refines
<1>1. UNCHANGED object /\ w[k].pc = "stripe"
  BY DEF StripeBegin
<1>2. PICK s \in StripeId, p \in Placement :
        SetW(k, [w[k] EXCEPT
                   !.pc = "shards", !.sid = s,
                   !.rows = [i \in Shard |->
                               [disk |-> p[i],
                                state |-> IF p[i] = None THEN "missing" ELSE "todo"]]])
  BY DEF StripeBegin
<1> DEFINE rows == [i \in Shard |-> [disk |-> p[i],
                                     state |-> IF p[i] = None THEN "missing" ELSE "todo"]]
           q == [w[k] EXCEPT !.pc = "shards", !.sid = s, !.rows = rows]
<1>3. q.pc = "shards" /\ q.len = w[k].len /\ q.then = w[k].then
  BY CallTypes DEF TypeOK, Writer
<1>4. SetW(k, q)
  BY <1>2
<1> HIDE DEF q
<1>5. Matches(q, object)
  BY <1>1, <1>3 DEF CallInv, Matches, Writing
<1> QED BY <1>1, <1>3, <1>4, <1>5, LocalRefines

LEMMA WriteShardRefines ==
  ASSUME CallInv, WholeInv', NEW k \in Key, NEW i \in Shard, WriteShard(k, i) \/ WriteShardFails(k, i)
  PROVE  Refines
<1>1. UNCHANGED object /\ w[k].pc = "shards"
  BY DEF WriteShard, WriteShardFails, NextShard, dbVars
<1>2. /\ w'[k].pc = "shards" /\ w'[k].len = w[k].len /\ w'[k].then = w[k].then
      /\ \A j \in Key : j # k => w'[j] = w[j]
  BY <1>1, CallTypes DEF WriteShard, WriteShardFails, TypeOK, Writer
<1>3. Matches(w'[k], object') /\ CallOf(w'[k]) = CallOf(w[k])
  BY <1>1, <1>2 DEF CallInv, Matches, Writing, CallOf
<1> QED BY <1>1, <1>2, <1>3, SameObjects, QuietRefines

LEMMA StripeCommitRefines ==
  ASSUME CallInv, WholeInv', NEW k \in Key, StripeCommit(k)
  PROVE  Refines
<1> DEFINE q == [w[k] EXCEPT !.pc = "stripe", !.seq = @ + 1, !.sid = None, !.rows = NoRows]
<1>1. UNCHANGED object /\ w[k].pc = "shards" /\ SetW(k, q)
  BY DEF StripeCommit, AllTried
<1>2. q.pc = "stripe" /\ q.len = w[k].len /\ q.then = w[k].then
  BY CallTypes DEF TypeOK, Writer
<1> HIDE DEF q
<1>3. Matches(q, object)
  BY <1>1, <1>2 DEF CallInv, Matches, Writing
<1> QED BY <1>1, <1>2, <1>3, LocalRefines

LEMMA StripeGiveUpRefines ==
  ASSUME CallInv, WholeInv', NEW k \in Key, StripeGiveUp(k)
  PROVE  Refines
<1> DEFINE q == [w[k] EXCEPT !.pc = "giveup", !.rows = NoRows]
<1>1. UNCHANGED object /\ w[k].pc = "shards" /\ SetW(k, q)
  BY DEF StripeGiveUp, AllTried, dbVars
<1>2. q.pc = "giveup" /\ q.len = w[k].len /\ q.then = w[k].then
  BY CallTypes DEF TypeOK, Writer
<1> HIDE DEF q
<1>3. Matches(q, object)
  BY <1>1, <1>2 DEF CallInv, Matches, Writing
<1> QED BY <1>1, <1>2, <1>3, LocalRefines

LEMMA StripeDropRefines ==
  ASSUME CallInv, WholeInv', NEW k \in Key, StripeDrop(k)
  PROVE  Refines
<1> DEFINE q == [w[k] EXCEPT !.pc = "delete", !.sid = None]
<1>1. UNCHANGED object /\ w[k].pc = "giveup" /\ SetW(k, q)
  BY DEF StripeDrop
<1>2. q.pc = "delete" /\ q.len = w[k].len /\ q.then = w[k].then /\ q.obj = w[k].obj
  BY CallTypes DEF TypeOK, Writer
<1> HIDE DEF q
<1>3. object[w[k].obj].state = "pending"
  BY <1>1, CallTypes, FilesHolds DEF Holds, Writing
<1>4. Matches(q, object)
  BY <1>1, <1>2, <1>3 DEF CallInv, Matches, Writing
<1> QED BY <1>1, <1>2, <1>4, LocalRefines

(* The put takes effect: all of its content at once. *)
LEMMA PutCommitRefines ==
  ASSUME CallInv, WholeInv', NEW k \in Key, PutCommit(k)
  PROVE  Refines
<1> DEFINE o == w[k].obj
<1>1. /\ w[k].pc = "stripe" /\ w[k].seq = w[k].len /\ SetW(k, IdleWriter)
      /\ object' = [object EXCEPT ![o].state = "committed", ![o].size = w[k].seq]
  BY DEF PutCommit, StripeCount
<1>2. o \in ObjId /\ object[o].state = "pending" /\ KeyRow(k, o)
  BY <1>1, CallTypes, FilesHolds DEF Holds, Writing, TypeOK, WriterOK
<1>3. w'[k] = IdleWriter /\ \A j \in Key : j # k => w'[j] = w[j]
  BY <1>1, CallTypes, SetWFun
<1>4. /\ object'[o].state = "committed" /\ object'[o].size = w[k].len
      /\ object'[o].key = k
      /\ \A p \in ObjId : p # o => object'[p] = object[p]
  BY <1>1, <1>2, CallTypes DEF TypeOK, ObjectRow, KeyRow
<1>5. NoneCommits(k)
  BY <1>1, <1>4 DEF NoneCommits, Writing
<1>6. CallInv'
  BY <1>3, <1>5, IdleMatches, OthersMatch
<1>7. \A j \in Key : j # k => SameCommitted(j)
  BY <1>2, <1>4 DEF SameCommitted, CommittedRow
<1>8. StoredContent'[k] = 0 .. (w[k].len - 1)
  BY <1>2, <1>4, HoldingNext DEF CommittedRow
<1>9. StoredContent' = [StoredContent EXCEPT ![k] = 0 .. (w[k].len - 1)]
  BY <1>7, <1>8, StoreExcept, CallTypes
<1>10. StoredContent[k] = Atomic!Absent
  <2>1. \A p \in ObjId : KeyRow(k, p) => p = o
    BY <1>2, CallTypes DEF FilesInv, OneRowPerKey
  <2>2. \A p \in ObjId : ~CommittedRow(object, k, p)
    BY <1>2, <2>1 DEF CommittedRow, KeyRow
  <2> QED BY <2>2, Holding, CallTypes DEF Atomic!Absent
<1>11. RunningCall[k] = [op |-> "put", n |-> w[k].len]
  <2>1. w[k].len # 0
    BY <1>1 DEF CallInv, Matches, Writing
  <2> QED BY <1>1, <2>1, CallsAre DEF CallOf
<1>12. RunningCall' = [RunningCall EXCEPT ![k] = Atomic!Idle]
  BY <1>3, CallExcept, IdleCall
<1>13. Atomic!Store(k)
  BY <1>9, <1>10, <1>11, <1>12 DEF Atomic!Store, Atomic!Content
<1> QED BY <1>6, <1>13 DEF Refines, Atomic!Next

LEMMA PutRaisesRefines ==
  ASSUME CallInv, WholeInv', NEW k \in Key, PutRaises(k)
  PROVE  Refines
<1>1. UNCHANGED object
  BY DEF PutRaises, dbVars
<1>2. ASSUME w[k].pc = "insert", SetW(k, IdleWriter) PROVE Refines
  BY <1>1, <1>2, IdleMatches, LocalRefines
<1>3. ASSUME w[k].pc \in Writing,
             SetW(k, [w[k] EXCEPT !.pc = "delete", !.sid = None, !.rows = NoRows])
      PROVE  Refines
  <2> DEFINE q == [w[k] EXCEPT !.pc = "delete", !.sid = None, !.rows = NoRows]
  <2>1. q.pc = "delete" /\ q.len = w[k].len /\ q.then = w[k].then /\ q.obj = w[k].obj
    BY CallTypes DEF TypeOK, Writer
  <2>2. SetW(k, q)
    BY <1>3
  <2> HIDE DEF q
  <2>3. object[w[k].obj].state = "pending"
    BY <1>3, CallTypes, FilesHolds DEF Holds
  <2>4. Matches(q, object)
    BY <1>3, <2>1, <2>3 DEF CallInv, Matches, Writing
  <2>5. w[k].pc # "idle"
    BY <1>3 DEF Writing
  <2> QED BY <1>1, <2>1, <2>2, <2>4, <2>5, LocalRefines
<1> QED BY <1>2, <1>3 DEF PutRaises, Writing

(* Steps of a delete, and of the purge before or after a put that failed.    *)
LEMMA DeleteBeginRefines ==
  ASSUME CallInv, WholeInv', NEW k \in Key, DeleteBegin(k)
  PROVE  Refines
<1>1. UNCHANGED object /\ w[k].pc = "idle"
  BY DEF DeleteBegin, dbVars
<1>2. PICK o \in ObjId : SetW(k, [IdleWriter EXCEPT !.pc = "delete", !.obj = o])
  BY DEF DeleteBegin
<1> DEFINE q == [IdleWriter EXCEPT !.pc = "delete", !.obj = o]
<1>3. q.pc = "delete" /\ q.len = 0 /\ q.then = "idle"
  BY DEF IdleWriter
<1>4. w'[k] = q /\ \A j \in Key : j # k => w'[j] = w[j]
  BY <1>2, CallTypes, SetWFun
<1> HIDE DEF q
<1>5. Matches(q, object')
  BY <1>3 DEF Matches, Writing
<1>6. CallInv'
  BY <1>1, <1>4, <1>5, SameObjects, OthersMatch
<1>7. StoredContent' = StoredContent
  BY <1>1, SameObjects, StoreStays, CallTypes
<1>8. RunningCall' = [RunningCall EXCEPT ![k] = [op |-> "delete", n |-> 0]]
  <2>1. CallOf(q) = [op |-> "delete", n |-> 0]
    BY <1>3 DEF CallOf
  <2> QED BY <2>1, <1>4, CallExcept
<1>9. RunningCall[k] = Atomic!Idle
  <2>1. w[k].len = 0
    BY <1>1 DEF CallInv, Matches
  <2> QED BY <1>1, <2>1, CallsAre DEF CallOf, Atomic!Idle
<1>10. Atomic!BeginDelete(k)
  BY <1>7, <1>8, <1>9 DEF Atomic!BeginDelete, Atomic!Begin
<1> QED BY <1>6, <1>10 DEF Refines, Atomic!Next

LEMMA DeleteRowsRefines ==
  ASSUME CallInv, WholeInv', NEW k \in Key, DeleteRows(k)
  PROVE  Refines
<1> DEFINE o == w[k].obj
           F == RowFiles(StripesOf(o))
           q == IF F # {} THEN [w[k] EXCEPT !.pc = "unlink", !.doomed = F]
                ELSE IF w[k].then = "insert"
                THEN [IdleWriter EXCEPT !.pc = "insert", !.len = w[k].len]
                ELSE IdleWriter
<1>1. w[k].pc = "delete" /\ object' = [object EXCEPT ![o] = NoObject] /\ SetW(k, q)
  BY DEF DeleteRows
<1>2. \/ q.pc = "unlink" /\ q.len = w[k].len /\ q.then = w[k].then
      \/ q.pc = "insert" /\ q.len = w[k].len /\ w[k].then = "insert"
      \/ q = IdleWriter
  BY CallTypes DEF TypeOK, Writer, IdleWriter
<1>3. w'[k] = q /\ \A j \in Key : j # k => w'[j] = w[j]
  BY <1>1, CallTypes, SetWFun
<1> HIDE DEF q
<1>4. o \in ObjId /\ KeyRow(k, o) /\ Matches(w[k], object)
  BY <1>1, CallTypes, FilesHolds DEF Holds, CallInv
<1>5. object'[o].state = "none" /\ \A p \in ObjId : p # o => object'[p] = object[p]
  BY <1>1, <1>4, CallTypes DEF TypeOK, NoObject
<1>6. NoneCommits(k)
  BY <1>5 DEF NoneCommits
<1>7. Matches(q, object')
  <2>1. q.pc = "unlink" /\ q.then = w[k].then /\ q.len = w[k].len => Matches(q, object')
    BY <1>4 DEF Matches, Writing
  <2>2. q.pc = "insert" /\ q.len = w[k].len /\ w[k].then = "insert" => Matches(q, object')
    BY <1>4 DEF Matches, Writing
  <2> QED BY <1>2, <2>1, <2>2, IdleMatches
<1>8. CallInv'
  BY <1>3, <1>6, <1>7, OthersMatch
<1>9. CASE w[k].len # 0
  <2>1. object[o].state # "committed"
    BY <1>1, <1>4, <1>9 DEF Matches
  <2>2. \A j \in Key : SameCommitted(j)
    BY <1>5, <2>1 DEF SameCommitted, CommittedRow
  <2>3. CallOf(w'[k]) = CallOf(w[k]) \/ w'[k] = IdleWriter
    BY <1>1, <1>2, <1>3 DEF CallOf
  <2> QED BY <1>1, <1>3, <1>6, <1>7, <2>2, <2>3, QuietRefines
<1>10. CASE w[k].len = 0
  <2>1. \A j \in Key : j # k => SameCommitted(j)
    BY <1>4, <1>5 DEF SameCommitted, CommittedRow, KeyRow
  <2>2. \A p \in ObjId : ~CommittedRow(object', k, p)
    <3>1. \A p \in ObjId : KeyRow(k, p) => p = o
      BY <1>4, CallTypes DEF FilesInv, OneRowPerKey
    <3> QED BY <1>5, <3>1 DEF CommittedRow, KeyRow
  <2>3. StoredContent' = [StoredContent EXCEPT ![k] = Atomic!Absent]
    <3>1. StoredContent'[k] = Atomic!Absent
      BY <2>2, HoldingNext DEF Atomic!Absent
    <3> QED BY <2>1, <3>1, StoreExcept, CallTypes
  <2>4. RunningCall[k].op = "delete"
    BY <1>1, <1>10, CallsAre DEF CallOf
  <2>5. RunningCall' = [RunningCall EXCEPT ![k] = CallOf(q)]
    BY <1>3, CallExcept
  <2>6. CASE q.pc = "unlink" /\ q.len = w[k].len
    <3>1. CallOf(q) = CallOf(w[k])
      BY <1>1, <2>6 DEF CallOf
    <3>2. RunningCall' = RunningCall
      BY <2>5, <3>1, CallsAre
    <3>3. Atomic!Remove(k)
      BY <2>3, <2>4, <3>2 DEF Atomic!Remove
    <3> QED BY <1>8, <3>3 DEF Refines, Atomic!Next
  <2>7. CASE q = IdleWriter
    <3>1. Atomic!RemoveAndReturn(k)
      BY <2>3, <2>4, <2>5, <2>7, IdleCall DEF Atomic!RemoveAndReturn
    <3> QED BY <1>8, <3>1 DEF Refines, Atomic!Next
  <2>8. w[k].then # "insert"
    BY <1>4, <1>10 DEF Matches
  <2> QED BY <1>2, <2>6, <2>7, <2>8
<1> QED BY <1>9, <1>10

LEMMA DeleteRaisesRefines ==
  ASSUME CallInv, WholeInv', NEW k \in Key, DeleteRaises(k)
  PROVE  Refines
<1>1. UNCHANGED object /\ w[k].pc = "delete" /\ SetW(k, IdleWriter)
  BY DEF DeleteRaises, dbVars
<1> QED BY <1>1, IdleMatches, LocalRefines

LEMMA UnlinkRefines ==
  ASSUME CallInv, WholeInv', NEW k \in Key, Unlink(k)
  PROVE  Refines
<1>1. UNCHANGED object /\ w[k].pc = "unlink" /\ Matches(w[k], object)
  BY DEF Unlink, dbVars, CallInv
<1>2. PICK s \in StripeId :
        LET F == {f \in w[k].doomed : f[2] = s} IN
        SetW(k, IF StillDoomed(w[k].doomed, F) # {}
                THEN [w[k] EXCEPT !.doomed = StillDoomed(@, F)]
                ELSE IF w[k].then = "insert"
                THEN [IdleWriter EXCEPT !.pc = "insert", !.len = w[k].len]
                ELSE IdleWriter)
  BY DEF Unlink
<1> DEFINE D == StillDoomed(w[k].doomed, {f \in w[k].doomed : f[2] = s})
           q == IF D # {} THEN [w[k] EXCEPT !.doomed = StillDoomed(@, {f \in w[k].doomed : f[2] = s})]
                ELSE IF w[k].then = "insert"
                THEN [IdleWriter EXCEPT !.pc = "insert", !.len = w[k].len]
                ELSE IdleWriter
<1>3. \/ q.pc = "unlink" /\ q.len = w[k].len /\ q.then = w[k].then
      \/ q.pc = "insert" /\ q.len = w[k].len /\ w[k].then = "insert"
      \/ q = IdleWriter
  BY <1>1, CallTypes DEF TypeOK, Writer, IdleWriter
<1>4. SetW(k, q)
  BY <1>2
<1> HIDE DEF q
<1>5. CASE q.pc = "unlink" /\ q.len = w[k].len /\ q.then = w[k].then
  <2>1. Matches(q, object)
    BY <1>1, <1>5 DEF Matches, Writing
  <2> QED BY <1>1, <1>4, <1>5, <2>1, LocalRefines
<1>6. CASE q.pc = "insert" /\ q.len = w[k].len /\ w[k].then = "insert"
  <2>1. Matches(q, object)
    BY <1>1, <1>6 DEF Matches, Writing
  <2> QED BY <1>1, <1>4, <1>6, <2>1, LocalRefines
<1>7. CASE q = IdleWriter
  BY <1>1, <1>4, <1>7, IdleMatches, LocalRefines
<1> QED BY <1>3, <1>5, <1>6, <1>7

(* A crash ends every call and leaves what is stored.                        *)
LEMMA CrashRefines ==
  ASSUME CallInv, WholeInv', Crash
  PROVE  Refines
<1>1. UNCHANGED object /\ w' = [k \in Key |-> IdleWriter]
  BY DEF Crash, dbVars
<1>2. CallInv'
  BY <1>1, IdleMatches DEF CallInv
<1>3. StoredContent' = StoredContent
  BY <1>1, SameObjects, StoreStays, CallTypes
<1>4. RunningCall' = [k \in Key |-> Atomic!Idle]
  BY <1>1, CallsAre, IdleCall
<1> QED BY <1>2, <1>3, <1>4 DEF Refines, Atomic!Next, Atomic!Crash

(* Readers, disks, the start-up: no call takes a step.                       *)
LEMMA BesideRefines ==
  ASSUME CallInv, WholeInv', UNCHANGED w,
         \A o \in ObjId : /\ object'[o].state = "committed" <=> object[o].state = "committed"
                          /\ object[o].state = "committed" => object'[o] = object[o]
  PROVE  Refines
<1>1. \A k \in Key : SameCommitted(k)
  BY DEF SameCommitted, CommittedRow
<1>2. StoredContent' = StoredContent
  BY <1>1, StoreStays, CallTypes
<1>3. RunningCall' = RunningCall
  BY CallsAre
<1>4. ASSUME NEW k \in Key PROVE Matches(w[k], object')
  <2>1. w[k].pc = "delete" => w[k].obj \in ObjId
    BY CallTypes, FilesHolds DEF Holds
  <2> QED BY <2>1 DEF CallInv, Matches
<1> QED BY <1>2, <1>3, <1>4 DEF Refines, CallInv

LEMMA BootObjectRefines ==
  ASSUME CallInv, WholeInv', NEW p \in ObjId, BootObject(p)
  PROVE  Refines
<1>1. UNCHANGED w /\ object[p].state = "pending" /\ object' = [object EXCEPT ![p] = NoObject]
  BY DEF BootObject, Unfinished
<1>2. object'[p].state = "none" /\ \A o \in ObjId : o # p => object'[o] = object[o]
  BY <1>1, CallTypes DEF TypeOK, NoObject
<1> QED BY <1>1, <1>2, BesideRefines

LEMMA ReaderRefines ==
  ASSUME CallInv, WholeInv', NEW x \in Reader,
         \/ \E k \in Key : ReadStat(x, k)
         \/ ReadList(x) \/ ReadRows(x)
         \/ \E i \in Shard : ReadSkip(x, i)
         \/ \E i \in Shard : ReadShard(x, i)
         \/ \E i \in Shard : ReadMissing(x, i)
         \/ \E i \in Shard : ReadFails(x, i)
         \/ ReadDecode(x) \/ ReadUnrecoverable(x) \/ ReadEnd(x)
  PROVE  Refines
<1>1. ASSUME NEW i \in Shard, ReadSkip(x, i) \/ ReadShard(x, i) PROVE UNCHANGED <<object, w>>
  BY <1>1 DEF ReadSkip, ReadShard, dbVars
<1>2. ASSUME NEW i \in Shard, ReadMissing(x, i) PROVE UNCHANGED <<object, w>>
  BY <1>2 DEF ReadMissing
<1>3. ASSUME NEW i \in Shard, ReadFails(x, i) PROVE UNCHANGED <<object, w>>
  BY <1>3 DEF ReadFails, dbVars
<1>4. ASSUME NEW k \in Key, ReadStat(x, k) PROVE UNCHANGED <<object, w>>
  BY <1>4 DEF ReadStat, dbVars
<1>5. ReadList(x) \/ ReadRows(x) \/ ReadDecode(x) \/ ReadEnd(x) => UNCHANGED <<object, w>>
  BY DEF ReadList, ReadRows, ReadDecode, ReadEnd, dbVars
<1>6. ReadUnrecoverable(x) => UNCHANGED <<object, w>>
  BY DEF ReadUnrecoverable
<1> QED BY <1>1, <1>2, <1>3, <1>4, <1>5, <1>6, BesideRefines

LEMMA InitRefines == Init => CallInv /\ Atomic!Init
<1> SUFFICES ASSUME Init PROVE CallInv /\ Atomic!Init
  OBVIOUS
<1>1. WholeInv
  BY InitWhole
<1>2. w = [k \in Key |-> IdleWriter] /\ \A o \in ObjId : object[o].state = "none"
  BY DEF Init, NoObject
<1>3. RunningCall = [k \in Key |-> Atomic!Idle]
  BY <1>2, CallsAre, IdleCall
<1>4. StoredContent = [k \in Key |-> Atomic!Absent]
  <2>1. \A k \in Key : StoredContent[k] = Atomic!Absent
    BY <1>1, <1>2, Holding DEF CommittedRow, Atomic!Absent
  <2> QED BY <2>1 DEF StoredContent
<1> QED BY <1>1, <1>2, <1>3, <1>4, IdleMatches DEF CallInv, Atomic!Init

LEMMA NextRefines ==
  ASSUME CallInv, WholeInv', [Next]_vars
  PROVE  Refines
<1>1. ASSUME NEW d \in Disk, DiskDown(d) \/ DiskUp(d) \/ HealthCheck(d)
      PROVE  UNCHANGED <<object, w>>
  BY <1>1 DEF DiskDown, DiskUp, HealthCheck, dbVars
<1>2. BootSweep \/ BootDrop \/ BootUnlink \/ BootServe => UNCHANGED <<object, w>>
  BY DEF BootSweep, BootDrop, BootUnlink, BootServe, dbVars
<1>3. UNCHANGED vars => UNCHANGED <<object, w>>
  BY DEF vars, dbVars
<1>4. UNCHANGED <<object, w>> => Refines
  BY BesideRefines
<1> QED
  BY Actions, <1>1, <1>2, <1>3, <1>4, PutBeginRefines, PutInsertRefines, StripeBeginRefines,
     WriteShardRefines, StripeCommitRefines, StripeGiveUpRefines, StripeDropRefines,
     PutCommitRefines, PutRaisesRefines, DeleteBeginRefines, DeleteRowsRefines,
     DeleteRaisesRefines, UnlinkRefines, CrashRefines, BootObjectRefines, ReaderRefines

(* A put that runs only purges leftovers, and a call is what its thread does *)
(* next: CallsMatch is invariant on top of IInv.                             *)
THEOREM CallsCorrect == Spec => []CallsMatch
<1>1. Init => CallInv
  BY InitRefines
<1>2. CallInv /\ WholeInv' /\ [Next]_vars => CallInv'
  BY NextRefines DEF Refines
<1>3. CallInv => CallsMatch
  BY CallMeaning DEF CallInv
<1> QED BY <1>1, <1>2, <1>3, WholeCorrect, PTL DEF Spec

(* The store implements AtomicStore: a put takes effect at one instant with  *)
(* all of its content or not at all, a delete removes all of it, a crash     *)
(* ends the calls and changes nothing that is stored, and nothing else       *)
(* changes what is stored (put_stream, delete, recover_pending).             *)
THEOREM StoreIsAtomic == Spec => IsAtomicStore
<1>1. Init => CallInv /\ Atomic!Init
  BY InitRefines
<1>2. CallInv /\ WholeInv' /\ [Next]_vars => CallInv' /\ [Atomic!Next]_Atomic!vars
  BY NextRefines DEF Refines, Atomic!vars
<1> QED BY <1>1, <1>2, WholeCorrect, PTL DEF Spec, IsAtomicStore, Atomic!Spec

-----------------------------------------------------------------------------
(* The index that recover_index would build.                                 *)

(* No committed object is empty: a put of nothing never gets that far.       *)
NoneEmpty == \A o \in ObjId : object[o].state = "committed" => object[o].size # 0

LEMMA CodeType == K \in Nat \ {0} /\ M \in Nat /\ IsFiniteSet(Shard)
<1>1. Cardinality(Disk) \in Nat /\ Cardinality(Disk) # 0
  BY DiskAssumption, FS_CardinalityType, FS_EmptySet
<1>2. K \in Nat \ {0} /\ M \in Nat
  BY <1>1, CodeAssumption DEF K, M, Profile
<1>3. IsFiniteSet(Shard)
  BY <1>2, FS_Interval DEF Shard
<1> QED BY <1>2, <1>3

(* Only PutCommit makes an object committed.                                 *)
LEMMA CommitStep ==
  ASSUME TypeOK, [Next]_vars, NEW o \in ObjId, object'[o].state = "committed"
  PROVE  \/ object'[o] = object[o]
         \/ \E k \in Key : PutCommit(k) /\ o = w[k].obj
<1>1. UNCHANGED object => object'[o] = object[o]
  OBVIOUS
<1>2. ASSUME NEW k \in Key, PutInsert(k)
      PROVE  object'[o] = object[o]
  BY <1>2 DEF PutInsert, TypeOK
<1>3. ASSUME NEW k \in Key, PutCommit(k)
      PROVE  object'[o] = object[o] \/ o = w[k].obj
  BY <1>3 DEF PutCommit, TypeOK
<1>4. ASSUME NEW k \in Key, DeleteRows(k)
      PROVE  object'[o] = object[o]
  BY <1>4 DEF DeleteRows, NoObject, TypeOK
<1>5. ASSUME NEW p \in ObjId, BootObject(p)
      PROVE  object'[o] = object[o]
  BY <1>5 DEF BootObject, NoObject, TypeOK
<1>6. ASSUME NEW k \in Key,
             \/ \E n \in 1 .. MaxStripes : PutBegin(k, n)
             \/ StripeBegin(k)
             \/ \E i \in Shard : WriteShard(k, i)
             \/ \E i \in Shard : WriteShardFails(k, i)
             \/ StripeCommit(k) \/ StripeGiveUp(k) \/ StripeDrop(k)
             \/ PutRaises(k) \/ DeleteBegin(k) \/ DeleteRaises(k) \/ Unlink(k)
      PROVE  UNCHANGED object
  BY <1>6 DEF PutBegin, StripeBegin, WriteShard, WriteShardFails, StripeCommit, StripeGiveUp,
              StripeDrop, PutRaises, DeleteBegin, DeleteRaises, Unlink, dbVars
<1>7. ASSUME NEW x \in Reader,
             \/ \E k \in Key : ReadStat(x, k)
             \/ ReadList(x) \/ ReadRows(x)
             \/ \E i \in Shard : ReadSkip(x, i)
             \/ \E i \in Shard : ReadShard(x, i)
             \/ \E i \in Shard : ReadMissing(x, i)
             \/ \E i \in Shard : ReadFails(x, i)
             \/ ReadDecode(x) \/ ReadUnrecoverable(x) \/ ReadEnd(x)
      PROVE  UNCHANGED object
  BY <1>7 DEF ReadStat, ReadList, ReadRows, ReadSkip, ReadShard, ReadMissing, ReadFails,
              ReadDecode, ReadUnrecoverable, ReadEnd, dbVars
<1>8. ASSUME \/ \E d \in Disk : DiskDown(d) \/ DiskUp(d) \/ HealthCheck(d)
             \/ Crash \/ BootSweep \/ BootDrop \/ BootUnlink \/ BootServe \/ UNCHANGED vars
      PROVE  UNCHANGED object
  BY <1>8 DEF DiskDown, DiskUp, HealthCheck, Crash, BootSweep, BootDrop, BootUnlink, BootServe,
              vars, dbVars
<1> QED BY <1>1, <1>2, <1>3, <1>4, <1>5, <1>6, <1>7, <1>8, Actions

LEMMA NoneEmptyStays ==
  ASSUME CallInv, NoneEmpty, [Next]_vars
  PROVE  NoneEmpty'
<1> SUFFICES ASSUME NEW o \in ObjId, object'[o].state = "committed"
             PROVE  object'[o].size # 0
  BY DEF NoneEmpty
<1>1. TypeOK
  BY CallTypes
<1>2. CASE object'[o] = object[o]
  BY <1>2 DEF NoneEmpty
<1>3. ASSUME NEW k \in Key, PutCommit(k), o = w[k].obj
      PROVE  object'[o].size # 0
  <2>1. w[k].len # 0 /\ w[k].seq = w[k].len
    BY <1>3, CallMeaning DEF CallInv, CallsMatch, PutCommit, Writing
  <2>2. object'[o].size = w[k].seq
    BY <1>1, <1>3 DEF PutCommit, StripeCount, TypeOK, ObjectRow
  <2> QED BY <2>1, <2>2
<1> QED BY <1>1, <1>2, <1>3, CommitStep

(* Of a stripe that readers list, a shard is scanned on every disk but the   *)
(* lost ones.                                                                *)
LEMMA ScannedShard ==
  ASSUME FilesInv, NEW s \in StripeId, stripe[s].state \in Visible, NEW i \in Shard, NEW D,
         shard[s][i].disk # None, shard[s][i].disk \notin D
  PROVE  i \in Recovered(s, Disk \ D) /\ s \in ScannedStripes(Disk \ D)
<1> DEFINE f == <<shard[s][i].disk, s, i>>
<1>1. shard[s][i].disk \in Disk
  BY DEF FilesInv, TypeOK, ShardRow
<1>2. f \in Scanned(Disk \ D)
  BY <1>1 DEF FilesInv, VisibleInPlace, Scanned
<1>3. f[1] \in Found(s, i, Disk \ D)
  BY <1>2 DEF Found
<1>4. i \in Recovered(s, Disk \ D)
  BY <1>3 DEF Recovered, RecoveredShard
<1>5. f[2] \in ScannedStripes(Disk \ D)
  BY <1>2 DEF ScannedStripes
<1> QED BY <1>4, <1>5

LEMMA EnoughScanned ==
  ASSUME FilesInv, NEW s \in StripeId, stripe[s].state \in Visible, NEW D \in Lost
  PROVE  /\ Cardinality(Recovered(s, Disk \ D)) >= K
         /\ s \in ScannedStripes(Disk \ D)
<1> DEFINE P == {i \in Shard : shard[s][i].disk # None}
           Q == {i \in P : shard[s][i].disk \in D}
           R == Recovered(s, Disk \ D)
<1>1. K \in Nat \ {0} /\ M \in Nat /\ MinWriteExtra \in Nat /\ IsFiniteSet(Shard)
  BY CodeType, CodeAssumption
<1>2. /\ IsFiniteSet(P) /\ IsFiniteSet(Q) /\ IsFiniteSet(R)
      /\ Cardinality(P) \in Nat /\ Cardinality(Q) \in Nat /\ Cardinality(R) \in Nat
  <2>1. P \in SUBSET Shard /\ Q \in SUBSET Shard /\ R \in SUBSET Shard
    BY DEF Recovered
  <2> HIDE DEF P, Q, R
  <2> QED BY <1>1, <2>1, FS_Subset, FS_CardinalityType
<1>3. Cardinality(P) >= K + MinWriteExtra \/ Cardinality(P) >= K + M
  BY DEF FilesInv, Redundant, Visible
<1>4. IsFiniteSet(D) /\ Cardinality(D) \in Nat /\ Cardinality(D) <= MinWriteExtra /\ Cardinality(D) <= M
  <2>1. D \in SUBSET Disk /\ Cardinality(D) <= MinWriteExtra /\ Cardinality(D) <= M
    BY DEF Lost
  <2> QED BY <2>1, DiskAssumption, FS_Subset, FS_CardinalityType
<1>5. Cardinality(Q) <= Cardinality(D)
  <2> DEFINE g == [i \in Q |-> shard[s][i].disk]
  <2>1. \A i, j \in Q : shard[s][i].disk = shard[s][j].disk => i = j
    BY DEF FilesInv, DistinctDisks
  <2>2. g \in Injection(Q, D)
    BY <2>1 DEF Injection, IsInjective
  <2> HIDE DEF Q, g
  <2> QED BY <2>2, <1>4, FS_Injection
<1>6. P \ Q \subseteq R
  BY ScannedShard
<1> HIDE DEF P, Q, R
<1>7. Cardinality(P \ Q) >= Cardinality(P) - Cardinality(Q) /\ Cardinality(P \ Q) \in Nat
  <2>1. /\ Cardinality(P \ Q) = Cardinality(P) - Cardinality(P \cap Q)
        /\ IsFiniteSet(P \ Q)
    BY <1>2, FS_Difference
  <2>2. Cardinality(P \cap Q) <= Cardinality(Q) /\ Cardinality(P \cap Q) \in Nat
    BY <1>2, FS_Intersection, FS_CardinalityType
  <2> QED BY <2>1, <2>2, <1>2, FS_CardinalityType
<1>8. Cardinality(P \ Q) <= Cardinality(R)
  BY <1>2, <1>6, FS_Subset
<1>9. Cardinality(R) >= K /\ Cardinality(P \ Q) # 0
  BY <1>1, <1>2, <1>3, <1>4, <1>5, <1>7, <1>8
<1>10. PICK i \in P \ Q : TRUE
  BY <1>2, <1>9, FS_EmptySet
<1>11. s \in ScannedStripes(Disk \ D)
  BY <1>10, ScannedShard DEF P, Q
<1> QED BY <1>9, <1>11 DEF R

(* The stripes of an object, counted.                                        *)
LEMMA CountNumbered ==
  ASSUME NEW n \in Nat \ {0}, NEW S, NEW q \in [S -> Nat],
         \A s \in S : q[s] < n,
         \A m \in 0 .. (n - 1) : \E s \in S : q[s] = m,
         \A s, t \in S : q[s] = q[t] => s = t
  PROVE  Cardinality(S) = n /\ Max({q[s] + 1 : s \in S}) = n
<1>1. Cardinality(S) = n
  <2>1. q \in Bijection(S, 0 .. (n - 1))
    BY DEF Bijection, Injection, Surjection, IsInjective
  <2>2. IsFiniteSet(0 .. (n - 1)) /\ Cardinality(0 .. (n - 1)) = n
    BY FS_Interval
  <2>3. q \in Injection(S, 0 .. (n - 1)) /\ q \in Surjection(S, 0 .. (n - 1))
    BY <2>1 DEF Bijection
  <2> QED BY <2>2, <2>3, FS_Injection
<1>2. Max({q[s] + 1 : s \in S}) = n
  <2> DEFINE T == {q[s] + 1 : s \in S}
  <2>1. n - 1 \in 0 .. (n - 1)
    OBVIOUS
  <2>2. PICK s \in S : q[s] = n - 1
    BY <2>1
  <2>3. n \in T /\ \A y \in T : y \in Int /\ n >= y
    BY <2>2
  <2> HIDE DEF T
  <2>4. Max(T) \in T /\ \A y \in T : Max(T) >= y
    BY <2>3 DEF Max
  <2>5. Max(T) = n
    <3>1. Max(T) >= n /\ n >= Max(T) /\ Max(T) \in Int
      BY <2>3, <2>4
    <3> QED BY <3>1
  <2> QED BY <2>5 DEF T
<1> QED BY <1>1, <1>2

LEMMA IndexFound ==
  ASSUME WholeInv, NoneEmpty, NEW k \in Key, AtRest(k),
         \A o \in ObjId : ~(KeyRow(k, o) /\ object[o].state = "pending"),
         NEW D \in Lost
  PROVE  IndexIsStore(k, Disk \ D)
<1> DEFINE B == ByKey(k, Disk \ D)
<1>1. FilesInv /\ TypeOK
  BY DEF WholeInv, FilesInv
<1>2. \A s \in B : /\ s \in StripeId /\ stripe[s].key = k /\ stripe[s].state \in Visible
                   /\ stripe[s].obj \in ObjId /\ KeyRow(k, stripe[s].obj)
                   /\ object[stripe[s].obj].state = "committed"
  <2> SUFFICES ASSUME NEW s \in B
               PROVE  /\ s \in StripeId /\ stripe[s].key = k /\ stripe[s].state \in Visible
                      /\ stripe[s].obj \in ObjId /\ KeyRow(k, stripe[s].obj)
                      /\ object[stripe[s].obj].state = "committed"
    OBVIOUS
  <2>1. PICK f \in files : f[2] = s /\ stripe[s].key = k
    BY DEF ByKey, ScannedStripes, Scanned
  <2>2. s \in StripeId /\ stripe[s].state \in Visible
    BY <1>1, <2>1 DEF TypeOK, File, AtRest
  <2>3. stripe[s].obj \in ObjId /\ KeyRow(k, stripe[s].obj)
    BY <1>1, <2>1, <2>2 DEF FilesInv, StripesHaveObject, Live, Visible, KeyRow
  <2>4. object[stripe[s].obj].state = "committed"
    BY <1>1, <2>3 DEF TypeOK, ObjectRow, KeyRow
  <2> QED BY <2>1, <2>2, <2>3, <2>4
<1>3. CASE ~Stored(k)
  <2>1. B = {}
    BY <1>2, <1>3 DEF Stored
  <2> QED BY <2>1, <1>3 DEF IndexIsStore
<1>4. CASE Stored(k)
  <2>1. PICK o \in ObjId : KeyRow(k, o) /\ object[o].state = "committed"
    BY <1>4 DEF Stored
  <2> DEFINE V == VisibleStripes(o)
             n == object[o].size
             q == [s \in V |-> stripe[s].seq]
  <2>2. V = {s \in StripeId : stripe[s].obj = o /\ stripe[s].state \in Visible}
    BY DEF VisibleStripes, StripesOf
  <2>3. Numbered(stripe, o, n)
    BY <2>1 DEF WholeInv, Whole
  <2>4. n \in Nat \ {0}
    BY <1>1, <2>1, BoundAssumption DEF TypeOK, ObjectRow, NoneEmpty
  <2>5. q \in [V -> Nat]
    BY <1>1, <2>2, BoundAssumption DEF TypeOK, StripeRow
  <2>6. \A s \in V : Cardinality(Recovered(s, Disk \ D)) >= K /\ s \in ScannedStripes(Disk \ D)
    BY <1>1, <2>2, EnoughScanned
  <2>7. B = V
    <3>1. \A s \in B : s \in V
      BY <1>1, <1>2, <2>1, <2>2 DEF FilesInv, OneRowPerKey
    <3>2. \A s \in V : stripe[s].key = k
      BY <1>1, <2>1, <2>2 DEF FilesInv, StripesHaveObject, Live, Visible, KeyRow
    <3>3. \A s \in V : s \in B
      BY <3>2, <2>6 DEF ByKey
    <3> QED BY <3>1, <3>3
  <2>8. /\ \A s \in V : q[s] < n
        /\ \A m \in 0 .. (n - 1) : \E s \in V : q[s] = m
        /\ \A s, t \in V : q[s] = q[t] => s = t
    BY <2>2, <2>3 DEF Numbered
  <2>9. {q[s] + 1 : s \in V} = {stripe[s].seq + 1 : s \in B}
    BY <2>7
  <2> HIDE DEF B, V, n, q
  <2>10. Cardinality(B) = n /\ Max({stripe[s].seq + 1 : s \in B}) = n
    <3>1. Cardinality(V) = n /\ Max({q[s] + 1 : s \in V}) = n
      BY <2>4, <2>5, <2>8, CountNumbered
    <3> QED BY <3>1, <2>7, <2>9
  <2>11. RecoveredObject(k, Disk \ D) = [size |-> n, stripe_count |-> n]
    BY <2>10 DEF RecoveredObject, B
  <2> QED BY <1>4, <2>1, <2>6, <2>7, <2>11 DEF IndexIsStore, B, V, n
<1> QED BY <1>3, <1>4

(* The index that recover_index builds at rest, from the disks that are left *)
(* when any min_write_extra of them are lost with the database, is the one   *)
(* that was lost, as long as no file of a deleted stripe is left over.       *)
THEOREM RecoveredIsStoredHolds == Spec => []RecoveredIsStored
<1>1. Init => CallInv /\ NoneEmpty
  BY InitRefines DEF Init, NoneEmpty, NoObject
<1>2. CallInv /\ WholeInv' /\ NoneEmpty /\ [Next]_vars => CallInv' /\ NoneEmpty'
  BY NextRefines, NoneEmptyStays DEF Refines
<1>3. WholeInv /\ NoneEmpty => RecoveredIsStored
  BY IndexFound DEF RecoveredIsStored
<1> QED BY <1>1, <1>2, <1>3, WholeCorrect, PTL DEF Spec

=============================================================================
