-------------------------- MODULE ObjectStoreWhole --------------------------
(***************************************************************************)
(* A committed object is whole: on top of FilesInv, the numbers of the     *)
(* stripes each thread has behind it, and of the stripes of each object.   *)
(***************************************************************************)
EXTENDS ObjectStoreSafety

(* The listed stripes of object o carry the numbers 0 .. n - 1, once each.   *)
Numbered(st, o, n) ==
  LET S == {s \in StripeId : st[s].obj = o /\ st[s].state \in Visible} IN
  /\ \A s \in S : st[s].seq < n
  /\ \A m \in 0 .. (n - 1) : \E s \in S : st[s].seq = m
  /\ \A s, t \in S : st[s].seq = st[t].seq => s = t

(* What StripesSoFar says of one thread, WholeObjects of one object.         *)
Writes(st, r) ==
  /\ r.pc = "insert" => r.seq = 0
  /\ r.pc \in Writing =>
       /\ \A s \in StripeId : st[s].obj = r.obj /\ st[s].state = "pending"
                               => r.pc # "stripe" /\ s = r.sid
       /\ Numbered(st, r.obj, r.seq)
       /\ r.pc \in {"shards", "giveup"} => st[r.sid].seq = r.seq

Whole(st, ob, o) ==
  ob.state = "committed" => Numbered(st, o, ob.size)

WholeInv == /\ FilesInv
            /\ \A k \in Key : Writes(stripe, w[k])
            /\ \A o \in ObjId : Whole(stripe, object[o], o)

(* A put leaves no pending stripe in the object it commits.                  *)
NoLeftovers ==
  \A o \in ObjId : object[o].state = "committed" =>
    \A s \in StripeId : stripe[s].obj = o => stripe[s].state # "pending"

LEMMA WritesMeaning == (\A k \in Key : Writes(stripe, w[k])) <=> StripesSoFar
BY DEF Writes, StripesSoFar, Numbered

(* A set of stripes that carry 0 .. n - 1. *)
LEMMA NumbersAre ==
  ASSUME TypeOK, NEW n \in Nat, NEW V \in SUBSET StripeId
  PROVE  (\A s \in V : stripe[s].seq < n) /\ (\A m \in 0 .. (n - 1) : \E s \in V : stripe[s].seq = m)
           <=> {stripe[s].seq : s \in V} = 0 .. (n - 1)
<1>1. \A s \in StripeId : stripe[s].seq \in Nat
  BY BoundAssumption DEF TypeOK, StripeRow
<1>2. ASSUME \A s \in V : stripe[s].seq < n, \A m \in 0 .. (n - 1) : \E s \in V : stripe[s].seq = m
      PROVE  {stripe[s].seq : s \in V} = 0 .. (n - 1)
  <2>1. ASSUME NEW s \in V PROVE stripe[s].seq \in 0 .. (n - 1)
    BY <1>1, <1>2
  <2> QED BY <2>1, <1>2
<1>3. ASSUME {stripe[s].seq : s \in V} = 0 .. (n - 1)
      PROVE  (\A s \in V : stripe[s].seq < n) /\ (\A m \in 0 .. (n - 1) : \E s \in V : stripe[s].seq = m)
  <2>1. ASSUME NEW s \in V PROVE stripe[s].seq < n
    <3>1. stripe[s].seq \in 0 .. (n - 1)
      BY <1>3
    <3> QED BY <3>1, <1>1
  <2>2. ASSUME NEW m \in 0 .. (n - 1) PROVE \E s \in V : stripe[s].seq = m
    BY <1>3
  <2> QED BY <2>1, <2>2
<1> QED BY <1>2, <1>3

(* The stripes that WholeObjects speaks of are those that readers may list. *)
LEMMA WholeMeaning ==
  ASSUME TypeOK, NoLeftovers, \A o \in ObjId : Whole(stripe, object[o], o)
  PROVE  WholeObjects
<1> SUFFICES ASSUME NEW o \in ObjId, object[o].state = "committed"
             PROVE  LET S == {s \in StripeId : stripe[s].obj = o /\ stripe[s].state \notin {"none", "gone"}} IN
                    /\ \A s \in S : stripe[s].state \in {"committed", "unrecoverable"}
                    /\ {stripe[s].seq : s \in S} = 0 .. (object[o].size - 1)
                    /\ \A s, t \in S : stripe[s].seq = stripe[t].seq => s = t
  BY DEF WholeObjects
<1> DEFINE S == {s \in StripeId : stripe[s].obj = o /\ stripe[s].state \notin {"none", "gone"}}
           V == {s \in StripeId : stripe[s].obj = o /\ stripe[s].state \in Visible}
           n == object[o].size
<1>1. S = V /\ V \in SUBSET StripeId /\ \A s \in S : stripe[s].state \in {"committed", "unrecoverable"}
  BY DEF NoLeftovers, TypeOK, StripeRow, Visible
<1>2. /\ \A s \in V : stripe[s].seq < n
      /\ \A m \in 0 .. (n - 1) : \E s \in V : stripe[s].seq = m
      /\ \A s, t \in V : stripe[s].seq = stripe[t].seq => s = t
  BY DEF Whole, Numbered
<1>3. n \in Nat
  BY BoundAssumption DEF TypeOK, ObjectRow
<1> HIDE DEF S, V, n
<1>4. {stripe[s].seq : s \in V} = 0 .. (n - 1)
  BY <1>1, <1>2, <1>3, NumbersAre
<1>5. /\ \A s \in S : stripe[s].state \in {"committed", "unrecoverable"}
      /\ {stripe[s].seq : s \in S} = 0 .. (n - 1)
      /\ \A s, t \in S : stripe[s].seq = stripe[t].seq => s = t
  BY <1>1, <1>2, <1>4
<1> QED BY <1>5 DEF S, n

(* Where the stripes of an object stay listed, its numbers stay.             *)
SameStripes(o) == \A s \in StripeId :
  /\ stripe[s].obj = o /\ stripe[s].state \in Visible
       <=> stripe'[s].obj = o /\ stripe'[s].state \in Visible
  /\ stripe'[s].seq = stripe[s].seq

LEMMA NumberedStays ==
  ASSUME NEW o, NEW n, SameStripes(o), Numbered(stripe, o, n)
  PROVE  Numbered(stripe', o, n)
BY DEF SameStripes, Numbered

(* Stripes keep their numbers and stay or do not stay listed. *)
SteadyStripe(s) ==
  /\ stripe'[s].obj = stripe[s].obj
  /\ stripe'[s].seq = stripe[s].seq
  /\ \/ stripe'[s].state = stripe[s].state
     \/ stripe[s].state \in Visible /\ stripe'[s].state \in Visible

LEMMA SteadyWhole ==
  ASSUME WholeInv, FilesInv', UNCHANGED object,
         \A s \in StripeId : SteadyStripe(s),
         \A k \in Key : \/ w'[k] = w[k]
                        \/ w'[k].pc \in {"idle", "delete", "unlink"}
                        \/ w'[k].pc = "insert" /\ w'[k].seq = 0
                        \/ /\ w[k].pc = "shards" /\ w'[k].pc \in {"shards", "giveup"}
                           /\ w'[k].obj = w[k].obj /\ w'[k].sid = w[k].sid
                           /\ w'[k].seq = w[k].seq
  PROVE  WholeInv'
<1>1. \A o : SameStripes(o)
  BY DEF SameStripes, SteadyStripe
<1>2. \A s \in StripeId : stripe'[s].obj = stripe[s].obj /\ stripe'[s].seq = stripe[s].seq
                           /\ (stripe'[s].state = "pending" <=> stripe[s].state = "pending")
  BY DEF SteadyStripe, Visible
<1>3. ASSUME NEW k \in Key PROVE Writes(stripe', w'[k])
  <2>1. w[k].pc \in {"shards", "giveup"} => w[k].sid \in StripeId
    BY OwnStripe DEF WholeInv
  <2>2. Writes(stripe', w[k])
    BY <2>1, <1>1, <1>2, NumberedStays DEF WholeInv, Writes
  <2> QED BY <2>2 DEF Writes, Writing
<1>4. ASSUME NEW o \in ObjId PROVE Whole(stripe', object'[o], o)
  BY <1>1, NumberedStays DEF WholeInv, Whole
<1> QED BY <1>3, <1>4 DEF WholeInv

LEMMA StillWhole ==
  ASSUME WholeInv, FilesInv', UNCHANGED <<object, stripe, w>>
  PROVE  WholeInv'
BY DEF WholeInv


-----------------------------------------------------------------------------
(* Steps that number no stripe.                                              *)
LEMMA ReadUnrecoverableWhole ==
  ASSUME WholeInv, NEW x \in Reader, ReadUnrecoverable(x)
  PROVE  WholeInv'
<1>1. FilesInv'
  BY ReadUnrecoverableFiles DEF WholeInv
<1>2. UNCHANGED <<object, w>>
  BY DEF ReadUnrecoverable
<1>3. rd[x].sid \in StripeId /\ stripe[rd[x].sid].state \in Visible \cup {"gone"}
  BY DEF WholeInv, FilesInv, TypeOK, ReadUnrecoverable, ReadOver, ReaderOK, ListsVisible
<1>4. \A s \in StripeId : SteadyStripe(s)
  BY <1>3 DEF WholeInv, FilesInv, TypeOK, StripeRow, ReadUnrecoverable, SteadyStripe, Visible
<1> QED BY <1>1, <1>2, <1>4, SteadyWhole

LEMMA DiskWhole ==
  ASSUME WholeInv, NEW d \in Disk, DiskDown(d) \/ DiskUp(d) \/ HealthCheck(d)
  PROVE  WholeInv'
<1>1. FilesInv'
  BY DiskFiles DEF WholeInv
<1>2. UNCHANGED <<object, stripe, w>>
  BY DEF DiskDown, DiskUp, HealthCheck, dbVars
<1> QED BY <1>1, <1>2, StillWhole

LEMMA BootQuietWhole ==
  ASSUME WholeInv, BootSweep \/ BootUnlink \/ BootServe
  PROVE  WholeInv'
<1>1. FilesInv'
  BY BootSweepFiles, BootUnlinkFiles, BootServeFiles DEF WholeInv
<1>2. UNCHANGED <<object, stripe, w>>
  BY DEF BootSweep, BootUnlink, BootServe, dbVars
<1> QED BY <1>1, <1>2, StillWhole

LEMMA CrashWhole ==
  ASSUME WholeInv, Crash
  PROVE  WholeInv'
<1>1. FilesInv'
  BY CrashFiles DEF WholeInv
<1>2. UNCHANGED <<object, stripe>>
  BY DEF Crash, dbVars
<1>3. \A k \in Key : w'[k].pc = "idle"
  BY IdleFields DEF Crash
<1>4. \A s \in StripeId : SteadyStripe(s)
  BY <1>2 DEF SteadyStripe
<1> QED BY <1>1, <1>2, <1>3, <1>4, SteadyWhole

(* Writer steps that change no row. *)
LEMMA WriterQuietWhole ==
  ASSUME WholeInv, FilesInv', NEW k \in Key, UNCHANGED <<object, stripe>>,
         \A j \in Key : j # k => w'[j] = w[j],
         \/ w'[k].pc \in {"idle", "delete", "unlink"}
         \/ w'[k].pc = "insert" /\ w'[k].seq = 0
         \/ /\ w[k].pc = "shards" /\ w'[k].pc \in {"shards", "giveup"}
            /\ w'[k].obj = w[k].obj /\ w'[k].sid = w[k].sid
            /\ w'[k].seq = w[k].seq
  PROVE  WholeInv'
<1>1. \A s \in StripeId : SteadyStripe(s)
  BY DEF SteadyStripe
<1> QED BY <1>1, SteadyWhole

LEMMA PutBeginWhole ==
  ASSUME WholeInv, NEW k \in Key, NEW n \in 1 .. MaxStripes, PutBegin(k, n)
  PROVE  WholeInv'
<1>1. FilesInv' /\ TypeOK
  BY PutBeginFiles DEF WholeInv, FilesInv
<1>2. UNCHANGED <<object, stripe>>
  BY DEF PutBegin, dbVars
<1>3. ASSUME NEW o \in ObjId,
             SetW(k, [IdleWriter EXCEPT !.pc = "delete", !.then = "insert",
                                        !.len = n, !.obj = o])
      PROVE  WholeInv'
  <2> DEFINE q == [IdleWriter EXCEPT !.pc = "delete", !.then = "insert",
                                     !.len = n, !.obj = o]
  <2>1. q.pc = "delete"
    BY DEF IdleWriter
  <2>2. SetW(k, q)
    BY <1>3
  <2> HIDE DEF q
  <2>3. w'[k] = q /\ \A j \in Key : j # k => w'[j] = w[j]
    BY <1>1, <2>2, SetWFun
  <2> QED BY <1>1, <1>2, <2>1, <2>3, WriterQuietWhole
<1>4. ASSUME SetW(k, [IdleWriter EXCEPT !.pc = "insert", !.len = n])
      PROVE  WholeInv'
  <2> DEFINE q == [IdleWriter EXCEPT !.pc = "insert", !.len = n]
  <2>1. q.pc = "insert" /\ q.seq = 0
    BY DEF IdleWriter
  <2>2. SetW(k, q)
    BY <1>4
  <2> HIDE DEF q
  <2>3. w'[k] = q /\ \A j \in Key : j # k => w'[j] = w[j]
    BY <1>1, <2>2, SetWFun
  <2> QED BY <1>1, <1>2, <2>1, <2>3, WriterQuietWhole
<1> QED BY <1>3, <1>4 DEF PutBegin

LEMMA DeleteBeginWhole ==
  ASSUME WholeInv, NEW k \in Key, DeleteBegin(k)
  PROVE  WholeInv'
<1>1. FilesInv' /\ TypeOK
  BY DeleteBeginFiles DEF WholeInv, FilesInv
<1>2. UNCHANGED <<object, stripe>>
  BY DEF DeleteBegin, dbVars
<1>3. PICK o \in ObjId : SetW(k, [IdleWriter EXCEPT !.pc = "delete", !.obj = o])
  BY DEF DeleteBegin
<1> DEFINE q == [IdleWriter EXCEPT !.pc = "delete", !.obj = o]
<1>4. q.pc = "delete"
  BY DEF IdleWriter
<1>5. w'[k] = q /\ \A j \in Key : j # k => w'[j] = w[j]
  BY <1>1, <1>3, SetWFun
<1> HIDE DEF q
<1> QED BY <1>1, <1>2, <1>4, <1>5, WriterQuietWhole

LEMMA RaisesWhole ==
  ASSUME WholeInv, NEW k \in Key, PutRaises(k) \/ DeleteRaises(k)
  PROVE  WholeInv'
<1>1. FilesInv' /\ TypeOK
  BY PutRaisesFiles, DeleteRaisesFiles DEF WholeInv, FilesInv
<1>2. UNCHANGED <<object, stripe>>
  BY DEF PutRaises, DeleteRaises, dbVars
<1>3. w'[k].pc \in {"idle", "delete"} /\ \A j \in Key : j # k => w'[j] = w[j]
  <2>1. CASE SetW(k, IdleWriter)
    BY <2>1, <1>1, SetWFun, IdleFields
  <2>2. CASE SetW(k, [w[k] EXCEPT !.pc = "delete", !.sid = None, !.rows = NoRows])
    <3> DEFINE q == [w[k] EXCEPT !.pc = "delete", !.sid = None, !.rows = NoRows]
    <3>1. q.pc = "delete"
      BY <1>1 DEF TypeOK, Writer
    <3> HIDE DEF q
    <3>2. SetW(k, q)
      BY <2>2 DEF q
    <3> QED BY <3>1, <3>2, <1>1, SetWFun
  <2> QED BY <2>1, <2>2 DEF PutRaises, DeleteRaises
<1> QED BY <1>1, <1>2, <1>3, WriterQuietWhole

LEMMA WriteShardWhole ==
  ASSUME WholeInv, NEW k \in Key, NEW i \in Shard, WriteShard(k, i) \/ WriteShardFails(k, i)
  PROVE  WholeInv'
<1>1. FilesInv' /\ TypeOK
  BY WriteShardFiles, WriteShardFailsFiles DEF WholeInv, FilesInv
<1>2. UNCHANGED <<object, stripe>> /\ w[k].pc = "shards"
  BY DEF WriteShard, WriteShardFails, NextShard, dbVars
<1>3. /\ w'[k].pc = "shards" /\ w'[k].obj = w[k].obj /\ w'[k].sid = w[k].sid
      /\ w'[k].seq = w[k].seq
      /\ \A j \in Key : j # k => w'[j] = w[j]
  BY <1>1, <1>2 DEF WriteShard, WriteShardFails, TypeOK, Writer
<1> QED BY <1>1, <1>2, <1>3, WriterQuietWhole

LEMMA StripeGiveUpWhole ==
  ASSUME WholeInv, NEW k \in Key, StripeGiveUp(k)
  PROVE  WholeInv'
<1>1. FilesInv' /\ TypeOK
  BY StripeGiveUpFiles DEF WholeInv, FilesInv
<1>2. UNCHANGED <<object, stripe>> /\ w[k].pc = "shards"
  BY DEF StripeGiveUp, AllTried, dbVars
<1> DEFINE q == [w[k] EXCEPT !.pc = "giveup", !.rows = NoRows]
<1>3. q.pc = "giveup" /\ q.obj = w[k].obj /\ q.sid = w[k].sid /\ q.seq = w[k].seq
  BY <1>1 DEF TypeOK, Writer
<1>4. SetW(k, q)
  BY DEF StripeGiveUp
<1> HIDE DEF q
<1>5. w'[k] = q /\ \A j \in Key : j # k => w'[j] = w[j]
  BY <1>1, <1>4, SetWFun
<1> QED BY <1>1, <1>2, <1>3, <1>5, WriterQuietWhole

LEMMA UnlinkWhole ==
  ASSUME WholeInv, NEW k \in Key, Unlink(k)
  PROVE  WholeInv'
<1>1. FilesInv' /\ TypeOK
  BY UnlinkFiles DEF WholeInv, FilesInv
<1>2. UNCHANGED <<object, stripe>> /\ w[k].pc = "unlink"
  BY DEF Unlink, dbVars
<1>3. PICK s \in StripeId :
        LET F == {f \in w[k].doomed : f[2] = s} IN
        SetW(k, IF StillDoomed(w[k].doomed, F) # {}
                THEN [w[k] EXCEPT !.doomed = StillDoomed(@, F)]
                ELSE IF w[k].then = "insert"
                THEN [IdleWriter EXCEPT !.pc = "insert", !.len = w[k].len]
                ELSE IdleWriter)
  BY DEF Unlink
<1> DEFINE D == StillDoomed(w[k].doomed, {f \in w[k].doomed : f[2] = s})
           q == IF D # {} THEN [w[k] EXCEPT !.doomed = StillDoomed(@, {f \in w[k].doomed : f[2] = s})]
                ELSE IF w[k].then = "insert"
                THEN [IdleWriter EXCEPT !.pc = "insert", !.len = w[k].len]
                ELSE IdleWriter
<1>4. q.pc \in {"idle", "unlink"} \/ (q.pc = "insert" /\ q.seq = 0)
  BY <1>1, <1>2 DEF TypeOK, Writer, IdleWriter
<1>5. w'[k] = q /\ \A j \in Key : j # k => w'[j] = w[j]
  BY <1>1, <1>3, SetWFun
<1> HIDE DEF q
<1> QED BY <1>1, <1>2, <1>4, <1>5, WriterQuietWhole


-----------------------------------------------------------------------------
(* Steps that number, list or drop stripes.                                  *)

(* Two threads write two objects. *)
LEMMA OtherObject ==
  ASSUME FilesInv, NEW k \in Key, w[k].pc \in Writing \cup {"delete"},
         NEW j \in Key, j # k, w[j].pc \in Writing
  PROVE  w[j].obj # w[k].obj
BY FilesHolds DEF Holds, KeyRow

(* A step of the thread of k that touches the stripes of its object only     *)
(* leaves the numbers of all others alone.                                   *)
TouchesOnly(o) == \A s \in StripeId : \/ stripe'[s] = stripe[s]
                                      \/ /\ stripe'[s].obj = o
                                         /\ stripe[s].state = "none" \/ stripe[s].obj = o

LEMMA TouchesOnlySame ==
  ASSUME FilesInv, NEW o, NEW p, p # o, TouchesOnly(o)
  PROVE  /\ \A n : Numbered(stripe, p, n) => Numbered(stripe', p, n)
         /\ \A s \in StripeId : stripe'[s].obj = p /\ stripe'[s].state = "pending"
                                 => stripe[s].obj = p /\ stripe[s].state = "pending"
<1>1. \A s \in StripeId : stripe[s].state \in Visible => stripe[s].state # "none"
  BY DEF Visible
<1>2. \A s \in StripeId : \/ stripe'[s] = stripe[s]
                          \/ /\ ~(stripe[s].obj = p /\ stripe[s].state \in Visible)
                             /\ ~(stripe'[s].obj = p)
  BY <1>1 DEF TouchesOnly
<1>3. ASSUME NEW n, Numbered(stripe, p, n)
      PROVE  Numbered(stripe', p, n)
  <2>1. {s \in StripeId : stripe'[s].obj = p /\ stripe'[s].state \in Visible}
          = {s \in StripeId : stripe[s].obj = p /\ stripe[s].state \in Visible}
    BY <1>2
  <2>2. \A s \in StripeId : stripe[s].obj = p /\ stripe[s].state \in Visible
                             => stripe'[s] = stripe[s]
    BY <1>2
  <2> QED BY <1>3, <2>1, <2>2 DEF Numbered
<1> QED BY <1>2, <1>3

LEMMA OwnerWhole ==
  ASSUME WholeInv, FilesInv', NEW k \in Key,
         w[k].pc \in Writing \cup {"delete"}, TouchesOnly(w[k].obj),
         \A j \in Key : j # k => w'[j] = w[j],
         \A o \in ObjId : o # w[k].obj => object'[o] = object[o],
         Writes(stripe', w'[k]),
         w[k].obj \in ObjId => Whole(stripe', object'[w[k].obj], w[k].obj)
  PROVE  WholeInv'
<1>1. ASSUME NEW j \in Key, j # k PROVE Writes(stripe', w[j])
  <2>1. CASE w[j].pc \notin Writing
    BY <2>1 DEF WholeInv, Writes
  <2>2. CASE w[j].pc \in Writing
    <3>1. w[j].obj # w[k].obj
      BY <1>1, <2>2, OtherObject DEF WholeInv
    <3>2. w[j].pc \in {"shards", "giveup"} =>
            w[j].sid \in StripeId /\ stripe[w[j].sid].obj = w[j].obj
              /\ stripe[w[j].sid].state = "pending"
      BY OwnStripe DEF WholeInv
    <3>3. w[j].pc \in {"shards", "giveup"} => stripe'[w[j].sid] = stripe[w[j].sid]
      BY <3>1, <3>2 DEF TouchesOnly
    <3>4. /\ \A n : Numbered(stripe, w[j].obj, n) => Numbered(stripe', w[j].obj, n)
          /\ \A s \in StripeId : stripe'[s].obj = w[j].obj /\ stripe'[s].state = "pending"
                                  => stripe[s].obj = w[j].obj /\ stripe[s].state = "pending"
      BY <3>1, TouchesOnlySame DEF WholeInv
    <3>5. Writes(stripe, w[j])
      BY DEF WholeInv
    <3> QED BY <2>2, <3>3, <3>4, <3>5 DEF Writes
  <2> QED BY <2>1, <2>2
<1>2. ASSUME NEW o \in ObjId, o # w[k].obj PROVE Whole(stripe', object'[o], o)
  <2>1. Whole(stripe, object[o], o) /\ object'[o] = object[o]
    BY <1>2 DEF WholeInv
  <2>2. \A n : Numbered(stripe, o, n) => Numbered(stripe', o, n)
    BY <1>2, TouchesOnlySame DEF WholeInv
  <2> QED BY <2>1, <2>2 DEF Whole
<1>3. \A j \in Key : Writes(stripe', w'[j])
  BY <1>1
<1>4. \A o \in ObjId : Whole(stripe', object'[o], o)
  BY <1>2
<1> QED BY <1>3, <1>4 DEF WholeInv

LEMMA PutInsertWhole ==
  ASSUME WholeInv, NEW k \in Key, PutInsert(k)
  PROVE  WholeInv'
<1>1. FilesInv' /\ FilesInv /\ TypeOK
  BY PutInsertFiles DEF WholeInv, FilesInv
<1>2. PICK o \in ObjId :
        /\ object[o].state = "none"
        /\ object' = [object EXCEPT ![o] = [state |-> "pending", key |-> k, size |-> 0]]
        /\ SetW(k, [w[k] EXCEPT !.pc = "stripe", !.obj = o])
  BY DEF PutInsert, IsNextRowId
<1>3. UNCHANGED stripe /\ w[k].pc = "insert" /\ w[k].seq = 0
  BY DEF PutInsert, WholeInv, Writes
<1> DEFINE q == [w[k] EXCEPT !.pc = "stripe", !.obj = o]
<1>4. q.pc = "stripe" /\ q.obj = o /\ q.seq = 0
  BY <1>1, <1>3 DEF TypeOK, Writer
<1>5. w'[k] = q /\ \A j \in Key : j # k => w'[j] = w[j]
  BY <1>1, <1>2, SetWFun
<1> HIDE DEF q
<1>6. \A s \in StripeId : stripe[s].state \in Live => stripe[s].obj # o
  BY <1>1, <1>2 DEF FilesInv, StripesHaveObject
<1>7. Numbered(stripe, o, 0)
  BY <1>6 DEF Numbered, Live, Visible
<1>8. Writes(stripe', w'[k])
  BY <1>3, <1>4, <1>5, <1>6, <1>7 DEF Writes, Live
<1>9. \A p \in ObjId : Whole(stripe', object'[p], p)
  <2>1. object'[o].state = "pending" /\ \A p \in ObjId : p # o => object'[p] = object[p]
    BY <1>1, <1>2 DEF TypeOK
  <2> QED BY <2>1, <1>3 DEF WholeInv, Whole
<1> QED BY <1>1, <1>3, <1>5, <1>8, <1>9 DEF WholeInv

LEMMA StripeBeginWhole ==
  ASSUME WholeInv, NEW k \in Key, StripeBegin(k)
  PROVE  WholeInv'
<1>1. FilesInv' /\ FilesInv /\ TypeOK
  BY StripeBeginFiles DEF WholeInv, FilesInv
<1>2. PICK s \in StripeId, p \in Placement :
        /\ stripe[s].state = "none"
        /\ stripe' = [stripe EXCEPT ![s] =
                        [state |-> "pending", obj |-> w[k].obj, key |-> k,
                         seq |-> w[k].seq]]
        /\ SetW(k, [w[k] EXCEPT
                      !.pc = "shards", !.sid = s,
                      !.rows = [i \in Shard |->
                                  [disk |-> p[i],
                                   state |-> IF p[i] = None THEN "missing"
                                                            ELSE "todo"]]])
  BY DEF StripeBegin
<1>3. UNCHANGED object /\ w[k].pc = "stripe" /\ Writes(stripe, w[k])
  BY DEF StripeBegin, WholeInv
<1> DEFINE rows == [i \in Shard |-> [disk |-> p[i],
                                     state |-> IF p[i] = None THEN "missing"
                                                              ELSE "todo"]]
           q == [w[k] EXCEPT !.pc = "shards", !.sid = s, !.rows = rows]
<1>4. q.pc = "shards" /\ q.obj = w[k].obj /\ q.seq = w[k].seq /\ q.sid = s
  BY <1>1 DEF TypeOK, Writer
<1>5. w'[k] = q /\ \A j \in Key : j # k => w'[j] = w[j]
  BY <1>1, <1>2, SetWFun
<1> HIDE DEF q
<1>6. /\ stripe'[s].state = "pending" /\ stripe'[s].obj = w[k].obj /\ stripe'[s].seq = w[k].seq
      /\ \A t \in StripeId : t # s => stripe'[t] = stripe[t]
  BY <1>1, <1>2 DEF TypeOK
<1>7. TouchesOnly(w[k].obj)
  BY <1>2, <1>6 DEF TouchesOnly
<1>8. Numbered(stripe', w[k].obj, w[k].seq)
  <2>1. Numbered(stripe, w[k].obj, w[k].seq)
    BY <1>3 DEF Writes, Writing
  <2>2. {t \in StripeId : stripe'[t].obj = w[k].obj /\ stripe'[t].state \in Visible}
          = {t \in StripeId : stripe[t].obj = w[k].obj /\ stripe[t].state \in Visible}
    BY <1>2, <1>6 DEF Visible
  <2>3. \A t \in StripeId : stripe[t].state \in Visible => stripe'[t] = stripe[t]
    BY <1>2, <1>6 DEF Visible
  <2> QED BY <2>1, <2>2, <2>3 DEF Numbered
<1>9. Writes(stripe', w'[k])
  BY <1>3, <1>4, <1>5, <1>6, <1>8 DEF Writes, Writing
<1>10. w[k].obj \in ObjId => Whole(stripe', object'[w[k].obj], w[k].obj)
  BY <1>1, <1>3, FilesHolds DEF Holds, Whole, Writing
<1> QED BY <1>1, <1>3, <1>5, <1>7, <1>9, <1>10, OwnerWhole DEF Writing

LEMMA StripeCommitWhole ==
  ASSUME WholeInv, NEW k \in Key, StripeCommit(k)
  PROVE  WholeInv'
<1>1. FilesInv' /\ FilesInv /\ TypeOK
  BY StripeCommitFiles DEF WholeInv, FilesInv
<1>2. UNCHANGED object /\ w[k].pc = "shards" /\ Writes(stripe, w[k])
  BY DEF StripeCommit, AllTried, WholeInv
<1> DEFINE q == [w[k] EXCEPT !.pc = "stripe", !.seq = @ + 1, !.sid = None, !.rows = NoRows]
           s == w[k].sid
           o == w[k].obj
           n == w[k].seq
<1>3. s \in StripeId /\ stripe[s].state = "pending" /\ stripe[s].obj = o /\ o \in ObjId
  BY <1>1, <1>2, OwnStripe
<1>4. q.pc = "stripe" /\ q.obj = o /\ q.seq = n + 1 /\ n \in Nat
  <2>1. n \in 0 .. MaxStripes
    BY <1>1 DEF TypeOK, Writer
  <2>2. n \in Nat
    BY <2>1, BoundAssumption
  <2>3. q.pc = "stripe" /\ q.obj = o /\ q.seq = n + 1
    BY <1>1 DEF TypeOK, Writer
  <2> QED BY <2>2, <2>3
<1>5. w'[k] = q /\ \A j \in Key : j # k => w'[j] = w[j]
  BY <1>1, SetWFun DEF StripeCommit
<1>6. /\ stripe'[s].state = "committed" /\ stripe'[s].obj = o /\ stripe'[s].seq = stripe[s].seq
      /\ \A t \in StripeId : t # s => stripe'[t] = stripe[t]
  BY <1>1, <1>3 DEF StripeCommit, TypeOK, StripeRow
<1>7. stripe[s].seq = n /\ Numbered(stripe, o, n)
      /\ \A t \in StripeId : stripe[t].obj = o /\ stripe[t].state = "pending" => t = s
  BY <1>2 DEF Writes, Writing
<1>t. \A t \in StripeId : stripe[t].seq \in Nat
  BY <1>1, BoundAssumption DEF TypeOK, StripeRow
<1> HIDE DEF q, s, o, n
<1>8. TouchesOnly(o)
  BY <1>3, <1>6 DEF TouchesOnly
<1>9. Numbered(stripe', o, n + 1)
  <2> DEFINE S == {t \in StripeId : stripe[t].obj = o /\ stripe[t].state \in Visible}
             T == {t \in StripeId : stripe'[t].obj = o /\ stripe'[t].state \in Visible}
  <2>1. T = S \cup {s} /\ s \notin S
    BY <1>3, <1>6 DEF Visible
  <2>2. /\ \A t \in S : stripe'[t].seq = stripe[t].seq /\ stripe[t].seq \in Nat /\ stripe[t].seq < n
        /\ stripe'[s].seq = n
        /\ \A m \in 0 .. (n - 1) : \E t \in S : stripe[t].seq = m
        /\ \A t, u \in S : stripe[t].seq = stripe[u].seq => t = u
    BY <1>3, <1>6, <1>7, <1>t, <2>1 DEF Numbered
  <2> HIDE DEF S
  <2>3. \A t \in T : stripe'[t].seq < n + 1
    BY <1>4, <2>1, <2>2
  <2>4. ASSUME NEW m \in 0 .. ((n + 1) - 1) PROVE \E t \in T : stripe'[t].seq = m
    <3>1. m \in 0 .. (n - 1) \/ m = n
      BY <1>4
    <3> QED BY <3>1, <2>1, <2>2
  <2>5. \A t, u \in T : stripe'[t].seq = stripe'[u].seq => t = u
    BY <1>4, <2>1, <2>2
  <2> QED BY <2>3, <2>4, <2>5 DEF Numbered
<1>10. Writes(stripe', w'[k])
  BY <1>4, <1>5, <1>6, <1>7, <1>9 DEF Writes
<1>11. Whole(stripe', object'[o], o)
  BY <1>1, <1>2, FilesHolds DEF Holds, Whole, Writing, o
<1> QED BY <1>1, <1>2, <1>5, <1>8, <1>10, <1>11, OwnerWhole DEF Writing, o

LEMMA StripeDropWhole ==
  ASSUME WholeInv, NEW k \in Key, StripeDrop(k)
  PROVE  WholeInv'
<1>1. FilesInv' /\ FilesInv /\ TypeOK
  BY StripeDropFiles DEF WholeInv, FilesInv
<1>2. UNCHANGED <<object, files>> /\ w[k].pc = "giveup" /\ DropStripes({w[k].sid})
  BY DEF StripeDrop
<1> DEFINE q == [w[k] EXCEPT !.pc = "delete", !.sid = None]
<1>3. q.pc = "delete"
  BY <1>1 DEF TypeOK, Writer
<1>4. w'[k] = q /\ \A j \in Key : j # k => w'[j] = w[j]
  BY <1>1, SetWFun DEF StripeDrop
<1> HIDE DEF q
<1>5. w[k].sid \in StripeId /\ stripe[w[k].sid].obj = w[k].obj
  BY <1>1, <1>2, OwnStripe
<1>6. \A s \in StripeId : /\ stripe'[s].obj = stripe[s].obj
                          /\ s # w[k].sid => stripe'[s] = stripe[s]
  BY <1>1, <1>2, DropRows
<1>7. TouchesOnly(w[k].obj)
  BY <1>5, <1>6 DEF TouchesOnly
<1>8. Writes(stripe', w'[k])
  BY <1>3, <1>4 DEF Writes, Writing
<1>9. w[k].obj \in ObjId => Whole(stripe', object'[w[k].obj], w[k].obj)
  BY <1>1, <1>2, FilesHolds DEF Holds, Whole, Writing
<1> QED BY <1>1, <1>2, <1>4, <1>7, <1>8, <1>9, OwnerWhole DEF Writing

LEMMA PutCommitWhole ==
  ASSUME WholeInv, NEW k \in Key, PutCommit(k)
  PROVE  WholeInv'
<1>1. FilesInv' /\ FilesInv /\ TypeOK
  BY PutCommitFiles DEF WholeInv, FilesInv
<1>2. UNCHANGED stripe /\ w[k].pc = "stripe" /\ Writes(stripe, w[k])
  BY DEF PutCommit, WholeInv
<1>3. w'[k] = IdleWriter /\ \A j \in Key : j # k => w'[j] = w[j]
  BY <1>1, SetWFun DEF PutCommit
<1>4. w[k].obj \in ObjId
  BY <1>1, <1>2 DEF TypeOK, WriterOK
<1>5. /\ object'[w[k].obj].size = w[k].seq
      /\ \A o \in ObjId : o # w[k].obj => object'[o] = object[o]
  BY <1>1, <1>4 DEF PutCommit, TypeOK, ObjectRow, StripeCount
<1>6. Numbered(stripe', w[k].obj, w[k].seq)
  BY <1>2 DEF Writes, Writing
<1>7. Whole(stripe', object'[w[k].obj], w[k].obj)
  BY <1>5, <1>6 DEF Whole
<1>8. Writes(stripe', w'[k])
  BY <1>3, IdleFields DEF Writes, Writing
<1>9. TouchesOnly(w[k].obj)
  BY <1>2 DEF TouchesOnly
<1> QED BY <1>1, <1>2, <1>3, <1>5, <1>7, <1>8, <1>9, OwnerWhole DEF Writing

LEMMA DeleteRowsWhole ==
  ASSUME WholeInv, NEW k \in Key, DeleteRows(k)
  PROVE  WholeInv'
<1> DEFINE F == RowFiles(StripesOf(w[k].obj))
           q == IF F # {} THEN [w[k] EXCEPT !.pc = "unlink", !.doomed = F]
                ELSE IF w[k].then = "insert"
                THEN [IdleWriter EXCEPT !.pc = "insert", !.len = w[k].len]
                ELSE IdleWriter
<1>1. FilesInv' /\ FilesInv /\ TypeOK
  BY DeleteRowsFiles DEF WholeInv, FilesInv
<1>2. /\ w[k].pc = "delete" /\ UNCHANGED files /\ DropStripes(StripesOf(w[k].obj))
      /\ object' = [object EXCEPT ![w[k].obj] = NoObject] /\ SetW(k, q)
  BY DEF DeleteRows
<1>3. q.pc \in {"idle", "unlink"} \/ (q.pc = "insert" /\ q.seq = 0)
  BY <1>1 DEF TypeOK, Writer, IdleWriter
<1>4. w'[k] = q /\ \A j \in Key : j # k => w'[j] = w[j]
  BY <1>1, <1>2, SetWFun
<1> HIDE DEF q
<1>5. \A s \in StripeId : /\ stripe'[s].obj = stripe[s].obj
                          /\ stripe[s].obj # w[k].obj => stripe'[s] = stripe[s]
  BY <1>1, <1>2, DropRows DEF StripesOf
<1>6. TouchesOnly(w[k].obj)
  BY <1>5 DEF TouchesOnly
<1>7. Writes(stripe', w'[k])
  BY <1>3, <1>4 DEF Writes, Writing
<1>8. /\ \A o \in ObjId : o # w[k].obj => object'[o] = object[o]
      /\ w[k].obj \in ObjId => Whole(stripe', object'[w[k].obj], w[k].obj)
  BY <1>1, <1>2 DEF TypeOK, NoObject, Whole
<1> QED BY <1>1, <1>2, <1>4, <1>6, <1>7, <1>8, OwnerWhole

(* The start-up drops pending stripes, which nobody lists, then pending      *)
(* objects.                                                                  *)
LEMMA BootDropWhole ==
  ASSUME WholeInv, BootDrop
  PROVE  WholeInv'
<1>1. FilesInv' /\ FilesInv
  BY BootDropFiles DEF WholeInv
<1>2. UNCHANGED <<object, w, files>> /\ DropStripes(PendingStripes) /\ phase # "serving"
  BY DEF BootDrop
<1>3. \A k \in Key : w'[k].pc = "idle"
  BY <1>1, <1>2, IdleFields DEF FilesInv, StartsAlone
<1>4. \A s \in StripeId : \/ stripe'[s] = stripe[s]
                          \/ /\ stripe'[s].obj = stripe[s].obj
                             /\ stripe[s].state = "pending" /\ stripe'[s].state = "gone"
  BY <1>1, <1>2, DropRows DEF PendingStripes
<1>5. ASSUME NEW o \in ObjId, NEW n, Numbered(stripe, o, n)
      PROVE  Numbered(stripe', o, n)
  <2>1. {s \in StripeId : stripe'[s].obj = o /\ stripe'[s].state \in Visible}
          = {s \in StripeId : stripe[s].obj = o /\ stripe[s].state \in Visible}
    BY <1>4 DEF Visible
  <2>2. \A s \in StripeId : stripe[s].state \in Visible => stripe'[s] = stripe[s]
    BY <1>4 DEF Visible
  <2> QED BY <1>5, <2>1, <2>2 DEF Numbered
<1>6. \A o \in ObjId : Whole(stripe', object'[o], o)
  BY <1>2, <1>5 DEF WholeInv, Whole
<1> QED BY <1>1, <1>3, <1>6 DEF WholeInv, Writes, Writing

LEMMA BootObjectWhole ==
  ASSUME WholeInv, NEW o \in ObjId, BootObject(o)
  PROVE  WholeInv'
<1>1. FilesInv' /\ FilesInv /\ TypeOK
  BY BootObjectFiles DEF WholeInv, FilesInv
<1>2. /\ UNCHANGED <<w, files>> /\ DropStripes(StripesOf(o)) /\ phase # "serving"
      /\ object' = [object EXCEPT ![o] = NoObject]
  BY DEF BootObject
<1>3. \A k \in Key : w'[k].pc = "idle"
  BY <1>1, <1>2, IdleFields DEF FilesInv, StartsAlone
<1>4. \A s \in StripeId : /\ stripe'[s].obj = stripe[s].obj
                          /\ stripe[s].obj # o => stripe'[s] = stripe[s]
  BY <1>1, <1>2, DropRows DEF StripesOf
<1>5. /\ object'[o].state # "committed"
      /\ \A p \in ObjId : p # o => object'[p] = object[p]
  BY <1>1, <1>2 DEF TypeOK, NoObject
<1>6. ASSUME NEW p \in ObjId PROVE Whole(stripe', object'[p], p)
  <2>1. CASE p = o
    BY <2>1, <1>5 DEF Whole
  <2>2. CASE p # o
    <3>1. TouchesOnly(o)
      BY <1>4 DEF TouchesOnly
    <3>2. \A n : Numbered(stripe, p, n) => Numbered(stripe', p, n)
      BY <1>1, <2>2, <3>1, TouchesOnlySame
    <3> QED BY <2>2, <3>2, <1>5 DEF WholeInv, Whole
  <2> QED BY <2>1, <2>2
<1> QED BY <1>1, <1>3, <1>6 DEF WholeInv, Writes, Writing

LEMMA InitWhole == Init => WholeInv
<1> SUFFICES ASSUME Init PROVE WholeInv
  OBVIOUS
<1>1. FilesInv
  BY InitFiles
<1>2. \A k \in Key : w[k].pc = "idle"
  BY IdleFields DEF Init
<1>3. \A o \in ObjId : object[o].state = "none"
  BY DEF Init, NoObject
<1> QED BY <1>1, <1>2, <1>3 DEF WholeInv, Writes, Whole, Writing

LEMMA StutterWhole == WholeInv /\ UNCHANGED vars => WholeInv'
<1> SUFFICES ASSUME WholeInv, UNCHANGED vars PROVE WholeInv'
  OBVIOUS
<1>1. FilesInv'
  BY StutterFiles DEF WholeInv
<1> QED BY <1>1, StillWhole DEF vars

(* What a committed object is made of survives everything.                   *)
LEMMA NextWhole ==
  ASSUME WholeInv, [Next]_vars
  PROVE  WholeInv'
<1> SUFFICES ASSUME Next PROVE WholeInv'
  BY StutterWhole
<1>1. ASSUME NEW x \in Reader,
             \/ \E k \in Key : ReadStat(x, k)
             \/ ReadList(x) \/ ReadRows(x)
             \/ \E i \in Shard : ReadSkip(x, i)
             \/ \E i \in Shard : ReadShard(x, i)
             \/ \E i \in Shard : ReadMissing(x, i)
             \/ \E i \in Shard : ReadFails(x, i)
             \/ ReadDecode(x) \/ ReadEnd(x)
      PROVE  WholeInv'
  <2>1. FilesInv'
    BY NextFiles DEF WholeInv
  <2>2. UNCHANGED <<object, stripe, w>>
    BY <1>1 DEF ReadStat, ReadList, ReadRows, ReadSkip, ReadShard, ReadMissing, ReadFails,
           ReadDecode, ReadEnd, dbVars
  <2> QED BY <2>1, <2>2, StillWhole
<1> QED
  BY Actions, <1>1, DiskWhole, CrashWhole, BootQuietWhole, BootDropWhole,
     BootObjectWhole, PutBeginWhole, PutInsertWhole, StripeBeginWhole,
     WriteShardWhole, StripeCommitWhole, StripeGiveUpWhole, StripeDropWhole,
     PutCommitWhole, RaisesWhole, DeleteBeginWhole, DeleteRowsWhole, UnlinkWhole,
     ReadUnrecoverableWhole

(* WholeInv is inductive.                                                    *)
THEOREM WholeCorrect == Spec => []WholeInv
<1>1. Init => WholeInv
  BY InitWhole
<1>2. WholeInv /\ [Next]_vars => WholeInv'
  BY NextWhole
<1> QED BY <1>1, <1>2, PTL DEF Spec

-----------------------------------------------------------------------------
(* A stripe turns pending for an object that is still being put.             *)
StaysSettled == \A o \in ObjId :
  object'[o].state = "committed" =>
    /\ object[o].state = "committed"
    /\ \A s \in StripeId : stripe'[s].obj = o /\ stripe'[s].state = "pending"
                            => stripe[s].obj = o /\ stripe[s].state = "pending"

LEMMA SettledKept ==
  ASSUME NoLeftovers, StaysSettled
  PROVE  NoLeftovers'
BY DEF NoLeftovers, StaysSettled

LEMMA StripeBeginSettled ==
  ASSUME FilesInv, NEW k \in Key, StripeBegin(k)
  PROVE  StaysSettled
<1>1. PICK s \in StripeId : /\ stripe'[s].obj = w[k].obj
                            /\ \A t \in StripeId : t # s => stripe'[t] = stripe[t]
  BY DEF StripeBegin, FilesInv, TypeOK
<1>2. UNCHANGED object /\ object[w[k].obj].state = "pending"
  BY FilesHolds DEF StripeBegin, Holds, Writing
<1> QED BY <1>1, <1>2 DEF StaysSettled

LEMMA StripeCommitSettled ==
  ASSUME FilesInv, NEW k \in Key, StripeCommit(k)
  PROVE  StaysSettled
<1>1. w[k].sid \in StripeId /\ UNCHANGED object
  BY OwnStripe DEF StripeCommit, AllTried
<1>2. /\ stripe'[w[k].sid].state = "committed"
      /\ \A t \in StripeId : t # w[k].sid => stripe'[t] = stripe[t]
  BY <1>1 DEF StripeCommit, FilesInv, TypeOK, StripeRow
<1> QED BY <1>1, <1>2 DEF StaysSettled

LEMMA PutCommitSettled ==
  ASSUME WholeInv, NoLeftovers, NEW k \in Key, PutCommit(k)
  PROVE  NoLeftovers'
<1>1. UNCHANGED stripe /\ w[k].pc = "stripe" /\ Writes(stripe, w[k])
  BY DEF PutCommit, WholeInv
<1>2. \A o \in ObjId : o # w[k].obj => object'[o] = object[o]
  BY DEF PutCommit, WholeInv, FilesInv, TypeOK
<1> QED BY <1>1, <1>2 DEF NoLeftovers, Writes, Writing

LEMMA DropSettled ==
  ASSUME FilesInv, NEW S, DropStripes(S), UNCHANGED files,
         UNCHANGED object \/ \E o : object' = [object EXCEPT ![o] = NoObject]
  PROVE  StaysSettled
<1>1. \A o \in ObjId : object'[o].state = "committed" => object[o].state = "committed"
  BY DEF FilesInv, TypeOK, NoObject
<1> QED BY <1>1, DropRows DEF StaysSettled

LEMMA NextSettled ==
  ASSUME WholeInv, NoLeftovers, [Next]_vars
  PROVE  NoLeftovers'
<1>1. FilesInv
  BY DEF WholeInv
<1>2. ASSUME UNCHANGED <<object, stripe>> PROVE NoLeftovers'
  BY <1>2 DEF NoLeftovers
<1>3. ASSUME NEW k \in Key, PutInsert(k) PROVE StaysSettled
  BY <1>1, <1>3 DEF PutInsert, FilesInv, TypeOK, StaysSettled
<1>4. ASSUME NEW k \in Key, StripeDrop(k) \/ DeleteRows(k) PROVE StaysSettled
  BY <1>1, <1>4, DropSettled DEF StripeDrop, DeleteRows
<1>5. ASSUME BootDrop \/ \E o \in ObjId : BootObject(o) PROVE StaysSettled
  BY <1>1, <1>5, DropSettled DEF BootDrop, BootObject
<1>6. ASSUME NEW x \in Reader, ReadUnrecoverable(x) PROVE StaysSettled
  BY <1>1, <1>6 DEF ReadUnrecoverable, FilesInv, TypeOK, StripeRow, StaysSettled
<1>7. ASSUME NEW k \in Key,
             \/ \E n \in 1 .. MaxStripes : PutBegin(k, n)
             \/ (\E i \in Shard : WriteShard(k, i) \/ WriteShardFails(k, i))
             \/ StripeGiveUp(k) \/ PutRaises(k)
             \/ DeleteBegin(k) \/ DeleteRaises(k) \/ Unlink(k)
      PROVE  UNCHANGED <<object, stripe>>
  BY <1>7 DEF PutBegin, WriteShard, WriteShardFails, StripeGiveUp,
              PutRaises, DeleteBegin, DeleteRaises, Unlink, dbVars
<1>8. ASSUME NEW x \in Reader,
             \/ \E k \in Key : ReadStat(x, k)
             \/ ReadList(x) \/ ReadRows(x)
             \/ (\E i \in Shard : ReadSkip(x, i) \/ ReadShard(x, i) \/ ReadMissing(x, i) \/ ReadFails(x, i))
             \/ ReadDecode(x) \/ ReadEnd(x)
      PROVE  UNCHANGED <<object, stripe>>
  BY <1>8 DEF ReadStat, ReadList, ReadRows, ReadSkip, ReadShard, ReadMissing, ReadFails,
              ReadDecode, ReadEnd, dbVars
<1>9. ASSUME \/ \E d \in Disk : DiskDown(d) \/ DiskUp(d) \/ HealthCheck(d)
             \/ Crash \/ BootSweep \/ BootUnlink \/ BootServe \/ UNCHANGED vars
      PROVE  UNCHANGED <<object, stripe>>
  BY <1>9 DEF DiskDown, DiskUp, HealthCheck, Crash, BootSweep, BootUnlink, BootServe,
              dbVars, vars
<1> QED BY Actions, SettledKept, <1>1, <1>2, <1>3, <1>4, <1>5, <1>6, <1>7, <1>8, <1>9,
           StripeBeginSettled, StripeCommitSettled, PutCommitSettled

LEMMA InitSettled == Init => NoLeftovers
  BY DEF Init, NoObject, NoLeftovers

(* A committed object has no stripe that is pending, at any time while       *)
(* nobody restripes it.                                                      *)
THEOREM SettledCorrect == Spec => []NoLeftovers
<1>1. Init => NoLeftovers
  BY InitSettled
<1>2. WholeInv /\ NoLeftovers /\ [Next]_vars => NoLeftovers'
  BY NextSettled
<1> QED BY <1>1, <1>2, WholeCorrect, PTL DEF Spec

(* The inductive invariant as ObjectStore states it.                         *)
THEOREM IInvCorrect == Spec => []IInv
<1>1. WholeInv /\ NoLeftovers /\ RowsComeWithCommit => IInv
  BY WritesMeaning, WholeMeaning, RowsInPlace DEF WholeInv, IInv, FilesInv
<1> QED BY <1>1, WholeCorrect, SettledCorrect, RowsCorrect, PTL

(* A committed object has every stripe it was cut into, exactly once.        *)
THEOREM WholeObjectsHold == Spec => []WholeObjects
<1>1. IInv => WholeObjects
  BY DEF IInv
<1> QED BY <1>1, IInvCorrect, PTL

=============================================================================
