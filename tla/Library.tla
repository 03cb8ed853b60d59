------------------------------ MODULE Library ------------------------------
(***************************************************************************)
(* The files once they are uploaded: trash, restore and purge (FileService *)
(* in services.py), thumbnails (ThumbnailService, cache/lru.py), the index *)
(* of near duplicates and its groups (phash/duplicates.py, mih.py) and the *)
(* manifest of a device (sync/manager.py).  Every request runs in a thread *)
(* of its own and every statement is a transaction, so a request is a      *)
(* sequence of steps between which others run.  Every file is an image of  *)
(* the media tier.                                                         *)
(* "Clash" names the pairs of operations that do not meet on one file: the *)
(* properties hold for every other overlap.  Bounds: Sessions, MaxCrashes.  *)
(***************************************************************************)
EXTENDS Naturals, FiniteSets, FiniteSetsExt

CONSTANTS
  File,        \* row ids, so that they have an order
  Near,        \* the pairs of files within the radius of each other
  Thread,
  Clash,
  Sessions,    \* a behaviour has the requests of one of these: operations and files
  MaxCrashes,
  Null

ASSUME FileAssumption == File \subseteq Nat /\ Null \notin Nat /\ \A S \in SUBSET File : Null # S
ASSUME NearAssumption == \A p \in Near : <<p[2], p[1]>> \in Near /\ p[1] # p[2]

VARIABLES
  row,      \* table files: "none", or trashed, purged and dup_group
  bytes,    \* objects media/<sha>
  derived,  \* thumbnails on disk
  cache,    \* thumbnails in memory
  codes,    \* the duplicate index: the code of an id
  table,    \* the duplicate index: how often an id is in the hash tables
  items,    \* table device_items
  tree,     \* the Merkle tree in memory, or Null
  th,       \* the threads
  session,
  crashes

store == <<bytes, derived, cache>>
index == <<codes, table>>
sync == <<items, tree>>
bounds == <<session, crashes>>
vars == <<row, store, index, sync, th, bounds>>

NoRow == [in |-> FALSE, trashed |-> FALSE, purged |-> FALSE, group |-> Null]
Idle == [op |-> "none", f |-> Null, pc |-> "idle", hits |-> {}, groups |-> {}]
Live(f) == row[f].in /\ ~row[f].trashed

(* A thread is at a step of its request.                                     *)
FileRow == [in: BOOLEAN, trashed: BOOLEAN, purged: BOOLEAN, group: File \cup {Null}]
Pc == {"idle", "update", "remove", "add", "groups", "merge", "link", "failed", "tombstone",
       "delete", "unlink", "put", "insert", "tree", "set", "make", "write", "read"}
Request == [op: {"none", "trash", "restore", "purge", "ingest", "thumb", "link", "unlink"},
            f: File \cup {Null}, pc: Pc, hits: SUBSET File, groups: SUBSET File]
StepOf(op, pc) ==
  /\ op = "trash" => pc \in {"update", "remove"}
  /\ op = "restore" => pc \in {"update", "add", "groups", "merge", "link", "failed"}
  /\ op = "purge" => pc \in {"tombstone", "delete", "unlink"}
  /\ op = "ingest" =>
       pc \in {"put", "insert", "add", "groups", "merge", "link", "tree", "set", "failed"}
  /\ op = "thumb" => pc \in {"make", "write", "read"}
  /\ op = "link" => pc \in {"link", "tree", "set"}
  /\ op = "unlink" => pc \in {"tree", "set"}
AtStep(r) == r = Idle \/ (r.op # "none" /\ r.f \in File /\ StepOf(r.op, r.pc))

Init ==
  /\ row = [f \in File |-> NoRow]
  /\ bytes = {} /\ derived = {} /\ cache = {}
  /\ codes = {} /\ table = [f \in File |-> 0]
  /\ items = {} /\ tree = Null
  /\ th = [t \in Thread |-> Idle]
  /\ session \in Sessions /\ crashes = 0

-----------------------------------------------------------------------------
At(t, op, pc) == th[t].op = op /\ th[t].pc = pc
Goto(t, pc) == th' = [th EXCEPT ![t].pc = pc]
End(t) == th' = [th EXCEPT ![t] = Idle]
(* A thread takes a request, if no other thread is at one that clashes.      *)
Begin(t, op, f, pc) ==
  /\ th[t] = Idle /\ <<op, f>> \in session
  /\ \A o \in Thread : th[o].f = f => {op, th[o].op} \notin Clash
  /\ th' = [th EXCEPT ![t] = [Idle EXCEPT !.op = op, !.f = f, !.pc = pc]]

(* trash: the check, the update, the index.                                  *)
Trash(t, f) ==
  /\ Live(f) /\ Begin(t, "trash", f, "update")
  /\ UNCHANGED <<row, store, index, sync, bounds>>
TrashUpdate(t) ==
  /\ At(t, "trash", "update")
  /\ row' = [row EXCEPT ![th[t].f].trashed = TRUE]
  /\ Goto(t, "remove")
  /\ UNCHANGED <<store, index, sync, bounds>>
(* MultiIndexHash.remove: the code goes, and one entry of each table.        *)
EntriesLeft(n) == IF n = 0 THEN 0 ELSE n - 1
TrashRemove(t) ==
  /\ At(t, "trash", "remove")
  /\ codes' = codes \ {th[t].f}
  /\ table' = [table EXCEPT ![th[t].f] = EntriesLeft(@)]
  /\ End(t)
  /\ UNCHANGED <<row, store, sync, bounds>>

(* restore: the check, the update, then DuplicateIndex.add.                  *)
Restore(t, f) ==
  /\ row[f].in /\ row[f].trashed /\ ~row[f].purged
  /\ Begin(t, "restore", f, "update")
  /\ UNCHANGED <<row, store, index, sync, bounds>>
RestoreUpdate(t) ==
  /\ At(t, "restore", "update")
  /\ row' = [row EXCEPT ![th[t].f].trashed = FALSE]
  /\ Goto(t, "add")
  /\ UNCHANGED <<store, index, sync, bounds>>

(* DuplicateIndex.add: search and insertion under the lock.  An id in the    *)
(* tables without a code is a KeyError, which ends the request.              *)
Found(f) == {g \in File : table[g] > 0 /\ <<f, g>> \in Near}
IndexAdd(t) ==
  /\ th[t].pc = "add"
  /\ LET f == th[t].f IN
     IF ~(Found(f) \subseteq codes)
     THEN Goto(t, "failed") /\ UNCHANGED index
     ELSE /\ codes' = codes \cup {f}
          /\ table' = [table EXCEPT ![f] = @ + 1]
          /\ th' = [th EXCEPT ![t].hits = Found(f), ![t].pc = IF Found(f) = {} THEN "link" ELSE "groups"]
  /\ UNCHANGED <<row, store, sync, bounds>>
(* The groups of the hits; then, in a transaction, all members of these, the *)
(* file and the hits get the smallest id.                                    *)
GroupsRead(t) ==
  /\ th[t].pc = "groups"
  /\ th' = [th EXCEPT ![t].pc = "merge", ![t].groups = {row[g].group : g \in th[t].hits} \ {Null}]
  /\ UNCHANGED <<row, store, index, sync, bounds>>
Merged(t, g) == g = th[t].f \/ g \in th[t].hits \/ row[g].group \in th[t].groups
GroupsMerge(t) ==
  /\ th[t].pc = "merge"
  /\ LET root == Min({th[t].f} \cup th[t].hits \cup th[t].groups) IN
     row' = [g \in File |-> IF row[g].in /\ Merged(t, g) THEN [row[g] EXCEPT !.group = root] ELSE row[g]]
  /\ Goto(t, "link")
  /\ UNCHANGED <<store, index, sync, bounds>>
(* What follows: a restore is done, an ingest links the device.              *)
AddEnds(t) ==
  /\ th[t].pc = "failed" \/ At(t, "restore", "link")
  /\ End(t)
  /\ UNCHANGED <<row, store, index, sync, bounds>>

(* purge, of files that were in the trash when it was listed: the tombstone, *)
(* the object, the thumbnails.                                               *)
Purge(t, f) ==
  /\ row[f].in /\ row[f].trashed /\ ~row[f].purged
  /\ Begin(t, "purge", f, "tombstone")
  /\ UNCHANGED <<row, store, index, sync, bounds>>
PurgeTombstone(t) ==
  /\ At(t, "purge", "tombstone")
  /\ row' = [row EXCEPT ![th[t].f] = [@ EXCEPT !.purged = TRUE, !.trashed = TRUE, !.group = Null]]
  /\ Goto(t, "delete")
  /\ UNCHANGED <<store, index, sync, bounds>>
PurgeDeleteEnds(t) ==
  /\ At(t, "purge", "delete")
  /\ bytes' = bytes \ {th[t].f}
  /\ End(t)
  /\ UNCHANGED <<row, derived, cache, index, sync, bounds>>
PurgeDelete(t) ==
  /\ At(t, "purge", "delete")
  /\ bytes' = bytes \ {th[t].f}
  /\ Goto(t, "unlink")
  /\ UNCHANGED <<row, derived, cache, index, sync, bounds>>
PurgeUnlink(t) ==
  /\ At(t, "purge", "unlink")
  /\ derived' = derived \ {th[t].f}
  /\ End(t)
  /\ UNCHANGED <<row, bytes, cache, index, sync, bounds>>

-----------------------------------------------------------------------------
(* process of the one ingest worker: thumbnails, object, row, index, device; *)
(* for a known content the device only.                                      *)
KnownLive(f) == Live(f)
Known(f) == row[f].in
Ingest(t, f) ==
  /\ \A o \in Thread : th[o].op # "ingest"
  /\ Begin(t, "ingest", f, IF Known(f) THEN "link" ELSE "put")
  /\ derived' = IF Known(f) THEN derived ELSE derived \cup {f}
  /\ UNCHANGED <<row, bytes, cache, index, sync, bounds>>
IngestPut(t) ==
  /\ At(t, "ingest", "put")
  /\ bytes' = bytes \cup {th[t].f}
  /\ Goto(t, "insert")
  /\ UNCHANGED <<row, derived, cache, index, sync, bounds>>
IngestInsert(t) ==
  /\ At(t, "ingest", "insert")
  /\ row' = [row EXCEPT ![th[t].f] = [NoRow EXCEPT !.in = TRUE]]
  /\ Goto(t, "add")
  /\ UNCHANGED <<store, index, sync, bounds>>

(* ThumbnailService.get: memory, disk, or made again from the original.      *)
Thumb(t, f) ==
  /\ row[f].in /\ f \notin cache
  /\ Begin(t, "thumb", f, IF f \in derived THEN "read" ELSE "make")
  /\ UNCHANGED <<row, store, index, sync, bounds>>
(* regenerate: iter_bytes refuses a file that is purged.                     *)
ThumbOriginal(t) ==
  /\ At(t, "thumb", "make")
  /\ IF row[th[t].f].purged \/ th[t].f \notin bytes THEN End(t) ELSE Goto(t, "write")
  /\ UNCHANGED <<row, store, index, sync, bounds>>
ThumbWrite(t) ==
  /\ At(t, "thumb", "write")
  /\ derived' = derived \cup {th[t].f}
  /\ Goto(t, "read")
  /\ UNCHANGED <<row, bytes, cache, index, sync, bounds>>
ThumbRead(t) ==
  /\ At(t, "thumb", "read")
  /\ cache' = IF th[t].f \in derived THEN cache \cup {th[t].f} ELSE cache
  /\ End(t)
  /\ UNCHANGED <<row, bytes, derived, index, sync, bounds>>
(* SizeAwareLRU.put evicts what was used least recently.                     *)
Evict(f) ==
  /\ f \in cache /\ cache' = cache \ {f}
  /\ UNCHANGED <<row, bytes, derived, index, sync, th, bounds>>

(* "after index recovery or SSD loss": a thumbnail is gone from the disk, in  *)
(* the sessions that ask for thumbnails.                                     *)
DerivedLost(f) ==
  /\ <<"thumb", f>> \in session /\ f \in derived /\ derived' = derived \ {f}
  /\ UNCHANGED <<row, bytes, cache, index, sync, th, bounds>>

-----------------------------------------------------------------------------
(* SyncManager.link and unlink, of reconcile and of the ingest: the table,   *)
(* the tree, which is built from the table if there is none, and the change  *)
(* of the tree.                                                              *)
Link(t, f) ==
  /\ Known(f) /\ f \notin items /\ Begin(t, "link", f, "link")
  /\ UNCHANGED <<row, store, index, sync, bounds>>
LinkInsert(t) ==
  /\ th[t].op \in {"ingest", "link"} /\ th[t].pc = "link"
  /\ items' = items \cup {th[t].f}
  /\ Goto(t, "tree")
  /\ UNCHANGED <<row, store, index, tree, bounds>>
Unlink(t, f) ==
  /\ f \in items /\ Begin(t, "unlink", f, "tree")
  /\ items' = items \ {f}
  /\ UNCHANGED <<row, store, index, tree, bounds>>
BuiltBefore == {}
Built == items
TreeBuild(t) ==
  /\ th[t].pc = "tree"
  /\ tree' = IF tree = Null THEN Built ELSE tree
  /\ Goto(t, "set")
  /\ UNCHANGED <<row, store, index, items, bounds>>
TreeSet(t) ==
  /\ th[t].pc = "set"
  /\ tree' = IF th[t].op = "unlink" THEN tree \ {th[t].f} ELSE tree \cup {th[t].f}
  /\ End(t)
  /\ UNCHANGED <<row, store, index, items, bounds>>

(* A crash, and the indexes as startup loads them.                           *)
LoadedAll == {f \in File : row[f].in}
Loaded == {f \in File : Live(f)}
Crash ==
  /\ crashes < MaxCrashes
  /\ crashes' = crashes + 1
  /\ th' = [t \in Thread |-> Idle]
  /\ codes' = Loaded /\ table' = [f \in File |-> IF f \in Loaded THEN 1 ELSE 0]
  /\ cache' = {} /\ tree' = Null
  /\ UNCHANGED <<row, bytes, derived, items, session>>

-----------------------------------------------------------------------------
Step(t) ==
  \/ TrashUpdate(t) \/ TrashRemove(t) \/ RestoreUpdate(t)
  \/ IndexAdd(t) \/ GroupsRead(t) \/ GroupsMerge(t) \/ AddEnds(t)
  \/ PurgeTombstone(t) \/ PurgeDelete(t) \/ PurgeUnlink(t)
  \/ IngestPut(t) \/ IngestInsert(t)
  \/ ThumbOriginal(t) \/ ThumbWrite(t) \/ ThumbRead(t)
  \/ LinkInsert(t) \/ TreeBuild(t) \/ TreeSet(t)
Asked(t, f) ==
  \/ Trash(t, f) \/ Restore(t, f) \/ Purge(t, f) \/ Ingest(t, f)
  \/ Thumb(t, f) \/ Link(t, f) \/ Unlink(t, f)
Next ==
  \/ \E t \in Thread : Step(t) \/ \E f \in File : Asked(t, f)
  \/ (\E f \in File : Evict(f) \/ DerivedLost(f)) \/ Crash

Spec == Init /\ [][Next]_vars
FairSpec == Spec /\ \A t \in Thread : WF_vars(Step(t))

-----------------------------------------------------------------------------
(* Properties.                                                               *)

(* Tables, indexes and threads hold values of their type.                    *)
TypeOK ==
  /\ row \in [File -> FileRow]
  /\ bytes \subseteq File /\ derived \subseteq File /\ cache \subseteq File
  /\ codes \subseteq File /\ table \in [File -> Nat]
  /\ items \subseteq File /\ (tree = Null \/ tree \subseteq File)
  /\ th \in [Thread -> Request]
  /\ \A t \in Thread : AtStep(th[t]) /\ (th[t].pc = "set" => tree # Null)

(* A file that was not purged can be delivered, at every step of every       *)
(* ingest, purge and crash.                                                  *)
LiveHasBytes == \A f \in File : row[f].in /\ ~row[f].purged => f \in bytes

(* "keep a tombstone row so sync never re-uploads it": what was purged stays *)
(* purged, and its bytes do not come back.                                   *)
PurgedForGood ==
  [][\A f \in File : row[f].purged => row'[f].purged /\ (f \notin bytes => f \notin bytes')]_vars

(* The duplicate index holds the live images, each once, whenever nobody is  *)
(* at work on the file.                                                      *)
Quiet(f) == \A t \in Thread : th[t].f # f
IndexIsExact ==
  \A f \in File : Quiet(f) => (f \in codes <=> Live(f)) /\ table[f] = (IF Live(f) THEN 1 ELSE 0)

(* No search meets an id without a code, so no ingest fails over it.         *)
SearchNeverFails == \A t \in Thread : th[t].pc # "failed"

(* Files of one group are related through near duplicates.                   *)
Related(f, g) == f = g \/ <<f, g>> \in Near \/ \E h \in File : <<f, h>> \in Near /\ <<h, g>> \in Near
GroupsAreRelated ==
  \A f, g \in File : row[f].group # Null /\ row[f].group = row[g].group => Related(f, g)

(* "kept in step with every link/unlink": the tree answers for the table.    *)
TreeIsTable == tree # Null => \A f \in File : Quiet(f) => (f \in tree <=> f \in items)

(* "then free the bytes": a purge frees the object and the thumbnails unless *)
(* it is cut short by a crash, after which nobody finishes it.               *)
PurgeFrees == \A f \in File : row[f].purged ~> (f \notin bytes \cup derived \/ crashes > 0)

(* The bytes of a purged file go even then, which the code does not do.      *)
PurgedIsFreed == \A f \in File : row[f].purged ~> f \notin bytes

(* A purged file stays in the trash (purge, whatever a restore does beside). *)
PurgedIsTrashed == \A f \in File : row[f].purged => row[f].trashed

(* Near live images are in one group, whichever of them was added first.     *)
NearIsGrouped ==
  \A p \in Near : Quiet(p[1]) /\ Quiet(p[2]) /\ Live(p[1]) /\ Live(p[2]) =>
    row[p[1]].group # Null /\ row[p[1]].group = row[p[2]].group

-----------------------------------------------------------------------------
(* The inductive invariants behind LiveHasBytes, IndexIsExact and            *)
(* TreeIsTable (see LibraryProofs), and the overlaps that the last two       *)
(* cannot stand.                                                             *)

IndexOverlaps == {{"restore"}, {"trash", "restore"}, {"restore", "purge"}, {"ingest", "trash"}}
TreeOverlaps == {{"link", "unlink"}, {"ingest", "unlink"}}

(* Two requests at one file do not clash.                                    *)
Apart ==
  \A t, o \in Thread :
    t # o /\ th[t] # Idle /\ th[t].f = th[o].f => {th[t].op, th[o].op} \notin Clash

(* The one ingest finds no row before it inserts its own; a request of the   *)
(* trash has a row; a purge deletes what it has marked.                      *)
RowsHold(r) ==
  /\ r.op = "ingest" /\ r.pc \in {"put", "insert"} => ~row[r.f].in
  /\ r.op = "ingest" /\ r.pc = "insert" => r.f \in bytes
  /\ r.op \in {"trash", "restore", "purge"} => row[r.f].in
  /\ r.op = "purge" /\ r.pc # "tombstone" => row[r.f].purged
OneIngest == \A t, o \in Thread : th[t].op = "ingest" /\ th[o].op = "ingest" => t = o
RowsCount == \A f \in File : row[f].trashed \/ row[f].purged => row[f].in
BytesInv == /\ TypeOK /\ OneIngest /\ RowsCount
            /\ \A t \in Thread : RowsHold(th[t])
            /\ LiveHasBytes

(* Between the change of the row and that of the index, a file waits for     *)
(* one thread that adds it, or for those that remove it.                     *)
Adding(f) == \E t \in Thread : th[t].f = f /\ th[t].pc = "add"
Removing(f) == \E t \in Thread : th[t].f = f /\ At(t, "trash", "remove")
IndexFollows(f) ==
  /\ table[f] = (IF f \in codes THEN 1 ELSE 0)
  /\ f \in codes => Live(f) \/ Removing(f)
  /\ Live(f) => f \in codes \/ Adding(f)
  /\ Adding(f) => Live(f) /\ f \notin codes
  /\ Removing(f) => ~Live(f)
OneAdds ==
  \A t, o \in Thread : th[t].pc = "add" /\ th[o].pc = "add" /\ th[t].f = th[o].f => t = o
TrashHolds(r) ==
  /\ r.op = "restore" /\ r.pc = "update" =>
       row[r.f].trashed /\ ~row[r.f].purged /\ r.f \notin codes
  /\ r.op = "purge" => row[r.f].trashed
  /\ r.pc # "failed"
IndexInv == /\ BytesInv /\ Apart /\ OneAdds
            /\ \A f \in File : IndexFollows(f)
            /\ \A t \in Thread : TrashHolds(th[t])
            /\ PurgedIsTrashed

(* Between the change of the table and that of the tree a file is touched.   *)
Touched(f) == \E t \in Thread : th[t].f = f /\ th[t].pc \in {"tree", "set"}
ItemsHold(r) ==
  /\ r.op \in {"ingest", "link"} /\ r.pc \in {"tree", "set"} => r.f \in items
  /\ r.op = "unlink" => r.f \notin items
TreeInv == /\ TypeOK /\ Apart
           /\ \A t \in Thread : ItemsHold(th[t])
           /\ tree # Null => \A f \in File : Touched(f) \/ (f \in tree <=> f \in items)
=============================================================================
