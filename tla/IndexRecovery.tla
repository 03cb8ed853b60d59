---------------------------- MODULE IndexRecovery ----------------------------
(***************************************************************************)
(* The index that recover_index (storage/recovery.py) builds from the      *)
(* shard headers when the SQLite file is lost: what it would be at every   *)
(* state of the store, from the disks that are left.                       *)
(***************************************************************************)
EXTENDS ObjectStore, FiniteSetsExt

(* The shard files on the disks D; a header has the stripe, its number and   *)
(* the key.                                                                  *)
ScannedData(D) == {f \in files : f[1] \in D /\ f[3] < K}   \* mutant: no parity
Scanned(D) == {f \in files : f[1] \in D}
ScannedStripes(D) == {f[2] : f \in Scanned(D)}
ByKey(k, D) == {s \in ScannedStripes(D) : stripe[s].key = k}

(* The object row, in stripes: where the last one ends, and how many.        *)
RecoveredObject(k, D) ==
  [size |-> Max({stripe[s].seq + 1 : s \in ByKey(k, D)}), stripe_count |-> Cardinality(ByKey(k, D))]

(* The shard rows: the first disk on which the index was met, or none.       *)
Found(s, i, D) == {f[1] : f \in {g \in Scanned(D) : g[2] = s /\ g[3] = i}}
RecoveredShard(s, i, D) ==
  IF Found(s, i, D) = {} THEN [disk |-> None, state |-> "missing"]
  ELSE [disk |-> CHOOSE d \in Found(s, i, D) : TRUE, state |-> "ok"]
Recovered(s, D) == {i \in Shard : RecoveredShard(s, i, D).state = "ok"}

-----------------------------------------------------------------------------
(* Properties.                                                               *)

(* What the index must be: for every stored object its size, its stripes,    *)
(* and shards enough to decode each, with any min_write_extra disks lost     *)
(* beside the database.                                                      *)
Stored(k) == \E o \in ObjId : KeyRow(k, o) /\ object[o].state = "committed"
Lost == {D \in SUBSET Disk : Cardinality(D) <= MinWriteExtra /\ Cardinality(D) <= M}
IndexIsStore(k, D) ==
  IF ~Stored(k) THEN ByKey(k, D) = {}
  ELSE \E o \in ObjId :
         /\ KeyRow(k, o)
         /\ ByKey(k, D) = VisibleStripes(o)
         /\ RecoveredObject(k, D) = [size |-> object[o].size, stripe_count |-> object[o].size]
         /\ \A s \in VisibleStripes(o) : Cardinality(Recovered(s, D)) >= K

(* "rebuilds the objects/stripes/shards tables by scanning the disks" (TDD   *)
(* 4.6): so it is whenever the database is lost at rest and every file       *)
(* belongs to a stored object.                                               *)
AtRest(k) == Serving /\ w[k].pc = "idle" /\ \A f \in files : stripe[f[2]].key = k => stripe[f[2]].state \in Visible
RecoveredIsStored ==
  \A k \in Key : AtRest(k) /\ (\A o \in ObjId : ~(KeyRow(k, o) /\ object[o].state = "pending"))
    => \A D \in Lost : IndexIsStore(k, Disk \ D)

(* The same without the condition on the files.  The code does not keep it:  *)
(* files that a failed put or a delete left behind come back as an object,   *)
(* or as more stripes of one.                                                *)
RecoveredAnyway ==
  \A k \in Key : Serving /\ w[k].pc = "idle" => IndexIsStore(k, Disk)
=============================================================================
