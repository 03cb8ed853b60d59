--------------------------- MODULE LibraryProofs ---------------------------
(***************************************************************************)
(* Proofs about Library, for every set of files, threads and sessions.     *)
(***************************************************************************)
EXTENDS Library, WellFoundedInduction, TLAPS

(* Every action of Next, by name. *)
LEMMA Actions ==
  ASSUME Next
  PROVE  \/ \E t \in Thread :
              \/ TrashUpdate(t) \/ TrashRemove(t) \/ RestoreUpdate(t)
              \/ IndexAdd(t) \/ GroupsRead(t) \/ GroupsMerge(t) \/ AddEnds(t)
              \/ PurgeTombstone(t) \/ PurgeDelete(t) \/ PurgeUnlink(t)
              \/ IngestPut(t) \/ IngestInsert(t)
              \/ ThumbOriginal(t) \/ ThumbWrite(t) \/ ThumbRead(t)
              \/ LinkInsert(t) \/ TreeBuild(t) \/ TreeSet(t)
              \/ \E f \in File :
                   \/ Trash(t, f) \/ Restore(t, f) \/ Purge(t, f) \/ Ingest(t, f)
                   \/ Thumb(t, f) \/ Link(t, f) \/ Unlink(t, f)
         \/ \E f \in File : Evict(f) \/ DerivedLost(f)
         \/ Crash
  BY DEF Next, Step, Asked

-----------------------------------------------------------------------------
(* What a thread is after Goto, End and Begin.                               *)

LEMMA IdleFields ==
  /\ Idle.op = "none" /\ Idle.f = Null /\ Idle.pc = "idle" /\ Idle.hits = {} /\ Idle.groups = {}
  /\ Idle \in Request /\ AtStep(Idle)
  BY DEF Idle, Request, Pc, AtStep

LEMMA GotoFields ==
  ASSUME TypeOK, NEW t \in Thread, NEW pc, Goto(t, pc)
  PROVE  /\ th'[t].op = th[t].op /\ th'[t].f = th[t].f /\ th'[t].pc = pc
         /\ th'[t].hits = th[t].hits /\ th'[t].groups = th[t].groups
         /\ \A o \in Thread : o # t => th'[o] = th[o]
         /\ pc \in Pc => th' \in [Thread -> Request]
  BY DEF TypeOK, Goto, Request

LEMMA EndFields ==
  ASSUME TypeOK, NEW t \in Thread, End(t)
  PROVE  /\ th'[t] = Idle
         /\ \A o \in Thread : o # t => th'[o] = th[o]
         /\ th' \in [Thread -> Request]
  BY IdleFields DEF TypeOK, End

LEMMA BeginFields ==
  ASSUME TypeOK, NEW t \in Thread, NEW f \in File, NEW op, NEW pc, Begin(t, op, f, pc)
  PROVE  /\ th[t] = Idle
         /\ th'[t].op = op /\ th'[t].f = f /\ th'[t].pc = pc
         /\ th'[t].hits = {} /\ th'[t].groups = {}
         /\ \A o \in Thread : o # t => th'[o] = th[o]
         /\ \A o \in Thread : th[o].f = f => {op, th[o].op} \notin Clash
         /\ pc \in Pc /\ op \in {"trash", "restore", "purge", "ingest", "thumb", "link", "unlink"}
              => th' \in [Thread -> Request]
  BY DEF TypeOK, Begin, Idle, Request

(* A thread that is not idle is at a file.                                   *)
LEMMA BusyHasFile ==
  ASSUME TypeOK, NEW t \in Thread, th[t].pc # "idle" \/ th[t].op # "none" \/ th[t].f \in File
  PROVE  th[t].f \in File /\ th[t].op # "none" /\ th[t] # Idle
  BY IdleFields, FileAssumption DEF TypeOK, AtStep

-----------------------------------------------------------------------------
(* Type correctness, one lemma for each part of the state.                   *)

(* A step of a request leads to a step of this request, or to its end.       *)
LEMMA StepsGoOn ==
  ASSUME TypeOK, NEW t \in Thread, Step(t)
  PROVE  /\ th' \in [Thread -> Request]
         /\ \A o \in Thread : o # t => th'[o] = th[o]
         /\ th'[t] = Idle \/ (th'[t].op = th[t].op /\ th'[t].f = th[t].f)
         /\ AtStep(th'[t])
<1> DEFINE Q == /\ th' \in [Thread -> Request]
                /\ \A o \in Thread : o # t => th'[o] = th[o]
                /\ th'[t] = Idle \/ (th'[t].op = th[t].op /\ th'[t].f = th[t].f)
                /\ AtStep(th'[t])
<1>t. th[t] \in Request /\ AtStep(th[t])
  BY DEF TypeOK
<1>1. End(t) => Q
  BY EndFields, IdleFields
<1>2. ASSUME NEW pc \in Pc, Goto(t, pc), th[t].pc # "idle", StepOf(th[t].op, pc)
      PROVE  Q
  <2>1. th[t].f \in File /\ th[t].op # "none"
    BY <1>2, BusyHasFile
  <2> QED BY <2>1, <1>2, GotoFields DEF AtStep
<1> SUFFICES Q
  OBVIOUS
<1> HIDE DEF Q
<1>3. CASE TrashRemove(t) \/ AddEnds(t) \/ PurgeUnlink(t) \/ ThumbRead(t) \/ TreeSet(t)
  <2>1. End(t)
    BY <1>3 DEF TrashRemove, AddEnds, PurgeUnlink, ThumbRead, TreeSet
  <2> QED BY <2>1, <1>1
<1>4. CASE TrashUpdate(t)
  <2>1. th[t].op = "trash" /\ th[t].pc = "update" /\ Goto(t, "remove")
    BY <1>4 DEF TrashUpdate, At
  <2> QED BY <2>1, <1>2 DEF StepOf, Pc
<1>5. CASE RestoreUpdate(t)
  <2>1. th[t].op = "restore" /\ th[t].pc = "update" /\ Goto(t, "add")
    BY <1>5 DEF RestoreUpdate, At
  <2> QED BY <2>1, <1>2 DEF StepOf, Pc
<1>6. CASE PurgeTombstone(t)
  <2>1. th[t].op = "purge" /\ th[t].pc = "tombstone" /\ Goto(t, "delete")
    BY <1>6 DEF PurgeTombstone, At
  <2> QED BY <2>1, <1>2 DEF StepOf, Pc
<1>7. CASE PurgeDelete(t)
  <2>1. th[t].op = "purge" /\ th[t].pc = "delete" /\ Goto(t, "unlink")
    BY <1>7 DEF PurgeDelete, At
  <2> QED BY <2>1, <1>2 DEF StepOf, Pc
<1>8. CASE IngestPut(t)
  <2>1. th[t].op = "ingest" /\ th[t].pc = "put" /\ Goto(t, "insert")
    BY <1>8 DEF IngestPut, At
  <2> QED BY <2>1, <1>2 DEF StepOf, Pc
<1>9. CASE IngestInsert(t)
  <2>1. th[t].op = "ingest" /\ th[t].pc = "insert" /\ Goto(t, "add")
    BY <1>9 DEF IngestInsert, At
  <2> QED BY <2>1, <1>2 DEF StepOf, Pc
<1>10. CASE ThumbOriginal(t)
  <2>1. th[t].op = "thumb" /\ th[t].pc = "make" /\ (End(t) \/ Goto(t, "write"))
    BY <1>10 DEF ThumbOriginal, At
  <2> QED BY <2>1, <1>1, <1>2 DEF StepOf, Pc
<1>11. CASE ThumbWrite(t)
  <2>1. th[t].op = "thumb" /\ th[t].pc = "write" /\ Goto(t, "read")
    BY <1>11 DEF ThumbWrite, At
  <2> QED BY <2>1, <1>2 DEF StepOf, Pc
<1>12. CASE LinkInsert(t)
  <2>1. th[t].op \in {"ingest", "link"} /\ th[t].pc = "link" /\ Goto(t, "tree")
    BY <1>12 DEF LinkInsert
  <2> QED BY <2>1, <1>2 DEF StepOf, Pc
<1>s. /\ th[t].pc = "tree" => StepOf(th[t].op, "set")
      /\ th[t].pc = "merge" => StepOf(th[t].op, "link")
      /\ th[t].pc = "add" => StepOf(th[t].op, "failed") /\ StepOf(th[t].op, "link")
                             /\ StepOf(th[t].op, "groups")
      /\ th[t].pc = "groups" => StepOf(th[t].op, "merge")
  BY <1>t, IdleFields DEF AtStep, StepOf
<1>15. CASE TreeBuild(t)
  <2>1. th[t].pc = "tree" /\ Goto(t, "set")
    BY <1>15 DEF TreeBuild
  <2> QED BY <2>1, <1>2, <1>s DEF Pc
<1>16. CASE GroupsMerge(t)
  <2>1. th[t].pc = "merge" /\ Goto(t, "link")
    BY <1>16 DEF GroupsMerge
  <2> QED BY <2>1, <1>2, <1>s DEF Pc
<1>13. CASE IndexAdd(t)
  <2>1. CASE ~(Found(th[t].f) \subseteq codes)
    <3>1. Goto(t, "failed") /\ th[t].pc = "add"
      BY <1>13, <2>1 DEF IndexAdd
    <3> QED BY <3>1, <1>2, <1>s DEF Pc
  <2>2. CASE Found(th[t].f) \subseteq codes
    <3> DEFINE pc == IF Found(th[t].f) = {} THEN "link" ELSE "groups"
               q == [th[t] EXCEPT !.hits = Found(th[t].f), !.pc = pc]
    <3>1. th' = [th EXCEPT ![t] = q] /\ th[t].pc = "add"
      BY <1>13, <2>2 DEF IndexAdd
    <3>2. Found(th[t].f) \subseteq File
      BY DEF Found
    <3>3. q \in Request /\ q.op = th[t].op /\ q.f = th[t].f /\ q.pc = pc
      BY <1>t, <3>2 DEF Request, Pc
    <3>4. pc \in {"link", "groups"}
      OBVIOUS
    <3> HIDE DEF q, pc
    <3>5. AtStep(q)
      <4>1. th[t].f \in File /\ th[t].op # "none"
        BY <3>1, BusyHasFile
      <4> QED BY <3>1, <3>3, <3>4, <4>1, <1>s DEF AtStep
    <3>6. th'[t] = q /\ \A o \in Thread : o # t => th'[o] = th[o]
      BY <3>1 DEF TypeOK
    <3>7. th' \in [Thread -> Request]
      BY <3>1, <3>3 DEF TypeOK
    <3> QED BY <3>3, <3>5, <3>6, <3>7 DEF Q
  <2> QED BY <2>1, <2>2
<1>14. CASE GroupsRead(t)
  <2> DEFINE G == {row[g].group : g \in th[t].hits} \ {Null}
             q == [th[t] EXCEPT !.pc = "merge", !.groups = G]
  <2>1. th' = [th EXCEPT ![t] = q] /\ th[t].pc = "groups"
    BY <1>14 DEF GroupsRead
  <2>2. G \subseteq File
    BY <1>t DEF TypeOK, FileRow, Request
  <2>3. q \in Request /\ q.op = th[t].op /\ q.f = th[t].f /\ q.pc = "merge"
    BY <1>t, <2>2 DEF Request, Pc
  <2> HIDE DEF q, G
  <2>5. AtStep(q)
    <3>1. th[t].f \in File /\ th[t].op # "none"
      BY <2>1, BusyHasFile
    <3> QED BY <2>1, <2>3, <3>1, <1>s DEF AtStep
  <2>6. th'[t] = q /\ \A o \in Thread : o # t => th'[o] = th[o]
    BY <2>1 DEF TypeOK
  <2>7. th' \in [Thread -> Request]
    BY <2>1, <2>3 DEF TypeOK
  <2> QED BY <2>3, <2>5, <2>6, <2>7 DEF Q
<1> QED BY <1>3, <1>4, <1>5, <1>6, <1>7, <1>8, <1>9, <1>10, <1>11, <1>12, <1>13, <1>14, <1>15, <1>16 DEF Step

(* A request begins at an idle thread, apart from what it clashes with.      *)
LEMMA RequestsBegin ==
  ASSUME TypeOK, NEW t \in Thread, NEW f \in File, Asked(t, f)
  PROVE  /\ th' \in [Thread -> Request]
         /\ \A o \in Thread : o # t => th'[o] = th[o]
         /\ th[t] = Idle /\ th'[t].f = f /\ AtStep(th'[t])
         /\ \A o \in Thread : th[o].f = f => {th'[t].op, th[o].op} \notin Clash
<1> DEFINE Q == /\ th' \in [Thread -> Request]
                /\ \A o \in Thread : o # t => th'[o] = th[o]
                /\ th[t] = Idle /\ th'[t].f = f /\ AtStep(th'[t])
                /\ \A o \in Thread : th[o].f = f => {th'[t].op, th[o].op} \notin Clash
<1>1. ASSUME NEW op \in {"trash", "restore", "purge", "ingest", "thumb", "link", "unlink"},
             NEW pc \in Pc, Begin(t, op, f, pc), StepOf(op, pc)
      PROVE  Q
  BY <1>1, BeginFields DEF AtStep
<1> SUFFICES Q
  OBVIOUS
<1> HIDE DEF Q
<1>2. CASE Trash(t, f)
  <2>1. Begin(t, "trash", f, "update")
    BY <1>2 DEF Trash
  <2> QED BY <2>1, <1>1 DEF StepOf, Pc
<1>3. CASE Restore(t, f)
  <2>1. Begin(t, "restore", f, "update")
    BY <1>3 DEF Restore
  <2> QED BY <2>1, <1>1 DEF StepOf, Pc
<1>4. CASE Purge(t, f)
  <2>1. Begin(t, "purge", f, "tombstone")
    BY <1>4 DEF Purge
  <2> QED BY <2>1, <1>1 DEF StepOf, Pc
<1>5. CASE Ingest(t, f)
  <2>1. Begin(t, "ingest", f, "link") \/ Begin(t, "ingest", f, "put")
    BY <1>5 DEF Ingest
  <2> QED BY <2>1, <1>1 DEF StepOf, Pc
<1>6. CASE Thumb(t, f)
  <2>1. Begin(t, "thumb", f, "read") \/ Begin(t, "thumb", f, "make")
    BY <1>6 DEF Thumb
  <2> QED BY <2>1, <1>1 DEF StepOf, Pc
<1>7. CASE Link(t, f)
  <2>1. Begin(t, "link", f, "link")
    BY <1>7 DEF Link
  <2> QED BY <2>1, <1>1 DEF StepOf, Pc
<1>8. CASE Unlink(t, f)
  <2>1. Begin(t, "unlink", f, "tree")
    BY <1>8 DEF Unlink
  <2> QED BY <2>1, <1>1 DEF StepOf, Pc
<1> QED BY <1>2, <1>3, <1>4, <1>5, <1>6, <1>7, <1>8 DEF Asked

(* What changes the table files, and where.                                  *)
RowStep(t) ==
  \/ TrashUpdate(t) \/ RestoreUpdate(t) \/ PurgeTombstone(t) \/ IngestInsert(t) \/ GroupsMerge(t)
LEMMA RowsStay ==
  ASSUME [Next]_vars, row' # row
  PROVE  \E t \in Thread : RowStep(t)
<1>1. ASSUME NEW t \in Thread,
             \/ TrashRemove(t) \/ IndexAdd(t) \/ GroupsRead(t) \/ AddEnds(t)
             \/ PurgeDelete(t) \/ PurgeUnlink(t) \/ IngestPut(t)
             \/ ThumbOriginal(t) \/ ThumbWrite(t) \/ ThumbRead(t)
             \/ LinkInsert(t) \/ TreeBuild(t) \/ TreeSet(t)
      PROVE  UNCHANGED row
  BY <1>1 DEF TrashRemove, IndexAdd, GroupsRead, AddEnds, PurgeDelete, PurgeUnlink, IngestPut,
              ThumbOriginal, ThumbWrite, ThumbRead, LinkInsert, TreeBuild, TreeSet
<1>2. ASSUME NEW t \in Thread, NEW f \in File,
             \/ Trash(t, f) \/ Restore(t, f) \/ Purge(t, f) \/ Ingest(t, f)
             \/ Thumb(t, f) \/ Link(t, f) \/ Unlink(t, f)
      PROVE  UNCHANGED row
  BY <1>2 DEF Trash, Restore, Purge, Ingest, Thumb, Link, Unlink
<1>3. ASSUME (\E f \in File : Evict(f) \/ DerivedLost(f)) \/ Crash \/ UNCHANGED vars
      PROVE  UNCHANGED row
  BY <1>3 DEF Evict, DerivedLost, Crash, vars
<1> QED BY Actions, <1>1, <1>2, <1>3 DEF RowStep

LEMMA HasMin ==
  ASSUME NEW T \in SUBSET Nat, T # {}
  PROVE  Min(T) \in T /\ \A y \in T : Min(T) <= y
<1> DEFINE R == {p \in Nat \X Nat : p[1] < p[2]}
<1>1. IsWellFoundedOn(R, Nat)
  BY NatLessThanWellFounded DEF OpToRel
<1> HIDE DEF R
<1>2. PICK x \in T : \A y \in T : ~(<<y, x>> \in R)
  BY <1>1, WFMin
<1>3. \A y \in T : y \in Nat /\ x \in Nat /\ ~(y < x)
  BY <1>2 DEF R
<1>4. \A y \in T : x <= y
  BY <1>3
<1> QED BY <1>4 DEF Min

(* What each of these steps does.                                            *)
LEMMA TrashUpdateFacts ==
  ASSUME TypeOK, NEW t \in Thread, TrashUpdate(t)
  PROVE  /\ th[t].f \in File /\ th[t].op = "trash" /\ th[t].pc = "update" /\ Goto(t, "remove")
         /\ row' \in [File -> FileRow]
         /\ row'[th[t].f].trashed /\ row'[th[t].f].in = row[th[t].f].in
         /\ row'[th[t].f].purged = row[th[t].f].purged
         /\ \A g \in File : g # th[t].f => row'[g] = row[g]
         /\ UNCHANGED <<bytes, derived, cache, codes, table, items, tree>>
<1> DEFINE q == [row[th[t].f] EXCEPT !.trashed = TRUE]
<1>1. th[t].op = "trash" /\ th[t].pc = "update" /\ Goto(t, "remove") /\ UNCHANGED <<bytes, derived, cache, codes, table, items, tree>>
  BY DEF TrashUpdate, At, store, index, sync
<1>2. row' = [row EXCEPT ![th[t].f] = q]
  BY DEF TrashUpdate
<1>3. th[t].f \in File
  BY <1>1, BusyHasFile
<1>4. row \in [File -> FileRow]
  BY DEF TypeOK
<1>5. q \in FileRow /\ q.trashed /\ q.in = row[th[t].f].in /\ q.purged = row[th[t].f].purged
  BY <1>3, <1>4 DEF FileRow
<1> HIDE DEF q
<1> QED BY <1>1, <1>2, <1>3, <1>4, <1>5

LEMMA RestoreUpdateFacts ==
  ASSUME TypeOK, NEW t \in Thread, RestoreUpdate(t)
  PROVE  /\ th[t].f \in File /\ th[t].op = "restore" /\ th[t].pc = "update" /\ Goto(t, "add")
         /\ row' \in [File -> FileRow]
         /\ ~row'[th[t].f].trashed /\ row'[th[t].f].in = row[th[t].f].in
         /\ row'[th[t].f].purged = row[th[t].f].purged
         /\ \A g \in File : g # th[t].f => row'[g] = row[g]
         /\ UNCHANGED <<bytes, derived, cache, codes, table, items, tree>>
<1> DEFINE q == [row[th[t].f] EXCEPT !.trashed = FALSE]
<1>1. th[t].op = "restore" /\ th[t].pc = "update" /\ Goto(t, "add") /\ UNCHANGED <<bytes, derived, cache, codes, table, items, tree>>
  BY DEF RestoreUpdate, At, store, index, sync
<1>2. row' = [row EXCEPT ![th[t].f] = q]
  BY DEF RestoreUpdate
<1>3. th[t].f \in File
  BY <1>1, BusyHasFile
<1>4. row \in [File -> FileRow]
  BY DEF TypeOK
<1>5. q \in FileRow /\ ~q.trashed /\ q.in = row[th[t].f].in /\ q.purged = row[th[t].f].purged
  BY <1>3, <1>4 DEF FileRow
<1> HIDE DEF q
<1> QED BY <1>1, <1>2, <1>3, <1>4, <1>5

LEMMA PurgeTombstoneFacts ==
  ASSUME TypeOK, NEW t \in Thread, PurgeTombstone(t)
  PROVE  /\ th[t].f \in File /\ th[t].op = "purge" /\ th[t].pc = "tombstone" /\ Goto(t, "delete")
         /\ row' \in [File -> FileRow]
         /\ row'[th[t].f].trashed /\ row'[th[t].f].purged /\ row'[th[t].f].in = row[th[t].f].in
         /\ \A g \in File : g # th[t].f => row'[g] = row[g]
         /\ UNCHANGED <<bytes, derived, cache, codes, table, items, tree>>
<1> DEFINE q == [row[th[t].f] EXCEPT !.purged = TRUE, !.trashed = TRUE, !.group = Null]
<1>1. th[t].op = "purge" /\ th[t].pc = "tombstone" /\ Goto(t, "delete") /\ UNCHANGED <<bytes, derived, cache, codes, table, items, tree>>
  BY DEF PurgeTombstone, At, store, index, sync
<1>2. row' = [row EXCEPT ![th[t].f] = q]
  BY DEF PurgeTombstone
<1>3. th[t].f \in File
  BY <1>1, BusyHasFile
<1>4. row \in [File -> FileRow]
  BY DEF TypeOK
<1>5. q \in FileRow /\ q.trashed /\ q.purged /\ q.in = row[th[t].f].in
  BY <1>3, <1>4 DEF FileRow
<1> HIDE DEF q
<1> QED BY <1>1, <1>2, <1>3, <1>4, <1>5

LEMMA IngestInsertFacts ==
  ASSUME TypeOK, NEW t \in Thread, IngestInsert(t)
  PROVE  /\ th[t].f \in File /\ th[t].op = "ingest" /\ th[t].pc = "insert" /\ Goto(t, "add")
         /\ row' \in [File -> FileRow]
         /\ row'[th[t].f].in /\ ~row'[th[t].f].trashed /\ ~row'[th[t].f].purged
         /\ \A g \in File : g # th[t].f => row'[g] = row[g]
         /\ UNCHANGED <<bytes, derived, cache, codes, table, items, tree>>
<1> DEFINE q == [NoRow EXCEPT !.in = TRUE]
<1>1. th[t].op = "ingest" /\ th[t].pc = "insert" /\ Goto(t, "add") /\ UNCHANGED <<bytes, derived, cache, codes, table, items, tree>>
  BY DEF IngestInsert, At, store, index, sync
<1>2. row' = [row EXCEPT ![th[t].f] = q]
  BY DEF IngestInsert
<1>3. th[t].f \in File
  BY <1>1, BusyHasFile
<1>4. row \in [File -> FileRow]
  BY DEF TypeOK
<1>5. q \in FileRow /\ q.in /\ ~q.trashed /\ ~q.purged
  BY <1>3, <1>4 DEF FileRow, NoRow
<1> HIDE DEF q
<1> QED BY <1>1, <1>2, <1>3, <1>4, <1>5

LEMMA GroupsMergeFacts ==
  ASSUME TypeOK, NEW t \in Thread, GroupsMerge(t)
  PROVE  /\ th[t].f \in File /\ th[t].pc = "merge" /\ Goto(t, "link")
         /\ row' \in [File -> FileRow]
         /\ \A g \in File : /\ row'[g].in = row[g].in
                            /\ row'[g].trashed = row[g].trashed
                            /\ row'[g].purged = row[g].purged
         /\ UNCHANGED <<bytes, derived, cache, codes, table, items, tree>>
<1> DEFINE T == {th[t].f} \cup th[t].hits \cup th[t].groups
           root == Min(T)
           q == [g \in File |-> [row[g] EXCEPT !.group = root]]
<1>1. /\ th[t].pc = "merge" /\ Goto(t, "link")
      /\ UNCHANGED <<bytes, derived, cache, codes, table, items, tree>>
  BY DEF GroupsMerge, store, index, sync
<1>2. row' = [g \in File |-> IF row[g].in /\ Merged(t, g) THEN q[g] ELSE row[g]]
  BY DEF GroupsMerge
<1>3. th[t].f \in File
  BY <1>1, BusyHasFile
<1>4. T \subseteq File /\ T # {}
  BY <1>3 DEF TypeOK, Request
<1>5. root \in File
  BY <1>4, HasMin, FileAssumption
<1>6. row \in [File -> FileRow]
  BY DEF TypeOK
<1> HIDE DEF root
<1>7. \A g \in File : /\ q[g] \in FileRow /\ q[g].in = row[g].in
                      /\ q[g].trashed = row[g].trashed /\ q[g].purged = row[g].purged
  BY <1>5, <1>6 DEF FileRow
<1> HIDE DEF q
<1> QED BY <1>1, <1>2, <1>3, <1>6, <1>7

LEMMA TrashRemoveFacts ==
  ASSUME TypeOK, NEW t \in Thread, TrashRemove(t)
  PROVE  /\ th[t].f \in File /\ th[t].op = "trash" /\ th[t].pc = "remove" /\ End(t)
         /\ codes' = codes \ {th[t].f}
         /\ table' \in [File -> Nat]
         /\ table'[th[t].f] = EntriesLeft(table[th[t].f])
         /\ \A g \in File : g # th[t].f => table'[g] = table[g]
         /\ UNCHANGED <<row, bytes, derived, cache, items, tree>>
<1>1. /\ th[t].op = "trash" /\ th[t].pc = "remove" /\ End(t) /\ codes' = codes \ {th[t].f}
      /\ table' = [table EXCEPT ![th[t].f] = EntriesLeft(table[th[t].f])]
      /\ UNCHANGED <<row, bytes, derived, cache, items, tree>>
  BY DEF TrashRemove, At, store, sync
<1>2. th[t].f \in File
  BY <1>1, BusyHasFile
<1>3. table \in [File -> Nat] /\ EntriesLeft(table[th[t].f]) \in Nat
  BY <1>2 DEF TypeOK, EntriesLeft
<1> QED BY <1>1, <1>2, <1>3

LEMMA IndexAddFacts ==
  ASSUME TypeOK, NEW t \in Thread, IndexAdd(t)
  PROVE  /\ th[t].f \in File /\ th[t].pc = "add"
         /\ UNCHANGED <<row, bytes, derived, cache, items, tree>>
         /\ \/ ~(Found(th[t].f) \subseteq codes) /\ Goto(t, "failed") /\ UNCHANGED <<codes, table>>
            \/ /\ Found(th[t].f) \subseteq codes
               /\ th'[t].op = th[t].op /\ th'[t].f = th[t].f /\ th'[t].pc \in {"link", "groups"}
               /\ codes' = codes \cup {th[t].f}
               /\ table' \in [File -> Nat]
               /\ table'[th[t].f] = table[th[t].f] + 1
               /\ \A g \in File : g # th[t].f => table'[g] = table[g]
<1>1. th[t].pc = "add" /\ UNCHANGED <<row, bytes, derived, cache, items, tree>>
  BY DEF IndexAdd, store, sync
<1>2. th[t].f \in File
  BY <1>1, BusyHasFile
<1>3. table \in [File -> Nat] /\ th \in [Thread -> Request]
  BY DEF TypeOK
<1>4. CASE ~(Found(th[t].f) \subseteq codes)
  <2>1. Goto(t, "failed") /\ UNCHANGED <<codes, table>>
    BY <1>4 DEF IndexAdd, index
  <2> QED BY <2>1, <1>1, <1>2, <1>4
<1>5. CASE Found(th[t].f) \subseteq codes
  <2> DEFINE pc == IF Found(th[t].f) = {} THEN "link" ELSE "groups"
             q == [th[t] EXCEPT !.hits = Found(th[t].f), !.pc = pc]
  <2>1. /\ codes' = codes \cup {th[t].f}
        /\ table' = [table EXCEPT ![th[t].f] = table[th[t].f] + 1]
        /\ th' = [th EXCEPT ![t] = q]
    BY <1>5 DEF IndexAdd
  <2>2. q.op = th[t].op /\ q.f = th[t].f /\ q.pc \in {"link", "groups"}
    BY <1>3 DEF Request
  <2>3. th'[t] = q
    BY <2>1, <1>3
  <2> HIDE DEF q
  <2>4. table[th[t].f] + 1 \in Nat
    BY <1>2, <1>3
  <2> QED BY <2>1, <2>2, <2>3, <2>4, <1>1, <1>2, <1>3, <1>5
<1> QED BY <1>4, <1>5

LEMMA RowsType ==
  ASSUME TypeOK, [Next]_vars
  PROVE  row' \in [File -> FileRow]
<1>1. CASE UNCHANGED row
  BY <1>1 DEF TypeOK
<1>2. ASSUME NEW t \in Thread, RowStep(t)
      PROVE  row' \in [File -> FileRow]
  BY <1>2, TrashUpdateFacts, RestoreUpdateFacts, PurgeTombstoneFacts, IngestInsertFacts,
     GroupsMergeFacts DEF RowStep
<1> QED BY <1>1, <1>2, RowsStay

LEMMA ThreadsType ==
  ASSUME TypeOK, [Next]_vars
  PROVE  th' \in [Thread -> Request] /\ \A t \in Thread : AtStep(th'[t])
<1> DEFINE Q == th' \in [Thread -> Request] /\ \A t \in Thread : AtStep(th'[t])
<1>1. \A t \in Thread : AtStep(th[t])
  BY DEF TypeOK
<1>2. UNCHANGED th => Q
  BY DEF TypeOK
<1>3. ASSUME NEW t \in Thread, Step(t)
      PROVE  Q
  BY <1>1, <1>3, StepsGoOn
<1>4. ASSUME NEW t \in Thread, NEW f \in File, Asked(t, f)
      PROVE  Q
  BY <1>1, <1>4, RequestsBegin
<1>5. ASSUME Crash
      PROVE  Q
  <2>1. th' = [t \in Thread |-> Idle]
    BY <1>5 DEF Crash
  <2> QED BY <2>1, IdleFields
<1>6. ASSUME NEW f \in File, Evict(f) \/ DerivedLost(f)
      PROVE  UNCHANGED th
  BY <1>6 DEF Evict, DerivedLost
<1>7. UNCHANGED vars => UNCHANGED th
  BY DEF vars
<1> HIDE DEF Q
<1>8. Q
  BY <1>2, <1>3, <1>4, <1>5, <1>6, <1>7 DEF Next
<1> QED BY <1>8 DEF Q

(* What changes the objects, the index and the manifest.                     *)
LEMMA BytesStay ==
  ASSUME [Next]_vars, bytes' # bytes
  PROVE  \E t \in Thread : PurgeDelete(t) \/ IngestPut(t)
<1>1. ASSUME NEW t \in Thread,
             \/ TrashUpdate(t) \/ TrashRemove(t) \/ RestoreUpdate(t)
             \/ IndexAdd(t) \/ GroupsRead(t) \/ GroupsMerge(t) \/ AddEnds(t)
             \/ PurgeTombstone(t) \/ PurgeUnlink(t) \/ IngestInsert(t)
             \/ ThumbOriginal(t) \/ ThumbWrite(t) \/ ThumbRead(t)
             \/ LinkInsert(t) \/ TreeBuild(t) \/ TreeSet(t)
      PROVE  UNCHANGED bytes
  BY <1>1 DEF TrashUpdate, TrashRemove, RestoreUpdate, IndexAdd, GroupsRead, GroupsMerge, AddEnds,
              PurgeTombstone, PurgeUnlink, IngestInsert, ThumbOriginal, ThumbWrite, ThumbRead,
              LinkInsert, TreeBuild, TreeSet, store
<1>2. ASSUME NEW t \in Thread, NEW f \in File,
             \/ Trash(t, f) \/ Restore(t, f) \/ Purge(t, f) \/ Ingest(t, f)
             \/ Thumb(t, f) \/ Link(t, f) \/ Unlink(t, f)
      PROVE  UNCHANGED bytes
  BY <1>2 DEF Trash, Restore, Purge, Ingest, Thumb, Link, Unlink, store
<1>3. ASSUME (\E f \in File : Evict(f) \/ DerivedLost(f)) \/ Crash \/ UNCHANGED vars
      PROVE  UNCHANGED bytes
  BY <1>3 DEF Evict, DerivedLost, Crash, vars, store
<1> QED BY Actions, <1>1, <1>2, <1>3

LEMMA IndexStays ==
  ASSUME [Next]_vars, <<codes, table>>' # <<codes, table>>
  PROVE  (\E t \in Thread : TrashRemove(t) \/ IndexAdd(t)) \/ Crash
<1>1. ASSUME NEW t \in Thread,
             \/ TrashUpdate(t) \/ RestoreUpdate(t)
             \/ GroupsRead(t) \/ GroupsMerge(t) \/ AddEnds(t)
             \/ PurgeTombstone(t) \/ PurgeDelete(t) \/ PurgeUnlink(t)
             \/ IngestPut(t) \/ IngestInsert(t)
             \/ ThumbOriginal(t) \/ ThumbWrite(t) \/ ThumbRead(t)
             \/ LinkInsert(t) \/ TreeBuild(t) \/ TreeSet(t)
      PROVE  UNCHANGED <<codes, table>>
  BY <1>1 DEF TrashUpdate, RestoreUpdate, GroupsRead, GroupsMerge, AddEnds, PurgeTombstone,
              PurgeDelete, PurgeUnlink, IngestPut, IngestInsert, ThumbOriginal, ThumbWrite,
              ThumbRead, LinkInsert, TreeBuild, TreeSet, index
<1>2. ASSUME NEW t \in Thread, NEW f \in File,
             \/ Trash(t, f) \/ Restore(t, f) \/ Purge(t, f) \/ Ingest(t, f)
             \/ Thumb(t, f) \/ Link(t, f) \/ Unlink(t, f)
      PROVE  UNCHANGED <<codes, table>>
  BY <1>2 DEF Trash, Restore, Purge, Ingest, Thumb, Link, Unlink, index
<1>3. ASSUME (\E f \in File : Evict(f) \/ DerivedLost(f)) \/ UNCHANGED vars
      PROVE  UNCHANGED <<codes, table>>
  BY <1>3 DEF Evict, DerivedLost, vars, index
<1> QED BY Actions, <1>1, <1>2, <1>3

LEMMA SyncStays ==
  ASSUME [Next]_vars, <<items, tree>>' # <<items, tree>>
  PROVE  (\E t \in Thread : LinkInsert(t) \/ TreeBuild(t) \/ TreeSet(t) \/ \E f \in File : Unlink(t, f))
         \/ Crash
<1>1. ASSUME NEW t \in Thread,
             \/ TrashUpdate(t) \/ TrashRemove(t) \/ RestoreUpdate(t)
             \/ IndexAdd(t) \/ GroupsRead(t) \/ GroupsMerge(t) \/ AddEnds(t)
             \/ PurgeTombstone(t) \/ PurgeDelete(t) \/ PurgeUnlink(t)
             \/ IngestPut(t) \/ IngestInsert(t)
             \/ ThumbOriginal(t) \/ ThumbWrite(t) \/ ThumbRead(t)
      PROVE  UNCHANGED <<items, tree>>
  BY <1>1 DEF TrashUpdate, TrashRemove, RestoreUpdate, IndexAdd, GroupsRead, GroupsMerge, AddEnds,
              PurgeTombstone, PurgeDelete, PurgeUnlink, IngestPut, IngestInsert, ThumbOriginal,
              ThumbWrite, ThumbRead, sync
<1>2. ASSUME NEW t \in Thread, NEW f \in File,
             \/ Trash(t, f) \/ Restore(t, f) \/ Purge(t, f) \/ Ingest(t, f)
             \/ Thumb(t, f) \/ Link(t, f)
      PROVE  UNCHANGED <<items, tree>>
  BY <1>2 DEF Trash, Restore, Purge, Ingest, Thumb, Link, sync
<1>3. ASSUME (\E f \in File : Evict(f) \/ DerivedLost(f)) \/ UNCHANGED vars
      PROVE  UNCHANGED <<items, tree>>
  BY <1>3 DEF Evict, DerivedLost, vars, sync
<1> QED BY Actions, <1>1, <1>2, <1>3

LEMMA SetsType ==
  ASSUME TypeOK, [Next]_vars
  PROVE  bytes' \subseteq File /\ derived' \subseteq File /\ cache' \subseteq File
<1>1. bytes' \subseteq File
  <2>1. ASSUME NEW t \in Thread, PurgeDelete(t) \/ IngestPut(t)
        PROVE  bytes' \subseteq File
    <3>1. th[t].f \in File
      BY <2>1, BusyHasFile DEF PurgeDelete, IngestPut, At
    <3> QED BY <2>1, <3>1 DEF PurgeDelete, IngestPut, TypeOK
  <2> QED BY <2>1, BytesStay DEF TypeOK
<1>2. derived' \subseteq File /\ cache' \subseteq File
  <2> USE DEF TypeOK
  <2>1. ASSUME NEW t \in Thread,
               \/ TrashUpdate(t) \/ TrashRemove(t) \/ RestoreUpdate(t)
               \/ IndexAdd(t) \/ GroupsRead(t) \/ GroupsMerge(t) \/ AddEnds(t)
               \/ PurgeTombstone(t) \/ PurgeDelete(t)
               \/ IngestPut(t) \/ IngestInsert(t) \/ ThumbOriginal(t)
               \/ LinkInsert(t) \/ TreeBuild(t) \/ TreeSet(t)
        PROVE  UNCHANGED <<derived, cache>>
    BY <2>1 DEF TrashUpdate, TrashRemove, RestoreUpdate, IndexAdd, GroupsRead, GroupsMerge, AddEnds,
                PurgeTombstone, PurgeDelete, IngestPut, IngestInsert, ThumbOriginal,
                LinkInsert, TreeBuild, TreeSet, store
  <2>2. ASSUME NEW t \in Thread, PurgeUnlink(t) \/ ThumbWrite(t) \/ ThumbRead(t)
        PROVE  derived' \subseteq File /\ cache' \subseteq File
    <3>1. th[t].f \in File
      BY <2>2, BusyHasFile DEF PurgeUnlink, ThumbWrite, ThumbRead, At
    <3> QED BY <2>2, <3>1 DEF PurgeUnlink, ThumbWrite, ThumbRead
  <2>3. ASSUME NEW t \in Thread, NEW f \in File,
               \/ Trash(t, f) \/ Restore(t, f) \/ Purge(t, f) \/ Ingest(t, f)
               \/ Thumb(t, f) \/ Link(t, f) \/ Unlink(t, f)
        PROVE  derived' \subseteq File /\ cache' \subseteq File
    BY <2>3 DEF Trash, Restore, Purge, Ingest, Thumb, Link, Unlink, store
  <2>4. ASSUME (\E f \in File : Evict(f) \/ DerivedLost(f)) \/ Crash \/ UNCHANGED vars
        PROVE  derived' \subseteq File /\ cache' \subseteq File
    BY <2>4 DEF Evict, DerivedLost, Crash, vars, store
  <2> QED BY Actions, <2>1, <2>2, <2>3, <2>4
<1> QED BY <1>1, <1>2

LEMMA CrashFacts ==
  ASSUME Crash
  PROVE  /\ th' = [t \in Thread |-> Idle]
         /\ codes' = Loaded /\ table' = [f \in File |-> IF f \in Loaded THEN 1 ELSE 0]
         /\ tree' = Null
         /\ UNCHANGED <<row, bytes, derived, items>>
  BY DEF Crash

LEMMA IndexType ==
  ASSUME TypeOK, [Next]_vars
  PROVE  codes' \subseteq File /\ table' \in [File -> Nat]
<1>1. codes \subseteq File /\ table \in [File -> Nat]
  BY DEF TypeOK
<1>2. ASSUME NEW t \in Thread, TrashRemove(t) \/ IndexAdd(t)
      PROVE  codes' \subseteq File /\ table' \in [File -> Nat]
  BY <1>1, <1>2, TrashRemoveFacts, IndexAddFacts
<1>3. ASSUME Crash
      PROVE  codes' \subseteq File /\ table' \in [File -> Nat]
  BY <1>3, CrashFacts DEF Loaded
<1> QED BY <1>1, <1>2, <1>3, IndexStays

LEMMA GroupsReadFacts ==
  ASSUME TypeOK, NEW t \in Thread, GroupsRead(t)
  PROVE  /\ th[t].pc = "groups" /\ th'[t].pc = "merge"
         /\ UNCHANGED <<row, bytes, codes, table, items, tree>>
<1> DEFINE G == {row[g].group : g \in th[t].hits} \ {Null}
           q == [th[t] EXCEPT !.pc = "merge", !.groups = G]
<1>1. /\ th' = [th EXCEPT ![t] = q] /\ th[t].pc = "groups"
      /\ UNCHANGED <<row, bytes, codes, table, items, tree>>
  BY DEF GroupsRead, store, index, sync
<1>2. q.pc = "merge"
  BY DEF TypeOK, Request
<1> HIDE DEF q
<1> QED BY <1>1, <1>2 DEF TypeOK

(* Where a step leads to, and what a request begins with.                    *)
LEMMA PcAfter ==
  ASSUME TypeOK, NEW t \in Thread, Step(t)
  PROVE  /\ th'[t].pc = "set" => TreeBuild(t)
         /\ th'[t].pc = "tree" => LinkInsert(t)
         /\ th'[t].pc = "add" => RestoreUpdate(t) \/ IngestInsert(t)
         /\ th'[t].pc = "failed" => IndexAdd(t)
         /\ th'[t].pc = "remove" => TrashUpdate(t)
         /\ th'[t].pc = "insert" => IngestPut(t)
         /\ th'[t].pc \in {"delete", "unlink"} => PurgeTombstone(t) \/ PurgeDelete(t)
         /\ th'[t].pc \notin {"put", "tombstone", "update"}
<1> USE GotoFields, EndFields, IdleFields
<1>1. CASE TrashUpdate(t)
  BY <1>1 DEF TrashUpdate
<1>2. CASE RestoreUpdate(t)
  BY <1>2 DEF RestoreUpdate
<1>3. CASE PurgeTombstone(t)
  BY <1>3 DEF PurgeTombstone
<1>4. CASE PurgeDelete(t)
  BY <1>4 DEF PurgeDelete
<1>5. CASE IngestPut(t)
  BY <1>5 DEF IngestPut
<1>6. CASE IngestInsert(t)
  BY <1>6 DEF IngestInsert
<1>7. CASE LinkInsert(t)
  BY <1>7 DEF LinkInsert
<1>8. CASE TreeBuild(t)
  BY <1>8 DEF TreeBuild
<1>9. CASE IndexAdd(t)
  <2>1. th'[t].pc \in {"failed", "link", "groups"}
    BY <1>9, IndexAddFacts
  <2> QED BY <2>1, <1>9
<1>10. CASE GroupsRead(t)
  <2>1. th'[t].pc = "merge"
    BY <1>10, GroupsReadFacts
  <2> QED BY <2>1
<1>11. CASE GroupsMerge(t) \/ ThumbOriginal(t) \/ ThumbWrite(t)
  <2>1. Goto(t, "link") \/ Goto(t, "write") \/ Goto(t, "read") \/ End(t)
    BY <1>11 DEF GroupsMerge, ThumbOriginal, ThumbWrite
  <2> QED BY <2>1
<1>12. CASE TrashRemove(t) \/ AddEnds(t) \/ PurgeUnlink(t) \/ ThumbRead(t) \/ TreeSet(t)
  <2>1. End(t)
    BY <1>12 DEF TrashRemove, AddEnds, PurgeUnlink, ThumbRead, TreeSet
  <2> QED BY <2>1
<1> QED BY <1>1, <1>2, <1>3, <1>4, <1>5, <1>6, <1>7, <1>8, <1>9, <1>10, <1>11, <1>12 DEF Step

LEMMA RequestIs ==
  ASSUME TypeOK, NEW t \in Thread, NEW f \in File, Asked(t, f)
  PROVE  \/ Trash(t, f) /\ th'[t].op = "trash" /\ th'[t].pc = "update"
         \/ Restore(t, f) /\ th'[t].op = "restore" /\ th'[t].pc = "update"
         \/ Purge(t, f) /\ th'[t].op = "purge" /\ th'[t].pc = "tombstone"
         \/ Ingest(t, f) /\ th'[t].op = "ingest" /\ th'[t].pc = (IF Known(f) THEN "link" ELSE "put")
         \/ Thumb(t, f) /\ th'[t].op = "thumb" /\ th'[t].pc \in {"read", "make"}
         \/ Link(t, f) /\ th'[t].op = "link" /\ th'[t].pc = "link"
         \/ Unlink(t, f) /\ th'[t].op = "unlink" /\ th'[t].pc = "tree"
<1> USE BeginFields
<1>1. CASE Trash(t, f)
  BY <1>1 DEF Trash
<1>2. CASE Restore(t, f)
  BY <1>2 DEF Restore
<1>3. CASE Purge(t, f)
  BY <1>3 DEF Purge
<1>4. CASE Ingest(t, f)
  BY <1>4 DEF Ingest
<1>5. CASE Thumb(t, f)
  BY <1>5 DEF Thumb
<1>6. CASE Link(t, f)
  BY <1>6 DEF Link
<1>7. CASE Unlink(t, f)
  BY <1>7 DEF Unlink
<1> QED BY <1>1, <1>2, <1>3, <1>4, <1>5, <1>6, <1>7 DEF Asked

(* A crash apart, a tree stays a tree.                                       *)
LEMMA TreeSetFacts ==
  ASSUME TypeOK, NEW t \in Thread, TreeSet(t)
  PROVE  /\ th[t].f \in File /\ th[t].pc = "set" /\ End(t)
         /\ tree \subseteq File
         /\ tree' = (IF th[t].op = "unlink" THEN tree \ {th[t].f} ELSE tree \cup {th[t].f})
         /\ tree' # Null /\ tree' \subseteq File /\ tree # Null
         /\ UNCHANGED <<row, bytes, codes, table, items>>
<1>1. /\ th[t].pc = "set" /\ End(t) /\ UNCHANGED <<row, bytes, codes, table, items>>
      /\ tree' = (IF th[t].op = "unlink" THEN tree \ {th[t].f} ELSE tree \cup {th[t].f})
  BY DEF TreeSet, store, index
<1>2. th[t].f \in File
  BY <1>1, BusyHasFile
<1>3. tree # Null /\ tree \subseteq File
  BY <1>1 DEF TypeOK
<1>4. tree' \subseteq File
  BY <1>1, <1>2, <1>3
<1> QED BY <1>1, <1>2, <1>3, <1>4, FileAssumption

LEMMA SyncFacts ==
  ASSUME TypeOK, [Next]_vars
  PROVE  /\ items' \subseteq File /\ (tree' = Null \/ tree' \subseteq File)
         /\ ~Crash /\ tree # Null => tree' # Null
<1>1. items \subseteq File /\ (tree = Null \/ tree \subseteq File)
  BY DEF TypeOK
<1>2. ASSUME NEW t \in Thread, LinkInsert(t)
      PROVE  items' \subseteq File /\ UNCHANGED tree
  BY <1>1, <1>2, BusyHasFile DEF LinkInsert
<1>3. ASSUME NEW t \in Thread, TreeBuild(t)
      PROVE  UNCHANGED items /\ tree' \subseteq File /\ tree' # Null
  BY <1>1, <1>3, FileAssumption DEF TreeBuild, Built
<1>4. ASSUME NEW t \in Thread, NEW f \in File, Unlink(t, f)
      PROVE  items' \subseteq File /\ UNCHANGED tree
  BY <1>1, <1>4 DEF Unlink
<1> QED BY <1>1, <1>2, <1>3, <1>4, TreeSetFacts, CrashFacts, SyncStays

LEMMA TypeStep ==
  ASSUME TypeOK, [Next]_vars
  PROVE  TypeOK'
<1>1. \A t \in Thread : th'[t].pc = "set" => tree' # Null
  <2>1. \A t \in Thread : th[t].pc = "set" => tree # Null
    BY DEF TypeOK
  <2>2. CASE Crash
    BY <2>2, CrashFacts, IdleFields
  <2>3. ASSUME NEW t \in Thread, Step(t), ~Crash
        PROVE  \A o \in Thread : th'[o].pc = "set" => tree' # Null
    <3>1. TreeBuild(t) => tree' # Null
      BY FileAssumption DEF TreeBuild, Built, TypeOK
    <3> QED BY <2>1, <2>3, <3>1, PcAfter, StepsGoOn, SyncFacts
  <2>4. ASSUME NEW t \in Thread, NEW f \in File, Asked(t, f), ~Crash
        PROVE  \A o \in Thread : th'[o].pc = "set" => tree' # Null
    <3>1. th'[t].pc # "set"
      BY <2>4, RequestIs
    <3> QED BY <2>1, <2>4, <3>1, RequestsBegin, SyncFacts
  <2>5. ASSUME UNCHANGED vars \/ \E f \in File : Evict(f) \/ DerivedLost(f)
        PROVE  UNCHANGED <<th, tree>>
    BY <2>5 DEF Evict, DerivedLost, vars, sync
  <2> QED BY <2>1, <2>2, <2>3, <2>4, <2>5 DEF Next
<1> QED BY <1>1, RowsType, ThreadsType, SetsType, IndexType, SyncFacts DEF TypeOK

-----------------------------------------------------------------------------
(* Who moves: one thread with a step or a new request, or all in a crash.    *)
Still == UNCHANGED <<row, bytes, codes, table, items, tree, th>>
LEMMA Moves ==
  ASSUME [Next]_vars
  PROVE  \/ \E t \in Thread : Step(t) \/ \E f \in File : Asked(t, f)
         \/ Crash
         \/ Still
<1>1. ASSUME UNCHANGED vars \/ \E f \in File : Evict(f) \/ DerivedLost(f)
      PROVE  Still
  BY <1>1 DEF Evict, DerivedLost, vars, store, index, sync, Still
<1> QED BY <1>1 DEF Next

(* A request begins with nothing but its thread, an unlink with its item.    *)
LEMMA AskedFacts ==
  ASSUME NEW t \in Thread, NEW f \in File, Asked(t, f)
  PROVE  UNCHANGED <<row, bytes, codes, table, tree>> /\ (UNCHANGED items \/ Unlink(t, f))
  BY DEF Asked, Trash, Restore, Purge, Ingest, Thumb, Link, Unlink, store, index, sync

LEMMA FirstSteps ==
  ASSUME NEW t \in Thread, Step(t), th[t].pc = "tombstone"
  PROVE  PurgeTombstone(t)
  BY DEF Step, TrashUpdate, TrashRemove, RestoreUpdate, IndexAdd, GroupsRead, GroupsMerge, AddEnds,
         PurgeDelete, PurgeUnlink, IngestPut, IngestInsert, ThumbOriginal, ThumbWrite, ThumbRead,
         LinkInsert, TreeBuild, TreeSet, At

-----------------------------------------------------------------------------
(* Rows and objects.                                                         *)

LEMMA InitBytes == Init => BytesInv
<1> SUFFICES ASSUME Init
             PROVE  BytesInv
  OBVIOUS
<1>1. \A f \in File : row[f] = NoRow
  BY DEF Init
<1>2. NoRow \in FileRow /\ ~NoRow.in /\ ~NoRow.trashed /\ ~NoRow.purged
  BY DEF NoRow, FileRow
<1>3. \A t \in Thread : th[t] = Idle
  BY DEF Init
<1>4. TypeOK
  <2>1. row \in [File -> FileRow]
    BY <1>1, <1>2 DEF Init
  <2>2. th \in [Thread -> Request]
    BY <1>3, IdleFields DEF Init
  <2> QED BY <2>1, <2>2, <1>3, IdleFields DEF Init, TypeOK
<1> QED BY <1>1, <1>2, <1>3, <1>4, IdleFields DEF BytesInv, OneIngest, RowsCount, RowsHold, LiveHasBytes

(* Rows come from the ingest, marks from purges; neither is taken back.      *)
LEMMA RowFacts ==
  ASSUME BytesInv, [Next]_vars, NEW f \in File
  PROVE  /\ row[f].in => row'[f].in
         /\ row[f].purged => row'[f].purged
         /\ row'[f].in /\ ~row[f].in => \E t \in Thread : IngestInsert(t) /\ th[t].f = f
         /\ row'[f].trashed \/ row'[f].purged => row'[f].in
<1> DEFINE Q == /\ row[f].in => row'[f].in
                /\ row[f].purged => row'[f].purged
                /\ row'[f].in /\ ~row[f].in => \E t \in Thread : IngestInsert(t) /\ th[t].f = f
                /\ row'[f].trashed \/ row'[f].purged => row'[f].in
<1> SUFFICES Q
  OBVIOUS
<1>i. TypeOK /\ row \in [File -> FileRow] /\ (row[f].trashed \/ row[f].purged => row[f].in)
  BY DEF BytesInv, TypeOK, RowsCount
<1>h. \A t \in Thread : RowsHold(th[t])
  BY DEF BytesInv
<1>0. row'[f] = row[f] => Q
  BY <1>i
<1>1. ASSUME NEW t \in Thread, RowStep(t)
      PROVE  Q
  <2>1. CASE TrashUpdate(t)
    <3>1. th[t].f \in File /\ row[th[t].f].in
      BY <2>1, <1>i, <1>h, TrashUpdateFacts DEF RowsHold
    <3> QED BY <2>1, <3>1, <1>i, <1>0, TrashUpdateFacts
  <2>2. CASE RestoreUpdate(t)
    <3>1. th[t].f \in File /\ row[th[t].f].in
      BY <2>2, <1>i, <1>h, RestoreUpdateFacts DEF RowsHold
    <3> QED BY <2>2, <3>1, <1>i, <1>0, RestoreUpdateFacts
  <2>3. CASE PurgeTombstone(t)
    <3>1. th[t].f \in File /\ row[th[t].f].in
      BY <2>3, <1>i, <1>h, PurgeTombstoneFacts DEF RowsHold
    <3> QED BY <2>3, <3>1, <1>i, <1>0, PurgeTombstoneFacts
  <2>4. CASE IngestInsert(t)
    <3>1. th[t].f \in File /\ ~row[th[t].f].in
      BY <2>4, <1>i, <1>h, IngestInsertFacts DEF RowsHold
    <3> QED BY <2>4, <3>1, <1>i, <1>0, IngestInsertFacts
  <2>5. CASE GroupsMerge(t)
    BY <2>5, <1>i, GroupsMergeFacts
  <2> QED BY <1>1, <2>1, <2>2, <2>3, <2>4, <2>5 DEF RowStep
<1> QED BY <1>0, <1>1, RowsStay

(* Only a purge frees an object, only an ingest without a row stores one.    *)
LEMMA BytesFacts ==
  ASSUME BytesInv, [Next]_vars, NEW f \in File
  PROVE  /\ f \in bytes /\ f \notin bytes' => row[f].purged /\ UNCHANGED row
         /\ f \notin bytes /\ f \in bytes' => ~row[f].in
<1>h. \A t \in Thread : RowsHold(th[t])
  BY DEF BytesInv
<1>1. ASSUME NEW t \in Thread, PurgeDelete(t)
      PROVE  bytes' = bytes \ {th[t].f} /\ row[th[t].f].purged /\ UNCHANGED row
  BY <1>1, <1>h DEF PurgeDelete, At, RowsHold
<1>2. ASSUME NEW t \in Thread, IngestPut(t)
      PROVE  bytes' = bytes \cup {th[t].f} /\ ~row[th[t].f].in
  BY <1>2, <1>h DEF IngestPut, At, RowsHold
<1> QED BY <1>1, <1>2, BytesStay

LEMMA PurgedStep ==
  ASSUME BytesInv, [Next]_vars
  PROVE  \A f \in File : row[f].purged => row'[f].purged /\ (f \notin bytes => f \notin bytes')
<1> TAKE f \in File
<1>1. row[f].purged => row[f].in
  BY DEF BytesInv, RowsCount
<1> QED BY <1>1, RowFacts, BytesFacts

LEMMA OneIngestStep ==
  ASSUME BytesInv, [Next]_vars
  PROVE  OneIngest'
<1>i. TypeOK /\ OneIngest
  BY DEF BytesInv
<1>1. CASE Still
  BY <1>i, <1>1 DEF OneIngest, Still
<1>2. CASE Crash
  BY <1>2, CrashFacts, IdleFields DEF OneIngest
<1>3. ASSUME NEW t \in Thread, Step(t)
      PROVE  OneIngest'
  <2>1. \A o \in Thread : th'[o].op = "ingest" => th[o].op = "ingest"
    BY <1>3, <1>i, StepsGoOn, IdleFields
  <2> QED BY <2>1, <1>i DEF OneIngest
<1>4. ASSUME NEW t \in Thread, NEW f \in File, Asked(t, f)
      PROVE  OneIngest'
  <2>1. \A o \in Thread : o # t => th'[o] = th[o]
    BY <1>4, <1>i, RequestsBegin
  <2>2. th'[t].op = "ingest" => \A o \in Thread : th[o].op # "ingest"
    BY <1>4, <1>i, RequestIs DEF Ingest
  <2> QED BY <2>1, <2>2, <1>i DEF OneIngest
<1> QED BY <1>1, <1>2, <1>3, <1>4, Moves

LEMMA RowsHoldStep ==
  ASSUME BytesInv, [Next]_vars, NEW o \in Thread
  PROVE  RowsHold(th[o])'
<1> DEFINE Q == RowsHold(th[o])'
<1> SUFFICES Q
  OBVIOUS
<1>i. TypeOK /\ OneIngest /\ RowsHold(th[o]) /\ RowsCount
  BY DEF BytesInv
<1>s. UNCHANGED <<row, bytes>> /\ th'[o] = th[o] => Q
  BY <1>i DEF RowsHold
<1>n. th'[o] = Idle => Q
  BY IdleFields DEF RowsHold
<1>f. th[o].op # "none" => th[o].f \in File
  BY <1>i, BusyHasFile
<1>1. CASE Still
  BY <1>1, <1>s DEF Still
<1>2. CASE Crash
  BY <1>2, <1>n, CrashFacts
<1>3. ASSUME NEW t \in Thread, Step(t), o # t
      PROVE  Q
  <2>1. th'[o] = th[o]
    BY <1>3, <1>i, StepsGoOn
  <2>2. ASSUME th[o].op = "ingest"
        PROVE  \A m \in Thread : m # o => th[m].op # "ingest"
    BY <2>2, <1>i DEF OneIngest
  <2>3. th[o].op = "ingest" => ~IngestInsert(o)
    <3>1. IngestInsert(o) => th'[o].pc = "add" /\ th[o].pc = "insert"
      BY <1>i, IngestInsertFacts, GotoFields
    <3> QED BY <2>1, <3>1
  <2>4. \A m \in Thread : IngestInsert(m) => th[m].op = "ingest"
    BY DEF IngestInsert, At
  <2>5. th[o].op = "ingest" /\ ~row[th[o].f].in => ~row'[th[o].f].in
    BY <1>f, <2>2, <2>3, <2>4, RowFacts
  <2>6. th[o].op = "ingest" /\ ~row[th[o].f].in /\ th[o].f \in bytes => th[o].f \in bytes'
    BY <1>f, <1>i, BytesFacts DEF RowsCount
  <2>7. th[o].op # "none" => /\ row[th[o].f].in => row'[th[o].f].in
                             /\ row[th[o].f].purged => row'[th[o].f].purged
    BY <1>f, RowFacts
  <2> QED BY <2>1, <2>5, <2>6, <2>7, <1>i DEF RowsHold
<1>4. ASSUME Step(o), th'[o] # Idle
      PROVE  Q
  <2>2. th'[o].op = th[o].op /\ th'[o].f = th[o].f
    BY <1>4, <1>i, StepsGoOn
  <2>3. th'[o].pc # "put"
    BY <1>4, <1>i, PcAfter
  <2>4. th'[o].pc = "insert" => /\ th[o].op = "ingest" /\ th[o].pc = "put"
                                /\ th[o].f \in bytes' /\ UNCHANGED row
    BY <1>4, <1>i, PcAfter DEF IngestPut, At
  <2>5. th[o].op # "none" => /\ row[th[o].f].in => row'[th[o].f].in
                             /\ row[th[o].f].purged => row'[th[o].f].purged
    BY <1>f, RowFacts
  <2>6. th[o].pc = "tombstone" => row'[th[o].f].purged
    BY <1>4, <1>i, FirstSteps, PurgeTombstoneFacts
  <2> QED BY <2>2, <2>3, <2>4, <2>5, <2>6, <1>i DEF RowsHold
<1>5. ASSUME NEW t \in Thread, NEW f \in File, Asked(t, f)
      PROVE  Q
  <2>1. UNCHANGED <<row, bytes>>
    BY <1>5, AskedFacts
  <2>2. CASE o # t
    BY <2>1, <2>2, <1>s, <1>5, <1>i, RequestsBegin
  <2>3. CASE o = t
    <3>1. th'[o].f = f
      BY <1>5, <1>i, <2>3, RequestsBegin
    <3>2. /\ th'[o].op = "ingest" => th'[o].pc # "insert" /\ (th'[o].pc = "put" => ~row[f].in)
          /\ th'[o].op \in {"restore", "purge", "trash"} => row[f].in
          /\ th'[o].op = "purge" => th'[o].pc = "tombstone"
      BY <1>5, <1>i, <2>3, RequestIs DEF Trash, Live, Restore, Purge, Known
    <3> QED BY <2>1, <3>1, <3>2 DEF RowsHold
  <2> QED BY <2>2, <2>3
<1> QED BY <1>1, <1>2, <1>3, <1>4, <1>5, <1>n, Moves

LEMMA BytesStep ==
  ASSUME BytesInv, [Next]_vars
  PROVE  BytesInv'
<1>1. TypeOK'
  BY TypeStep DEF BytesInv
<1>2. RowsCount'
  BY RowFacts DEF RowsCount
<1>3. LiveHasBytes'
  <2> SUFFICES ASSUME NEW f \in File, row'[f].in, ~row'[f].purged
               PROVE  f \in bytes'
    BY DEF LiveHasBytes
  <2>1. CASE row[f].in
    BY <2>1, RowFacts, BytesFacts DEF BytesInv, LiveHasBytes
  <2>2. CASE ~row[f].in
    <3>1. PICK t \in Thread : IngestInsert(t) /\ th[t].f = f
      BY <2>2, RowFacts
    <3>2. f \in bytes /\ UNCHANGED bytes
      BY <3>1 DEF BytesInv, RowsHold, IngestInsert, At, store
    <3> QED BY <3>2
  <2> QED BY <2>1, <2>2
<1> QED BY <1>1, <1>2, <1>3, OneIngestStep, RowsHoldStep DEF BytesInv

(* A file that was not purged can be delivered.                              *)
THEOREM LiveHasBytesHolds == Spec => []LiveHasBytes
<1>1. BytesInv /\ [Next]_vars => BytesInv'
  BY BytesStep
<1>2. BytesInv => LiveHasBytes
  BY DEF BytesInv
<1> QED BY InitBytes, <1>1, <1>2, PTL DEF Spec

(* What was purged stays purged, and its bytes do not come back.             *)
THEOREM PurgedForGoodHolds == Spec => PurgedForGood
<1>1. BytesInv /\ [Next]_vars => BytesInv'
  BY BytesStep
<1>2. BytesInv /\ [Next]_vars =>
        [\A f \in File : row[f].purged => row'[f].purged /\ (f \notin bytes => f \notin bytes')]_vars
  BY PurgedStep
<1> QED BY InitBytes, <1>1, <1>2, PTL DEF Spec, PurgedForGood

-----------------------------------------------------------------------------
(* Requests that clash do not meet, whatever Clash is.                       *)

LEMMA InitApart == Init => Apart
  BY IdleFields DEF Init, Apart

LEMMA ApartStep ==
  ASSUME TypeOK, Apart, [Next]_vars
  PROVE  Apart'
<1>1. CASE Still
  BY <1>1 DEF Apart, Still
<1>2. CASE Crash
  BY <1>2, CrashFacts DEF Apart
<1>3. ASSUME NEW t \in Thread, Step(t)
      PROVE  Apart'
  <2>1. \A o \in Thread : th'[o] # Idle => th'[o].op = th[o].op /\ th'[o].f = th[o].f /\ th[o] # Idle
    <3>1. th[t] # Idle
      <4>1. th[t].pc # "idle"
        BY <1>3 DEF Step, TrashUpdate, TrashRemove, RestoreUpdate, IndexAdd, GroupsRead, GroupsMerge,
                    AddEnds, PurgeTombstone, PurgeDelete, PurgeUnlink, IngestPut, IngestInsert,
                    ThumbOriginal, ThumbWrite, ThumbRead, LinkInsert, TreeBuild, TreeSet, At
      <4> QED BY <4>1, BusyHasFile
    <3> QED BY <1>3, <3>1, StepsGoOn
  <2>2. \A o \in Thread : th'[o] = Idle => th'[o].f = Null
    BY IdleFields
  <2>3. \A o \in Thread : th[o] # Idle => th[o].f # Null
    BY FileAssumption DEF TypeOK, AtStep
  <2>4. \A o \in Thread : th'[o] # Idle => th'[o].f # Null
    BY <2>1, <2>3
  <2> QED BY <2>1, <2>2, <2>4 DEF Apart
<1>4. ASSUME NEW t \in Thread, NEW f \in File, Asked(t, f)
      PROVE  Apart'
  <2>1. /\ \A o \in Thread : o # t => th'[o] = th[o]
        /\ th[t] = Idle /\ th'[t].f = f
        /\ \A o \in Thread : th[o].f = f => {th'[t].op, th[o].op} \notin Clash
    BY <1>4, RequestsBegin
  <2>2. \A o \in Thread : {th'[t].op, th[o].op} = {th[o].op, th'[t].op}
    OBVIOUS
  <2> QED BY <2>1, <2>2 DEF Apart
<1> QED BY <1>1, <1>2, <1>3, <1>4, Moves

(* Two requests at one file that clash: there are none such.                 *)
LEMMA NoneMeet ==
  ASSUME TypeOK, Apart, NEW t \in Thread, NEW o \in Thread, t # o,
         th[t].f \in File, th[t].f = th[o].f
  PROVE  {th[t].op, th[o].op} \notin Clash
<1>1. th[t] # Idle
  BY BusyHasFile
<1> QED BY <1>1 DEF Apart

-----------------------------------------------------------------------------
(* The manifest: the tree follows the table.                                 *)

LEMMA InitTree == Init => TreeInv
<1>1. Init => TypeOK
  BY InitBytes DEF BytesInv
<1> QED BY <1>1, InitApart, IdleFields DEF Init, TreeInv, ItemsHold

LEMMA LinkUnlinkApart ==
  ASSUME TypeOK, Apart, TreeOverlaps \subseteq Clash, NEW t \in Thread, NEW o \in Thread,
         th[t].op \in {"ingest", "link"}, th[o].op = "unlink"
  PROVE  th[t].f # th[o].f
<1>1. {th[t].op, th[o].op} \in Clash /\ t # o
  BY DEF TreeOverlaps
<1> QED BY <1>1, NoneMeet, BusyHasFile

(* Who is about to change the tree knows what the table holds of its file.   *)
LEMMA ItemsHoldStep ==
  ASSUME TreeInv, TreeOverlaps \subseteq Clash, [Next]_vars, NEW o \in Thread
  PROVE  ItemsHold(th[o])'
<1> DEFINE Q == ItemsHold(th[o])'
<1> SUFFICES Q
  OBVIOUS
<1>i. TypeOK /\ Apart /\ ItemsHold(th[o])
  BY DEF TreeInv
<1>s. UNCHANGED items /\ th'[o] = th[o] => Q
  BY <1>i DEF ItemsHold
<1>n. th'[o] = Idle => Q
  BY IdleFields DEF ItemsHold
<1>1. CASE Still
  BY <1>1, <1>s DEF Still
<1>2. CASE Crash
  BY <1>2, <1>n, CrashFacts
<1>3. ASSUME NEW t \in Thread, Step(t)
      PROVE  Q
  <2>1. UNCHANGED items \/ LinkInsert(t)
    BY <1>3 DEF Step, TrashUpdate, TrashRemove, RestoreUpdate, IndexAdd, GroupsRead, GroupsMerge,
                AddEnds, PurgeTombstone, PurgeDelete, PurgeUnlink, IngestPut, IngestInsert,
                ThumbOriginal, ThumbWrite, ThumbRead, TreeBuild, TreeSet, sync
  <2>2. ASSUME LinkInsert(t)
        PROVE  /\ items' = items \cup {th[t].f} /\ th[t].op \in {"ingest", "link"}
               /\ th[o].op = "unlink" => th[o].f # th[t].f
    BY <2>2, <1>i, LinkUnlinkApart DEF LinkInsert
  <2>3. CASE o # t
    <3>1. th'[o] = th[o]
      BY <1>3, <2>3, <1>i, StepsGoOn
    <3> QED BY <3>1, <2>1, <2>2, <1>i DEF ItemsHold
  <2>4. CASE o = t /\ th'[o] # Idle
    <3>1. th'[o].op = th[o].op /\ th'[o].f = th[o].f
      BY <1>3, <2>4, <1>i, StepsGoOn
    <3>2. /\ th'[o].pc = "set" => th[o].pc = "tree" /\ UNCHANGED items
          /\ th'[o].pc = "tree" => LinkInsert(o)
      BY <1>3, <2>4, <1>i, PcAfter DEF TreeBuild
    <3> QED BY <2>4, <3>1, <3>2, <2>1, <2>2, <1>i DEF ItemsHold
  <2> QED BY <2>3, <2>4, <1>n
<1>4. ASSUME NEW t \in Thread, NEW f \in File, Asked(t, f)
      PROVE  Q
  <2>1. /\ th'[t].f = f /\ \A m \in Thread : m # t => th'[m] = th[m]
        /\ \A m \in Thread : th[m].f = f => {th'[t].op, th[m].op} \notin Clash
    BY <1>4, <1>i, RequestsBegin
  <2>2. ASSUME Unlink(t, f)
        PROVE  items' = items \ {f} /\ th'[t].op = "unlink"
    BY <2>2, <1>i, BeginFields DEF Unlink
  <2>3. CASE o # t
    <3>1. Unlink(t, f) /\ th[o].op \in {"ingest", "link"} => th[o].f # f
      BY <2>1, <2>2 DEF TreeOverlaps
    <3> QED BY <2>1, <2>2, <2>3, <3>1, <1>4, <1>i, AskedFacts DEF ItemsHold
  <2>4. CASE o = t
    <3>1. th'[o].pc \in {"tree", "set"} \/ th'[o].op = "unlink" => th'[o].op = "unlink" /\ f \notin items'
      BY <2>4, <1>4, <1>i, <2>2, RequestIs
    <3> QED BY <2>1, <2>4, <3>1 DEF ItemsHold
  <2> QED BY <2>3, <2>4
<1> QED BY <1>1, <1>2, <1>3, <1>4, Moves

(* A thread that stays touches what it touched.                              *)
LEMMA TouchedStays ==
  ASSUME NEW f \in File, NEW t \in Thread, \A o \in Thread : o # t => th'[o] = th[o],
         th[t].pc \in {"tree", "set"} => th[t].f # f
  PROVE  Touched(f) => Touched(f)'
  BY DEF Touched

LEMMA TreeFollowsStep ==
  ASSUME TreeInv, TreeOverlaps \subseteq Clash, [Next]_vars
  PROVE  tree' # Null => \A f \in File : Touched(f)' \/ (f \in tree' <=> f \in items')
<1> SUFFICES ASSUME tree' # Null, NEW f \in File, ~Touched(f)'
             PROVE  f \in tree' <=> f \in items'
  OBVIOUS
<1>i. TypeOK /\ Apart /\ (tree # Null => Touched(f) \/ (f \in tree <=> f \in items))
  BY DEF TreeInv
<1>h. \A t \in Thread : ItemsHold(th[t])
  BY DEF TreeInv
<1>1. CASE Still
  BY <1>1, <1>i DEF Touched, Still
<1>2. CASE Crash
  BY <1>2, CrashFacts
<1>3. ASSUME NEW t \in Thread, Step(t)
      PROVE  f \in tree' <=> f \in items'
  <2>1. \A o \in Thread : o # t => th'[o] = th[o]
    BY <1>3, <1>i, StepsGoOn
  <2>2. CASE LinkInsert(t)
    <3>1. /\ th'[t].f = th[t].f /\ th'[t].pc = "tree" /\ items' = items \cup {th[t].f}
          /\ UNCHANGED tree /\ th[t].pc = "link"
      BY <2>2, <1>i, GotoFields DEF LinkInsert
    <3>2. th[t].f # f
      BY <3>1 DEF Touched
    <3>3. ~Touched(f)
      BY <2>1, <3>1, TouchedStays
    <3> QED BY <3>1, <3>2, <3>3, <1>i
  <2>3. CASE TreeBuild(t)
    <3>1. /\ th'[t].f = th[t].f /\ th'[t].pc = "set" /\ UNCHANGED items
          /\ tree' = IF tree = Null THEN items ELSE tree
      BY <2>3, <1>i, GotoFields DEF TreeBuild, Built
    <3>2. th[t].f # f
      BY <3>1 DEF Touched
    <3>3. ~Touched(f)
      BY <2>1, <3>2, TouchedStays
    <3> QED BY <3>1, <3>3, <1>i
  <2>4. CASE TreeSet(t)
    <3>1. CASE th[t].f = f
      <4>1. th[t].op = "unlink" \/ th[t].op \in {"ingest", "link"}
        <5>1. th[t].pc = "set" /\ th[t].f \in File /\ AtStep(th[t]) /\ th[t] \in Request
          BY <2>4, <1>i, TreeSetFacts DEF TypeOK
        <5> QED BY <5>1, IdleFields DEF AtStep, StepOf, Request
      <4>2. th[t].pc = "set" /\ UNCHANGED items
            /\ tree' = (IF th[t].op = "unlink" THEN tree \ {th[t].f} ELSE tree \cup {th[t].f})
        BY <2>4, <1>i, TreeSetFacts
      <4> QED BY <3>1, <4>1, <4>2, <1>h DEF ItemsHold
    <3>2. CASE th[t].f # f
      <4>1. ~Touched(f)
        BY <2>1, <3>2, TouchedStays
      <4> QED BY <2>4, <3>2, <4>1, <1>i, TreeSetFacts
    <3> QED BY <3>1, <3>2
  <2>5. CASE ~(LinkInsert(t) \/ TreeBuild(t) \/ TreeSet(t))
    <3>1. UNCHANGED <<items, tree>> /\ th[t].pc \notin {"tree", "set"}
      BY <2>5, <1>3 DEF Step, TrashUpdate, TrashRemove, RestoreUpdate, IndexAdd, GroupsRead,
                GroupsMerge, AddEnds, PurgeTombstone, PurgeDelete, PurgeUnlink, IngestPut,
                IngestInsert, ThumbOriginal, ThumbWrite, ThumbRead, At, sync
    <3>2. ~Touched(f)
      BY <2>1, <3>1, TouchedStays
    <3> QED BY <3>1, <3>2, <1>i
  <2> QED BY <2>2, <2>3, <2>4, <2>5
<1>4. ASSUME NEW t \in Thread, NEW g \in File, Asked(t, g)
      PROVE  f \in tree' <=> f \in items'
  <2>1. /\ th'[t].f = g /\ th[t] = Idle /\ \A o \in Thread : o # t => th'[o] = th[o]
    BY <1>4, <1>i, RequestsBegin
  <2>2. ~Touched(f)
    BY <2>1, IdleFields, TouchedStays
  <2>3. ASSUME Unlink(t, g)
        PROVE  items' = items \ {g} /\ g # f
    <3>1. th'[t].pc = "tree" /\ items' = items \ {g}
      BY <2>3, <1>i, BeginFields DEF Unlink
    <3> QED BY <3>1, <2>1 DEF Touched
  <2> QED BY <2>2, <2>3, <1>4, <1>i, AskedFacts
<1> QED BY <1>1, <1>2, <1>3, <1>4, Moves

LEMMA TreeStep ==
  ASSUME TreeInv, TreeOverlaps \subseteq Clash, [Next]_vars
  PROVE  TreeInv'
<1>1. TypeOK' /\ Apart'
  BY TypeStep, ApartStep DEF TreeInv
<1>2. \A t \in Thread : ItemsHold(th[t])'
  BY ItemsHoldStep
<1> QED BY <1>1, <1>2, TreeFollowsStep DEF TreeInv

(* The tree answers for the table, if no unlink of a file overlaps a link    *)
(* or an ingest of it.                                                       *)
THEOREM TreeIsTableHolds ==
  ASSUME TreeOverlaps \subseteq Clash
  PROVE  Spec => []TreeIsTable
<1>1. TreeInv /\ [Next]_vars => TreeInv'
  BY TreeStep
<1>2. TreeInv => TreeIsTable
  BY DEF TreeInv, TreeIsTable, Touched, Quiet
<1> QED BY InitTree, <1>1, <1>2, PTL DEF Spec

-----------------------------------------------------------------------------
(* The duplicate index: who else is at work on a file.                       *)
OtherAdds(t, f) == \E o \in Thread : o # t /\ th[o].f = f /\ th[o].pc = "add"
OtherRemoves(t, f) == \E o \in Thread : o # t /\ th[o].f = f /\ At(o, "trash", "remove")

LEMMA Others ==
  ASSUME NEW t \in Thread, NEW f \in File
  PROVE  /\ Adding(f) <=> (th[t].f = f /\ th[t].pc = "add") \/ OtherAdds(t, f)
         /\ Removing(f) <=> (th[t].f = f /\ At(t, "trash", "remove")) \/ OtherRemoves(t, f)
  BY DEF Adding, Removing, OtherAdds, OtherRemoves

LEMMA OthersAfter ==
  ASSUME NEW t \in Thread, NEW f \in File, \A o \in Thread : o # t => th'[o] = th[o]
  PROVE  /\ Adding(f)' <=> (th'[t].f = f /\ th'[t].pc = "add") \/ OtherAdds(t, f)
         /\ Removing(f)' <=> (th'[t].f = f /\ th'[t].op = "trash" /\ th'[t].pc = "remove")
                             \/ OtherRemoves(t, f)
  BY DEF Adding, Removing, OtherAdds, OtherRemoves, At

LEMMA Adders ==
  ASSUME TypeOK, NEW t \in Thread, th[t].pc = "add"
  PROVE  th[t].op \in {"restore", "ingest"}
<1>1. AtStep(th[t]) /\ th[t] \in Request
  BY DEF TypeOK
<1> QED BY <1>1, IdleFields DEF AtStep, StepOf, Request

LEMMA IndexApart ==
  ASSUME TypeOK, Apart, IndexOverlaps \subseteq Clash, NEW t \in Thread, NEW o \in Thread, t # o,
         th[t].f \in File, th[t].f = th[o].f
  PROVE  /\ th[t].op = "restore" => th[o].op \notin {"restore", "trash", "purge"}
         /\ th[t].op \in {"restore", "ingest"} => th[o].op # "trash"
         /\ th[t].op = "trash" => th[o].op \notin {"restore", "ingest"}
         /\ th[t].op = "purge" => th[o].op # "restore"
<1>1. {th[t].op, th[o].op} \notin IndexOverlaps
  BY NoneMeet
<1> QED BY <1>1 DEF IndexOverlaps

LEMMA Alone ==
  ASSUME IndexInv, IndexOverlaps \subseteq Clash, NEW t \in Thread, th[t].f \in File
  PROVE  /\ th[t].op = "trash" => ~OtherAdds(t, th[t].f)
         /\ th[t].op \in {"restore", "ingest"} => ~OtherRemoves(t, th[t].f)
         /\ th[t].pc = "add" => ~OtherAdds(t, th[t].f)
         /\ \A o \in Thread :
              o # t /\ th[o].f = th[t].f =>
                /\ th[t].op = "restore" => th[o].op \notin {"restore", "purge"}
                /\ th[t].op \in {"trash", "purge"} => th[o].op # "restore"
<1>1. TypeOK /\ Apart /\ OneAdds
  BY DEF IndexInv, BytesInv
<1> QED BY <1>1, IndexApart, Adders DEF OtherAdds, OtherRemoves, OneAdds, At

(* What the index has to say after a step at a file.                         *)
FollowsAt(f) ==
  /\ IndexFollows(f)'
  /\ \A o \in Thread : th'[o].f = f => TrashHolds(th[o])'
  /\ OneAdds'
FollowsAll ==
  /\ \A g \in File : IndexFollows(g)'
  /\ \A o \in Thread : TrashHolds(th[o])'
  /\ OneAdds'

(* Away from the file of the thread that moved, all stays as it was.         *)
SameRow(g) == row'[g].in = row[g].in /\ row'[g].trashed = row[g].trashed /\ row'[g].purged = row[g].purged
Frame(t, f) ==
  /\ \A o \in Thread : o # t => th'[o] = th[o]
  /\ th[t] = Idle \/ th[t].f = f
  /\ th'[t] = Idle \/ th'[t].f = f
  /\ \A g \in File : g # f =>
       SameRow(g) /\ (g \in codes' <=> g \in codes) /\ table'[g] = table[g]
LEMMA Elsewhere ==
  ASSUME IndexInv, NEW t \in Thread, NEW f \in File, Frame(t, f), FollowsAt(f)
  PROVE  FollowsAll
<1>1. \A o \in Thread : o # t => th'[o] = th[o]
  BY DEF Frame
<1>t. (th[t] = Idle \/ th[t].f = f) /\ (th'[t] = Idle \/ th'[t].f = f)
  BY DEF Frame
<1>r. \A g \in File : g # f => SameRow(g) /\ (g \in codes' <=> g \in codes) /\ table'[g] = table[g]
  BY DEF Frame
<1>n. Idle.f \notin File /\ Idle.pc = "idle" /\ Idle.op = "none"
  BY IdleFields, FileAssumption
<1>2. ASSUME NEW g \in File, g # f
      PROVE  IndexFollows(g)'
  <2>1. Adding(g)' <=> Adding(g)
    BY <1>1, <1>t, <1>n, <1>2, Others, OthersAfter
  <2>2. Removing(g)' <=> Removing(g)
    BY <1>1, <1>t, <1>n, <1>2, Others, OthersAfter
  <2>3. IndexFollows(g)
    BY DEF IndexInv
  <2> QED BY <2>1, <2>2, <2>3, <1>r, <1>2 DEF IndexFollows, Live, SameRow
<1>3. ASSUME NEW o \in Thread, th'[o].f # f
      PROVE  TrashHolds(th[o])'
  <2>1. CASE th'[o] = Idle
    BY <2>1, <1>n DEF TrashHolds
  <2>2. CASE th'[o] # Idle
    <3>1. th'[o] = th[o] /\ TrashHolds(th[o])
      BY <1>1, <1>t, <1>3, <2>2 DEF IndexInv
    <3>2. th[o].op # "none" => th[o].f \in File
      BY BusyHasFile DEF IndexInv, BytesInv
    <3> QED BY <3>1, <3>2, <1>3, <1>r DEF TrashHolds, SameRow
  <2> QED BY <2>1, <2>2
<1> QED BY <1>2, <1>3 DEF FollowsAt, FollowsAll

(* At most one thread is about to add a file, a newcomer among them.         *)
LEMMA OneAddsStep ==
  ASSUME OneAdds, NEW t \in Thread, \A o \in Thread : o # t => th'[o] = th[o],
         th'[t].pc = "add" => ~OtherAdds(t, th'[t].f)
  PROVE  OneAdds'
  BY DEF OneAdds, OtherAdds

(* What a step of a thread leaves of the others at its file.                 *)
LEMMA TrashHoldsAt ==
  ASSUME IndexInv, NEW t \in Thread, NEW f \in File, \A o \in Thread : o # t => th'[o] = th[o],
         TrashHolds(th[t])',
         \A o \in Thread : o # t /\ th[o].f = f =>
           /\ th[o].op = "restore" /\ th[o].pc = "update" =>
                row'[f].trashed /\ ~row'[f].purged /\ f \notin codes'
           /\ th[o].op = "purge" => row'[f].trashed
  PROVE  \A o \in Thread : th'[o].f = f => TrashHolds(th[o])'
  BY DEF IndexInv, TrashHolds

-----------------------------------------------------------------------------
(* The steps that change a row or the index, one lemma for each.             *)

LEMMA IndexTrash ==
  ASSUME IndexInv, IndexOverlaps \subseteq Clash, NEW t \in Thread, TrashUpdate(t)
  PROVE  FollowsAll
<1>f. PICK f \in File : th[t].f = f
  BY TrashUpdateFacts DEF IndexInv, BytesInv
<1> USE <1>f
<1>i. TypeOK /\ OneAdds /\ RowsHold(th[t])
  BY DEF IndexInv, BytesInv
<1>1. /\ f \in File /\ th[t].op = "trash" /\ th[t].pc = "update" /\ Goto(t, "remove")
      /\ row'[f].trashed /\ row'[f].in = row[f].in /\ row'[f].purged = row[f].purged
      /\ \A g \in File : g # f => row'[g] = row[g]
      /\ UNCHANGED <<codes, table>>
  BY <1>i, TrashUpdateFacts
<1>2. /\ th'[t].op = "trash" /\ th'[t].f = f /\ th'[t].pc = "remove"
      /\ \A o \in Thread : o # t => th'[o] = th[o]
  BY <1>1, <1>i, GotoFields
<1>3. /\ ~OtherAdds(t, f)
      /\ \A o \in Thread : o # t /\ th[o].f = f => th[o].op # "restore"
  BY <1>1, Alone
<1>4. Frame(t, f)
  BY <1>1, <1>2 DEF Frame, SameRow
<1>5. IndexFollows(f)
  BY <1>1 DEF IndexInv
<1>6. Removing(f)' /\ ~Adding(f)'
  BY <1>1, <1>2, <1>3, OthersAfter
<1>7. IndexFollows(f)'
  BY <1>1, <1>5, <1>6 DEF IndexFollows, Live
<1>8. \A o \in Thread : th'[o].f = f => TrashHolds(th[o])'
  <2>1. TrashHolds(th[t])'
    BY <1>2 DEF TrashHolds
  <2> QED BY <1>1, <1>2, <1>3, <2>1, TrashHoldsAt
<1>9. OneAdds'
  BY <1>i, <1>2, OneAddsStep
<1> QED BY <1>1, <1>4, <1>7, <1>8, <1>9, Elsewhere DEF FollowsAt

LEMMA IndexRemove ==
  ASSUME IndexInv, IndexOverlaps \subseteq Clash, NEW t \in Thread, TrashRemove(t)
  PROVE  FollowsAll
<1>f. PICK f \in File : th[t].f = f
  BY TrashRemoveFacts DEF IndexInv, BytesInv
<1> USE <1>f
<1>i. TypeOK /\ OneAdds
  BY DEF IndexInv, BytesInv
<1>1. /\ f \in File /\ th[t].op = "trash" /\ th[t].pc = "remove" /\ End(t)
      /\ codes' = codes \ {f} /\ table'[f] = EntriesLeft(table[f])
      /\ \A g \in File : g # f => table'[g] = table[g]
      /\ UNCHANGED row
  BY <1>i, TrashRemoveFacts
<1>2. th'[t] = Idle /\ \A o \in Thread : o # t => th'[o] = th[o]
  BY <1>1, <1>i, EndFields
<1>4. Frame(t, f)
  BY <1>1, <1>2 DEF Frame, SameRow
<1>5. IndexFollows(f)
  BY <1>1 DEF IndexInv
<1>n. Idle.pc = "idle" /\ Idle.op = "none"
  BY IdleFields
<1>6. Removing(f) /\ ~Live(f) /\ ~Adding(f)
  BY <1>1, <1>5, Others DEF IndexFollows, At
<1>7. IndexFollows(f)'
  <2>1. ~Adding(f)'
    BY <1>1, <1>2, <1>n, <1>6, Others, OthersAfter
  <2>2. table'[f] = 0 /\ f \notin codes' /\ ~Live(f)'
    BY <1>1, <1>5, <1>6 DEF IndexFollows, EntriesLeft, Live
  <2> QED BY <2>1, <2>2 DEF IndexFollows
<1>8. \A o \in Thread : th'[o].f = f => TrashHolds(th[o])'
  <2>1. TrashHolds(th[t])'
    BY <1>2, <1>n DEF TrashHolds
  <2>2. \A o \in Thread : TrashHolds(th[o])
    BY DEF IndexInv
  <2> QED BY <1>1, <1>2, <2>1, <2>2, TrashHoldsAt DEF TrashHolds
<1>9. OneAdds'
  BY <1>i, <1>2, <1>n, OneAddsStep
<1> QED BY <1>1, <1>4, <1>7, <1>8, <1>9, Elsewhere DEF FollowsAt

LEMMA IndexRestore ==
  ASSUME IndexInv, IndexOverlaps \subseteq Clash, NEW t \in Thread, RestoreUpdate(t)
  PROVE  FollowsAll
<1>f. PICK f \in File : th[t].f = f
  BY RestoreUpdateFacts DEF IndexInv, BytesInv
<1> USE <1>f
<1>i. TypeOK /\ OneAdds /\ RowsHold(th[t]) /\ TrashHolds(th[t])
  BY DEF IndexInv, BytesInv
<1>1. /\ f \in File /\ th[t].op = "restore" /\ th[t].pc = "update" /\ Goto(t, "add")
      /\ ~row'[f].trashed /\ row'[f].in = row[f].in /\ row'[f].purged = row[f].purged
      /\ \A g \in File : g # f => row'[g] = row[g]
      /\ UNCHANGED <<codes, table>>
  BY <1>i, RestoreUpdateFacts
<1>2. /\ th'[t].op = "restore" /\ th'[t].f = f /\ th'[t].pc = "add"
      /\ \A o \in Thread : o # t => th'[o] = th[o]
  BY <1>1, <1>i, GotoFields
<1>3. /\ ~OtherRemoves(t, f)
      /\ \A o \in Thread : o # t /\ th[o].f = f => th[o].op \notin {"restore", "purge"}
  BY <1>1, Alone
<1>4. Frame(t, f)
  BY <1>1, <1>2 DEF Frame, SameRow
<1>5. IndexFollows(f)
  BY <1>1 DEF IndexInv
<1>6. row[f].in /\ row[f].trashed /\ f \notin codes
  BY <1>1, <1>i DEF RowsHold, TrashHolds
<1>a. ~OtherAdds(t, f)
  BY <1>1, <1>5, <1>6, Others DEF IndexFollows, Live
<1>7. IndexFollows(f)'
  <2>1. Adding(f)' /\ ~Removing(f)'
    BY <1>1, <1>2, <1>3, OthersAfter
  <2> QED BY <2>1, <1>1, <1>5, <1>6 DEF IndexFollows, Live
<1>8. \A o \in Thread : th'[o].f = f => TrashHolds(th[o])'
  <2>1. TrashHolds(th[t])'
    BY <1>2 DEF TrashHolds
  <2> QED BY <1>1, <1>2, <1>3, <2>1, TrashHoldsAt
<1>9. OneAdds'
  BY <1>i, <1>2, <1>a, OneAddsStep
<1> QED BY <1>1, <1>4, <1>7, <1>8, <1>9, Elsewhere DEF FollowsAt

(* No search meets an id without a code.                                     *)
LEMMA SearchFinds ==
  ASSUME IndexInv, NEW f \in File
  PROVE  Found(f) \subseteq codes
<1>1. \A g \in File : table[g] = (IF g \in codes THEN 1 ELSE 0)
  BY DEF IndexInv, IndexFollows
<1> QED BY <1>1 DEF Found

LEMMA IndexAdds ==
  ASSUME IndexInv, IndexOverlaps \subseteq Clash, NEW t \in Thread, IndexAdd(t)
  PROVE  FollowsAll
<1>f. PICK f \in File : th[t].f = f
  BY IndexAddFacts DEF IndexInv, BytesInv
<1> USE <1>f
<1>i. TypeOK /\ OneAdds /\ \A o \in Thread : TrashHolds(th[o])
  BY DEF IndexInv, BytesInv
<1>1. f \in File /\ th[t].pc = "add" /\ UNCHANGED row
  BY <1>i, IndexAddFacts
<1>2. /\ th'[t].op = th[t].op /\ th'[t].f = f /\ th'[t].pc \in {"link", "groups"}
      /\ codes' = codes \cup {f} /\ table'[f] = table[f] + 1
      /\ \A g \in File : g # f => table'[g] = table[g]
  BY <1>i, <1>1, SearchFinds, IndexAddFacts
<1>3. \A o \in Thread : o # t => th'[o] = th[o]
  BY <1>i, StepsGoOn DEF Step
<1>4. Frame(t, f)
  BY <1>1, <1>2, <1>3 DEF Frame, SameRow
<1>5. IndexFollows(f)
  BY <1>1 DEF IndexInv
<1>6. th[t].op \in {"restore", "ingest"} /\ ~OtherAdds(t, f) /\ ~OtherRemoves(t, f)
  BY <1>1, <1>i, Adders, Alone
<1>h. th[t].op = "restore" => \A o \in Thread : o # t /\ th[o].f = f => th[o].op # "restore"
  BY <1>1, Alone
<1>a. Live(f) /\ f \notin codes
  BY <1>1, <1>5, Others DEF IndexFollows
<1>7. IndexFollows(f)'
  <2>1. ~Adding(f)' /\ ~Removing(f)'
    BY <1>1, <1>2, <1>3, <1>6, OthersAfter
  <2>2. table'[f] = 1 /\ f \in codes' /\ Live(f)'
    BY <1>1, <1>2, <1>5, <1>a DEF IndexFollows, Live
  <2> QED BY <2>1, <2>2 DEF IndexFollows
<1>8. \A o \in Thread : th'[o].f = f => TrashHolds(th[o])'
  <2>1. TrashHolds(th[t])'
    BY <1>i, <1>1, <1>2, <1>6 DEF TrashHolds
  <2>2. \A o \in Thread : th[o].f = f => ~(th[o].op = "restore" /\ th[o].pc = "update") /\ th[o].op # "purge"
    BY <1>i, <1>a DEF TrashHolds, Live
  <2> QED BY <1>1, <1>3, <2>1, <2>2, TrashHoldsAt
<1>9. OneAdds'
  BY <1>i, <1>2, <1>3, OneAddsStep
<1> QED BY <1>1, <1>4, <1>7, <1>8, <1>9, Elsewhere DEF FollowsAt

LEMMA IndexTombstone ==
  ASSUME IndexInv, IndexOverlaps \subseteq Clash, NEW t \in Thread, PurgeTombstone(t)
  PROVE  FollowsAll
<1>f. PICK f \in File : th[t].f = f
  BY PurgeTombstoneFacts DEF IndexInv, BytesInv
<1> USE <1>f
<1>i. TypeOK /\ OneAdds /\ TrashHolds(th[t])
  BY DEF IndexInv, BytesInv
<1>1. /\ f \in File /\ th[t].op = "purge" /\ Goto(t, "delete")
      /\ row'[f].trashed /\ row'[f].purged /\ row'[f].in = row[f].in
      /\ \A g \in File : g # f => row'[g] = row[g]
      /\ UNCHANGED <<codes, table>>
  BY <1>i, PurgeTombstoneFacts
<1>2. /\ th'[t].op = "purge" /\ th'[t].f = f /\ th'[t].pc = "delete"
      /\ \A o \in Thread : o # t => th'[o] = th[o]
  BY <1>1, <1>i, GotoFields
<1>3. \A o \in Thread : o # t /\ th[o].f = f => th[o].op # "restore"
  BY <1>1, Alone
<1>4. Frame(t, f)
  BY <1>1, <1>2 DEF Frame, SameRow
<1>5. IndexFollows(f) /\ ~Live(f)
  BY <1>1, <1>i DEF IndexInv, TrashHolds, Live
<1>6. th[t].pc = "tombstone"
  BY <1>i, PurgeTombstoneFacts
<1>7. IndexFollows(f)'
  <2>1. (Adding(f)' => Adding(f)) /\ (Removing(f) => Removing(f)') /\ ~Live(f)'
    BY <1>1, <1>2, <1>6, Others, OthersAfter DEF At, Live
  <2> QED BY <2>1, <1>1, <1>5 DEF IndexFollows
<1>8. \A o \in Thread : th'[o].f = f => TrashHolds(th[o])'
  <2>1. TrashHolds(th[t])'
    BY <1>1, <1>2 DEF TrashHolds
  <2> QED BY <1>1, <1>2, <1>3, <2>1, TrashHoldsAt
<1>9. OneAdds'
  BY <1>i, <1>2, OneAddsStep
<1> QED BY <1>1, <1>4, <1>7, <1>8, <1>9, Elsewhere DEF FollowsAt

LEMMA IndexInsert ==
  ASSUME IndexInv, IndexOverlaps \subseteq Clash, NEW t \in Thread, IngestInsert(t)
  PROVE  FollowsAll
<1>f. PICK f \in File : th[t].f = f
  BY IngestInsertFacts DEF IndexInv, BytesInv
<1> USE <1>f
<1>i. TypeOK /\ OneAdds /\ \A o \in Thread : RowsHold(th[o])
  BY DEF IndexInv, BytesInv
<1>1. /\ f \in File /\ th[t].op = "ingest" /\ th[t].pc = "insert" /\ Goto(t, "add")
      /\ row'[f].in /\ ~row'[f].trashed /\ ~row'[f].purged
      /\ \A g \in File : g # f => row'[g] = row[g]
      /\ UNCHANGED <<codes, table>>
  BY <1>i, IngestInsertFacts
<1>2. /\ th'[t].op = "ingest" /\ th'[t].f = f /\ th'[t].pc = "add"
      /\ \A o \in Thread : o # t => th'[o] = th[o]
  BY <1>1, <1>i, GotoFields
<1>3. ~row[f].in /\ \A o \in Thread : th[o].f = f => th[o].op \notin {"trash", "restore", "purge"}
  BY <1>1, <1>i DEF RowsHold
<1>4. Frame(t, f)
  BY <1>1, <1>2 DEF Frame, SameRow
<1>5. IndexFollows(f)
  BY <1>1 DEF IndexInv
<1>6. ~OtherRemoves(t, f) /\ ~Removing(f)
  BY <1>3 DEF OtherRemoves, Removing, At
<1>a. ~OtherAdds(t, f) /\ f \notin codes
  BY <1>1, <1>3, <1>5, <1>6, Others DEF IndexFollows, Live
<1>7. IndexFollows(f)'
  <2>1. Adding(f)' /\ ~Removing(f)'
    BY <1>1, <1>2, <1>6, OthersAfter
  <2> QED BY <2>1, <1>1, <1>5, <1>a DEF IndexFollows, Live
<1>8. \A o \in Thread : th'[o].f = f => TrashHolds(th[o])'
  <2>1. TrashHolds(th[t])'
    BY <1>2 DEF TrashHolds
  <2> QED BY <1>1, <1>2, <1>3, <2>1, TrashHoldsAt
<1>9. OneAdds'
  BY <1>i, <1>2, <1>a, OneAddsStep
<1> QED BY <1>1, <1>4, <1>7, <1>8, <1>9, Elsewhere DEF FollowsAt

-----------------------------------------------------------------------------
(* The other steps, the requests and the crash.                              *)

(* A step that changes neither the rows' marks nor the index.                *)
LEMMA IndexKept ==
  ASSUME IndexInv, NEW t \in Thread, Step(t), UNCHANGED <<codes, table>>,
         \A g \in File : SameRow(g), th[t].pc # "add", ~At(t, "trash", "remove"),
         ~TrashUpdate(t), ~RestoreUpdate(t), ~IngestInsert(t)
  PROVE  FollowsAll
<1>i. TypeOK /\ OneAdds /\ TrashHolds(th[t])
  BY DEF IndexInv, BytesInv
<1>f. PICK f \in File : th[t].f = f
  <2>1. th[t].pc # "idle"
    BY DEF Step, TrashRemove, IndexAdd, GroupsRead, GroupsMerge, AddEnds, PurgeTombstone,
           PurgeDelete, PurgeUnlink, IngestPut, ThumbOriginal, ThumbWrite, ThumbRead, LinkInsert,
           TreeBuild, TreeSet, At
  <2> QED BY <2>1, <1>i, BusyHasFile
<1>1. /\ \A o \in Thread : o # t => th'[o] = th[o]
      /\ th'[t] = Idle \/ (th'[t].op = th[t].op /\ th'[t].f = f)
  BY <1>i, <1>f, StepsGoOn
<1>2. th'[t].pc \notin {"add", "failed", "remove", "update"}
  <2>1. ~IndexAdd(t)
    BY DEF IndexAdd
  <2> QED BY <2>1, <1>i, PcAfter
<1>3. Frame(t, f)
  BY <1>1, <1>f DEF Frame
<1>4. IndexFollows(f)'
  <2>1. (Adding(f)' <=> Adding(f)) /\ (Removing(f)' <=> Removing(f))
    BY <1>1, <1>2, Others, OthersAfter
  <2>2. IndexFollows(f) /\ SameRow(f)
    BY DEF IndexInv
  <2> QED BY <2>1, <2>2 DEF IndexFollows, Live, SameRow
<1>5. \A o \in Thread : th'[o].f = f => TrashHolds(th[o])'
  <2>1. SameRow(f) /\ \A o \in Thread : TrashHolds(th[o])
    BY DEF IndexInv
  <2>2. TrashHolds(th[t])'
    BY <1>1, <1>2, <1>f, <2>1, IdleFields DEF TrashHolds, SameRow
  <2> QED BY <1>1, <2>1, <2>2, TrashHoldsAt DEF TrashHolds, SameRow
<1>6. OneAdds'
  BY <1>i, <1>1, <1>2, OneAddsStep
<1> QED BY <1>3, <1>4, <1>5, <1>6, Elsewhere DEF FollowsAt

LEMMA IndexRest ==
  ASSUME IndexInv, NEW t \in Thread, Step(t),
         ~TrashUpdate(t), ~TrashRemove(t), ~RestoreUpdate(t), ~IndexAdd(t), ~PurgeTombstone(t),
         ~IngestInsert(t)
  PROVE  FollowsAll
<1>i. TypeOK /\ Next
  BY DEF IndexInv, BytesInv, Next
<1>1. UNCHANGED <<codes, table>>
  BY DEF Step, GroupsRead, GroupsMerge, AddEnds, PurgeDelete, PurgeUnlink, IngestPut, ThumbOriginal,
         ThumbWrite, ThumbRead, LinkInsert, TreeBuild, TreeSet, index
<1>2. \A g \in File : SameRow(g)
  <2>1. UNCHANGED row \/ GroupsMerge(t)
    BY DEF Step, GroupsRead, AddEnds, PurgeDelete, PurgeUnlink, IngestPut, ThumbOriginal,
           ThumbWrite, ThumbRead, LinkInsert, TreeBuild, TreeSet
  <2> QED BY <2>1, <1>i, GroupsMergeFacts DEF SameRow
<1>3. th[t].pc # "add" /\ ~At(t, "trash", "remove")
  BY DEF Step, GroupsRead, GroupsMerge, AddEnds, PurgeDelete, PurgeUnlink, IngestPut, ThumbOriginal,
         ThumbWrite, ThumbRead, LinkInsert, TreeBuild, TreeSet, At
<1> QED BY <1>1, <1>2, <1>3, IndexKept

LEMMA IndexAsked ==
  ASSUME IndexInv, IndexOverlaps \subseteq Clash, NEW t \in Thread, NEW f \in File, Asked(t, f)
  PROVE  FollowsAll
<1>i. TypeOK /\ OneAdds /\ IndexFollows(f)
  BY DEF IndexInv, BytesInv
<1>1. /\ \A o \in Thread : o # t => th'[o] = th[o]
      /\ th[t] = Idle /\ th'[t].f = f
      /\ \A o \in Thread : th[o].f = f => {th'[t].op, th[o].op} \notin Clash
  BY <1>i, RequestsBegin
<1>2. UNCHANGED <<row, codes, table>>
  BY AskedFacts
<1>3. th'[t].pc \notin {"add", "failed", "remove"}
  BY <1>i, RequestIs
<1>4. Frame(t, f)
  BY <1>1, <1>2 DEF Frame, SameRow
<1>5. IndexFollows(f)'
  <2>1. (Adding(f)' <=> Adding(f)) /\ (Removing(f)' <=> Removing(f))
    BY <1>1, <1>3, IdleFields, Others, OthersAfter DEF At
  <2> QED BY <2>1, <1>2, <1>i DEF IndexFollows, Live
<1>6. \A o \in Thread : th'[o].f = f => TrashHolds(th[o])'
  <2>1. \A o \in Thread : TrashHolds(th[o])
    BY DEF IndexInv
  <2>2. th'[t].op = "restore" => row[f].in /\ row[f].trashed /\ ~row[f].purged
    BY <1>i, RequestIs DEF Restore
  <2>3. th'[t].op = "purge" => row[f].trashed
    BY <1>i, RequestIs DEF Purge
  <2>4. th'[t].op = "restore" => ~Removing(f)
    BY <1>1 DEF Removing, At, IndexOverlaps
  <2>5. TrashHolds(th[t])'
    BY <1>1, <1>2, <1>3, <1>i, <2>2, <2>3, <2>4 DEF TrashHolds, IndexFollows, Live
  <2> QED BY <1>1, <1>2, <2>1, <2>5, TrashHoldsAt DEF TrashHolds
<1>7. OneAdds'
  BY <1>i, <1>1, <1>3, OneAddsStep
<1> QED BY <1>4, <1>5, <1>6, <1>7, Elsewhere DEF FollowsAt

(* Startup loads the live images.                                            *)
LEMMA IndexCrash ==
  ASSUME Crash
  PROVE  FollowsAll
<1>1. /\ \A t \in Thread : th'[t] = Idle
      /\ codes' = Loaded /\ table' = [f \in File |-> IF f \in Loaded THEN 1 ELSE 0]
      /\ UNCHANGED row
  BY CrashFacts
<1>2. \A f \in File : ~Adding(f)' /\ ~Removing(f)'
  BY <1>1, IdleFields DEF Adding, Removing, At
<1>3. \A f \in File : IndexFollows(f)'
  BY <1>1, <1>2 DEF IndexFollows, Loaded, Live
<1>4. (\A o \in Thread : TrashHolds(th[o])') /\ OneAdds'
  BY <1>1, IdleFields DEF TrashHolds, OneAdds
<1> QED BY <1>3, <1>4 DEF FollowsAll

LEMMA PurgedIsTrashedStep ==
  ASSUME IndexInv, [Next]_vars
  PROVE  PurgedIsTrashed'
<1>i. TypeOK /\ PurgedIsTrashed /\ \A t \in Thread : TrashHolds(th[t])
  BY DEF IndexInv, BytesInv
<1>1. ASSUME NEW t \in Thread, RowStep(t)
      PROVE  PurgedIsTrashed'
  <2>1. CASE TrashUpdate(t)
    BY <2>1, <1>i, TrashUpdateFacts DEF PurgedIsTrashed
  <2>2. CASE RestoreUpdate(t)
    BY <2>2, <1>i, RestoreUpdateFacts DEF PurgedIsTrashed, TrashHolds
  <2>3. CASE PurgeTombstone(t)
    BY <2>3, <1>i, PurgeTombstoneFacts DEF PurgedIsTrashed
  <2>4. CASE IngestInsert(t)
    BY <2>4, <1>i, IngestInsertFacts DEF PurgedIsTrashed
  <2>5. CASE GroupsMerge(t)
    BY <2>5, <1>i, GroupsMergeFacts DEF PurgedIsTrashed
  <2> QED BY <1>1, <2>1, <2>2, <2>3, <2>4, <2>5 DEF RowStep
<1> QED BY <1>1, <1>i, RowsStay DEF PurgedIsTrashed

LEMMA InitIndex == Init => IndexInv
<1> SUFFICES ASSUME Init
             PROVE  IndexInv
  OBVIOUS
<1>1. \A f \in File : row[f] = NoRow /\ f \notin codes /\ table[f] = 0
  BY DEF Init
<1>2. ~NoRow.in /\ ~NoRow.trashed /\ ~NoRow.purged
  BY DEF NoRow
<1>3. \A t \in Thread : th[t] = Idle
  BY DEF Init
<1>4. \A f \in File : ~Adding(f) /\ ~Removing(f)
  BY <1>3, IdleFields DEF Adding, Removing, At
<1>5. \A f \in File : IndexFollows(f)
  BY <1>1, <1>2, <1>4 DEF IndexFollows, Live
<1>6. (\A t \in Thread : TrashHolds(th[t])) /\ OneAdds /\ PurgedIsTrashed
  BY <1>1, <1>2, <1>3, IdleFields DEF TrashHolds, OneAdds, PurgedIsTrashed
<1> QED BY <1>5, <1>6, InitBytes, InitApart DEF IndexInv

LEMMA IndexStep ==
  ASSUME IndexInv, IndexOverlaps \subseteq Clash, [Next]_vars
  PROVE  IndexInv'
<1>1. BytesInv' /\ Apart'
  BY BytesStep, ApartStep DEF IndexInv, BytesInv
<1>2. FollowsAll
  <2>1. ASSUME NEW t \in Thread, Step(t)
        PROVE  FollowsAll
    BY <2>1, IndexTrash, IndexRemove, IndexRestore, IndexAdds, IndexTombstone, IndexInsert, IndexRest
  <2>2. CASE Still
    BY <2>2 DEF IndexInv, FollowsAll, Still, IndexFollows, Live, Adding, Removing, At, TrashHolds, OneAdds
  <2> QED BY <2>1, <2>2, IndexAsked, IndexCrash, Moves
<1> QED BY <1>1, <1>2, PurgedIsTrashedStep DEF FollowsAll, IndexInv

(* The duplicate index holds the live images, if no two requests of          *)
(* IndexOverlaps meet on a file.                                             *)
THEOREM IndexIsExactHolds ==
  ASSUME IndexOverlaps \subseteq Clash
  PROVE  Spec => []IndexIsExact
<1>1. IndexInv /\ [Next]_vars => IndexInv'
  BY IndexStep
<1>2. IndexInv => IndexIsExact
  BY DEF IndexInv, IndexIsExact, IndexFollows, Adding, Removing, Quiet
<1> QED BY InitIndex, <1>1, <1>2, PTL DEF Spec
=============================================================================
