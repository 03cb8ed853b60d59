------------------------------ MODULE Restripe ------------------------------
(***************************************************************************)
(* `cloudstore restripe` (ObjectStore.restripe_all, restripe_object) beside *)
(* a serving store.  An object's stripes are read, written again under the *)
(* code of the day as pending stripes with shard rows, and swapped in one  *)
(* transaction; no lock is taken.  The code of a stripe only matters for   *)
(* whether it has to be converted: every stripe may be older than the last *)
(* disk, but for those that a restripe wrote.  Old and new code have the   *)
(* same number of shards here.                                             *)
(***************************************************************************)
EXTENDS ObjectStore

CONSTANT Beside   \* what else happens during a restripe: "calls" for the same
                  \* object, "restart" of the server

VARIABLES
  converted,   \* the stripes that a restripe wrote
  rs           \* the process: locals of restripe_object

rvars == <<vars, converted, rs>>

IdleRs == [pc |-> "idle", obj |-> 0, old |-> {}, todo |-> {}, from |-> None,
           sid |-> None, rows |-> NoRows, new |-> {}, doomed |-> {}]
SetRs(r) == rs' = r
Raised == [rs EXCEPT !.pc = "undo", !.from = None, !.sid = None, !.rows = NoRows]

-----------------------------------------------------------------------------
(* restripe_all takes any object with a committed stripe of another code,    *)
(* the object of a running put included; then _stripes().                    *)
RestripeBegin(o) ==
  /\ Serving /\ rs.pc = "idle"
  /\ \E s \in VisibleStripes(o) : stripe[s].state = "committed" /\ s \notin converted
  /\ "calls" \in Beside \/ \A k \in Key : ~(KeyRow(k, o) /\ w[k].pc # "idle")
  /\ Cardinality({s \in StripeId : stripe[s].state = "none"}) >= Cardinality(VisibleStripes(o))
  /\ SetRs([IdleRs EXCEPT !.pc = "read", !.obj = o, !.old = VisibleStripes(o), !.todo = VisibleStripes(o)])
  /\ UNCHANGED <<vars, converted>>

(* _read_stripe of the next stripe: see ReadRows to ReadUnrecoverable.       *)
Tries(s) == {i \in Shard : shard[s][i].disk # None /\ shard[s][i].state = "ok"
                           /\ diskStatus[shard[s][i].disk] \in Readable}
Reads(s) == {i \in Tries(s) : up[shard[s][i].disk] /\ <<shard[s][i].disk, s, i>> \in files}
RestripeRead ==
  /\ rs.pc = "read"
  /\ \E s \in rs.todo :
       /\ \A t \in rs.todo : stripe[s].seq <= stripe[t].seq
       /\ \E lost \in SUBSET (Tries(s) \ Reads(s)) :
            shard' = [shard EXCEPT ![s] = [i \in Shard |->
                        IF i \in lost THEN [shard[s][i] EXCEPT !.state = "missing"] ELSE shard[s][i]]]
       /\ IF Cardinality(Reads(s)) >= K
          THEN SetRs([rs EXCEPT !.pc = "insert", !.from = s]) /\ UNCHANGED stripe
          ELSE /\ SetRs(Raised)
               /\ stripe' = IF stripe[s].state = "gone" THEN stripe
                            ELSE [stripe EXCEPT ![s].state = "unrecoverable"]
  /\ UNCHANGED <<diskStatus, up, files, object, w, rd, bootVars, faults, converted>>

(* _write_stripe: the row, under the key that the row id has by now, or a    *)
(* foreign key that fails.                                                   *)
RestripeInsert ==
  /\ rs.pc = "insert"
  /\ IF object[rs.obj].state = "none" THEN SetRs(Raised) /\ UNCHANGED stripe
     ELSE \E s \in StripeId, p \in Placement :
            /\ stripe[s].state = "none"
            /\ stripe' = [stripe EXCEPT ![s] = [state |-> "pending", obj |-> rs.obj,
                            key |-> object[rs.obj].key, seq |-> stripe[rs.from].seq]]
            /\ SetRs([rs EXCEPT !.pc = "write", !.sid = s,
                 !.rows = [i \in Shard |-> [disk |-> p[i], state |-> IF p[i] = None THEN "missing" ELSE "todo"]]])
  /\ UNCHANGED <<diskStatus, up, files, object, shard, w, rd, bootVars, faults, converted>>

(* The shards, as many as the disks take; too few are unlinked again.        *)
Lands == {i \in Shard : rs.rows[i].disk # None /\ up[rs.rows[i].disk]}
RestripeWrite ==
  /\ rs.pc = "write"
  /\ \E bad \in SUBSET {d \in CanWrite : \E i \in Shard \ Lands : rs.rows[i].disk = d} :
       diskStatus' = [d \in Disk |-> IF d \in bad THEN "degraded" ELSE diskStatus[d]]
  /\ IF Cardinality(Lands) >= Need
     THEN /\ files' = files \cup {<<rs.rows[i].disk, rs.sid, i>> : i \in Lands}
          /\ SetRs([rs EXCEPT !.pc = "rows", !.rows = [i \in Shard |->
               IF i \in Lands THEN [rs.rows[i] EXCEPT !.state = "ok"] ELSE LostRow(rs.rows[i].disk)]])
     ELSE SetRs([rs EXCEPT !.pc = "giveup"]) /\ UNCHANGED files
  /\ UNCHANGED <<up, dbVars, w, rd, bootVars, faults, converted>>
RestripeGiveUp ==
  /\ rs.pc = "giveup"
  /\ DropStripes({rs.sid})
  /\ SetRs(Raised)
  /\ UNCHANGED <<diskStatus, up, files, object, w, rd, bootVars, faults, converted>>

(* The shard rows; the stripe stays pending (state_after).                   *)
StateAfterCommitted == "committed"   \* mutant: as put_stream has it
StateAfter == "pending"
RestripeRows ==
  /\ rs.pc = "rows"
  /\ IF stripe[rs.sid].state = "gone" THEN SetRs(Raised) /\ UNCHANGED <<stripe, shard>>
     ELSE /\ shard' = [shard EXCEPT ![rs.sid] = rs.rows]
          /\ stripe' = [stripe EXCEPT ![rs.sid].state = StateAfter]
          /\ SetRs([rs EXCEPT !.pc = IF rs.todo = {rs.from} THEN "swap" ELSE "read",
                              !.todo = @ \ {rs.from}, !.from = None,
                              !.new = @ \cup {rs.sid}, !.sid = None, !.rows = NoRows])
  /\ UNCHANGED <<diskStatus, up, files, object, w, rd, bootVars, faults, converted>>

(* "atomically swap": two statements by id, whatever rows they still find.   *)
Swapped(s) ==
  IF s \in rs.old THEN "gone"
  ELSE IF s \in rs.new /\ stripe[s].state # "gone" THEN "committed" ELSE stripe[s].state
OldFilesByStripe == {f \in File : f[2] \in rs.old \cup rs.new /\ shard[f[2]][f[3]].disk = f[1]}   \* mutant
OldFiles == RowFiles(rs.old)
RestripeSwap ==
  /\ rs.pc = "swap"
  /\ stripe' = [s \in StripeId |-> [stripe[s] EXCEPT !.state = Swapped(s)]]
  /\ shard' = [s \in StripeId |-> IF s \in rs.old THEN NoRows ELSE shard[s]]
  /\ converted' = converted \cup rs.new
  /\ SetRs([IdleRs EXCEPT !.pc = "unlink", !.doomed = OldFiles])
  /\ UNCHANGED <<diskStatus, up, files, object, w, rd, bootVars, faults>>
RestripeUnlink ==
  /\ rs.pc = "unlink"
  /\ files' = Unlinked(rs.doomed)
  /\ SetRs(IdleRs)
  /\ UNCHANGED <<diskStatus, up, dbVars, w, rd, bootVars, faults, converted>>

(* `except BaseException`, up to the swap: the files, then the rows of what  *)
(* is complete; the stripe in flight stays.  The swap itself may raise.      *)
RestripeRaises ==
  /\ \/ rs.pc \in {"read", "insert", "write", "giveup", "rows"} /\ SetRs(Raised)
     \/ rs.pc = "swap" /\ SetRs(IdleRs)
  /\ UNCHANGED <<vars, converted>>
RestripeUndo ==
  /\ rs.pc = "undo"
  /\ files' = Unlinked(RowFiles(rs.new))
  /\ SetRs([rs EXCEPT !.pc = "undone"])
  /\ UNCHANGED <<diskStatus, up, dbVars, w, rd, bootVars, faults, converted>>
RestripeUndone ==
  /\ rs.pc = "undone"
  /\ DropStripes(rs.new)
  /\ SetRs(IdleRs)
  /\ UNCHANGED <<diskStatus, up, files, object, w, rd, bootVars, faults, converted>>

-----------------------------------------------------------------------------
RestripeStep ==
  \/ \E o \in ObjId : RestripeBegin(o)
  \/ RestripeRead \/ RestripeInsert \/ RestripeWrite \/ RestripeGiveUp \/ RestripeRows
  \/ RestripeSwap \/ RestripeUnlink \/ RestripeRaises \/ RestripeUndo \/ RestripeUndone

(* The server beside it; a crash of the machine ends both.                   *)
Begins(k) == w[k].pc = "idle" /\ w'[k].pc # "idle"
Restriped(k) == \E o \in ObjId : o = rs.obj /\ KeyRow(k, o)
ServerStep ==
  /\ Next
  /\ "calls" \in Beside \/ \A k \in Key : ~(Begins(k) /\ Restriped(k))
  /\ IF crashes' = crashes THEN UNCHANGED rs
     ELSE rs' \in {IdleRs} \cup (IF "restart" \in Beside THEN {rs} ELSE {})
  /\ UNCHANGED converted

RestripeInit == Init /\ converted = {} /\ rs = IdleRs
RestripeSpec == RestripeInit /\ [][ServerStep \/ RestripeStep]_rvars

-----------------------------------------------------------------------------
(* Properties: those of ObjectStore (VisibleInPlace, which also holds through *)
(* the swap and its clean-up), with restriping; and this one.                *)

(* What a reader may list of a stored object is each of its stripes, exactly *)
(* once, at every step of a restripe ("atomically swap", TDD 3) and of the   *)
(* recovery of one that was cut short.                                       *)
ListedIsWhole ==
  \A o \in ObjId : object[o].state = "committed" =>
    /\ {stripe[s].seq : s \in VisibleStripes(o)} = 0 .. (object[o].size - 1)
    /\ \A s, t \in VisibleStripes(o) : stripe[s].seq = stripe[t].seq => s = t

-----------------------------------------------------------------------------
(* What restripe_object relies on, beside FilesInv (see RestripeProofs).     *)

RsPc == {"idle", "read", "insert", "write", "giveup", "rows", "swap", "unlink", "undo", "undone"}
RsLocals == [pc: RsPc, obj: ObjId \cup {0}, old: SUBSET StripeId, todo: SUBSET StripeId,
             from: StripeId \cup {None}, sid: StripeId \cup {None}, rows: [Shard -> ShardRow],
             new: SUBSET StripeId, doomed: SUBSET File]
InFlight == {"write", "giveup", "rows"}
Converting == {"read", "insert", "swap"} \cup InFlight

(* A process at a step holds what the step uses, and only while it serves.   *)
RsOK ==
  /\ rs \in RsLocals
  /\ rs.pc = "idle" => rs = IdleRs
  /\ rs.pc # "idle" => Serving
  /\ rs.pc \in Converting \cup {"undo", "undone"} => rs.obj \in ObjId
  /\ rs.pc \in InFlight <=> rs.sid # None
  /\ rs.pc \in InFlight \cup {"insert"} => rs.from \in rs.todo
  /\ rs.todo \subseteq rs.old
  /\ rs.pc = "swap" => rs.todo = {}
  /\ rs.pc \notin Converting \cup {"undo", "undone"} => rs.new = {} /\ rs.old = {}

(* The stripes it writes are nobody else's: pending, or deleted under it.    *)
Drafts == rs.new \cup ({rs.sid} \ {None})
DraftsApart ==
  /\ rs.sid \notin rs.new
  /\ \A s \in Drafts : /\ stripe[s].state \in {"pending", "gone"}
                       /\ \A k \in Key : w[k].pc \in {"shards", "giveup"} => w[k].sid # s

(* What it replaces was listed; what it still unlinks is gone.               *)
ReplacesListed ==
  /\ \A s \in rs.old : stripe[s].state \in Visible \cup {"gone"}
  /\ \A f \in rs.doomed : stripe[f[2]].state = "gone"

(* What it has written is as good as what a put commits.                     *)
Written(s, rows) ==
  /\ \A i \in Shard : rows[i].disk # None => <<rows[i].disk, s, i>> \in files
  /\ Cardinality({i \in Shard : rows[i].disk # None}) >= Need
DraftsWritten ==
  /\ \A i, j \in Shard : i # j /\ rs.rows[i].disk # None => rs.rows[i].disk # rs.rows[j].disk
  /\ rs.pc = "rows" /\ stripe[rs.sid].state = "pending" => Written(rs.sid, rs.rows)
  /\ rs.pc # "undone" => \A s \in rs.new : stripe[s].state = "pending" => Written(s, shard[s])

RestripeFilesInv == FilesInv /\ RsOK /\ DraftsApart /\ ReplacesListed /\ DraftsWritten

(* Where no call for its object runs: nobody touches the object.             *)
ObjectAtRest ==
  rs.pc \in Converting \cup {"undo", "undone"} =>
    /\ object[rs.obj].state # "none"
    /\ \A k \in Key : KeyRow(k, rs.obj) => w[k].pc = "idle"
    /\ \A s \in Drafts : stripe[s].state = "pending" /\ stripe[s].obj = rs.obj

(* The new stripes carry the numbers of the old ones that are done.          *)
DraftsNumbered ==
  rs.pc \in Converting =>
    /\ rs.old = VisibleStripes(rs.obj)
    /\ rs.pc \in InFlight => stripe[rs.sid].seq = stripe[rs.from].seq
    /\ object[rs.obj].state = "committed" =>
         /\ \A s \in rs.new : \E t \in rs.old \ rs.todo : stripe[t].seq = stripe[s].seq
         /\ \A t \in rs.old \ rs.todo : \E s \in rs.new : stripe[s].seq = stripe[t].seq
         /\ \A s, t \in rs.new : stripe[s].seq = stripe[t].seq => s = t

RestripeInv ==
  RestripeFilesInv /\ StripesSoFar /\ CallsMatch /\ ListedIsWhole /\ ObjectAtRest /\ DraftsNumbered
=============================================================================
