---------------------------- MODULE LiveRecovery ----------------------------
(***************************************************************************)
(* `cloudstore scrub` beside a running server: cmd_scrub (cli.py) opens    *)
(* the same database in a process of its own and calls recover_pending     *)
(* before it scrubs.  The per-key locks of the server do not reach it, and *)
(* recover_pending does not look at the age of what is pending.            *)
(***************************************************************************)
EXTENDS ObjectStore

VARIABLE cli   \* the process `cloudstore scrub`

cvars == <<vars, cli>>

IdleCli == [pc |-> "idle", pending |-> {}, disks |-> {}, doomed |-> {}]
CliState == [pc: {"idle", "sweep", "drop", "objects", "unlink"},
             pending: SUBSET StripeId, disks: SUBSET Disk, doomed: SUBSET File]

SetC(c) == cli' = c

(* The pending stripes and the readable disks, as they are now. *)
CliBegin ==
  /\ Serving
  /\ cli.pc = "idle"
  /\ SetC([IdleCli EXCEPT !.pc = "sweep", !.pending = PendingStripes,
             !.disks = {d \in Disk : diskStatus[d] \in Readable}])
  /\ UNCHANGED vars

(* Their files, by name. *)
CliSweep ==
  /\ cli.pc = "sweep"
  /\ files' = Unlinked({f \in files : f[2] \in cli.pending /\ f[1] \in cli.disks})
  /\ SetC([cli EXCEPT !.pc = IF cli.pending = {} THEN "objects" ELSE "drop"])
  /\ UNCHANGED <<diskStatus, up, dbVars, w, rd, bootVars, faults>>

(* Every stripe that is pending by now. *)
CliDrop ==
  /\ cli.pc = "drop"
  /\ DropStripes(PendingStripes)
  /\ SetC([cli EXCEPT !.pc = "objects"])
  /\ UNCHANGED <<diskStatus, up, files, object, w, rd, bootVars, faults>>

(* _delete_object_rows of a pending object. *)
CliObject(o) ==
  /\ cli.pc = "objects"
  /\ Unfinished(o)
  /\ object' = [object EXCEPT ![o] = NoObject]
  /\ DropStripes(StripesOf(o))
  /\ Disturb(o)
  /\ SetC([cli EXCEPT !.pc = "unlink", !.doomed = RowFiles(StripesOf(o))])
  /\ UNCHANGED <<diskStatus, up, files, w, bootVars, faults>>

CliUnlink ==
  /\ cli.pc = "unlink"
  /\ files' = Unlinked(cli.doomed)
  /\ SetC([cli EXCEPT !.pc = "objects", !.doomed = {}])
  /\ UNCHANGED <<diskStatus, up, dbVars, w, rd, bootVars, faults>>

CliEnd ==
  /\ cli.pc = "objects"
  /\ SetC(IdleCli)
  /\ UNCHANGED vars

CliStep == CliBegin \/ CliSweep \/ CliDrop \/ (\E o \in ObjId : CliObject(o))
           \/ CliUnlink \/ CliEnd

(* A thread whose stripe or object row the other process has dropped: an     *)
(* INSERT for it breaks a foreign key, so only PutRaises is left.            *)
StripeOwned(k) == stripe[w[k].sid].state = "pending"
ObjectOwned(k) == object[w[k].obj].state # "none"   \* by row id only

ServerStep ==
  /\ Next
  /\ \A k \in Key : /\ StripeBegin(k) => ObjectOwned(k)
                    /\ StripeCommit(k) => StripeOwned(k)
                    /\ PutCommit(k) => ObjectOwned(k)
  /\ UNCHANGED cli

(* An UPDATE of a dropped row changes nothing: put_stream returns the id of *)
(* an object that is no longer there.                                        *)
PutCommitNothing(k) ==
  /\ w[k].pc = "stripe"
  /\ w[k].seq = w[k].len
  /\ ~ObjectOwned(k)
  /\ SetW(k, IdleWriter)
  /\ UNCHANGED <<diskStatus, up, files, dbVars, rd, bootVars, faults, cli>>

LiveInit == Init /\ cli = IdleCli
LiveNext == ServerStep \/ CliStep \/ \E k \in Key : PutCommitNothing(k)
LiveSpec == LiveInit /\ [][LiveNext]_cvars

(* What recovery unlinks is garbage: "`pending` stripes older than the       *)
(* process start are garbage (their object never committed): their shard     *)
(* files are deleted" (TDD 4.7).  A stripe whose commit goes through keeps   *)
(* the files its rows name.                                                  *)
RecoveryKeepsCommitted ==
  \A s \in StripeId, i \in Shard :
    shard[s][i].disk # None => <<shard[s][i].disk, s, i>> \in files
=============================================================================
