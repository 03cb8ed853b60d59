------------------------------ MODULE Rebuild ------------------------------
(***************************************************************************)
(* Replacing a disk (rebuild.py): a task moves every shard off the old     *)
(* disk with repair_stripe, beside everything StripeRepair describes, and  *)
(* then retires it.  The worker runs the tasks that are queued or running, *)
(* so a task goes on after a crash, from the beginning.                    *)
(***************************************************************************)
EXTENDS StripeRepair

VARIABLES
  task,  \* the row of rebuild_tasks
  job    \* the locals of run_task

jobVars == <<task, job>>
rvars == <<vars, jobVars>>

NoTask == [st |-> "none", src |-> None, dst |-> None]
Task == [st: {"none", "queued", "running", "done", "failed"},
         src: Disk \cup {None}, dst: Disk \cup {None}]

JobPc == {"idle", "batch", "each", "before", "repair", "count", "detach",
          "retire", "open"}
Job == [pc: JobPc, ids: SUBSET StripeId, sid: StripeId \cup {None},
        before: 0 .. (K + M), failed: BOOLEAN]
IdleJob == [pc |-> "idle", ids |-> {}, sid |-> None, before |-> 0, failed |-> FALSE]

OnSound(s, d) == {i \in Shard : shard[s][i] = [disk |-> d, state |-> "ok"]}   \* mutant
On(s, d) == {i \in Shard : shard[s][i].disk = d}

(* replace_disk: the new disk is added, the task is queued.  Bound: once.    *)
Replace(src, dst) ==
  /\ task.st = "none"
  /\ diskStatus[src] # "absent"
  /\ diskStatus[dst] = "absent"
  /\ diskStatus' = [diskStatus EXCEPT ![dst] = "online"]
  /\ task' = [st |-> "queued", src |-> src, dst |-> dst]
  /\ UNCHANGED <<up, files, rotten, tables, th, call, hc, bounds, job>>

(* pending_tasks, and the begin of run_task.                                 *)
PendingTaskQueued == task.st = "queued"   \* mutant: an interrupted task is not found
PendingTask == task.st \in {"queued", "running"}
JobStart ==
  /\ job.pc = "idle"
  /\ PendingTask
  /\ task' = [task EXCEPT !.st = "running"]
  /\ diskStatus' = [diskStatus EXCEPT ![task.dst] = "rebuilding"]
  /\ job' = [IdleJob EXCEPT !.pc = "batch"]
  /\ UNCHANGED <<up, files, rotten, tables, th, call, hc, bounds>>

(* The stripes that have a row on the old disk; none: the task is finished,  *)
(* and its status is stored.                                                 *)
JobBatch ==
  /\ job.pc = "batch"
  /\ LET ids == {s \in StripeId : On(s, task.src) # {}} IN
       IF ids # {}
       THEN job' = [job EXCEPT !.pc = "each", !.ids = ids] /\ UNCHANGED task
       ELSE /\ job' = [job EXCEPT !.pc = "retire"]
            /\ task' = [task EXCEPT !.st = IF job.failed THEN "failed" ELSE "done"]
  /\ UNCHANGED vars

JobEachForgets(s) ==   \* mutant
  /\ job.pc = "each"
  /\ s \in job.ids
  /\ job' = [job EXCEPT !.pc = "before", !.ids = @ \ {s},
                        !.before = Cardinality(On(s, task.src))]
  /\ UNCHANGED <<vars, task>>
JobEach(s) ==
  /\ job.pc = "each"
  /\ s \in job.ids
  /\ job' = [job EXCEPT !.pc = "before", !.ids = @ \ {s}, !.sid = s,
                        !.before = Cardinality(On(s, task.src))]
  /\ UNCHANGED <<vars, task>>

JobEachEnds ==
  /\ job.pc = "each"
  /\ job.ids = {}
  /\ job' = [job EXCEPT !.pc = "batch"]
  /\ UNCHANGED <<vars, task>>

(* repair_stripe(sid, force_move_from={source}) *)
JobRepair ==
  /\ job.pc = "before"
  /\ Begin(Rebuilder, job.sid, {task.src})
  /\ job' = [job EXCEPT !.pc = "repair"]
  /\ UNCHANGED task

(* The stripe was deleted: repair_stripe returns at once. *)
JobSkip ==
  /\ job.pc = "before"
  /\ stripe[job.sid] \notin Visible
  /\ job' = [job EXCEPT !.pc = "count"]
  /\ UNCHANGED <<vars, task>>

JobRepairReturns ==
  /\ RepairReturns(Rebuilder)
  /\ job' = [job EXCEPT !.pc = "count"]
  /\ UNCHANGED task

(* Not one shard moved: the rows are to be detached. *)
JobCount ==
  /\ job.pc = "count"
  /\ IF Cardinality(On(job.sid, task.src)) = job.before
     THEN job' = [job EXCEPT !.pc = "detach", !.failed = @ \/ job.before > 0]
     ELSE job' = [job EXCEPT !.pc = "each", !.sid = None, !.before = 0]
  /\ UNCHANGED <<vars, task>>

JobDetach ==
  /\ job.pc = "detach"
  /\ shard' = [shard EXCEPT ![job.sid] =
       [i \in Shard |-> IF i \in On(job.sid, task.src)
                        THEN [disk |-> None, state |-> "missing"]
                        ELSE shard[job.sid][i]]]
  /\ job' = [job EXCEPT !.pc = "each", !.sid = None, !.before = 0]
  /\ UNCHANGED <<disks, files, rotten, stripe, th, call, hc, bounds, task>>

(* No row named the old disk a moment ago: it is retired, the new one online. *)
JobRetire ==
  /\ job.pc = "retire"
  /\ diskStatus' = [diskStatus EXCEPT ![task.src] = "retired"]
  /\ job' = [job EXCEPT !.pc = "open"]
  /\ UNCHANGED <<up, files, rotten, tables, th, call, hc, bounds, task>>

JobOpen ==
  /\ job.pc = "open"
  /\ diskStatus' = [diskStatus EXCEPT ![task.dst] = "online"]
  /\ job' = IdleJob
  /\ UNCHANGED <<up, files, rotten, tables, th, call, hc, bounds, task>>

(* An exception anywhere in the loop fails the task, and nobody runs it again. *)
JobRaises ==
  /\ job.pc # "idle"
  /\ Raises(Rebuilder)
  /\ task' = [task EXCEPT !.st = "failed"]
  /\ job' = IdleJob
  /\ UNCHANGED <<disks, files, rotten, tables, call, hc, damage, faults>>

(* The server shuts down between two batches.  It counts as a crash. *)
JobStops ==
  /\ job.pc = "batch"
  /\ Crash
  /\ task' = [task EXCEPT !.st = "queued"]
  /\ job' = IdleJob

-----------------------------------------------------------------------------
RInit == Init /\ task = NoTask /\ job = IdleJob

JobStep ==
  \/ JobStart
  \/ JobBatch
  \/ \E s \in StripeId : JobEach(s)
  \/ JobEachEnds
  \/ JobRepair
  \/ JobSkip
  \/ RepairStep(Rebuilder) /\ UNCHANGED jobVars
  \/ JobRepairReturns
  \/ JobCount
  \/ JobDetach
  \/ JobRetire
  \/ JobOpen

RNext ==
  \/ (ServerNext \/ EnvNext) /\ UNCHANGED jobVars
  \/ Crash /\ job' = IdleJob /\ UNCHANGED task
  \/ \E src, dst \in Disk : Replace(src, dst)
  \/ JobStep
  \/ JobRaises
  \/ JobStops

RSpec == RInit /\ [][RNext]_rvars

(* The rebuild worker polls every ten seconds and runs what it finds. *)
RFairSpec == RSpec /\ WF_rvars(JobStep)

-----------------------------------------------------------------------------
(* Properties.                                                               *)

(* The task and the locals of its thread hold values of their type, and so   *)
(* does what StripeRepair keeps; the thread repairs for the task alone.      *)
JobTypeOK ==
  /\ TypeOK
  /\ task \in Task
  /\ job \in Job
  /\ job.pc \in {"before", "repair", "count", "detach"} => job.sid \in StripeId
  /\ task.st # "none" => task.src \in Disk /\ task.dst \in Disk
  /\ job.pc # "idle" => task.st # "none"
  /\ job.pc # "repair" => th[Rebuilder].pc = "idle"

(* A replacement costs no data while all disks answer and fewer than M files *)
(* were damaged, whatever repairs, puts and crashes come between its steps   *)
(* (run_task, repair_stripe): see DataKept.                                  *)
ReplacementKeepsData ==
  faults = 0 /\ damage < M =>
    \A s \in Promised : stripe[s] \in Visible => Cardinality(Kept(s)) >= K

(* With M files damaged, which the code allows for, and no crash: the last K *)
(* shards would have to survive a scrub and a rebuild of one stripe, and do  *)
(* not (run_task counts the rows left on the old disk).                      *)
ReplacementKeepsLastShards ==
  faults = 0 /\ crashes = 0 /\ damage <= M =>
    \A s \in Stored : stripe[s] \in Visible => Cardinality(Kept(s)) >= K

(* "Foreground reads and writes continue meanwhile": while fewer than M files *)
(* were damaged no read or repair, with whatever copy of the rows, takes a   *)
(* stripe that was written whole for unrecoverable (run_task, _read_stripe). *)
ReadsContinue ==
  faults = 0 /\ damage < M => \A s \in Promised : stripe[s] # "unrecoverable"

(* A retired disk is empty as far as the rows know: nothing will be read     *)
(* from it or repaired on it (run_task,                                      *)
(* test_replace_failed_disk_rebuilds_all_shards).                            *)
RetiredIsEmpty ==
  \A s \in StripeId, i \in Shard :
    shard[s][i].disk # None => diskStatus[shard[s][i].disk] # "retired"

(* The old disk of a task that is done is retired and stays so.              *)
OldDiskRetired ==
  task.st = "done" /\ job.pc \in {"idle", "open"} => diskStatus[task.src] = "retired"

(* "Detach unrecoverable/unplaceable shards" (run_task): what is detached is *)
(* not an intact shard on a disk that reads, with a writable disk that holds *)
(* no shard of the stripe waiting.                                           *)
DetachesHopelessOnly ==
  [][\A i \in Shard :
       JobDetach /\ shard[job.sid][i].disk = task.src =>
         \/ ~Sound(job.sid, i)
         \/ ~up[task.src] \/ diskStatus[task.src] \notin Readable
         \/ \A d \in Disk : ~up[d] \/ diskStatus[d] \notin Writable \/ On(job.sid, d) # {}
    ]_rvars

(* A replacement that was asked for comes to an end.                         *)
TaskEnds == task.st \in {"queued", "running"} ~> task.st \in {"done", "failed"}

-----------------------------------------------------------------------------
(* The inductive invariant behind ReadsContinue and ReplacementKeepsData,    *)
(* beside any scrubs, reads, puts and crashes.  A shard is firm if a read    *)
(* that begins now gets it and every thread at the stripe has it or will get *)
(* it from where its own copy of the rows says.  Nothing moves a shard that  *)
(* is firm but the rebuild, off the old disk.                                *)
Ahead(r, i) == \/ r.pc \in {"map", "read"} /\ r.next <= i
               \/ r.pc = "mark" /\ r.next < i
Trusts(r, i, d) ==
  /\ r.rows[i].disk = d
  /\ \/ i \in r.got
     \/ /\ Ahead(r, i)
        /\ r.rows[i].state # "missing"
        /\ r.pc # "map" => r.map[d] \in Readable
At(r, s) == r.pc # "idle" /\ r.sid = s
Firm(s, i) ==
  /\ Sound(s, i)
  /\ diskStatus[shard[s][i].disk] \in Readable
  /\ \A t \in Thread : At(th[t], s) => Trusts(th[t], i, shard[s][i].disk)
Doubtful(s) == {i \in Shard : ~Firm(s, i)}

(* What is in doubt or still on the old disk - any one disk, before it is    *)
(* known which - is the damage and one shard.                                *)
AtRisk(s, d) == Doubtful(s) \cup On(s, d)
RiskBound(s) ==
  IF task.st = "none"
  THEN /\ Cardinality(Doubtful(s)) <= damage
       /\ \A d \in Disk : Cardinality(AtRisk(s, d)) <= damage + 1
  ELSE Cardinality(AtRisk(s, task.src)) <= damage + 1
RiskOK == \A s \in Promised : stripe[s] \in Visible => RiskBound(s)

(* A repair writes what it could not read or has to move; a put chose disks  *)
(* that are not used twice, and still read unless it is the old disk.        *)
OldDisk == IF task.st = "none" THEN {} ELSE {task.src}
Mending == {"mend", "unlink", "update"}
Planned(r) ==
  /\ \A i \in r.got : i < r.next
  /\ r.pc \in Mending => \A i \in r.todo : i \notin r.got \/ r.rows[i].disk \in r.force
PlansOK ==
  \A t \in Thread : /\ Planned(th[t])
                    /\ th[t].force \subseteq IF t = Rebuilder THEN OldDisk ELSE {}
PutsOK ==
  \A s \in StripeId, i \in Shard : call[s].pc = "write" /\ call[s].at[i] # None =>
    /\ \A j \in Shard : j # i => call[s].at[j] # call[s].at[i]
    /\ diskStatus[call[s].at[i]] \in Readable \/ call[s].at[i] \in OldDisk
AllUp == \A d \in Disk : up[d]
WellInv ==
  /\ JobTypeOK /\ LifeOK /\ ReadsContinue
  /\ faults = 0 => AllUp /\ PlansOK /\ PutsOK /\ RiskOK

(* Behind LastFileStays: with no damage either, one shard at most is ever    *)
(* repaired, a scrub puts it where its row says, and only the rebuild has an *)
(* old copy to unlink.                                                       *)
RowsApart(rows) == \A i, j \in Shard : i # j /\ rows[i].disk # None => rows[i].disk # rows[j].disk
MendOK(r) ==
  /\ RowsApart(r.rows)
  /\ r.pc = "mend" => \A i \in r.todo : r.rows[i].disk \notin r.used
  /\ r.pc \in Mending => \A j \in r.got :
       r.rows[j].disk \notin r.force => r.rows[j].disk \in r.used \cup {None}
  /\ r.pc \in {"unlink", "update"} => r.at \notin r.used \cup r.force
NewCopyThere(t) ==
  th[t].pc = "unlink" =>
    /\ t = Rebuilder
    /\ \A i \in Shard : AtShard(t, "unlink", i) => <<th[t].at, th[t].sid, i>> \in files
NoDegraded == \A d \in Disk : diskStatus[d] # "degraded" /\ \A t \in Thread : th[t].map[d] # "degraded"
CleanInv ==
  /\ WellInv
  /\ faults = 0 /\ damage = 0 =>
       /\ NoDegraded
       /\ \A s \in StripeId : stripe[s] \in Visible => RowsApart(shard[s])
       /\ \A t \in Thread : th[t].pc # "idle" /\ stripe[th[t].sid] \in Visible =>
            MendOK(th[t]) /\ NewCopyThere(t)
=============================================================================
