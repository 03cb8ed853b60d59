------------------------------ MODULE Uploads ------------------------------
(***************************************************************************)
(* One content on its way from a client to the library: resumable uploads  *)
(* (api/tus.py), the ingest queue (ingest/pipeline.py), the expiry of      *)
(* uploads (workers), the sync engine of a phone (SyncEngine.swift,        *)
(* TusClient.swift) and the upload page (web/src/tus.ts).  The content has *)
(* Length pieces; a piece is TRUE, or FALSE if the file was edited since   *)
(* it was hashed.  Clients send no more than the declared length, and no   *)
(* upload is empty.  A uuid is used again when nothing refers to it.       *)
(* Bound: MaxTrouble lost requests, edits, failures of the ingest,         *)
(* expiries of an upload in use, crashes of the server and kills of the    *)
(* app, together.                                                          *)
(***************************************************************************)
EXTENDS Naturals, Sequences, FiniteSets

CONSTANTS
  Upload,        \* ids of uploads
  Client,        \* each an app on a phone or a web page
  Length,        \* pieces of the content
  MaxFailures,   \* a client gives up after as many failures in a row
  MaxAttempts,   \* attempts of an item, and of an ingest job
  MaxTrouble,
  Gone

ASSUME LengthAssumption == Length \in Nat \ {0} /\ MaxAttempts \in Nat \ {0} /\ MaxFailures \in Nat
ASSUME GoneAssumption == Gone \notin Upload \cup Client

VARIABLES
  row,      \* table uploads: offset, whether completed, whether past expires_at
  staging,  \* staging/uploads/<id>.part
  srv,      \* the POST or the PATCH that works on the upload
  job,      \* table ingest_jobs, one at most for an upload
  last,     \* the upload of the newest job
  worker,   \* the ingest worker
  object,   \* the object media/<sha>
  file,     \* the row in files is there
  linked,   \* device_items: the phones that have the content
  phone,    \* the clients that are phones
  sweep,    \* the maintenance worker
  cl,       \* the clients
  trouble

server == <<row, staging, srv, sweep>>
ingest == <<job, last, worker, object, file, linked, phone>>
vars == <<server, ingest, cl, trouble>>

Idle == [pc |-> "idle"]
NoSweep == [pc |-> "idle", left |-> {}]
NoJob == [state |-> "none", tries |-> 0]
NewItem == [pc |-> "idle", st |-> "new", url |-> Gone, att |-> 0, u |-> Gone, at |-> 0, failures |-> 0]
Min2(a, b) == IF a < b THEN a ELSE b

Trouble == trouble < MaxTrouble /\ trouble' = trouble + 1

Init ==
  /\ row = [u \in Upload |-> Gone] /\ staging = [u \in Upload |-> Gone]
  /\ srv = [u \in Upload |-> Idle] /\ sweep = NoSweep
  /\ job = [u \in Upload |-> NoJob] /\ last = Gone
  /\ worker = Idle /\ object = Gone /\ file = FALSE /\ linked = {}
  /\ phone \in SUBSET Client
  /\ cl = [c \in Client |-> NewItem]
  /\ trouble = 0

-----------------------------------------------------------------------------
(* The clients between two requests.                                         *)
Going(c) == cl[c].pc = "loop" /\ cl[c].at < Length
Set(c, new) == cl' = [cl EXCEPT ![c] = new]
(* The loop of both clients: an answer 204 carries the new offset; after     *)
(* anything else it asks for the offset, until it failed too often.          *)
Accepted(c, off) == [cl[c] EXCEPT !.pc = "loop", !.at = off, !.failures = 0]
Failed(c) == [cl[c] EXCEPT !.pc = "retry", !.failures = @ + 1]
(* markFailed of the sync engine; the page shows the error.                  *)
GivenUp(c, rehash) ==
  IF c \notin phone THEN [cl[c] EXCEPT !.pc = "error", !.u = Gone]
  ELSE [cl[c] EXCEPT
         !.pc = "idle", !.u = Gone, !.failures = 0,
         !.att = Min2(@ + 1, MaxAttempts),
         !.url = IF rehash THEN Gone ELSE @,
         !.st = IF rehash THEN "new" ELSE IF cl[c].att + 1 >= MaxAttempts THEN "failed" ELSE "needsUpload"]
(* _row: an upload that expired before it was complete is unknown.           *)
Known(u) == row[u] # Gone /\ (row[u].done \/ ~row[u].late)

Retry(c) ==
  /\ cl[c].pc = "retry"
  /\ Set(c, IF cl[c].failures > MaxFailures THEN GivenUp(c, FALSE)
            ELSE [cl[c] EXCEPT !.pc = "loop", !.at = IF Known(cl[c].u) THEN row[cl[c].u].off ELSE @])
  /\ UNCHANGED <<server, ingest, trouble>>

(* A pass of the sync engine: hash, then reconcile.  The server looks for    *)
(* the file and links it, and looks at the queue afterwards.                 *)
SyncPass(c) ==
  /\ c \in phone /\ cl[c].pc = "idle"
  /\ LET st == IF cl[c].st = "new" THEN "hashed" ELSE cl[c].st IN
     IF c \in linked \/ file
     THEN Set(c, [cl[c] EXCEPT !.st = "synced"]) /\ linked' = linked \cup {c}
     ELSE Set(c, [cl[c] EXCEPT !.st = st, !.pc = "plan"]) /\ UNCHANGED linked
  /\ UNCHANGED <<server, job, last, worker, object, file, phone, trouble>>
PendingAny == \E u \in Upload : job[u].state # "none"
Pending == \E u \in Upload : job[u].state \in {"queued", "running"}
PlanJobs(c) ==
  /\ cl[c].pc = "plan"
  /\ LET st == IF Pending \/ cl[c].st = "uploading" THEN cl[c].st ELSE "needsUpload" IN
     Set(c, IF st \in {"needsUpload", "uploading"}
            THEN [cl[c] EXCEPT !.st = "uploading", !.pc = "open"]
            ELSE [cl[c] EXCEPT !.pc = "idle"])
  /\ UNCHANGED <<server, ingest, trouble>>
(* The page asks by-hash, which answers for a job in any state.              *)
PageStart(c) ==
  /\ c \notin phone /\ cl[c].pc = "idle"
  /\ Set(c, [cl[c] EXCEPT !.pc = IF file \/ last # Gone THEN "skipped" ELSE "open"])
  /\ UNCHANGED <<server, ingest, trouble>>

(* create: the file, then the row, which may fail and leaves the file then,  *)
(* as a power cut does.  A file that no row names is empty, and nothing looks *)
(* at it again.                                                              *)
Unused(u) ==
  /\ row[u] = Gone /\ staging[u] \in {Gone, <<>>} /\ srv[u] = Idle /\ u # last
  /\ job[u].state \in {"none", "done", "failed"} /\ u \notin sweep.left
  /\ \A c \in Client : cl[c].u # u
Resumable(c) == cl[c].url # Gone /\ Known(cl[c].url)
Creating(c) == [pc |-> "create", off |-> 0, sync |-> 0, to |-> c]
CreateFile(c, u) ==
  /\ cl[c].pc = "open" /\ ~Resumable(c)
  /\ Unused(u) /\ u = CHOOSE x \in Upload : Unused(x)     \* any one will do
  /\ staging' = [staging EXCEPT ![u] = <<>>]
  /\ srv' = [srv EXCEPT ![u] = Creating(c)]
  /\ job' = [job EXCEPT ![u] = NoJob]
  /\ cl' = [x \in Client |->      \* a url of the old upload is dead
       LET url == IF cl[x].url = u THEN Gone ELSE cl[x].url IN
       IF x = c THEN [cl[x] EXCEPT !.pc = "create", !.u = u, !.at = 0, !.url = url] ELSE [cl[x] EXCEPT !.url = url]]
  /\ UNCHANGED <<row, sweep, last, worker, object, file, linked, phone, trouble>>
(* What the server sends reaches the client if it still waits for it.        *)
Tell(u, new(_)) ==
  cl' = IF srv[u].to = Gone THEN cl ELSE [cl EXCEPT ![srv[u].to] = new(srv[u].to)]
CreateRow(u) ==
  /\ srv[u].pc = "create"
  /\ row' = [row EXCEPT ![u] = [off |-> 0, done |-> FALSE, late |-> FALSE]]
  /\ srv' = [srv EXCEPT ![u] = Idle]
  /\ Tell(u, LAMBDA c : [cl[c] EXCEPT !.pc = "loop"])
  /\ UNCHANGED <<staging, sweep, ingest, trouble>>
CreateFails(u) ==
  /\ srv[u].pc = "create" /\ Trouble
  /\ srv' = [srv EXCEPT ![u] = Idle]
  /\ Tell(u, LAMBDA c : GivenUp(c, FALSE))
  /\ UNCHANGED <<row, staging, sweep, ingest>>
Resume(c) ==
  /\ cl[c].pc = "open" /\ Resumable(c)
  /\ Set(c, [cl[c] EXCEPT !.pc = "loop", !.u = cl[c].url, !.at = row[cl[c].url].off])
  /\ UNCHANGED <<server, ingest, trouble>>

(* The loop ends at the offset Length: the phone takes the item for synced,  *)
(* the page polls by-hash for the end of the ingest, for two minutes.        *)
UploadEnds(c) ==
  /\ cl[c].pc = "loop" /\ cl[c].at = Length
  /\ Set(c, IF c \notin phone THEN [cl[c] EXCEPT !.pc = "poll", !.u = Gone]
            ELSE [cl[c] EXCEPT !.pc = "idle", !.st = "synced", !.url = cl[c].u, !.u = Gone, !.failures = 0])
  /\ UNCHANGED <<server, ingest, trouble>>
PollEnds(c) ==
  /\ cl[c].pc = "poll"
  /\ \/ Set(c, [cl[c] EXCEPT !.pc = "done"])
     \/ ~file /\ last # Gone /\ job[last].state = "failed" /\ Set(c, [cl[c] EXCEPT !.pc = "error"])
  /\ UNCHANGED <<server, ingest, trouble>>
AppKilled(c) ==
  /\ c \in phone /\ cl[c].pc # "idle" /\ Trouble
  /\ Set(c, [cl[c] EXCEPT !.pc = "idle", !.u = Gone, !.at = 0, !.failures = 0])
  /\ srv' = [u \in Upload |-> IF srv[u].pc # "idle" /\ srv[u].to = c THEN [srv[u] EXCEPT !.to = Gone] ELSE srv[u]]
  /\ UNCHANGED <<row, staging, sweep, ingest>>

-----------------------------------------------------------------------------
(* patch, until it has opened and truncated the file; "sync" is how much of  *)
(* the file is known to be on the disk.                                      *)
Opened(u, c) == [pc |-> "body", off |-> row[u].off, sync |-> row[u].off, to |-> c]
Truncated(u) == SubSeq(staging[u], 1, row[u].off)
PatchBegin(c) ==
  /\ Going(c)
  /\ LET u == cl[c].u IN
     IF srv[u] # Idle \/ ~Known(u)                       \* 423, 404
     THEN Set(c, Failed(c)) /\ UNCHANGED <<srv, staging>>
     ELSE IF row[u].done                                 \* 204
     THEN Set(c, Accepted(c, row[u].off)) /\ UNCHANGED <<srv, staging>>
     ELSE IF cl[c].at # row[u].off \/ staging[u] = Gone  \* 409, 500
     THEN Set(c, Failed(c)) /\ UNCHANGED <<srv, staging>>
     ELSE /\ srv' = [srv EXCEPT ![u] = Opened(u, c)]
          /\ staging' = [staging EXCEPT ![u] = Truncated(u)]
          /\ Set(c, [cl[c] EXCEPT !.pc = "wait"])
  /\ UNCHANGED <<row, sweep, ingest, trouble>>
(* The file may have been unlinked under the writer, who does not notice.    *)
PatchPart(u) ==
  /\ srv[u].pc = "body" /\ srv[u].off < Length
  /\ \E good \in BOOLEAN :
       /\ ~good => srv[u].to \in Client \ phone /\ Trouble
       /\ good => UNCHANGED trouble
       /\ staging' = [staging EXCEPT ![u] = IF @ = Gone THEN Gone ELSE Append(@, good)]
  /\ srv' = [srv EXCEPT ![u].off = @ + 1]
  /\ UNCHANGED <<row, sweep, ingest, cl>>
(* The flush in "finally", whether the body ended or the connection did.     *)
(* Clients send FLUSH_EVERY bytes at a time, so the flush within the loop    *)
(* comes at the end too.                                                     *)
PatchFlush(u) ==
  /\ srv[u].pc = "body" /\ srv[u].sync < srv[u].off
  /\ srv' = [srv EXCEPT ![u].sync = srv[u].off, ![u].pc = "record"]
  /\ UNCHANGED <<row, staging, sweep, ingest, cl, trouble>>
RecordedEarly(u) == srv[u].pc = "body"
Recorded(u) == srv[u].pc = "record"
Store(u) == IF row[u] = Gone THEN row ELSE [row EXCEPT ![u].off = srv[u].off]
PatchRecord(u) ==
  /\ Recorded(u)
  /\ row' = Store(u)
  /\ \/ srv[u].off < Length       \* 204, or ClientDisconnect
        /\ srv' = [srv EXCEPT ![u] = Idle] /\ Tell(u, LAMBDA c : Accepted(c, srv[u].off))
     \/ srv[u].off = Length
        /\ srv' = [srv EXCEPT ![u].pc = "hash"] /\ UNCHANGED cl
  /\ UNCHANGED <<staging, sweep, ingest, trouble>>
(* The connection ends before the next part.                                 *)
PatchBreaks(u) ==
  /\ srv[u].pc = "body" /\ srv[u].to = Gone /\ srv[u].sync = srv[u].off
  /\ row' = Store(u)
  /\ srv' = [srv EXCEPT ![u] = Idle]
  /\ UNCHANGED <<staging, sweep, ingest, cl, trouble>>
(* A client that gets no answer: the loop goes on, a create is given up.     *)
Unanswered(c) ==
  CASE cl[c].pc = "wait" -> Failed(c)
    [] cl[c].pc = "create" -> GivenUp(c, FALSE)
    [] OTHER -> cl[c]
ConnectionLost(c) ==
  /\ cl[c].pc \in {"create", "wait"} /\ Trouble
  /\ srv' = [srv EXCEPT ![cl[c].u].to = Gone]
  /\ Set(c, Unanswered(c))
  /\ UNCHANGED <<row, staging, sweep, ingest>>

(* _complete: a row or a file that is gone is an exception, the wrong hash   *)
(* a 460; otherwise the job, then the mark in the row.                       *)
Content == [i \in 1 .. Length |-> TRUE]
MatchesLength(u) == staging[u] # Gone /\ Len(staging[u]) = Length
Matches(u) == staging[u] = Content
CompleteHash(u) ==
  /\ srv[u].pc = "hash"
  /\ IF row[u] = Gone \/ staging[u] = Gone
     THEN srv' = [srv EXCEPT ![u] = Idle] /\ Tell(u, Failed) /\ UNCHANGED staging
     ELSE IF Matches(u)
     THEN srv' = [srv EXCEPT ![u].pc = "enqueue"] /\ UNCHANGED <<cl, staging>>
     ELSE /\ srv' = [srv EXCEPT ![u].pc = "reject"] /\ UNCHANGED cl
          /\ staging' = [staging EXCEPT ![u] = Gone]
  /\ UNCHANGED <<row, sweep, ingest, trouble>>
CompleteRejects(u) ==
  /\ srv[u].pc = "reject"
  /\ row' = [row EXCEPT ![u] = Gone]
  /\ srv' = [srv EXCEPT ![u] = Idle]
  /\ Tell(u, LAMBDA c : GivenUp(c, TRUE))
  /\ UNCHANGED <<staging, sweep, ingest, trouble>>
CompleteEnqueue(u) ==
  /\ srv[u].pc = "enqueue"
  /\ job' = [job EXCEPT ![u] = [state |-> "queued", tries |-> 0]] /\ last' = u
  /\ srv' = [srv EXCEPT ![u].pc = "mark"]
  /\ UNCHANGED <<row, staging, sweep, worker, object, file, linked, phone, cl, trouble>>
CompleteMarks(u) ==
  /\ srv[u].pc = "mark"
  /\ row' = IF row[u] = Gone THEN row ELSE [row EXCEPT ![u].done = TRUE]
  /\ srv' = [srv EXCEPT ![u] = Idle]
  /\ Tell(u, LAMBDA c : Accepted(c, Length))
  /\ UNCHANGED <<staging, sweep, ingest, trouble>>

-----------------------------------------------------------------------------
(* Time: an upload nobody works on expires, and a few that are in use.       *)
InUse(u) == srv[u] # Idle \/ \E c \in Client : cl[c].u = u
Expire(u) ==
  /\ row[u] # Gone /\ ~row[u].late
  /\ IF InUse(u) THEN Trouble ELSE UNCHANGED trouble
  /\ row' = [row EXCEPT ![u].late = TRUE]
  /\ UNCHANGED <<staging, srv, sweep, ingest, cl>>
(* _maintenance: the list, then for each its file and its row.               *)
OverdueShort == {u \in Upload : row[u] # Gone /\ row[u].late /\ row[u].off < Length}
Overdue == {u \in Upload : row[u] # Gone /\ row[u].late /\ ~row[u].done}
SweepList ==
  /\ sweep = NoSweep /\ Overdue # {}
  /\ sweep' = [pc |-> "unlink", left |-> Overdue]
  /\ UNCHANGED <<row, staging, srv, ingest, cl, trouble>>
SweepUnlink(u) ==
  /\ sweep.pc = "unlink" /\ u \in sweep.left
  /\ staging' = [staging EXCEPT ![u] = Gone]
  /\ sweep' = [pc |-> "drop", left |-> sweep.left, u |-> u]
  /\ UNCHANGED <<row, srv, ingest, cl, trouble>>
SweepDrop ==
  /\ sweep.pc = "drop"
  /\ row' = [row EXCEPT ![sweep.u] = Gone]
  /\ sweep' = LET left == sweep.left \ {sweep.u} IN
              IF left = {} THEN NoSweep ELSE [pc |-> "unlink", left |-> left]
  /\ UNCHANGED <<staging, srv, ingest, cl, trouble>>
(* A completed upload is forgotten after a day.                              *)
SweepCompleted(u) ==
  /\ sweep = NoSweep
  /\ row[u] # Gone /\ row[u].done /\ row[u].late
  /\ row' = [row EXCEPT ![u] = Gone]
  /\ UNCHANGED <<staging, srv, sweep, ingest, cl, trouble>>

-----------------------------------------------------------------------------
(* run_pending: a job that a crash left running is queued again.             *)
IngestTake(u) ==
  /\ worker = Idle /\ job[u].state \in {"queued", "running"}
  /\ job' = [job EXCEPT ![u] = [state |-> "running", tries |-> Min2(@.tries + 1, MaxAttempts)]]
  /\ worker' = [pc |-> "process", u |-> u]
  /\ UNCHANGED <<server, last, object, file, linked, phone, cl, trouble>>
(* process: a known file is linked; else the object, then the row, then the  *)
(* indexes and the device, and the file in staging goes last.                *)
KnownByObject == object # Gone
KnownContent == file
IngestPut ==
  /\ worker.pc = "process" /\ ~KnownContent /\ Matches(worker.u)
  /\ object' = IF object = Gone THEN staging[worker.u] ELSE object
  /\ worker' = [worker EXCEPT !.pc = "insert"]
  /\ UNCHANGED <<server, job, last, file, linked, phone, cl, trouble>>
IngestInsert ==
  /\ worker.pc = "insert"
  /\ file' = TRUE
  /\ worker' = [worker EXCEPT !.pc = "link"]
  /\ UNCHANGED <<server, job, last, object, linked, phone, cl, trouble>>
IngestLink ==
  /\ worker.pc = "link" \/ (worker.pc = "process" /\ KnownContent)
  /\ linked' = linked \cup phone
  /\ staging' = [staging EXCEPT ![worker.u] = Gone]
  /\ worker' = [worker EXCEPT !.pc = "done"]
  /\ UNCHANGED <<row, srv, sweep, job, last, object, file, phone, cl, trouble>>
IngestDone ==
  /\ worker.pc = "done"
  /\ job' = [job EXCEPT ![worker.u].state = "done"]
  /\ worker' = Idle
  /\ UNCHANGED <<server, last, object, file, linked, phone, cl, trouble>>
Missing == worker.pc = "process" /\ ~KnownContent /\ ~Matches(worker.u)
Later(u) == IF job[u].tries >= MaxAttempts THEN "failed" ELSE "queued"
IngestFails ==
  /\ \/ Missing /\ UNCHANGED trouble
     \/ worker.pc \in {"process", "link"} /\ ~Missing /\ Trouble
  /\ job' = [job EXCEPT ![worker.u].state = Later(worker.u)]
  /\ worker' = Idle
  /\ UNCHANGED <<server, last, object, file, linked, phone, cl>>

-----------------------------------------------------------------------------
(* A power cut: of a file that is being written only what was synced is      *)
(* sure.  Clients that wait notice.                                          *)
Crash ==
  /\ Trouble
  /\ \E keep \in [Upload -> 0 .. Length] :
       /\ \A u \in Upload :
            IF staging[u] = Gone \/ srv[u].pc = "idle"
            THEN keep[u] = IF staging[u] = Gone THEN 0 ELSE Len(staging[u])
            ELSE keep[u] \in srv[u].sync .. Len(staging[u])
       /\ staging' = [u \in Upload |-> IF staging[u] = Gone THEN Gone ELSE SubSeq(staging[u], 1, keep[u])]
  /\ srv' = [u \in Upload |-> Idle] /\ worker' = Idle /\ sweep' = NoSweep
  /\ cl' = [c \in Client |-> Unanswered(c)]
  /\ UNCHANGED <<row, job, last, object, file, linked, phone>>

-----------------------------------------------------------------------------
ClientNext(c) == \/ Retry(c) \/ SyncPass(c) \/ PlanJobs(c) \/ PageStart(c)
                 \/ (\E u \in Upload : CreateFile(c, u)) \/ Resume(c)
                 \/ UploadEnds(c) \/ PollEnds(c) \/ PatchBegin(c)
PatchNext(u) == CreateRow(u) \/ PatchPart(u) \/ PatchFlush(u) \/ PatchRecord(u) \/ PatchBreaks(u)
                \/ CompleteHash(u) \/ CompleteRejects(u) \/ CompleteEnqueue(u) \/ CompleteMarks(u)
SweepNext == SweepList \/ (\E u \in Upload : SweepUnlink(u) \/ SweepCompleted(u)) \/ SweepDrop
IngestNext == (\E u \in Upload : IngestTake(u)) \/ IngestPut \/ IngestInsert \/ IngestLink
              \/ IngestDone \/ IngestFails
Next ==
  \/ \E c \in Client : ClientNext(c) \/ AppKilled(c) \/ ConnectionLost(c)
  \/ \E u \in Upload : PatchNext(u) \/ CreateFails(u) \/ Expire(u)
  \/ SweepNext \/ IngestNext \/ Crash

Spec == Init /\ [][Next]_vars

(* Requests, workers and clients go on; the phone starts a pass again and    *)
(* again; and time passes, however often an upload is looked at.             *)
FairSpec ==
  /\ Spec /\ WF_vars(SweepNext) /\ WF_vars(IngestNext)
  /\ \A c \in Client : WF_vars(ClientNext(c))
  /\ WF_vars(\E u \in Upload : PatchNext(u)) /\ SF_vars(\E u \in Upload : Expire(u))

-----------------------------------------------------------------------------
(* Properties.                                                               *)

TypeOK ==
  /\ \A u \in Upload : row[u] # Gone => row[u].off \in 0 .. Length
  /\ \A u \in Upload : staging[u] # Gone => staging[u] \in Seq(BOOLEAN) /\ Len(staging[u]) <= Length
  /\ \A c \in Client : cl[c].at \in 0 .. Length /\ cl[c].u \in Upload \cup {Gone} /\ cl[c].url \in Upload \cup {Gone}
  /\ linked \subseteq phone /\ last \in Upload \cup {Gone}

(* "never record an offset the disk doesn't have": whenever the server dies, *)
(* what it reports at the next HEAD is in the file.                          *)
OffsetIsOnDisk ==
  \A u \in Upload : row[u] # Gone /\ staging[u] # Gone =>
    row[u].off <= (IF srv[u] = Idle THEN Len(staging[u]) ELSE srv[u].sync)

(* What becomes a file has the hash that was declared, whatever was edited,  *)
(* cut off, resumed and retried.                                             *)
IngestedIsDeclared == (file => object = Content) /\ (object # Gone => object = Content)

(* What the server acknowledged stays in staging until it is in the library, *)
(* if the upload was complete before it expired.                             *)
CompletedIsKept ==
  \A u \in Upload : row[u] # Gone /\ row[u].done /\ ~row[u].late /\ ~file =>
    staging[u] = Content \/ job[u].state = "failed"

(* The same without the condition, which the code does not keep: the list of *)
(* the expired may be older than the completion.                             *)
AcknowledgedIsKept ==
  \A u \in Upload : row[u] # Gone /\ row[u].done /\ ~file => staging[u] = Content \/ job[u].state = "failed"

(* "server verified the SHA-256 on completion": what the phone takes for     *)
(* synced is in the library or was in the queue.                             *)
SyncedIsVerified == \A c \in phone : cl[c].st = "synced" => file \/ last # Gone

(* "skipped" means that the server has the content or will have it.          *)
SkippedIsKnown == \A c \in Client : cl[c].pc = "skipped" => file \/ Pending

(* Whatever goes wrong, the next passes of the phone put it right.           *)
BackedUp == phone # {} ~> file

(* No upload that has a row keeps its file for ever, unless its ingest was   *)
(* given up.                                                                 *)
StagingIsFreed ==
  \A u \in Upload : row[u] # Gone /\ staging[u] # Gone ~> (staging[u] = Gone \/ job[u].state = "failed")

(* The same of every file, which the code does not keep: the maintenance     *)
(* goes by the rows, and a create that ends between the file and the row     *)
(* leaves a file without one.                                                *)
StagingIsKnown ==
  \A u \in Upload : staging[u] # Gone => row[u] # Gone \/ job[u].state # "none" \/ srv[u] # Idle

(* What keeps the three invariants, upload by upload, in the order above:    *)
(* of a PATCH that runs the synced part is written, and all of it is synced  *)
(* before the row says so; a row is marked completed as the last step of its *)
(* PATCH; from the check of the hash to the mark nothing touches the file,   *)
(* unless it is overdue, in the library or its ingest given up; the          *)
(* maintenance takes the files of overdue rows only; and what is created is  *)
(* nothing it has listed.                                                    *)
PatchOK(u) ==
  srv[u] # Idle =>
    /\ srv[u].sync <= srv[u].off
    /\ srv[u].pc # "body" => srv[u].sync = srv[u].off
    /\ staging[u] # Gone => srv[u].off <= Len(staging[u])
    /\ row[u] # Gone => ~row[u].done
OnItsWay(u) == row[u] # Gone /\ ~row[u].late /\ ~file
HashedIsKept(u) ==
  /\ srv[u].pc = "enqueue" /\ OnItsWay(u) => staging[u] = Content
  /\ srv[u].pc = "mark" /\ OnItsWay(u) => staging[u] = Content \/ job[u].state = "failed"
SweepsOverdue(u) ==
  /\ u \in sweep.left /\ row[u] # Gone => row[u].late
  /\ srv[u].pc = "create" => u \notin sweep.left /\ row[u] = Gone
WorkerOK ==
  /\ worker # Idle => job[worker.u].state # "failed"
  /\ worker.pc = "insert" => object = Content
  /\ worker.pc \in {"link", "done"} => file
Patching ==
  [pc : {"create", "body", "record", "hash", "enqueue", "reject", "mark"}, off : Nat, sync : Nat, to : Client \cup {Gone}]
Shapes ==
  /\ row \in [Upload -> [off : Nat, done : BOOLEAN, late : BOOLEAN] \cup {Gone}]
  /\ staging \in [Upload -> Seq(BOOLEAN) \cup {Gone}]
  /\ srv \in [Upload -> {Idle} \cup Patching]
  /\ job \in [Upload -> [state : {"none", "queued", "running", "done", "failed"}, tries : Nat]]
  /\ worker \in {Idle} \cup [pc : {"process", "insert", "link", "done"}, u : Upload]
UInv ==
  /\ Shapes /\ OffsetIsOnDisk /\ IngestedIsDeclared /\ CompletedIsKept /\ WorkerOK
  /\ \A u \in Upload : PatchOK(u) /\ HashedIsKept(u) /\ SweepsOverdue(u)
=============================================================================
