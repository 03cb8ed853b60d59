--------------------------- MODULE UploadsProofs ---------------------------
(***************************************************************************)
(* Proofs about Uploads, for every set of uploads and clients and every    *)
(* length of the content.                                                  *)
(***************************************************************************)
EXTENDS Uploads, TLAPS, SequenceTheorems

(* What UInv says of one upload, and of the rest. *)
UploadOK(u) ==
  /\ row[u] # Gone /\ staging[u] # Gone =>
       row[u].off <= (IF srv[u] = Idle THEN Len(staging[u]) ELSE srv[u].sync)
  /\ row[u] # Gone /\ row[u].done /\ ~row[u].late /\ ~file =>
       staging[u] = Content \/ job[u].state = "failed"
  /\ PatchOK(u) /\ HashedIsKept(u) /\ SweepsOverdue(u)

LEMMA ByUpload ==
  UInv <=> Shapes /\ IngestedIsDeclared /\ WorkerOK /\ \A u \in Upload : UploadOK(u)
  BY DEF UInv, UploadOK, OffsetIsOnDisk, CompletedIsKept

LEMMA ByUploadNext ==
  UInv' <=> Shapes' /\ IngestedIsDeclared' /\ WorkerOK' /\ \A u \in Upload : UploadOK(u)'
  BY DEF UInv, UploadOK, OffsetIsOnDisk, CompletedIsKept

(* The clients' own steps. *)
LEMMA Frame ==
  ASSUME UInv, UNCHANGED <<server, ingest>>
  PROVE  UInv'
  BY DEF UInv, server, ingest, Shapes, OffsetIsOnDisk, IngestedIsDeclared, CompletedIsKept, WorkerOK,
         PatchOK, HashedIsKept, OnItsWay, SweepsOverdue

LEMMA ClientKeeps ==
  ASSUME UInv, NEW c \in Client,
         Retry(c) \/ SyncPass(c) \/ PlanJobs(c) \/ PageStart(c) \/ Resume(c) \/ UploadEnds(c) \/ PollEnds(c)
  PROVE  UInv'
<1>1. UNCHANGED <<row, staging, srv, job, worker, object, file, sweep>>
  BY DEF Retry, SyncPass, PlanJobs, PageStart, Resume, UploadEnds, PollEnds, server, ingest
<1> QED BY <1>1 DEF UInv, Shapes, OffsetIsOnDisk, IngestedIsDeclared, CompletedIsKept, WorkerOK,
         PatchOK, HashedIsKept, OnItsWay, SweepsOverdue

(* An upload that a step leaves alone. *)
LEMMA Untouched ==
  ASSUME UInv, NEW v \in Upload,
         row'[v] = row[v], staging'[v] = staging[v], srv'[v] = srv[v],
         job'[v] = job[v], file' = file, sweep' = sweep
  PROVE  UploadOK(v)'
<1>1. UploadOK(v)
  BY ByUpload
<1> QED BY <1>1 DEF UploadOK, PatchOK, HashedIsKept, OnItsWay, SweepsOverdue

LEMMA PatchBeginKeeps ==
  ASSUME UInv, NEW c \in Client, PatchBegin(c)
  PROVE  UInv'
<1> DEFINE u == cl[c].u
<1>1. CASE UNCHANGED <<srv, staging>>
  BY <1>1, Frame DEF PatchBegin, server
<1>2. CASE ~UNCHANGED <<srv, staging>>
  <2>0. u \in Upload
    <3>1. /\ srv' = [srv EXCEPT ![u] = Opened(u, c)]
          /\ staging' = [staging EXCEPT ![u] = Truncated(u)]
      BY <1>2 DEF PatchBegin
    <3>2. u \notin Upload => srv' = srv /\ staging' = staging
      <4> HIDE DEF u
      <4> QED BY <3>1 DEF UInv, Shapes
    <3> QED BY <3>2, <1>2
  <2>1. /\ srv[u] = Idle /\ row[u] # Gone /\ ~row[u].done /\ staging[u] # Gone
        /\ srv' = [srv EXCEPT ![u] = Opened(u, c)]
        /\ staging' = [staging EXCEPT ![u] = Truncated(u)]
        /\ UNCHANGED <<row, sweep, job, worker, object, file>>
    BY <1>2 DEF PatchBegin, Known, ingest
  <2>2. /\ staging[u] \in Seq(BOOLEAN) /\ row[u].off \in Nat /\ row[u].off <= Len(staging[u])
        /\ Opened(u, c).pc = "body" /\ Opened(u, c).off = row[u].off /\ Opened(u, c).sync = row[u].off
        /\ Opened(u, c) # Idle
    BY <2>0, <2>1 DEF UInv, Shapes, OffsetIsOnDisk, Opened, Idle
  <2>3. Truncated(u) \in Seq(BOOLEAN) /\ Len(Truncated(u)) = row[u].off
    BY <2>2, SubSeqProperties DEF Truncated
  <2>4. Shapes'
    BY <2>1, <2>2, <2>3 DEF UInv, Shapes, Opened, Patching
  <2>5. IngestedIsDeclared' /\ WorkerOK'
    BY <2>1 DEF UInv, IngestedIsDeclared, WorkerOK
  <2>6. ASSUME NEW v \in Upload PROVE UploadOK(v)'
    <3>1. CASE v = u
      <4>1. SweepsOverdue(u)
        BY <2>0 DEF UInv
      <4> HIDE DEF u
      <4> QED BY <2>1, <2>2, <2>3, <3>1, <4>1
                 DEF UInv, Shapes, UploadOK, PatchOK, HashedIsKept, OnItsWay, SweepsOverdue
    <3>2. CASE v # u
      BY <2>1, <3>2, Untouched DEF UInv, Shapes
    <3> QED BY <3>1, <3>2
  <2> QED BY <2>4, <2>5, <2>6, ByUploadNext
<1> QED BY <1>1, <1>2

(* Whether somebody waits for the answer of a PATCH matters to nothing here. *)
LEMMA AnswerLost ==
  ASSUME UInv, NEW u \in Upload, NEW p, p = [srv[u] EXCEPT !.to = Gone]
  PROVE  /\ srv[u] = Idle => p = Idle
         /\ srv[u] # Idle => p # Idle
         /\ p.pc = srv[u].pc
         /\ srv[u] # Idle => p.off = srv[u].off /\ p.sync = srv[u].sync
         /\ p \in {Idle} \cup Patching
<1>1. CASE srv[u] = Idle
  BY <1>1 DEF Idle
<1>2. CASE srv[u] # Idle
  <2>1. srv[u] \in Patching
    BY <1>2 DEF UInv, Shapes
  <2> QED BY <1>2, <2>1 DEF Idle, Patching
<1> QED BY <1>1, <1>2

LEMMA AnswersKeep ==
  ASSUME UInv, UNCHANGED <<row, staging, sweep, job, worker, object, file>>,
         srv' \in [Upload -> {srv[u] : u \in Upload} \cup {[srv[u] EXCEPT !.to = Gone] : u \in Upload}],
         \A u \in Upload : srv'[u] \in {srv[u], [srv[u] EXCEPT !.to = Gone]}
  PROVE  UInv'
<1>1. ASSUME NEW u \in Upload
      PROVE  /\ srv[u] = Idle <=> srv'[u] = Idle
             /\ srv'[u].pc = srv[u].pc
             /\ srv[u] # Idle => srv'[u].off = srv[u].off /\ srv'[u].sync = srv[u].sync
             /\ srv'[u] \in {Idle} \cup Patching
  <2>1. CASE srv'[u] = srv[u]
    BY <2>1 DEF UInv, Shapes
  <2>2. CASE srv'[u] = [srv[u] EXCEPT !.to = Gone]
    BY <2>2, AnswerLost
  <2> QED BY <2>1, <2>2
<1>2. Shapes'
  BY <1>1 DEF UInv, Shapes
<1>3. IngestedIsDeclared' /\ WorkerOK'
  BY DEF UInv, IngestedIsDeclared, WorkerOK
<1>4. ASSUME NEW u \in Upload PROVE UploadOK(u)'
  <2>1. UploadOK(u)
    BY ByUpload
  <2> QED BY <1>1, <2>1 DEF UploadOK, PatchOK, HashedIsKept, OnItsWay, SweepsOverdue
<1> QED BY <1>2, <1>3, <1>4, ByUploadNext

LEMMA AppKilledKeeps ==
  ASSUME UInv, NEW c \in Client, AppKilled(c)
  PROVE  UInv'
<1>1. /\ srv' = [u \in Upload |-> IF srv[u].pc # "idle" /\ srv[u].to = c
                                  THEN [srv[u] EXCEPT !.to = Gone] ELSE srv[u]]
      /\ UNCHANGED <<row, staging, sweep, job, worker, object, file>>
  BY DEF AppKilled, ingest
<1> QED BY <1>1, AnswersKeep

LEMMA ConnectionLostKeeps ==
  ASSUME UInv, NEW c \in Client, ConnectionLost(c)
  PROVE  UInv'
<1>1. PICK u : srv' = [srv EXCEPT ![u].to = Gone]
  BY DEF ConnectionLost
<1>2. UNCHANGED <<row, staging, sweep, job, worker, object, file>>
  BY DEF ConnectionLost, ingest
<1>3. srv \in [Upload -> {srv[v] : v \in Upload}]
  BY DEF UInv, Shapes
<1> QED BY <1>1, <1>2, <1>3, AnswersKeep

(* The steps of a PATCH. *)
LEMMA Running ==
  ASSUME UInv, NEW u \in Upload, srv[u].pc # "idle"
  PROVE  srv[u] # Idle /\ srv[u] \in Patching
  BY DEF UInv, Shapes, Idle

LEMMA NextShapes ==
  ASSUME UInv, NEW u \in Upload, NEW q \in Patching \cup {Idle}, srv' = [srv EXCEPT ![u] = q]
  PROVE  srv' \in [Upload -> {Idle} \cup Patching] /\ srv'[u] = q
  BY DEF UInv, Shapes

(* The steps of a create. *)
LEMMA CreateFileKeeps ==
  ASSUME UInv, NEW c \in Client, NEW u \in Upload, CreateFile(c, u)
  PROVE  UInv'
<1> DEFINE q == Creating(c)
<1>1. /\ srv[u] = Idle /\ u \notin sweep.left /\ job[u].state # "running" /\ row[u] = Gone
      /\ staging' = [staging EXCEPT ![u] = <<>>]
      /\ srv' = [srv EXCEPT ![u] = q]
      /\ job' = [job EXCEPT ![u] = NoJob]
      /\ UNCHANGED <<row, sweep, worker, object, file>>
  BY DEF CreateFile, Unused
<1>2. /\ q \in Patching \cup {Idle}
      /\ q # Idle
      /\ q.pc = "create" /\ q.off = 0 /\ q.sync = 0
  BY DEF Creating, Patching, Idle
<1> HIDE DEF q
<1>3. Shapes'
  BY <1>1, <1>2, NextShapes DEF UInv, Shapes, NoJob
<1>4. IngestedIsDeclared' /\ WorkerOK'
  BY <1>1 DEF UInv, Shapes, IngestedIsDeclared, WorkerOK, NoJob
<1>5. ASSUME NEW v \in Upload PROVE UploadOK(v)'
  <2>1. CASE v = u
    <3>1. srv'[u] = q /\ staging'[u] = <<>> /\ row'[u] = Gone
      BY <1>1, <1>2, NextShapes DEF UInv, Shapes
    <3> QED BY <1>1, <1>2, <2>1, <3>1 DEF UploadOK, PatchOK, HashedIsKept, OnItsWay, SweepsOverdue
  <2>2. CASE v # u
    BY <1>1, <2>2, Untouched DEF UInv, Shapes
  <2> QED BY <2>1, <2>2
<1> QED BY <1>3, <1>4, <1>5, ByUploadNext

LEMMA CreateRowKeeps ==
  ASSUME UInv, NEW u \in Upload, CreateRow(u)
  PROVE  UInv'
<1> DEFINE new == [off |-> 0, done |-> FALSE, late |-> FALSE]
<1>1. /\ srv[u].pc = "create"
      /\ row' = [row EXCEPT ![u] = new]
      /\ srv' = [srv EXCEPT ![u] = Idle]
      /\ UNCHANGED <<staging, sweep, job, worker, object, file>>
  BY DEF CreateRow, ingest
<1>2. u \notin sweep.left
  BY <1>1 DEF UInv, SweepsOverdue
<1>3. Shapes'
  BY <1>1, NextShapes DEF UInv, Shapes
<1>4. IngestedIsDeclared' /\ WorkerOK'
  BY <1>1 DEF UInv, IngestedIsDeclared, WorkerOK
<1>5. ASSUME NEW v \in Upload PROVE UploadOK(v)'
  <2>1. CASE v = u
    <3>1. srv'[u] = Idle /\ row'[u] = new
      BY <1>1 DEF UInv, Shapes
    <3>2. staging'[u] # Gone => Len(staging'[u]) \in Nat
      BY <1>1 DEF UInv, Shapes
    <3> QED BY <1>1, <1>2, <2>1, <3>1, <3>2
               DEF UploadOK, PatchOK, HashedIsKept, OnItsWay, SweepsOverdue, Idle
  <2>2. CASE v # u
    BY <1>1, <2>2, Untouched DEF UInv, Shapes
  <2> QED BY <2>1, <2>2
<1> QED BY <1>3, <1>4, <1>5, ByUploadNext

LEMMA CreateFailsKeeps ==
  ASSUME UInv, NEW u \in Upload, CreateFails(u)
  PROVE  UInv'
<1>1. /\ srv[u].pc = "create"
      /\ srv' = [srv EXCEPT ![u] = Idle]
      /\ UNCHANGED <<row, staging, sweep, job, worker, object, file>>
  BY DEF CreateFails, ingest
<1>2. row[u] = Gone
  BY <1>1 DEF UInv, SweepsOverdue
<1>3. Shapes'
  BY <1>1, NextShapes DEF UInv, Shapes
<1>4. IngestedIsDeclared' /\ WorkerOK'
  BY <1>1 DEF UInv, IngestedIsDeclared, WorkerOK
<1>5. ASSUME NEW v \in Upload PROVE UploadOK(v)'
  <2>1. CASE v = u
    <3>1. srv'[u] = Idle /\ row'[u] = Gone
      BY <1>1, <1>2 DEF UInv, Shapes
    <3> QED BY <1>1, <2>1, <3>1 DEF UploadOK, PatchOK, HashedIsKept, OnItsWay, SweepsOverdue, Idle
  <2>2. CASE v # u
    BY <1>1, <2>2, Untouched DEF UInv, Shapes
  <2> QED BY <2>1, <2>2
<1> QED BY <1>3, <1>4, <1>5, ByUploadNext

LEMMA PatchPartKeeps ==
  ASSUME UInv, NEW u \in Upload, PatchPart(u)
  PROVE  UInv'
<1> DEFINE q == [srv[u] EXCEPT !.off = @ + 1]
<1>1. /\ srv[u].pc = "body"
      /\ \E good \in BOOLEAN : staging' = [staging EXCEPT ![u] = IF @ = Gone THEN Gone ELSE Append(@, good)]
      /\ srv' = [srv EXCEPT ![u] = q]
      /\ UNCHANGED <<row, sweep, job, worker, object, file>>
  BY DEF PatchPart, ingest
<1>2. /\ q \in Patching \cup {Idle}
      /\ q # Idle
      /\ q.pc = "body"
      /\ q.sync = srv[u].sync
      /\ q.off = srv[u].off + 1
      /\ srv[u].off \in Nat /\ srv[u].sync \in Nat
  BY <1>1, Running DEF Patching, Idle
<1> HIDE DEF q
<1>3. Shapes'
  BY <1>1, <1>2, NextShapes DEF UInv, Shapes
<1>4. IngestedIsDeclared' /\ WorkerOK'
  BY <1>1 DEF UInv, IngestedIsDeclared, WorkerOK
<1>5. ASSUME NEW v \in Upload PROVE UploadOK(v)'
  <2>1. CASE v = u
    <3>1. UploadOK(u) /\ srv[u] # Idle /\ srv'[u] = q
      BY <1>1, <1>2, ByUpload, Running, NextShapes
    <3> QED BY <1>1, <1>2, <2>1, <3>1 DEF UInv, Shapes, UploadOK, PatchOK, HashedIsKept, OnItsWay, SweepsOverdue
  <2>2. CASE v # u
    BY <1>1, <2>2, Untouched DEF UInv, Shapes
  <2> QED BY <2>1, <2>2
<1> QED BY <1>3, <1>4, <1>5, ByUploadNext

LEMMA PatchFlushKeeps ==
  ASSUME UInv, NEW u \in Upload, PatchFlush(u)
  PROVE  UInv'
<1> DEFINE q == [srv[u] EXCEPT !.sync = srv[u].off, !.pc = "record"]
<1>1. /\ srv[u].pc = "body" /\ srv[u].sync < srv[u].off
      /\ srv' = [srv EXCEPT ![u] = q]
      /\ UNCHANGED <<row, staging, sweep, job, worker, object, file>>
  BY DEF PatchFlush, ingest
<1>2. /\ q \in Patching \cup {Idle}
      /\ q # Idle
      /\ q.pc = "record"
      /\ q.sync = srv[u].off /\ q.off = srv[u].off
      /\ srv[u].off \in Nat /\ srv[u].sync \in Nat
  BY <1>1, Running DEF Patching, Idle
<1> HIDE DEF q
<1>3. Shapes'
  BY <1>1, <1>2, NextShapes DEF UInv, Shapes
<1>4. IngestedIsDeclared' /\ WorkerOK'
  BY <1>1 DEF UInv, IngestedIsDeclared, WorkerOK
<1>5. ASSUME NEW v \in Upload PROVE UploadOK(v)'
  <2>1. CASE v = u
    <3>1. UploadOK(u) /\ srv[u] # Idle /\ srv'[u] = q
      BY <1>1, <1>2, ByUpload, Running, NextShapes
    <3> QED BY <1>1, <1>2, <2>1, <3>1 DEF UInv, Shapes, UploadOK, PatchOK, HashedIsKept, OnItsWay, SweepsOverdue
  <2>2. CASE v # u
    BY <1>1, <2>2, Untouched DEF UInv, Shapes
  <2> QED BY <2>1, <2>2
<1> QED BY <1>3, <1>4, <1>5, ByUploadNext

(* What a PATCH changes of the row of its upload. *)
LEMMA StoreFacts ==
  ASSUME UInv, NEW u \in Upload, srv[u].pc # "idle", row' = Store(u)
  PROVE  /\ row' \in [Upload -> [off : Nat, done : BOOLEAN, late : BOOLEAN] \cup {Gone}]
         /\ \A v \in Upload : v # u => row'[v] = row[v]
         /\ row'[u] # Gone => /\ row[u] # Gone /\ row'[u].off = srv[u].off
                             /\ row'[u].done = row[u].done /\ row'[u].late = row[u].late
<1>1. srv[u].off \in Nat
  BY Running DEF Patching
<1> QED BY <1>1 DEF UInv, Shapes, Store

LEMMA PatchRecordKeeps ==
  ASSUME UInv, NEW u \in Upload, PatchRecord(u)
  PROVE  UInv'
<1> DEFINE q == IF srv[u].off < Length THEN Idle ELSE [srv[u] EXCEPT !.pc = "hash"]
<1>1. /\ srv[u].pc = "record"
      /\ row' = Store(u)
      /\ srv' = [srv EXCEPT ![u] = q]
      /\ UNCHANGED <<staging, sweep, job, worker, object, file>>
  BY LengthAssumption DEF PatchRecord, Recorded, ingest
<1>2. /\ q \in Patching \cup {Idle}
      /\ q # Idle => q.pc = "hash" /\ q.off = srv[u].off /\ q.sync = srv[u].sync
      /\ q = Idle => q.pc = "idle"
  BY <1>1, Running DEF Patching, Idle
<1> HIDE DEF q
<1>6. /\ row' \in [Upload -> [off : Nat, done : BOOLEAN, late : BOOLEAN] \cup {Gone}]
      /\ \A v \in Upload : v # u => row'[v] = row[v]
      /\ row'[u] # Gone => /\ row[u] # Gone /\ row'[u].off = srv[u].off
                          /\ row'[u].done = row[u].done /\ row'[u].late = row[u].late
  BY <1>1, StoreFacts
<1>3. Shapes'
  BY <1>1, <1>2, NextShapes, <1>6 DEF UInv, Shapes
<1>4. IngestedIsDeclared' /\ WorkerOK'
  BY <1>1 DEF UInv, IngestedIsDeclared, WorkerOK
<1>5. ASSUME NEW v \in Upload PROVE UploadOK(v)'
  <2>1. CASE v = u
    <3>1. UploadOK(u) /\ srv[u] # Idle /\ srv[u] \in Patching /\ srv'[u] = q
      BY <1>1, <1>2, ByUpload, Running, NextShapes
    <3> QED BY <1>1, <1>2, <2>1, <3>1, <1>6 DEF UInv, Shapes, Patching, UploadOK, PatchOK, HashedIsKept, OnItsWay, SweepsOverdue
  <2>2. CASE v # u
    BY <1>1, <2>2, <1>6, Untouched DEF UInv, Shapes
  <2> QED BY <2>1, <2>2
<1> QED BY <1>3, <1>4, <1>5, ByUploadNext

LEMMA PatchBreaksKeeps ==
  ASSUME UInv, NEW u \in Upload, PatchBreaks(u)
  PROVE  UInv'
<1> DEFINE q == Idle
<1>1. /\ srv[u].pc = "body" /\ srv[u].sync = srv[u].off
      /\ row' = Store(u)
      /\ srv' = [srv EXCEPT ![u] = q]
      /\ UNCHANGED <<staging, sweep, job, worker, object, file>>
  BY DEF PatchBreaks, ingest
<1>2. /\ q \in Patching \cup {Idle}
      /\ q = Idle /\ q.pc = "idle"
  BY <1>1, Running DEF Patching, Idle
<1> HIDE DEF q
<1>6. /\ row' \in [Upload -> [off : Nat, done : BOOLEAN, late : BOOLEAN] \cup {Gone}]
      /\ \A v \in Upload : v # u => row'[v] = row[v]
      /\ row'[u] # Gone => /\ row[u] # Gone /\ row'[u].off = srv[u].off
                          /\ row'[u].done = row[u].done /\ row'[u].late = row[u].late
  BY <1>1, StoreFacts
<1>3. Shapes'
  BY <1>1, <1>2, NextShapes, <1>6 DEF UInv, Shapes
<1>4. IngestedIsDeclared' /\ WorkerOK'
  BY <1>1 DEF UInv, IngestedIsDeclared, WorkerOK
<1>5. ASSUME NEW v \in Upload PROVE UploadOK(v)'
  <2>1. CASE v = u
    <3>1. UploadOK(u) /\ srv[u] # Idle /\ srv[u] \in Patching /\ srv'[u] = q
      BY <1>1, <1>2, ByUpload, Running, NextShapes
    <3> QED BY <1>1, <1>2, <2>1, <3>1, <1>6 DEF UInv, Shapes, Patching, UploadOK, PatchOK, HashedIsKept, OnItsWay, SweepsOverdue
  <2>2. CASE v # u
    BY <1>1, <2>2, <1>6, Untouched DEF UInv, Shapes
  <2> QED BY <2>1, <2>2
<1> QED BY <1>3, <1>4, <1>5, ByUploadNext

LEMMA CompleteHashKeeps ==
  ASSUME UInv, NEW u \in Upload, CompleteHash(u)
  PROVE  UInv'
<1> DEFINE q == IF row[u] = Gone \/ staging[u] = Gone THEN Idle
              ELSE [srv[u] EXCEPT !.pc = IF Matches(u) THEN "enqueue" ELSE "reject"]
<1>1. /\ srv[u].pc = "hash"
      /\ staging' = IF q = Idle \/ Matches(u) THEN staging ELSE [staging EXCEPT ![u] = Gone]
      /\ srv' = [srv EXCEPT ![u] = q]
      /\ UNCHANGED <<row, sweep, job, worker, object, file>>
  BY DEF CompleteHash, Idle, ingest
<1>2. /\ q \in Patching \cup {Idle}
      /\ q # Idle => staging[u] # Gone /\ q.pc \in {"enqueue", "reject"} /\ q.off = srv[u].off /\ q.sync = srv[u].sync
      /\ q # Idle /\ q.pc = "enqueue" => Matches(u)
      /\ q = Idle => q.pc = "idle" /\ (row[u] = Gone \/ staging[u] = Gone)
  BY <1>1, Running DEF Patching, Idle
<1> HIDE DEF q
<1>3. Shapes'
  BY <1>1, <1>2, NextShapes DEF UInv, Shapes
<1>4. IngestedIsDeclared' /\ WorkerOK'
  BY <1>1 DEF UInv, IngestedIsDeclared, WorkerOK
<1>5. ASSUME NEW v \in Upload PROVE UploadOK(v)'
  <2>1. CASE v = u
    <3>1. UploadOK(u) /\ srv[u] # Idle /\ srv[u] \in Patching /\ srv'[u] = q
      BY <1>1, <1>2, ByUpload, Running, NextShapes
    <3> QED BY <1>1, <1>2, <2>1, <3>1 DEF UInv, Shapes, Patching, UploadOK, PatchOK, HashedIsKept, OnItsWay, SweepsOverdue, Matches
  <2>2. CASE v # u
    BY <1>1, <2>2, Untouched DEF UInv, Shapes
  <2> QED BY <2>1, <2>2
<1> QED BY <1>3, <1>4, <1>5, ByUploadNext

LEMMA CompleteRejectsKeeps ==
  ASSUME UInv, NEW u \in Upload, CompleteRejects(u)
  PROVE  UInv'
<1> DEFINE q == Idle
<1>1. /\ srv[u].pc = "reject"
      /\ row' = [row EXCEPT ![u] = Gone]
      /\ srv' = [srv EXCEPT ![u] = q]
      /\ UNCHANGED <<staging, sweep, job, worker, object, file>>
  BY DEF CompleteRejects, ingest
<1>2. /\ q \in Patching \cup {Idle}
      /\ q = Idle /\ q.pc = "idle"
  BY <1>1, Running DEF Patching, Idle
<1> HIDE DEF q
<1>3. Shapes'
  BY <1>1, <1>2, NextShapes DEF UInv, Shapes
<1>4. IngestedIsDeclared' /\ WorkerOK'
  BY <1>1 DEF UInv, IngestedIsDeclared, WorkerOK
<1>5. ASSUME NEW v \in Upload PROVE UploadOK(v)'
  <2>1. CASE v = u
    <3>1. UploadOK(u) /\ srv[u] # Idle /\ srv[u] \in Patching /\ srv'[u] = q
      BY <1>1, <1>2, ByUpload, Running, NextShapes
    <3> QED BY <1>1, <1>2, <2>1, <3>1 DEF UInv, Shapes, Patching, UploadOK, PatchOK, HashedIsKept, OnItsWay, SweepsOverdue
  <2>2. CASE v # u
    BY <1>1, <2>2, Untouched DEF UInv, Shapes
  <2> QED BY <2>1, <2>2
<1> QED BY <1>3, <1>4, <1>5, ByUploadNext

LEMMA CompleteEnqueueKeeps ==
  ASSUME UInv, NEW u \in Upload, CompleteEnqueue(u)
  PROVE  UInv'
<1> DEFINE q == [srv[u] EXCEPT !.pc = "mark"]
<1>1. /\ srv[u].pc = "enqueue"
      /\ job' = [job EXCEPT ![u] = [state |-> "queued", tries |-> 0]]
      /\ srv' = [srv EXCEPT ![u] = q]
      /\ UNCHANGED <<row, staging, sweep, worker, object, file>>
  BY DEF CompleteEnqueue
<1>2. /\ q \in Patching \cup {Idle}
      /\ q # Idle /\ q.pc = "mark" /\ q.off = srv[u].off /\ q.sync = srv[u].sync
  BY <1>1, Running DEF Patching, Idle
<1> HIDE DEF q
<1>3. Shapes'
  BY <1>1, <1>2, NextShapes DEF UInv, Shapes
<1>4. IngestedIsDeclared' /\ WorkerOK'
  BY <1>1 DEF UInv, Shapes, IngestedIsDeclared, WorkerOK
<1>5. ASSUME NEW v \in Upload PROVE UploadOK(v)'
  <2>1. CASE v = u
    <3>1. UploadOK(u) /\ srv[u] # Idle /\ srv[u] \in Patching /\ srv'[u] = q
      BY <1>1, <1>2, ByUpload, Running, NextShapes
    <3> QED BY <1>1, <1>2, <2>1, <3>1 DEF UInv, Shapes, Patching, UploadOK, PatchOK, HashedIsKept, OnItsWay, SweepsOverdue
  <2>2. CASE v # u
    BY <1>1, <2>2, Untouched DEF UInv, Shapes
  <2> QED BY <2>1, <2>2
<1> QED BY <1>3, <1>4, <1>5, ByUploadNext

LEMMA CompleteMarksKeeps ==
  ASSUME UInv, NEW u \in Upload, CompleteMarks(u)
  PROVE  UInv'
<1> DEFINE q == Idle
<1>1. /\ srv[u].pc = "mark"
      /\ row' = IF row[u] = Gone THEN row ELSE [row EXCEPT ![u].done = TRUE]
      /\ srv' = [srv EXCEPT ![u] = q]
      /\ UNCHANGED <<staging, sweep, job, worker, object, file>>
  BY DEF CompleteMarks, ingest
<1>2. /\ q \in Patching \cup {Idle}
      /\ q = Idle /\ q.pc = "idle"
  BY <1>1, Running DEF Patching, Idle
<1> HIDE DEF q
<1>6. row' \in [Upload -> [off : Nat, done : BOOLEAN, late : BOOLEAN] \cup {Gone}]
  BY <1>1 DEF UInv, Shapes
<1>3. Shapes'
  BY <1>1, <1>2, NextShapes, <1>6 DEF UInv, Shapes
<1>4. IngestedIsDeclared' /\ WorkerOK'
  BY <1>1 DEF UInv, IngestedIsDeclared, WorkerOK
<1>5. ASSUME NEW v \in Upload PROVE UploadOK(v)'
  <2>1. CASE v = u
    <3>1. UploadOK(u) /\ srv[u] # Idle /\ srv[u] \in Patching /\ srv'[u] = q
      BY <1>1, <1>2, ByUpload, Running, NextShapes
    <3> QED BY <1>1, <1>2, <2>1, <3>1, <1>6 DEF UInv, Shapes, Patching, UploadOK, PatchOK, HashedIsKept, OnItsWay, SweepsOverdue
  <2>2. CASE v # u
    BY <1>1, <2>2, <1>6, Untouched DEF UInv, Shapes
  <2> QED BY <2>1, <2>2
<1> QED BY <1>3, <1>4, <1>5, ByUploadNext

-----------------------------------------------------------------------------
(* Time, the maintenance, the ingest.                                        *)

LEMMA ExpireKeeps ==
  ASSUME UInv, NEW u \in Upload, Expire(u)
  PROVE  UInv'
<1>1. /\ row' = [row EXCEPT ![u].late = TRUE]
      /\ row[u] # Gone
      /\ UNCHANGED <<staging, srv, sweep, job, worker, object, file>>
  BY DEF Expire, ingest
<1>2. Shapes'
  BY <1>1 DEF UInv, Shapes, Idle
<1>3. IngestedIsDeclared' /\ WorkerOK'
  BY <1>1 DEF UInv, Shapes, IngestedIsDeclared, WorkerOK, Idle, Matches
<1>4. ASSUME NEW v \in Upload PROVE UploadOK(v)'
  <2>1. UploadOK(v)
    BY ByUpload
  <2> QED BY <1>1, <2>1 DEF UInv, Shapes, WorkerOK, UploadOK, PatchOK, HashedIsKept, OnItsWay, SweepsOverdue
<1> QED BY <1>2, <1>3, <1>4, ByUploadNext

LEMMA SweepListKeeps ==
  ASSUME UInv, SweepList
  PROVE  UInv'
<1>1. /\ sweep'.left = Overdue
      /\ UNCHANGED <<row, staging, srv, job, worker, object, file>>
  BY DEF SweepList, ingest
<1>2. Shapes'
  BY <1>1 DEF UInv, Shapes, Idle
<1>3. IngestedIsDeclared' /\ WorkerOK'
  BY <1>1 DEF UInv, Shapes, IngestedIsDeclared, WorkerOK, Idle, Matches
<1>4. ASSUME NEW v \in Upload PROVE UploadOK(v)'
  <2>1. UploadOK(v)
    BY ByUpload
  <2> QED BY <1>1, <2>1 DEF UInv, Shapes, WorkerOK, UploadOK, PatchOK, HashedIsKept, OnItsWay, SweepsOverdue, Overdue
<1> QED BY <1>2, <1>3, <1>4, ByUploadNext

LEMMA SweepUnlinkKeeps ==
  ASSUME UInv, NEW u \in Upload, SweepUnlink(u)
  PROVE  UInv'
<1>1. /\ u \in sweep.left
      /\ staging' = [staging EXCEPT ![u] = Gone]
      /\ sweep'.left = sweep.left
      /\ UNCHANGED <<row, srv, job, worker, object, file>>
  BY DEF SweepUnlink, ingest
<1>2. Shapes'
  BY <1>1 DEF UInv, Shapes, Idle
<1>3. IngestedIsDeclared' /\ WorkerOK'
  BY <1>1 DEF UInv, Shapes, IngestedIsDeclared, WorkerOK, Idle, Matches
<1>4. ASSUME NEW v \in Upload PROVE UploadOK(v)'
  <2>1. UploadOK(v)
    BY ByUpload
  <2> QED BY <1>1, <2>1 DEF UInv, Shapes, WorkerOK, UploadOK, PatchOK, HashedIsKept, OnItsWay, SweepsOverdue
<1> QED BY <1>2, <1>3, <1>4, ByUploadNext

LEMMA SweepDropKeeps ==
  ASSUME UInv, SweepDrop
  PROVE  UInv'
<1>1. /\ \E u : row' = [row EXCEPT ![u] = Gone]
      /\ sweep'.left \subseteq sweep.left
      /\ UNCHANGED <<staging, srv, job, worker, object, file>>
  BY DEF SweepDrop, NoSweep, ingest
<1>2. Shapes'
  BY <1>1 DEF UInv, Shapes, Idle
<1>3. IngestedIsDeclared' /\ WorkerOK'
  BY <1>1 DEF UInv, Shapes, IngestedIsDeclared, WorkerOK, Idle, Matches
<1>4. ASSUME NEW v \in Upload PROVE UploadOK(v)'
  <2>1. UploadOK(v)
    BY ByUpload
  <2> QED BY <1>1, <2>1 DEF UInv, Shapes, WorkerOK, UploadOK, PatchOK, HashedIsKept, OnItsWay, SweepsOverdue
<1> QED BY <1>2, <1>3, <1>4, ByUploadNext

LEMMA SweepCompletedKeeps ==
  ASSUME UInv, NEW u \in Upload, SweepCompleted(u)
  PROVE  UInv'
<1>1. /\ row' = [row EXCEPT ![u] = Gone]
      /\ UNCHANGED <<staging, srv, sweep, job, worker, object, file>>
  BY DEF SweepCompleted, ingest
<1>2. Shapes'
  BY <1>1 DEF UInv, Shapes, Idle
<1>3. IngestedIsDeclared' /\ WorkerOK'
  BY <1>1 DEF UInv, Shapes, IngestedIsDeclared, WorkerOK, Idle, Matches
<1>4. ASSUME NEW v \in Upload PROVE UploadOK(v)'
  <2>1. UploadOK(v)
    BY ByUpload
  <2> QED BY <1>1, <2>1 DEF UInv, Shapes, WorkerOK, UploadOK, PatchOK, HashedIsKept, OnItsWay, SweepsOverdue
<1> QED BY <1>2, <1>3, <1>4, ByUploadNext

LEMMA IngestTakeKeeps ==
  ASSUME UInv, NEW u \in Upload, IngestTake(u)
  PROVE  UInv'
<1>0. Min2(job[u].tries + 1, MaxAttempts) \in Nat /\ job \in [Upload -> [state : {"none", "queued", "running", "done", "failed"}, tries : Nat]]
  BY LengthAssumption DEF UInv, Shapes, Min2
<1>1. /\ worker = Idle /\ job[u].state # "failed"
      /\ job'[u].state = "running" /\ job' \in [Upload -> [state : {"none", "queued", "running", "done", "failed"}, tries : Nat]]
      /\ \A v \in Upload : v # u => job'[v] = job[v]
      /\ worker' = [pc |-> "process", u |-> u]
      /\ UNCHANGED <<row, staging, srv, sweep, object, file>>
  BY LengthAssumption, <1>0 DEF IngestTake, server
<1>2. Shapes'
  BY <1>1 DEF UInv, Shapes, Idle
<1>3. IngestedIsDeclared' /\ WorkerOK'
  BY <1>1 DEF UInv, Shapes, IngestedIsDeclared, WorkerOK, Idle, Matches
<1>4. ASSUME NEW v \in Upload PROVE UploadOK(v)'
  <2>1. UploadOK(v)
    BY ByUpload
  <2> QED BY <1>1, <2>1 DEF UInv, Shapes, WorkerOK, UploadOK, PatchOK, HashedIsKept, OnItsWay, SweepsOverdue
<1> QED BY <1>2, <1>3, <1>4, ByUploadNext

LEMMA IngestPutKeeps ==
  ASSUME UInv, IngestPut
  PROVE  UInv'
<1>1. /\ worker.pc = "process" /\ Matches(worker.u)
      /\ object' = IF object = Gone THEN staging[worker.u] ELSE object
      /\ worker' = [worker EXCEPT !.pc = "insert"]
      /\ UNCHANGED <<row, staging, srv, sweep, job, file>>
  BY DEF IngestPut, server
<1>2. Shapes'
  BY <1>1 DEF UInv, Shapes, Idle
<1>3. IngestedIsDeclared' /\ WorkerOK'
  BY <1>1 DEF UInv, Shapes, IngestedIsDeclared, WorkerOK, Idle, Matches
<1>4. ASSUME NEW v \in Upload PROVE UploadOK(v)'
  <2>1. UploadOK(v)
    BY ByUpload
  <2> QED BY <1>1, <2>1 DEF UInv, Shapes, WorkerOK, UploadOK, PatchOK, HashedIsKept, OnItsWay, SweepsOverdue
<1> QED BY <1>2, <1>3, <1>4, ByUploadNext

LEMMA IngestInsertKeeps ==
  ASSUME UInv, IngestInsert
  PROVE  UInv'
<1>1. /\ worker.pc = "insert" /\ file'
      /\ worker' = [worker EXCEPT !.pc = "link"]
      /\ UNCHANGED <<row, staging, srv, sweep, job, object>>
  BY DEF IngestInsert, server
<1>5. worker \in [pc : {"process", "insert", "link", "done"}, u : Upload]
  BY <1>1 DEF UInv, Shapes, Idle
<1>6. worker' = [worker EXCEPT !.pc = "link"]
  BY <1>1
<1>7. worker' \in [pc : {"process", "insert", "link", "done"}, u : Upload]
  BY <1>5, <1>6
<1>2. Shapes'
  BY <1>1, <1>7 DEF UInv, Shapes, Idle
<1>3. IngestedIsDeclared' /\ WorkerOK'
  BY <1>1 DEF UInv, Shapes, IngestedIsDeclared, WorkerOK, Idle, Matches
<1>4. ASSUME NEW v \in Upload PROVE UploadOK(v)'
  <2>1. UploadOK(v)
    BY ByUpload
  <2> QED BY <1>1, <2>1 DEF UInv, Shapes, WorkerOK, UploadOK, PatchOK, HashedIsKept, OnItsWay, SweepsOverdue
<1> QED BY <1>2, <1>3, <1>4, ByUploadNext

LEMMA IngestLinkKeeps ==
  ASSUME UInv, IngestLink
  PROVE  UInv'
<1>1. /\ worker.pc = "link" \/ (worker.pc = "process" /\ file)
      /\ staging' = [staging EXCEPT ![worker.u] = Gone]
      /\ worker' = [worker EXCEPT !.pc = "done"]
      /\ UNCHANGED <<row, srv, sweep, job, object, file>>
  BY DEF IngestLink, KnownContent
<1>2. Shapes'
  BY <1>1 DEF UInv, Shapes, Idle
<1>3. IngestedIsDeclared' /\ WorkerOK'
  BY <1>1 DEF UInv, Shapes, IngestedIsDeclared, WorkerOK, Idle, Matches
<1>4. ASSUME NEW v \in Upload PROVE UploadOK(v)'
  <2>1. UploadOK(v)
    BY ByUpload
  <2> QED BY <1>1, <2>1 DEF UInv, Shapes, WorkerOK, UploadOK, PatchOK, HashedIsKept, OnItsWay, SweepsOverdue
<1> QED BY <1>2, <1>3, <1>4, ByUploadNext

LEMMA IngestDoneKeeps ==
  ASSUME UInv, IngestDone
  PROVE  UInv'
<1>1. /\ worker.pc = "done"
      /\ job' = [job EXCEPT ![worker.u].state = "done"]
      /\ worker' = Idle
      /\ UNCHANGED <<row, staging, srv, sweep, object, file>>
  BY DEF IngestDone, server
<1>2. Shapes'
  BY <1>1 DEF UInv, Shapes, Idle
<1>3. IngestedIsDeclared' /\ WorkerOK'
  BY <1>1 DEF UInv, Shapes, IngestedIsDeclared, WorkerOK, Idle, Matches
<1>4. ASSUME NEW v \in Upload PROVE UploadOK(v)'
  <2>1. UploadOK(v)
    BY ByUpload
  <2> QED BY <1>1, <2>1 DEF UInv, Shapes, WorkerOK, UploadOK, PatchOK, HashedIsKept, OnItsWay, SweepsOverdue
<1> QED BY <1>2, <1>3, <1>4, ByUploadNext

LEMMA IngestFailsKeeps ==
  ASSUME UInv, IngestFails
  PROVE  UInv'
<1>1. /\ worker.pc \in {"process", "link"}
      /\ job' = [job EXCEPT ![worker.u].state = Later(worker.u)] /\ Later(worker.u) \in {"queued", "failed"}
      /\ worker' = Idle
      /\ UNCHANGED <<row, staging, srv, sweep, object, file>>
  BY DEF IngestFails, Missing, Later, server
<1>5. \A v \in Upload : job[v].state = "failed" => job'[v].state = "failed"
  BY <1>1 DEF UInv, Shapes, WorkerOK, Idle
<1>2. Shapes'
  BY <1>1 DEF UInv, Shapes, Idle
<1>3. IngestedIsDeclared' /\ WorkerOK'
  BY <1>1 DEF UInv, Shapes, IngestedIsDeclared, WorkerOK, Idle, Matches
<1>4. ASSUME NEW v \in Upload PROVE UploadOK(v)'
  <2>1. UploadOK(v)
    BY ByUpload
  <2> QED BY <1>1, <2>1, <1>5 DEF UInv, Shapes, WorkerOK, UploadOK, PatchOK, HashedIsKept, OnItsWay, SweepsOverdue
<1> QED BY <1>2, <1>3, <1>4, ByUploadNext

(* A power cut leaves of each file what the row says, or all of it. *)
LEMMA CrashKeeps ==
  ASSUME UInv, Crash
  PROVE  UInv'
<1>1. PICK keep \in [Upload -> 0 .. Length] :
        /\ \A u \in Upload :
             IF staging[u] = Gone \/ srv[u].pc = "idle"
             THEN keep[u] = IF staging[u] = Gone THEN 0 ELSE Len(staging[u])
             ELSE keep[u] \in srv[u].sync .. Len(staging[u])
        /\ staging' = [u \in Upload |-> IF staging[u] = Gone THEN Gone ELSE SubSeq(staging[u], 1, keep[u])]
  BY DEF Crash
<1>2. /\ srv' = [u \in Upload |-> Idle] /\ worker' = Idle /\ sweep'.left = {}
      /\ UNCHANGED <<row, job, object, file>>
  BY DEF Crash, NoSweep
<1>3. ASSUME NEW u \in Upload, staging[u] # Gone
      PROVE  /\ staging'[u] = SubSeq(staging[u], 1, keep[u])
             /\ staging'[u] \in Seq(BOOLEAN) /\ Len(staging'[u]) = keep[u]
             /\ srv[u] = Idle => staging'[u] = staging[u]
             /\ srv[u] # Idle => keep[u] >= srv[u].sync
  <2>1. staging[u] \in Seq(BOOLEAN) /\ staging'[u] = SubSeq(staging[u], 1, keep[u])
    BY <1>1, <1>3 DEF UInv, Shapes
  <2>2. srv[u] = Idle \/ (srv[u] \in Patching /\ srv[u].pc # "idle")
    BY DEF UInv, Shapes, Patching
  <2>3. srv[u] = Idle => keep[u] = Len(staging[u])
    BY <1>1, <1>3 DEF Idle
  <2>4. srv[u] # Idle => keep[u] \in srv[u].sync .. Len(staging[u])
    BY <1>1, <1>3, <2>2
  <2>5. keep[u] \in Nat /\ keep[u] <= Len(staging[u])
    BY <1>1, <2>1, <2>2, <2>3, <2>4, LengthAssumption
  <2>6. staging'[u] \in Seq(BOOLEAN) /\ Len(staging'[u]) = keep[u]
    BY <2>1, <2>5, SubSeqProperties
  <2>7. srv[u] = Idle => staging'[u] = staging[u]
    BY <2>1, <2>3, SubSeqFull
  <2>8. srv[u] # Idle => keep[u] >= srv[u].sync
    BY <2>2, <2>4 DEF Patching
  <2> QED BY <2>1, <2>6, <2>7, <2>8
<1>4. ASSUME NEW u \in Upload, staging[u] = Gone
      PROVE  staging'[u] = Gone
  BY <1>1, <1>4
<1>5. Shapes'
  <2>1. \A u \in Upload : staging'[u] \in Seq(BOOLEAN) \cup {Gone}
    BY <1>3, <1>4
  <2> QED BY <1>1, <1>2, <2>1 DEF UInv, Shapes
<1>6. IngestedIsDeclared' /\ WorkerOK'
  BY <1>2 DEF UInv, IngestedIsDeclared, WorkerOK, Idle
<1>7. ASSUME NEW u \in Upload PROVE UploadOK(u)'
  <2>1. UploadOK(u)
    BY ByUpload
  <2>2. row[u] # Gone => row[u].off \in Nat
    BY DEF UInv, Shapes
  <2>3. srv[u] # Idle => srv[u].sync \in Nat
    BY DEF UInv, Shapes, Patching
  <2>4. row[u] # Gone /\ staging'[u] # Gone => row[u].off <= Len(staging'[u])
    BY <1>1, <1>3, <1>4, <2>1, <2>2, <2>3, LengthAssumption DEF UploadOK
  <2>5. row[u] # Gone /\ row[u].done => srv[u] = Idle
    BY <2>1 DEF UploadOK, PatchOK
  <2>6. srv'[u] = Idle
    BY <1>2
  <2> QED BY <1>2, <1>3, <1>4, <2>1, <2>4, <2>5, <2>6
          DEF UploadOK, PatchOK, HashedIsKept, OnItsWay, SweepsOverdue, Idle
<1> QED BY <1>5, <1>6, <1>7, ByUploadNext

-----------------------------------------------------------------------------
(* The invariant and what follows from it.                                   *)

LEMMA UploadsInit == Init => UInv
<1> SUFFICES ASSUME Init PROVE UInv
  OBVIOUS
<1>1. /\ row = [u \in Upload |-> Gone] /\ staging = [u \in Upload |-> Gone]
      /\ srv = [u \in Upload |-> Idle] /\ sweep.left = {}
      /\ job = [u \in Upload |-> NoJob] /\ worker = Idle /\ object = Gone /\ ~file
  BY DEF Init, NoSweep
<1> QED BY <1>1 DEF UInv, Shapes, OffsetIsOnDisk, IngestedIsDeclared, CompletedIsKept, WorkerOK,
                    PatchOK, HashedIsKept, OnItsWay, SweepsOverdue, Idle, NoJob

LEMMA UploadsNext == UInv /\ [Next]_vars => UInv'
<1> SUFFICES ASSUME UInv, [Next]_vars PROVE UInv'
  OBVIOUS
<1>1. CASE \E c \in Client : ClientNext(c) \/ AppKilled(c) \/ ConnectionLost(c)
  <2>1. PICK c \in Client : ClientNext(c) \/ AppKilled(c) \/ ConnectionLost(c)
    BY <1>1
  <2>2. CASE ClientNext(c)
    BY <2>2, ClientKeeps, CreateFileKeeps, PatchBeginKeeps DEF ClientNext
  <2> QED BY <2>1, <2>2, AppKilledKeeps, ConnectionLostKeeps
<1>2. CASE \E u \in Upload : PatchNext(u) \/ CreateFails(u) \/ Expire(u)
  <2>1. PICK u \in Upload : PatchNext(u) \/ CreateFails(u) \/ Expire(u)
    BY <1>2
  <2>2. CASE PatchNext(u)
    BY <2>2, CreateRowKeeps, PatchPartKeeps, PatchFlushKeeps, PatchRecordKeeps, PatchBreaksKeeps,
       CompleteHashKeeps, CompleteRejectsKeeps, CompleteEnqueueKeeps, CompleteMarksKeeps DEF PatchNext
  <2> QED BY <2>1, <2>2, CreateFailsKeeps, ExpireKeeps
<1>3. CASE SweepNext
  BY <1>3, SweepListKeeps, SweepUnlinkKeeps, SweepDropKeeps, SweepCompletedKeeps DEF SweepNext
<1>4. CASE IngestNext
  BY <1>4, IngestTakeKeeps, IngestPutKeeps, IngestInsertKeeps, IngestLinkKeeps, IngestDoneKeeps,
     IngestFailsKeeps DEF IngestNext
<1>5. CASE UNCHANGED vars
  BY <1>5, Frame DEF vars
<1> QED BY <1>1, <1>2, <1>3, <1>4, <1>5, CrashKeeps DEF Next

(* Whatever is lost, cut off, retried or swept, the uploads stay consistent. *)
THEOREM UploadsCorrect == Spec => []UInv
  BY UploadsInit, UploadsNext, PTL DEF Spec

(* The offset a client is told after a power cut is in the file. *)
THEOREM OffsetIsOnDiskHolds == Spec => []OffsetIsOnDisk
<1>1. UInv => OffsetIsOnDisk
  BY DEF UInv
<1> QED BY <1>1, UploadsCorrect, PTL

(* What becomes an object and a file is the content that was declared. *)
THEOREM IngestedIsDeclaredHolds == Spec => []IngestedIsDeclared
<1>1. UInv => IngestedIsDeclared
  BY DEF UInv
<1> QED BY <1>1, UploadsCorrect, PTL

(* A completed upload keeps its file until the library has it, unless the    *)
(* upload had expired or its ingest was given up.                            *)
THEOREM CompletedIsKeptHolds == Spec => []CompletedIsKept
<1>1. UInv => CompletedIsKept
  BY DEF UInv
<1> QED BY <1>1, UploadsCorrect, PTL
=============================================================================
