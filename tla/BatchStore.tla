----------------------------- MODULE BatchStore -----------------------------
(***************************************************************************)
(* The non-media tier (dedup/batchstore.py): files are cut into chunks, a  *)
(* chunk that is new goes to the staging file of the open batch, a batch   *)
(* that is due is sealed into one immutable object, and a sealed batch of  *)
(* which little is still in use is compacted into the open one.  Ingest,   *)
(* seal and compact hold one lock (job); release_file runs in the caller's *)
(* transaction and readers run without the lock, nor do the two caches of  *)
(* a read have one.  A chunk has size one, and a batch one frame.          *)
(* Bounds: the batches in Batch, one ingest per attempt of a file          *)
(* (MaxTries), MaxFails seals and as many compactions that raise,          *)
(* MaxCrashes crashes.                                                     *)
(***************************************************************************)
EXTENDS Naturals, Sequences, FiniteSets, SequencesExt

CONSTANTS
  Chunk, File,
  Reader,      \* one reader for each of these chunks
  Body,        \* the chunks of each file, in order
  MaxBatch,    \* batches have the row ids 1 .. MaxBatch
  Ratio,       \* batch_compact_ratio, in percent
  MaxFrames,   \* what the caches of a read hold: 16 frames
  MaxDicts,    \* and 32 dictionaries
  MaxTries, MaxFails, MaxCrashes,
  Gone         \* no row, no file, no object

Batch == 1 .. MaxBatch
\* a row of batches, of chunks, and the Bloom filter with its count
BatchRow == [state : {"none", "open", "sealing", "sealed", "deleted"}, raw : Nat, live : Nat,
             dated : BOOLEAN]
ChunkRow == [batch : Batch, off : Nat, refs : Nat]
Filter == [items : SUBSET Chunk, count : Nat]

ASSUME FileAssumption == IsFiniteSet(File) /\ IsFiniteSet(Chunk) /\ Body \in [File -> Seq(Chunk)]
ASSUME CacheAssumption == MaxFrames \in Nat \ {0} /\ MaxDicts \in Nat \ {0}
ASSUME BatchAssumption == MaxBatch \in Nat /\ Ratio \in Nat /\ Reader \subseteq Chunk
ASSUME GoneAssumption == Gone \notin Chunk \cup ChunkRow \cup Seq(Chunk) \cup Filter

VARIABLES
  batch,     \* table batches
  chunk,     \* table chunks
  file,      \* table files: absent, stored (with its file_chunks) or purged
  staging,   \* staging/batches/<id>.raw
  object,    \* the objects batch/<id> in the object store
  framed,    \* the batches that have rows in batch_frames
  bloom,     \* the Bloom filter in memory
  saved,     \* the Bloom filter on disk
  frames,    \* _frames: what is in memory of each batch
  dicts,     \* _dicts: the batches whose dictionary is in memory
  job,       \* the holder of the lock
  victims,   \* what compact has still to do
  doomed,    \* batches that recover() has still to seal
  read,      \* the locals of read_chunk
  tries, fails, aborts, crashes

tables == <<batch, chunk, file, framed>>
caches == <<frames, dicts>>
mem == <<bloom, caches, victims, doomed>>
bounds == <<tries, fails, aborts, crashes>>
vars == <<tables, staging, object, saved, mem, job, read, bounds>>

ChunksOf(f) == ToSet(Body[f])
Occurs(c, f) == Cardinality({i \in DOMAIN Body[f] : Body[f][i] = c})
Row(c) == chunk[c] # Gone
PosIn(c, s) == CHOOSE i \in DOMAIN s : s[i] = c
Refs(c) == IF Row(c) THEN chunk[c].refs ELSE 0
Rows == {c \in Chunk : Row(c)}
LiveIn(b) == {c \in Rows : chunk[c].batch = b /\ chunk[c].refs > 0}
Idle == [op |-> "none"]
NoBatch == [state |-> "none", raw |-> 0, live |-> 0, dated |-> FALSE]
NotReading == [pc |-> "idle"]

Init ==
  /\ batch = [b \in Batch |-> NoBatch]
  /\ chunk = [c \in Chunk |-> Gone]
  /\ file = [f \in File |-> "absent"]
  /\ staging = [b \in Batch |-> Gone]
  /\ object = [b \in Batch |-> Gone]
  /\ framed = {} /\ victims = {} /\ doomed = {}
  /\ frames = [b \in Batch |-> Gone] /\ dicts = {}
  /\ bloom = [items |-> {}, count |-> 0]
  /\ saved = Gone
  /\ job = Idle
  /\ read = [r \in Reader |-> NotReading]
  /\ tries = [f \in File |-> 0] /\ fails = 0 /\ aborts = 0 /\ crashes = 0

-----------------------------------------------------------------------------
(* The open batch with the smallest id, or a new row: row ids grow.          *)
OpenIds == {b \in Batch : batch[b].state = "open"}
OpenBatch(b) ==
  IF OpenIds # {} THEN b \in OpenIds /\ \A o \in OpenIds : b <= o
  ELSE batch[b].state = "none" /\ \A o \in Batch : o < b => batch[o].state # "none"
Opened(b) == [batch EXCEPT ![b].state = "open"]
Raw(b) == IF staging[b] = Gone THEN <<>> ELSE staging[b]
Extended(b, cs) == [staging EXCEPT ![b] = Raw(b) \o cs]

(* _lookup: the Bloom filter, then the table.                                *)
Known(c) == c \in bloom.items /\ Row(c)
(* The pieces that are new, each once, in order.                             *)
Unknown(f) == {c \in ChunksOf(f) : ~ Known(c)}
FirstAt(f, c) == CHOOSE i \in DOMAIN Body[f] : Body[f][i] = c /\ \A j \in 1 .. i - 1 : Body[f][j] # c
Fresh(f) == {new \in SetToSeqs(Unknown(f)) :
               \A i, j \in DOMAIN new : i < j => FirstAt(f, new[i]) < FirstAt(f, new[j])}

(* ingest_file up to the fsync; the lock is held until IngestTx.  A file     *)
(* that is known, even purged, never gets here (IngestPipeline.process).     *)
IngestAppend(f, b) ==
  /\ job = Idle /\ doomed = {}
  /\ file[f] = "absent" /\ tries[f] < MaxTries
  /\ OpenBatch(b)
  /\ batch' = Opened(b)
  /\ \E new \in Fresh(f) :
       /\ staging' = Extended(b, new)
       /\ job' = [op |-> "ingest", f |-> f, b |-> b, new |-> new, at |-> Len(Raw(b))]
  /\ tries' = [tries EXCEPT ![f] = @ + 1]
  /\ UNCHANGED <<chunk, file, framed, object, saved, mem, read, fails, aborts, crashes>>

(* The transaction and bloom.add.  A chunk inserted twice, which a filter    *)
(* that misses it causes, is an IntegrityError and rolls everything back.    *)
NewLivePieces(f, b) == {c \in ChunksOf(f) : Row(c) /\ Refs(c) = 0 /\ chunk[c].batch = b}
NewLive(f, b) == {c \in ChunksOf(f) : Refs(c) = 0 /\ (IF Row(c) THEN chunk[c].batch ELSE job.b) = b}
IngestTx ==
  /\ job.op = "ingest"
  /\ LET f == job.f
         new == ToSet(job.new)
         place == [c \in new |-> job.at + PosIn(c, job.new)]
     IN IF new \cap Rows # {}
        THEN UNCHANGED <<batch, chunk, file, bloom>>
        ELSE
        /\ chunk' = [c \in Chunk |->
             IF c \in new THEN [batch |-> job.b, off |-> place[c], refs |-> Occurs(c, f)]
             ELSE IF c \in ChunksOf(f) THEN [chunk[c] EXCEPT !.refs = @ + Occurs(c, f)]
             ELSE chunk[c]]
        /\ batch' = [b \in Batch |->
             [batch[b] EXCEPT !.live = @ + Cardinality(NewLive(f, b)),
                              !.raw = IF b = job.b THEN @ + Len(job.new) ELSE @,
                              !.dated = @ \/ (b = job.b /\ new # {})]]
        /\ file' = [file EXCEPT ![f] = "stored"]
        /\ bloom' = [items |-> bloom.items \cup new, count |-> bloom.count + Cardinality(new)]
  /\ job' = Idle
  /\ UNCHANGED <<staging, object, framed, saved, caches, victims, doomed, read, bounds>>

-----------------------------------------------------------------------------
(* seal.  A batch is due when it is large enough or its first data old       *)
(* enough; recover() seals again what a crash left in the state sealing.     *)
Due(b) == batch[b].state = "open" /\ batch[b].dated
(* The state and the list of the chunks in use, sorted by the extension of   *)
(* a file that has them, which may be any order.                             *)
SealList(b, order) ==
  /\ job = Idle
  /\ IF doomed # {} THEN b \in doomed ELSE Due(b)
  /\ order \in SetToSeqs(LiveIn(b))
  /\ batch' = [batch EXCEPT ![b].state = "sealing"]
  /\ job' = [op |-> "seal", b |-> b, order |-> order, pc |-> "put"]
  /\ UNCHANGED <<chunk, file, framed, staging, object, saved, mem, read, bounds>>
(* Every chunk is read back from the staging file and verified, and the      *)
(* object is replaced.                                                       *)
InStaging(c, b) == staging[b] # Gone /\ chunk[c].off \in DOMAIN staging[b] /\ staging[b][chunk[c].off] = c
SealPut ==
  /\ job.op = "seal" /\ job.pc = "put"
  /\ \A c \in ToSet(job.order) : InStaging(c, job.b)
  /\ object' = [object EXCEPT ![job.b] = job.order]
  /\ job' = [job EXCEPT !.pc = "tx"]
  /\ UNCHANGED <<tables, staging, saved, mem, read, bounds>>
(* WriteFailed, after the delete: the worker will not ask for this batch     *)
(* again.  At the start-up it is fatal, which is a crash.                    *)
SealFails ==
  /\ job.op = "seal" /\ job.pc = "put"
  /\ fails < MaxFails /\ doomed = {}
  /\ object' = [object EXCEPT ![job.b] = Gone]
  /\ fails' = fails + 1
  /\ job' = Idle
  /\ UNCHANGED <<tables, staging, saved, mem, read, tries, aborts, crashes>>
(* What was released since the list was made has no reference any more: its  *)
(* row goes, whatever the object holds.                                      *)
Dropped(b) == {c \in Rows : chunk[c].batch = b /\ chunk[c].refs = 0}
SealTx ==
  /\ job.op = "seal" /\ job.pc = "tx"
  /\ chunk' = [c \in Chunk |->
       IF c \in Dropped(job.b) THEN Gone
       ELSE IF c \in ToSet(job.order)
            THEN [chunk[c] EXCEPT !.off = PosIn(c, job.order)]
            ELSE chunk[c]]
  /\ batch' = [batch EXCEPT ![job.b] = [@ EXCEPT !.state = "sealed",
                 !.raw = Len(job.order), !.live = Len(job.order)]]
  /\ framed' = IF job.order = <<>> THEN framed \ {job.b} ELSE framed \cup {job.b}
  /\ job' = [job EXCEPT !.pc = "unlink"]
  /\ UNCHANGED <<file, staging, object, saved, mem, read, bounds>>
SealUnlink ==
  /\ job.op = "seal" /\ job.pc = "unlink"
  /\ staging' = [staging EXCEPT ![job.b] = Gone]
  /\ job' = [job EXCEPT !.pc = "forget"]
  /\ UNCHANGED <<tables, object, saved, mem, read, bounds>>
(* The dictionary is forgotten beside readers that may have looked it up.    *)
SealDone ==
  /\ job.op = "seal" /\ job.pc = "forget"
  /\ dicts' = dicts \ {job.b}
  /\ saved' = bloom
  /\ job' = Idle
  /\ doomed' = doomed \ {job.b}
  /\ UNCHANGED <<tables, staging, object, bloom, frames, victims, read, bounds>>

(* _maintenance and shutdown save the filter too.                            *)
SaveBloom ==
  /\ job = Idle /\ doomed = {}
  /\ saved # bloom /\ saved' = bloom
  /\ UNCHANGED <<tables, staging, object, mem, job, read, bounds>>

-----------------------------------------------------------------------------
(* compact: the list of the victims is made without the lock.                *)
CompactList ==
  /\ victims = {} /\ doomed = {} /\ job.op # "seal" /\ job.op # "compact"   \* the same thread
  /\ victims' = {b \in Batch : batch[b].state = "sealed" /\ batch[b].raw > 0
                               /\ 100 * batch[b].live < Ratio * batch[b].raw}
  /\ victims' # {}
  /\ UNCHANGED <<tables, staging, object, saved, bloom, caches, doomed, job, read, bounds>>
(* What a cache holds when b has come to it: above its capacity the oldest   *)
(* entry goes, which may be any other.                                       *)
Evicted(S, b, max) == IF Cardinality(S) <= max THEN {S} ELSE {S \ {o} : o \in S \ {b}}
InMemory(f) == {b \in Batch : f[b] # Gone}
WithFrame(b, s) ==
  LET f == [frames EXCEPT ![b] = s]
  IN {[d \in Batch |-> IF d \in S THEN f[d] ELSE Gone] : S \in Evicted(InMemory(f), b, MaxFrames)}
WithDict(b) == Evicted(dicts \cup {b}, b, MaxDicts)
At(s, i) == IF i \in DOMAIN s THEN s[i] ELSE Gone

(* compact reads every chunk of the victim with read_chunk.                  *)
Content(b) == IF frames[b] # Gone THEN frames[b] ELSE object[b]
CopyReads(v) ==
  /\ v \in framed /\ Content(v) # Gone
  /\ \A c \in LiveIn(v) : At(Content(v), chunk[c].off) = c
  /\ frames' \in WithFrame(v, Content(v))
  /\ dicts' \in IF frames[v] # Gone THEN {dicts} ELSE WithDict(v)
CompactCopy(v, t) ==
  /\ job = Idle
  /\ v \in victims
  /\ OpenBatch(t)
  /\ \E order \in SetToSeqs(LiveIn(v)) :
       /\ IF order = <<>> THEN UNCHANGED caches ELSE CopyReads(v)
       /\ staging' = Extended(t, order)
       /\ job' = [op |-> "compact", b |-> v, t |-> t, moved |-> order, at |-> Len(Raw(t)), pc |-> "tx"]
  /\ batch' = Opened(t)
  /\ victims' = victims \ {v}
  /\ UNCHANGED <<chunk, file, framed, object, saved, bloom, doomed, read, bounds>>
(* A read of the copy, or its writing, raises: what was written stays in the *)
(* file, and the other victims have to wait.                                 *)
CompactFails(v, t) ==
  /\ job = Idle /\ aborts < MaxFails
  /\ v \in victims
  /\ OpenBatch(t)
  /\ \E order \in SetToSeqs(LiveIn(v)) : \E n \in 0 .. Len(order) :
       staging' = Extended(t, SubSeq(order, 1, n))
  /\ UNCHANGED caches \/ CopyReads(v)
  /\ batch' = Opened(t)
  /\ victims' = {}
  /\ aborts' = aborts + 1
  /\ UNCHANGED <<chunk, file, framed, object, saved, bloom, doomed, job, read, tries, fails, crashes>>
CompactMovedBatch(c) == [chunk[c] EXCEPT !.batch = job.t]
CompactMoved(c) ==
  [chunk[c] EXCEPT !.batch = job.t, !.off = job.at + PosIn(c, job.moved)]
CompactTx ==
  /\ job.op = "compact" /\ job.pc = "tx"
  /\ chunk' = [c \in Chunk |->
       IF c \in ToSet(job.moved) THEN CompactMoved(c)
       ELSE IF Row(c) /\ chunk[c].batch = job.b THEN Gone ELSE chunk[c]]
  /\ batch' = [batch EXCEPT
       ![job.t] = [batch[job.t] EXCEPT !.raw = @ + Len(job.moved), !.live = @ + Len(job.moved), !.dated = TRUE],
       ![job.b] = [batch[job.b] EXCEPT !.state = "deleted", !.live = 0]]
  /\ framed' = framed \ {job.b}
  /\ job' = [job EXCEPT !.pc = "delete"]
  /\ read' = [r \in Reader |-> IF read[r].pc # "idle" /\ read[r].b = job.b
                               THEN [read[r] EXCEPT !.hit = TRUE] ELSE read[r]]
  /\ UNCHANGED <<file, staging, object, saved, mem, bounds>>
(* The object goes, and the caches forget the batch; a reader that changes   *)
(* _frames while it is copied makes compact raise.                           *)
Copying(r) == read[r].pc \in {"keep", "touch"}
CompactDelete ==
  /\ job.op = "compact" /\ job.pc = "delete"
  /\ object' = [object EXCEPT ![job.b] = Gone]
  /\ \/ /\ frames' = [frames EXCEPT ![job.b] = Gone] /\ dicts' = dicts \ {job.b}
        /\ UNCHANGED victims
     \/ /\ \E r \in Reader : Copying(r)
        /\ victims' = {} /\ UNCHANGED caches
  /\ job' = Idle
  /\ UNCHANGED <<tables, staging, saved, bloom, doomed, read, bounds>>

-----------------------------------------------------------------------------
(* purge: release_file in the caller's transaction, at any time.             *)
ReleasedOnce(f, c) == [chunk[c] EXCEPT !.refs = @ - 1]
Released(f, c) == [chunk[c] EXCEPT !.refs = @ - Occurs(c, f)]
Release(f) ==
  /\ file[f] = "stored" /\ doomed = {}
  /\ file' = [file EXCEPT ![f] = "purged"]
  /\ chunk' = [c \in Chunk |-> IF c \in ChunksOf(f) /\ Row(c) THEN Released(f, c) ELSE chunk[c]]
  /\ batch' = [b \in Batch |-> [batch[b] EXCEPT !.live = @ -
       Cardinality({c \in ChunksOf(f) : Row(c) /\ chunk[c].batch = b /\ chunk'[c].refs = 0})]]
  /\ read' = [r \in Reader |->
       IF read[r].pc # "idle" /\ Row(r) /\ chunk'[r].refs = 0
       THEN [read[r] EXCEPT !.hit = TRUE] ELSE read[r]]
  /\ UNCHANGED <<framed, staging, object, saved, mem, job, bounds>>

-----------------------------------------------------------------------------
(* read_chunk, without the lock: the row and the state of its batch, then    *)
(* the bytes.  "hit" notes that the chunk was released, or its batch         *)
(* compacted, since the read began.                                          *)
Resolved(r, n) ==
  IF Row(r)
  THEN [pc |-> IF batch[chunk[r].batch].state \in {"open", "sealing"} THEN "staging" ELSE "frame",
        b |-> chunk[r].batch, off |-> chunk[r].off, n |-> n, hit |-> n = 2 /\ read[r].hit, data |-> Gone]
  ELSE [read[r] EXCEPT !.pc = "failed"]
ReadStart(r) ==
  /\ read[r].pc = "idle" /\ doomed = {}
  /\ Refs(r) > 0
  /\ read' = [read EXCEPT ![r] = Resolved(r, 1)]
  /\ UNCHANGED <<tables, staging, object, saved, mem, job, bounds>>
(* The bytes are verified.  A file or an object that is not there means that *)
(* the chunk moved, and it is resolved once more.                            *)
Verified(r, got) == [read EXCEPT ![r] = IF got = r THEN NotReading ELSE [@ EXCEPT !.pc = "failed"]]
MovedOnce(r) == [read EXCEPT ![r].pc = "failed"]
Moved(r) == [read EXCEPT ![r] = IF read[r].n = 1 THEN Resolved(r, 2) ELSE [@ EXCEPT !.pc = "failed"]]
ReadStaging(r) ==
  /\ read[r].pc = "staging"
  /\ read' = IF staging[read[r].b] = Gone THEN Moved(r)
             ELSE Verified(r, At(staging[read[r].b], read[r].off))
  /\ UNCHANGED <<tables, staging, object, saved, mem, job, bounds>>
(* _read_sealed: the row of the frame, of which there may be none any more,  *)
(* which is a TypeError; then the frame, from memory or from the object.     *)
ReadGoesOn(r, pc, data) == read' = [read EXCEPT ![r] = [@ EXCEPT !.pc = pc, !.data = data]]
ReadFrame(r) ==
  /\ read[r].pc = "frame"
  /\ ReadGoesOn(r, IF read[r].b \in framed THEN "get" ELSE "failed", Gone)
  /\ UNCHANGED <<tables, staging, object, saved, mem, job, bounds>>
ReadGet(r) ==
  /\ read[r].pc = "get"
  /\ ReadGoesOn(r, IF frames[read[r].b] # Gone THEN "touch" ELSE "object", frames[read[r].b])
  /\ UNCHANGED <<tables, staging, object, saved, mem, job, bounds>>
ReadObject(r) ==
  /\ read[r].pc = "object"
  /\ IF object[read[r].b] # Gone THEN ReadGoesOn(r, "dict", object[read[r].b]) ELSE read' = Moved(r)
  /\ UNCHANGED <<tables, staging, object, saved, mem, job, bounds>>
(* _dictionary tests, then indexes: the entry may be gone by then.           *)
ReadTest(r) ==
  /\ read[r].pc = "dict"
  /\ ReadGoesOn(r, IF read[r].b \in dicts THEN "index" ELSE "load", read[r].data)
  /\ UNCHANGED <<tables, staging, object, saved, mem, job, bounds>>
ReadIndex(r) ==
  /\ read[r].pc = "index"
  /\ ReadGoesOn(r, IF read[r].b \in dicts THEN "keep" ELSE "keyerror", read[r].data)
  /\ UNCHANGED <<tables, staging, object, saved, mem, job, bounds>>
(* The object is read once more, unless the batch has no dictionary.         *)
ReadLoad(r) ==
  /\ read[r].pc = "load"
  /\ \/ ReadGoesOn(r, "keep", read[r].data) /\ dicts' \in WithDict(read[r].b)
     \/ object[read[r].b] = Gone /\ read' = Moved(r) /\ UNCHANGED dicts
  /\ UNCHANGED <<tables, staging, object, saved, bloom, frames, victims, doomed, job, bounds>>
ReadKeep(r) ==
  /\ read[r].pc = "keep"
  /\ frames' \in WithFrame(read[r].b, read[r].data)
  /\ read' = Verified(r, At(read[r].data, read[r].off))
  /\ UNCHANGED <<tables, staging, object, saved, bloom, dicts, victims, doomed, job, bounds>>
(* move_to_end, of an entry that may be gone.                                *)
ReadTouch(r) ==
  /\ read[r].pc = "touch"
  /\ IF frames[read[r].b] # Gone THEN read' = Verified(r, At(read[r].data, read[r].off))
     ELSE ReadGoesOn(r, "keyerror", Gone)
  /\ UNCHANGED <<tables, staging, object, saved, mem, job, bounds>>
ReadEnds(r) ==
  /\ read[r].pc \in {"failed", "keyerror"}
  /\ read' = [read EXCEPT ![r] = NotReading]
  /\ UNCHANGED <<tables, staging, object, saved, mem, job, bounds>>

-----------------------------------------------------------------------------
(* A power cut and the start-up: _load_bloom takes the saved filter when it  *)
(* counts as many chunks as the table, and recover() lists what to seal.     *)
Loaded == IF saved # Gone /\ saved.count = Cardinality(Rows) THEN saved
          ELSE [items |-> Rows, count |-> Cardinality(Rows)]
InterruptedLate == {b \in Batch : batch[b].state = "sealing" /\ object[b] # Gone}
Interrupted == {b \in Batch : batch[b].state = "sealing" /\ staging[b] # Gone}
Crash ==
  /\ crashes < MaxCrashes
  /\ crashes' = crashes + 1
  /\ job' = Idle /\ victims' = {}
  /\ frames' = [b \in Batch |-> Gone] /\ dicts' = {}
  /\ read' = [r \in Reader |-> NotReading]
  /\ bloom' = Loaded
  /\ doomed' = Interrupted
  /\ UNCHANGED <<tables, staging, object, saved, tries, fails, aborts>>

-----------------------------------------------------------------------------
SealNext == \/ \E b \in Batch : \E order \in SetToSeqs(LiveIn(b)) : SealList(b, order)
            \/ SealPut \/ SealTx \/ SealUnlink \/ SealDone
CompactNext == CompactList \/ (\E v, t \in Batch : CompactCopy(v, t)) \/ CompactTx \/ CompactDelete
ReadSealed(r) == \/ ReadFrame(r) \/ ReadGet(r) \/ ReadObject(r) \/ ReadTest(r) \/ ReadIndex(r)
                 \/ ReadLoad(r) \/ ReadKeep(r) \/ ReadTouch(r)
ReadNext(r) == ReadStart(r) \/ ReadStaging(r) \/ ReadSealed(r) \/ ReadEnds(r)
Next ==
  \/ \E f \in File, b \in Batch : IngestAppend(f, b)
  \/ IngestTx
  \/ SealNext \/ SealFails \/ SaveBloom
  \/ CompactNext
  \/ \E v, t \in Batch : CompactFails(v, t)
  \/ \E f \in File : Release(f)
  \/ \E r \in Reader : ReadNext(r)
  \/ Crash

Spec == Init /\ [][Next]_vars

(* The ingest worker and the worker of the batches take their turns.         *)
FairSpec == Spec /\ WF_vars(IngestTx) /\ WF_vars(SealNext \/ CompactNext)

-----------------------------------------------------------------------------
(* Properties.                                                               *)

IngestJob == [op : {"ingest"}, f : File, b : Batch, new : Seq(Chunk), at : Nat]
SealJob == [op : {"seal"}, b : Batch, order : Seq(Chunk), pc : {"put", "tx", "unlink", "forget"}]
CompactJob == [op : {"compact"}, b : Batch, t : Batch, moved : Seq(Chunk), at : Nat,
               pc : {"tx", "delete"}]
Reading == [pc : {"staging", "frame", "get", "object", "dict", "index", "load", "keep", "touch",
                  "failed", "keyerror"},
            b : Batch, off : Nat, n : {1, 2}, hit : BOOLEAN, data : Seq(Chunk) \cup {Gone}]
TypeOK ==
  /\ batch \in [Batch -> BatchRow] /\ chunk \in [Chunk -> ChunkRow \cup {Gone}]
  /\ file \in [File -> {"absent", "stored", "purged"}]
  /\ staging \in [Batch -> Seq(Chunk) \cup {Gone}] /\ object \in [Batch -> Seq(Chunk) \cup {Gone}]
  /\ framed \subseteq Batch /\ dicts \subseteq Batch /\ victims \subseteq Batch /\ doomed \subseteq Batch
  /\ frames \in [Batch -> Seq(Chunk) \cup {Gone}]
  /\ bloom \in Filter /\ saved \in Filter \cup {Gone}
  /\ job \in {Idle} \cup IngestJob \cup SealJob \cup CompactJob
  /\ read \in [Reader -> {NotReading} \cup Reading]

(* A chunk in use lies where its row says, in the staging file while the     *)
(* batch is open or being sealed, in the object once it is sealed, through   *)
(* every seal, compaction, release, failure and crash.                       *)
ChunksInPlace ==
  \A c \in Rows : chunk[c].refs > 0 =>
    LET b == chunk[c].batch IN
    CASE batch[b].state \in {"open", "sealing"} -> InStaging(c, b)
      [] batch[b].state = "sealed" -> b \in framed /\ object[b] # Gone /\ At(object[b], chunk[c].off) = c
      [] OTHER -> FALSE

(* The references of a chunk are the pieces of the files that are stored,    *)
(* repeated pieces counted (ingest_file, release_file).                      *)
RefsAreExact ==
  \A c \in Chunk : Refs(c) = Cardinality(
    {p \in UNION {{f} \X DOMAIN Body[f] : f \in File} : file[p[1]] = "stored" /\ Body[p[1]][p[2]] = c})

(* live_bytes errs on one side: a release between the list of a seal or a    *)
(* compaction and its transaction may leave it too high, which delays a      *)
(* compaction, but it never falls below what is in use.                      *)
LiveBytesCoverUse == \A b \in Batch : batch[b].live >= Cardinality(LiveIn(b))

(* "moved concurrently by seal/compaction; re-resolve": a chunk that is in   *)
(* use all along is read, however it moves.                                  *)
LiveChunkIsRead ==
  \A r \in Reader : read[r].pc = "failed" => Refs(r) = 0

(* What does hold: a chunk that a seal moves under a reader is found all the *)
(* same, and the bytes are its own, in the file, in the object or in a frame *)
(* that has stayed in memory.  Only a release of the chunk or a compaction   *)
(* of its batch during the read makes it fail, but for the caches.           *)
UnhitReadIsFound == \A r \in Reader : read[r].pc = "failed" => read[r].hit

(* The caches have no lock: what a test or a get found may be gone when it   *)
(* is used, by the seal that makes the batch or by another read.             *)
SealNeverFailsARead == \A r \in Reader : read[r].pc \in {"failed", "keyerror"} => read[r].hit

(* "A negative answer is definitive": a chunk with a row is in the filter.   *)
BloomIsComplete == Rows \subseteq bloom.items

(* Why they hold (IInv is inductive).  Where a chunk lies does not depend on *)
(* its references: one that nobody uses may be used again.                   *)
InPlace(c) ==
  LET b == chunk[c].batch IN
  \/ batch[b].state \in {"open", "sealing"} /\ InStaging(c, b)
  \/ batch[b].state = "sealed" /\ b \in framed /\ object[b] # Gone /\ At(object[b], chunk[c].off) = c
RowsInPlace == \A c \in Chunk : Row(c) => InPlace(c)

IsListOf(s, S) == (\A c \in S : c \in ToSet(s)) /\ \A i, j \in DOMAIN s : s[i] = s[j] => i = j
Holds(raw, at, s) == raw # Gone /\ \A i \in DOMAIN s : At(raw, at + i) = s[i]
(* The holder of the lock: its list still covers what is in use.             *)
IngestOK ==
  job.op = "ingest" =>
    /\ file[job.f] = "absent" /\ batch[job.b].state = "open"
    /\ IsListOf(job.new, {c \in ChunksOf(job.f) : ~ Row(c)}) /\ ToSet(job.new) \subseteq ChunksOf(job.f)
    /\ Holds(staging[job.b], job.at, job.new)
SealOK ==
  job.op = "seal" =>
    IF job.pc \in {"unlink", "forget"} THEN batch[job.b].state = "sealed"
    ELSE /\ batch[job.b].state = "sealing"
         /\ IsListOf(job.order, LiveIn(job.b))
         /\ \A c \in ToSet(job.order) : Row(c) /\ chunk[c].batch = job.b
         /\ job.pc = "tx" => object[job.b] = job.order
CompactOK ==
  job.op = "compact" =>
    /\ job.b \notin victims
    /\ IF job.pc = "delete" THEN batch[job.b].state = "deleted"
       ELSE /\ batch[job.t].state = "open" /\ batch[job.b].state = "sealed"
            /\ IsListOf(job.moved, LiveIn(job.b))
            /\ \A c \in ToSet(job.moved) : Row(c) /\ chunk[c].batch = job.b
            /\ Holds(staging[job.t], job.at, job.moved)
VictimsAreSealed == \A b \in victims : batch[b].state = "sealed"
DoomedAreSealing == \A b \in doomed : batch[b].state = "sealing" \/ (job.op = "seal" /\ job.b = b)
(* What is in memory of a sealed batch is its object.                        *)
IsFrameOf(s, b) == batch[b].state \in {"sealed", "deleted"} /\ (batch[b].state = "sealed" => s = object[b])
FramesOK == \A b \in Batch : frames[b] # Gone => IsFrameOf(frames[b], b)
InSealed == {"frame", "get", "object", "dict", "index", "load", "keep", "touch"}
DataOK(r) ==
  /\ read[r].pc \in InSealed => batch[read[r].b].state \in {"sealed", "deleted"}
  /\ read[r].pc \in {"dict", "index", "load", "keep", "touch"} => IsFrameOf(read[r].data, read[r].b)
(* A read that nothing has hit is where the row is, or was before a seal.    *)
Found(r) ==
  /\ Row(r) /\ chunk[r].refs > 0 /\ chunk[r].batch = read[r].b
  /\ IF read[r].pc = "staging"
     THEN read[r].n = 1 /\ (staging[read[r].b] # Gone => At(staging[read[r].b], read[r].off) = r)
     ELSE batch[read[r].b].state = "sealed" /\ chunk[r].off = read[r].off
ReadOK(r) ==
  \/ read[r].pc \in {"idle", "keyerror"}
  \/ read[r].hit
  \/ read[r].pc # "failed" /\ Found(r)
Fits ==
  /\ TypeOK /\ RowsInPlace /\ RefsAreExact /\ LiveBytesCoverUse
  /\ IngestOK /\ SealOK /\ CompactOK /\ VictimsAreSealed /\ DoomedAreSealing
  /\ \A r \in Reader : ReadOK(r)
CachesOK == FramesOK /\ \A r \in Reader : DataOK(r)
IInv == Fits /\ CachesOK

(* What is due reaches the object store, however often a seal is cut short   *)
(* by a crash; only a seal that raised leaves it in staging, in the state    *)
(* sealing, for which nobody asks before the next start (due_for_seal).      *)
DueIsSealed == \A b \in Batch : Due(b) ~> (batch[b].state \in {"sealed", "deleted"} \/ fails > 0)
=============================================================================
