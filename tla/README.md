# Verification of Personal-Cloud-storage

A server (`server/cloudstore`, Python, SQLite) that keeps a household's photos and files on a
handful of disks: an erasure-coded object store, a deduplicating batch store for small files, a
resumable upload protocol, an ingest pipeline, near-duplicate and spatial indexes, per-device sync
manifests, and an iOS and a web client. The modules here model the parts in which a wrong order of
steps loses or mixes up data, TLC checks them on small instances, and TLAPS proves what matters
most for every instance.

## 1. The system

| Component | State | Operations | Works with |
|---|---|---|---|
| Object store `storage/objectstore.py` | tables `objects`, `stripes`, `shards`; shard files; one lock per key; a stripe cache | `put_stream`, `delete`, `iter_range`, `repair_stripe`, `restripe_object`, `recover_pending` | disks, everything above it |
| Shard files `storage/shardfile.py` | one file per shard, header and payload | write (tmp, fsync, rename), read and verify, delete | object store, index recovery |
| Disk manager `storage/disks.py` | table `disks` | `add`, `set_status`, `record_error`, `check_all` | health worker, rebuild |
| Scrub and rebuild `storage/scrub.py`, `rebuild.py` | `scrub_runs`, `rebuild_tasks` | `run`, `run_task`, `replace_disk` | `repair_stripe`, disk manager |
| Index recovery, snapshots `storage/recovery.py`, `snapshots.py` | none of their own | `recover_index`, `take_snapshot`, `restore_snapshot` | shard headers, object store |
| Batch store `dedup/batchstore.py` | `batches`, `chunks`, `batch_frames`, `file_chunks`; staging files; Bloom filter | `ingest_file`, `read_chunk`, `seal`, `compact`, `release_file`, `recover` | object store, ingest, purge |
| Uploads `api/tus.py` and its clients | table `uploads`, staging files, one lock per upload | `create`, `patch`, `_complete`, `terminate` | ingest queue, maintenance worker |
| Ingest `ingest/pipeline.py` | table `ingest_jobs` | `enqueue`, `run_pending`, `process` | both stores, indexes, sync |
| Files `services.py` | table `files`, thumbnails | `trash`, `restore`, `purge` | both stores, indexes |
| Sync `sync/manager.py`, `merkle.py`; `SyncPlanner.swift`, `SyncEngine.swift` | `device_items`, a Merkle tree per device | `link`, `unlink`, `reconcile`, `diff` | ingest, client |
| Near-duplicates `phash/` | Hamming index, `files.dup_group` | `load`, `add`, `remove`, `groups` | ingest, files |
| Pure code: `erasure/`, `dedup/rabin.py`, `dedup/bloom.py`, `phash/mih.py`, `phash/bktree.py`, `spatial/`, `cache/lru.py` | data structures | functions | |

What makes it hard: requests, the ingest worker, scrub, rebuild, sealing, health checks and
maintenance are threads over one SQLite database and a set of disks; only puts and deletes of one
key, ingest and sealing, and PATCHes of one upload exclude each other. Files and rows cannot change
in one step, so every operation has an order, and the server may crash at any point of it. Disks
fail, come back and fill up. The command line opens the same database from a second process.

What each component must get right is listed, hazard by hazard, in `PROJECT.json` ("hazards").

## 2. Modules

`AtomicStore` is what the object store promises its callers: a map from keys to contents in which a
put takes effect at one instant, whole or not at all, and which a crash does not change.

`ObjectStore` models the store as it is. Its state and the code:

* `object`, `stripe`, `shard`, `diskStatus`: the tables. A deleted stripe row stays in the model as
  `"gone"`, because its uuid is not drawn again and its files may still lie on a disk.
* `files`: shard files in place, `<<disk, stripe, index>>`. The rename that puts a file in place is
  atomic; temporary files matter to nobody and are left out.
* `w[k]`: the thread that holds the lock of key `k` in `put_stream` or `delete`, with its local
  variables: `len` the number of stripes its source will deliver, `seq` the stripe it is at, `rows`
  the list it will insert, `doomed` the files it has still to unlink.
* `rd[x]`: a thread in `iter_range`, with the rows and disk states `_read_stripe` read (`at`).
* `up[d]`: whether the file system of the disk answers. It is the environment's; the code sees it
  by the outcome of a call.
* `phase`, `bootDoomed`: how far `Services.startup` has come.

An action is one transaction, one file operation, or a run of such operations between which no step
of another thread can make a difference; the comment above it names the exception if there is one.
A payload is not modelled: a stripe is its key and number, which its shard headers carry, and
"k shards decode to the stripe" is the contract of the codec.

`LiveRecovery` adds a second process, `cloudstore scrub`, which calls `recover_pending` beside a
serving server.

`StripeRepair` is what happens to a stripe after it was written. Its parts and the code:

* `th[t]`: a thread in `repair_stripe` or `_read_stripe`, with the rows and the disk map it copied
  at the start (`rows`, `map`), the shards it could read (`got`), those still to be written
  (`todo`) and the disks it takes for occupied (`used`). These copies are what makes the code hard:
  no lock covers a repair.
* `rotten`: files whose checksum no longer matches; `call[s]`: a put or delete of the object of
  stripe `s`; `hc`: `check_all` between the list of disks it read and the verdict on one of them.
* The write protocol is one step here, for `ObjectStore` has it in detail; an object has one stripe.

`Rebuild` extends it by `run_task` and `replace_disk`: `task` is the row of `rebuild_tasks`, `job`
the locals of the worker. Its calls of `repair_stripe` are `StripeRepair`'s actions, taken by the
thread `Rebuilder`.

`Restripe` extends `ObjectStore` by `cloudstore restripe`: `rs` is the process, with the locals of
`restripe_object`; `converted` the stripes it has written. Its steps are the ones `_write_stripe`
and `_read_stripe` take, in coarser pieces, and the swap in one transaction. `Beside` says what may
meet it: calls for the object it is at, or a restart of the server.

`IndexRecovery` is `recover_index` as a function of the files on the disks, to be asked in every
state of `ObjectStore` what index it would build.

`BatchStore` is the tier for small files. `batch`, `chunk`, `file`, `framed` are its tables,
`staging` the raw files, `object` the sealed objects, `frames` and `dicts` the two caches of
`_read_sealed` and `_dictionary`, `job` the holder of `_lock` with its locals, `read[r]` a thread in
`read_chunk`, which takes no lock. `SealList`, `SealPut`, `SealTx`, `SealUnlink`, `SealDone` (or
`SealFails`) are the steps of `seal` between which a reader, a release or a crash may come;
`CompactList` to `CompactDelete` (or `CompactFails`) those of `compact`; `ReadFrame` to `ReadTouch`
those of a read from an object, in which the caches are tested in one step and used in a later one;
`Crash` ends with what `recover` finds.

`Uploads` follows one content from a client to the library. `cl[c]` is a phone (`SyncEngine`,
`TusClient`) or the upload page, with the request it waits for; `srv[u]` the PATCH that holds the
lock of an upload, with the offset it has read and the one it has synced, or the POST that creates
the file (`CreateFile`) and then the row (`CreateRow`); `row`, `staging`, `job`
the table, the file and the queue; `worker` the ingest thread, `sweep` the maintenance thread.
A piece of the content is good or not: it is not if the file was edited after it was hashed.

`Library` is what happens to files afterwards: trash, restore, purge, thumbnails, the duplicate
index with its groups, the manifest of a device. A thread in `th` is one request, a step is one
statement. `Sessions` are the requests of a behaviour, `Clash` the pairs of operations on one file
that it does not overlap.

`ErasureCode`, `Chunking`, `SearchTrees` and `Manifest` hold the algorithms as functions: GF(256),
matrices and Reed-Solomon; Rabin chunking and the Bloom filter; BK-tree, multi-index hashing,
quadtree and LRU cache; the Merkle tree of a manifest and the walk that compares two. `Structures`
drives them by all sequences of calls up to `MaxCalls`, each beside the plain set or sequence it
stands for.

Proofs: `ObjectStoreSafety` (types, rows, files, redundancy), `ObjectStoreWhole` (whole objects),
`ObjectStoreCommits` (what stays once it is committed: reads, the refinement of `AtomicStore`, the
recovered index), `RestripeProofs` (the same files, objects and refinement beside a restripe),
`RebuildProofs` (types of `StripeRepair` and `Rebuild`, what one scrub keeps, what a replacement beside scrubs, reads and puts keeps), `BatchStoreProofs`, `UploadsProofs` and
`LibraryProofs` (the safety of each). The `MC` modules are the instances for TLC; a run's constants
stand in its `.cfg`.

How the modules hang together: `StripeRepair` and `Rebuild` start where `ObjectStore` has committed
a stripe, `Restripe`, `LiveRecovery` and `IndexRecovery` extend it. `BatchStore`, `Uploads` and
`Library` use the object store by its promise, `AtomicStore`: an object is put or deleted in one
step, whole or not at all. `BatchStore` and `Library` use the chunker and the indexes by theirs,
which `Structures` checks.

## 3. Plan

In the order of what is lost if it goes wrong:

| Modules | Subject | Specified by | State |
|---|---|---|---|
| `AtomicStore`, `ObjectStore`, `LiveRecovery` | write protocol, reads, crash, recovery | `AtomicStore` | modelled, checked, proved |
| `Restripe`, `IndexRecovery` | conversion to another code, index from headers | `AtomicStore`; the index that was lost | modelled, checked, safety and refinement proved |
| `StripeRepair`, `Rebuild` | repair, scrub, disk replacement | invariants | modelled, checked, safety proved |
| `BatchStore` | chunks through staging, seal, compaction, release | invariants | modelled, checked, safety proved |
| `Uploads` | upload, completion, ingest, expiry, clients | invariants, liveness | modelled, checked, safety proved |
| `Library` | trash, restore, purge, thumbnails, groups, manifest | invariants, liveness | modelled, checked, safety proved |
| `ErasureCode`, `Chunking`, `SearchTrees`, `Manifest`, `Structures` | pure algorithms | definitions by sets | modelled, checked |
| snapshots, `terminate`, power loss of SQLite | | | open |

Every safety property that a run checks is a theorem, but for those of `Structures`, which speak of
recursive functions, and `RetiredIsEmpty`, which puts and scrubs break. Theorems still worth proving: `LastFileStays` where disks go away and come
back, which is checked without them only, and what two scrubs of one stripe keep at least.

## 4. What the runs show

| Run | Asks | Answer |
|---|---|---|
| `write` | Do puts, failing puts, retries, deletes and recovery keep rows and files consistent and objects whole? Would the lost index come back from the disks? | `NoDanglingRows`, `DistinctDisks`, `WholeObjects` hold; `RecoveredIsStored` holds at rest, with any `min_write_extra` disks lost as well, if no file is left over |
| `keys` | Do two keys stay apart when SQLite uses row ids again; is the store atomic, also while it is restriped? | it implements `AtomicStore` (`IsAtomicStore`); `ListedIsWhole`, `VisibleInPlace` through the swap and a crash, if nothing else touches the restriped object |
| `live` | Does every put and delete return, does the server start; does a stripe ever commit with too few shards; does a read that raises nothing deliver the object? | `ServerGoesOn`, `Redundant`, also when disks never come back; `UndisturbedReadIsWhole`, unless the object was deleted meanwhile |
| `repair` | Does a repair lose data that it had? | `DataKept` holds |
| `heal` | Does the scrub bring a damaged stripe back? | `Healed`, from anything a crash left |
| `replace` | Does a replacement end, empty the old disk and let reads go on? | `TaskEnds`, `RetiredIsEmpty`, `ReadsContinue` (no read or repair takes a stripe that was written whole for unrecoverable), `JobTypeOK` hold without puts, scrub and disk faults |
| `race` | Can scrub and rebuild together unlink the last file of a shard, or give up too many? | no, if no file is damaged: `LastFileStays`, `ReplacementKeepsData` |
| `batch` | Do chunks stay where their rows say while batches are sealed and compacted? | `ChunksInPlace`, `RefsAreExact`, `LiveBytesCoverUse`; a read that no release and no compaction hits finds its chunk (`UnhitReadIsFound`), but for the unlocked caches; what is due is sealed unless a seal raised (`DueIsSealed`) |
| `uploads` | Is what arrives what was declared, does it arrive, and is no file left in staging? | `OffsetIsOnDisk`, `IngestedIsDeclared`, `CompletedIsKept`, `BackedUp` for phones; `StagingIsFreed` for the files of uploads that have a row, unless the ingest was given up |
| `library` | Do rows, bytes, index and manifest agree under overlapping requests and a crash? | `LiveHasBytes`, `IndexIsExact`, `TreeIsTable`, `PurgedForGood`, `PurgeFrees`, for every overlap that `Clash` does not exclude |
| `structures` | Are the data structures what they stand for? | `TablesMultiply`, `AnyShardsDecode`, `ChunksAreDefined`, `IndexesFind`, `MapIsExact`, `CacheHoldsRecent` (the cache holds what was used last as far as the budget goes), `DiffIsDifference` hold |

One run shows where the code does not do what its documentation says ("findings" in
`PROJECT.json`); it lasts a few seconds and ends with a short trace:

* `scrub`: `cloudstore scrub` beside the server destroys a stripe that is being written.

More of the kind have a configuration each, which TLC refutes as well; where one lists several
properties, `tlc -continue` shows all of them:

| Configuration | Property | What the trace shows |
|---|---|---|
| `MCObjectStore_unmounted` | `FilesInPlaceAreReadable` | a disk away for a moment is taken for a disk that lost its shards, and rows marked missing are not read again: two such moments make a readable stripe unreadable |
| `MCObjectStore_rowid` | `ReadsItsOwnKey` | a read that outlives a delete goes on with the stripes of another key, which got the same row id |
| `MCObjectStore_recovered` | `FailedPutLeavesNoFile`, `RecoveredAnyway` | a put that raises while its first stripe is in flight leaves the files of that stripe behind (TDD 4.7: "delete what landed and fail the put"); the files that a failed put or an unanswered delete left behind come back as an object when the index is rebuilt |
| `MCRestripe_beside` | `ListedIsWhole`, `VisibleInPlace` | a restart of the server during `cloudstore restripe` sweeps the new stripes, and the swap, which does not look at how many rows it changed, deletes the old ones: the object has no stripes left. With `Beside = {"calls"}`: the object is deleted and its row id given to another key while its stripe is converted; the other object gets a stripe that is not its own |
| `MCStripeRepair_returns` | `DistinctDisks` | a disk that comes back during a repair gets a second shard of the stripe |
| `MCStripeRepair_marks` | `MarksCleared` | a repair cut short between file and row leaves a row marked corrupt for ever: the file is good, so there is nothing to do |
| `MCRebuild_beside` | `ReplacementKeepsLastShards` | a scrub with stale rows writes a moved shard back to the old disk, the rebuild counts no progress and detaches the intact shard; with another file damaged the stripe is lost |
| `MCRebuild_retired` | `RetiredIsEmpty` | a put that chose its disks before the old disk was retired commits a shard on it afterwards; with `Stored = {s1}` and `Scrubber = {u1}` a scrub with stale rows moves a shard back to it |
| `MCRebuild_detach` | `OldDiskRetired`, `DetachesHopelessOnly` | a health check that listed the old disk as failed puts it online after the rebuild retired it; with `MaxFaults = 0`, `MaxCrashes = 1` a crash between "done" and "retired" does as much, for the task is never run again. One failed write costs an intact shard although another disk was free |
| `MCBatchStore_claims` | `LiveChunkIsRead`, `SealNeverFailsARead`, `BloomIsComplete` | a chunk that is compacted twice, or sealed and compacted, during a read fails it; a read finds the dictionary of a batch in memory, the seal that made the batch pops it, and the read raises a KeyError that `read_chunk` does not catch (the frame that another read evicts before `move_to_end` is the same); a saved Bloom filter with the right count and the wrong chunks is trusted and misses chunks that exist: the insert of such a chunk fails on its primary key, and the ingest of the file is rolled back |
| `MCUploads_acknowledged` | `SyncedIsVerified`, `AcknowledgedIsKept`, `SkippedIsKnown`, `StagingIsKnown` | the app calls an item synced when the offset is complete, though the completion crashed; an upload completed after the maintenance listed it as expired loses its file; the page skips a content the server later gives up; a create that ends between `touch()` and the INSERT leaves a staging file that no row names, and the maintenance, which goes by the rows, never removes it |
| `MCLibrary_overlap` | `PurgedIsTrashed`, `SearchNeverFails`, `TreeIsTable` | restore beside purge; two restores and one trash, after which a search meets an id without a code; a link between the table and the tree of an unlink |
| `MCLibrary_grouped` | `NearIsGrouped` | two ingests of near images each read the groups before the other has merged; `GroupsAreRelated` holds |
| `MCLibrary_unfinished` | `PurgedIsFreed`, `PurgeFrees` | a crash between tombstone and delete: nobody finishes the purge; a thumbnail made again after the purge unlinked it |

`DistinctDisks` (of `StripeRepair`), `RetiredIsEmpty`, `TreeIsTable`,
`PurgeFrees` and `ListedIsWhole` are therefore passing properties of the instances without the
interference that these configurations add, and failing ones with it; they differ in that and in
their size. `DistinctDisks` of `ObjectStore`, which the run `write` checks, has no such exception.

`DataKept` is proved for one scrub (section 7) and false for two: with `Scrubber = {u1, u2}` in
`MCStripeRepair_repair.cfg` TLC refutes it within three minutes. The worker's scrub and
`cloudstore scrub` mend one stripe while a disk is away for a moment. One writes the shard to a
spare disk; the other, for which the disk is back, rewrites the old place; the first unlinks it
and updates its row, and the second updates the row after that, so that it names the file that was
unlinked. The intact copy on the spare disk has no row, and with one other file damaged a stripe
that lost one shard of two is lost.

The type invariants of `BatchStore`, `Uploads` and `Library` are checked by `MCBatchStore_claims`,
`MCUploads_acknowledged` and `MCLibrary_grouped` (with `-continue`).

## 5. Bounds

Every bound is a constant with a name that begins with `Max`, or the size of a set.

* Stripes and uuids: two or three. A put that fails uses one up, so this allows a failed attempt
  and its retry, or a stripe and its conversion; an object of two stripes has a first and a last,
  and a crash in between.
* Disks: `k + m` or one less, and one spare where a shard must find another place. The code of the
  instances is small (1+1, 1+2, 2+1 or 2+2), which is enough for a stripe to be written whole,
  degraded, or not at all, and to be read with and without parity.
* Faults, damage and crashes: one or two each. Properties that count losses compare the damage with
  `m`. A crash during a repair may come between the unlink of an old copy and the update of its
  row, so it counts as one damage for every repair that was under way. An exception that ends a
  scrub or a rebuild counts as a crash as well. `MaxTrouble` counts what goes wrong for an upload:
  lost requests, edits, failed ingests, expiries in use, crashes, kills of the app.
* `MaxObjId`: row ids, three at most; `IsNextRowId` takes the smallest above those in use, as
  SQLite does without AUTOINCREMENT.
* One scrubber, one reader, one replacement; one disk at a time between its listing and its probe.
  `race` has a scrub and a rebuild at one stripe; two scrubs, the worker's and the command line's,
  are looked at in section 4.
* Batch store: two chunks in two files, one of them twice in a file and one in both; two batches, so
  that a compaction has a target; one reader and room for one frame, so that a frame is evicted, and
  for two dictionaries. `MCBatchStore_claims` has a third file and a second reader, whose evictions
  meet the first. A batch is due or not by a choice, which stands for its size and age.
* Uploads: one content of two pieces, so that a PATCH may break in the middle; two uuids, one for
  the upload that was lost or expired and one for the next.
* Library: three images, of which the first two are near duplicates and the third is a stranger;
  two threads. The sessions are: an ingest of all three, with trash, restore and purge of the near
  pair; ingest, thumbnail, trash, restore and purge of one; ingest, link and unlink of the pair.
* Structures: the codes 1+2, 2+0, 2+2 and 3+2 with every loss of shards; streams of up to fourteen bytes,
  in a window of two with chunks of three to five, so that the scan for a boundary begins after the
  start of a chunk; hashes of four bits; points on a map of eight
  by eight; four calls in a row. The field is the real one, GF(256), with all products.
  Multiplicities, splits, evictions and removals all occur within four calls.

Symmetry is used in safety runs only, over disks (those registered, where there is a spare), keys
and stripes.

## 6. Fairness

`FairSpec` of `ObjectStore`: a thread that runs goes on running (weak fairness of each call, each
read and the start-up). Nothing is assumed of disks: a call on one that does not answer returns
with an error. `FairSpec` of `StripeRepair`: repairs go on; the scrub comes to each stripe again and
again, for it takes them in the order of `last_scrubbed_at` (strong fairness, since another
stripe's repair may be running whenever this one could begin); `check_all` runs every minute; and a
disk that is away is plugged in again, which only matters for the premise of `Healed`, that the
disks stay well in the end. `RFairSpec`: the worker polls `rebuild_tasks` every ten seconds.

`BatchStore`: the ingest under way goes on, and the one thread of `_batches`, which seals and
compacts in turn, does (weak fairness of either). `Uploads`: the workers, the clients and the
PATCHes go on; and time passes, so that an upload left alone expires (strong fairness, for a client
that looks at an upload again and again only delays it). `Library`: requests go on. No fairness is
stated for crashes, faults, requests of users or the network.

`TaskEnds` needs no scrub at the same time: with one, TLC finds a run in which the scrub, always
with stale rows, writes the shard back to the old disk each time the rebuild has moved it. It is
too unlikely to be called a bug and fairness cannot exclude it.

## 7. What is proved

For every set of disks, keys, stripes and readers, every code and every bound, from the assumptions
of `ObjectStore` (`DiskAssumption`: a finite, non-empty set of disks; `CodeAssumption`: `ec_k` at
least 1, the others natural; `BoundAssumption`; `NoneAssumption`: NULL is no key, disk or stripe):

* `TypeCorrect`: `TypeOK` is an invariant, one lemma per action.
* `FilesCorrect`: `FilesInv` is inductive. From it `DistinctDisksHold` and `RedundantHolds`, which
  rest on what the rotated and padded list of `_place` is (`PlacementIs`: writable disks, none
  twice), and with `RowsCorrect` (`RowsComeWithCommit`) `NoDanglingRowsHolds`.
* `WholeCorrect`, `SettledCorrect` and `IInvCorrect`: `IInv` is inductive. From it
  `WholeObjectsHold`.
* `ReadsCorrect`: `ReadSoFar` is an invariant. From it `UndisturbedReadsAreWhole`.
* `CallsCorrect`: `CallsMatch` is an invariant. With it `StoreIsAtomic`: `ObjectStore` implements
  `AtomicStore`.
* `RecoveredIsStoredHolds`: at rest, and with nothing left over, `recover_index` rebuilds the index.

Why the invariant needs its parts. That no row dangles depends on who may unlink: what a thread has
still to unlink belongs to stripes whose rows are gone (`DoomedIsGone`), rows come into being only
with the commit of a stripe (`RowsComeWithCommit`), those of a listed stripe name files that are
there (`VisibleInPlace`), and what the thread is about to insert is in
place on distinct disks (`ShardsSoFar`). A put that fails deletes by object, so its pending object
must be its own (`HoldsObject`, `OneRowPerKey`, `StripesHaveObject`, `HoldsStripe`): otherwise a
clean-up could remove the rows of a committed object. The start-up deletes without a lock, which is
sound because nothing else runs (`StartsAlone`), and a reader marks only stripes it once listed
(`ListsVisible`), never a pending one. `Redundant` follows at the commit from the count of what
landed. For whole objects the thread's stripes so far must be numbered `0 .. seq - 1`, each once,
with none pending but the one in flight (`StripesSoFar`); the commit of the object turns that into
`WholeObjects`. `IInv` is stated in `ObjectStore`, so
that TLC can check it as an invariant of any of the instances before a proof is tried.

What stays once it is committed (`ObjectStoreCommits`) rests on one lemma, `CommittedStays`: a
committed object keeps its key, size and stripes at every step but the transaction that deletes its
row. A read that no delete disturbed has therefore delivered, or still lists, exactly the numbers
below the size it found (`ReadSoFar`). For the refinement every step is mapped to a step of
`AtomicStore` or to a stutter: the commit of an object and the deletion of its row are the two
instants at which the abstract store changes, a crash ends the abstract calls. Which abstract call
runs is read off the thread, and `CallsMatch` is what makes that sound: a put that is cleaning up
never deletes a committed object. `RecoveredIsStored` follows from `IInv` in each state at rest: every file belongs to a
visible stripe, files of one stripe are on distinct disks, so `min_write_extra` lost disks leave
`k` headers of each, and the numbering `0 .. size - 1` gives back the size; it also takes that no
committed object is empty (`NoneEmpty`).

Of `Restripe`, from the same assumptions:

* `RestripeCorrect`: `RestripeFilesInv` is inductive if the restripe does not outlive the server it
  runs beside (`"restart" \notin Beside`), also beside calls for the object it converts. From it
  `VisibleInPlaceHolds` and `RestripeRedundantHolds`.
* `RestCorrect` and `RestripeInvCorrect`, if no such call runs (`Beside = {}`): `RestripeInv`. From
  it `ListedIsWholeHolds`; and `RestripeIsAtomic`: `RestripeSpec` implements `AtomicStore`, every
  step of `restripe_object` being a stutter.

`restripe_object` takes no lock, so its steps are interleaved with those of the store, and the
invariant of the store has to survive a second writer. `FilesInv` does, because it says of every
stripe under way whose it is: the drafts of the restripe are no thread's stripe and no thread's work
(`DraftsApart`), what it replaces are stripes that were listed (`ReplacesListed`), and each draft
that is done has its rows and files on distinct disks (`DraftsWritten`). `RowsComeWithCommit` does
not: a draft has rows while it is pending, which is why it is a part of `IInv` and not of
`FilesInv`. A restart beside the restripe unlinks the files of the drafts before it drops their
rows, and a swap in between lists them (`VisibleInPlace`); a call may delete the object
(`ListedIsWhole`). `MCRestripe_beside` shows both, so the hypotheses are needed. Under them the
object is untouched (`ObjectAtRest`) and the drafts carry the numbers of the stripes they replace
(`DraftsNumbered`); with both the swap exchanges one full numbering for another.

Of `StripeRepair` and `Rebuild`, for every set of disks, stripes, readers, every code and all
bounds (`DiskAssumption`, `CodeAssumption`, `BoundAssumption`, and `NoneAssumption`, by which the
threads are distinct and NULL is no disk or stripe):

* `RepairTypesHold`, `JobTypesHold`: types, and that a thread at a step holds what the step uses.
* `DataKeptHolds`, for one scrub (`Scrubber = {x}`): `DataKept`. Its invariant `KeptInv` counts the
  shards of a stripe that are not held. A shard is held if the row leads to an intact file or a
  repair is about to update the row, and if each repair that is past writing the shard has an intact
  file in the new place: then it stays held whether the old copy goes first or the row. One damage
  or one crash takes one shard from that set; an error of a read, a wrong verdict about a disk or a
  stale copy of the rows takes none, for nobody but the scrub unlinks
  a file of a stripe that is not deleted. `LifeOK` adds that
  no file and no thread belongs to a stripe that is not committed yet. The hypothesis is needed
  (section 4).
* `WellCorrect`: `WellInv`, beside any scrubs, reads, puts, deletes, health checks and crashes. From
  it `ReadsContinueHolds`, `EnoughStaysSound` and `ReplacementKeepsDataHolds`.
* `LastFileStaysHolds`, from `CleanInv`, if no disk goes away (`MaxFaults = 0`) and every stripe is
  written whole (`Promised = StripeId`).

`WellInv` says what copies of the rows, stale by any number of moves, may still do. A shard is firm
if a read that begins now gets it and every thread at the stripe has it or will get it from where
its own copy of the rows says (`Firm`). No thread moves a firm shard, for a repair writes what it
could not read (`PlansOK`), except the rebuild, which moves what lies on the old disk. So per
stripe the shards in doubt and those on the old disk are counted together (`RiskBound`): they are
at most the damage and one shard, since a stripe has one shard per disk (`PutsOK` says it of the
rows a put is about to insert), and that number grows by damage only. A move lets its shard go from
"on the old disk" to "in doubt" and a later read makes it firm again; a crash in between leaves it
in doubt, and because it is counted already, crashes need no bound. Fewer than `M` damaged files
leave at least `K` firm shards, so no thread runs short. With `M` damaged files this is false: a
scrub beside the rebuild costs one shard more (`ReplacementKeepsLastShards`,
`MCRebuild_beside`). The properties say nothing once a disk has gone away (`faults = 0`), since the
code takes such a disk for one that lost its shards.

`CleanInv` adds that without damage no disk is demoted, rows of a stripe lie apart (`RowsApart`) and
a scrub has at most one shard to mend, which it puts back where its row says (`MendOK`); it then has
no old copy to unlink. Only the rebuild unlinks, and the file it has just written is there
(`NewCopyThere`). A stripe that was written degraded may have several shards under repair at a
time, hence the hypothesis; it holds of every instance with `Need = K + M`, and of one in which all
stripes are stored whole at the start.

Of `BatchStore`, for every set of files and readers, every division of files into chunks and every
number of batches (`FileAssumption`: finite sets, each file a sequence of chunks;
`BatchAssumption`; `CacheAssumption`: a cache holds something; `GoneAssumption`: what stands for an absent value is none of the values):

* `BatchesCorrect`: `IInv` is inductive, one lemma per action. From it `TypesHold`,
  `ChunksInPlaceHolds`, `RefsAreExactHolds`, `LiveBytesCoverUseHolds`, `UnhitReadIsFoundHolds`.

That a chunk in use is in place is not inductive, since a row whose count fell to zero may be used
again: `RowsInPlace` says it of all rows. Seal and compaction work on lists they took earlier, and
releases run outside their lock; the list covers what is in use (`SealOK`, `CompactOK`), because a
new chunk can only be written under the lock. A compaction deletes sealed batches only
(`VictimsAreSealed`) and a seal removes the staging file of its own batch only
(`DoomedAreSealing`). A reader that was not hit by a release or a compaction is where its row was or
where a seal moved it (`ReadOK`), and a frame in memory, or in the hands of a reader, is the object
of its batch as long as the batch is sealed (`FramesOK`, `DataOK`): so what such a read returns is
its chunk. What it may raise instead is the KeyError of an entry that left a cache between test and
use, which `UnhitReadIsFound` leaves out and `SealNeverFailsARead` would not. The counts are sums over the
files; the lemma on which they rest is that storing or releasing one file changes the sum by the
pieces of that file.

Of `Uploads`, for every set of uploads and clients, every length and every number of retries, from
`LengthAssumption` (at least one piece, at least one attempt) alone:

* `UploadsCorrect`: `UInv` is inductive, one lemma per action. From it `OffsetIsOnDiskHolds`,
  `IngestedIsDeclaredHolds` and `CompletedIsKeptHolds`.

`UInv` follows an upload through its PATCH. What the row says is at most what the thread has synced,
and all it has received is in the file if there still is one (`PatchOK`); hence a power cut, which
keeps at least what was synced, keeps what the row says. A row is marked completed in the last step
of its PATCH and no other begins then (`PatchOK`), so nothing appends to a completed file. Between
the check of the hash and that mark only two can take the file away (`HashedIsKept`): the maintenance, from overdue uploads
only (`SweepsOverdue`, which holds because an id on its list is not given out again, and what is being
created has no row yet and is not on the list), and the
ingest, once the library has the content (`WorkerOK`).

Of `Library`, for every set of images, of near pairs and of threads, every sequence of requests and
any number of crashes (`FileAssumption`: image ids are naturals, NULL is none; `NearAssumption`: near
is symmetric and irreflexive):

* `LiveHasBytesHolds` and the action property `PurgedForGoodHolds`, from `BytesInv`, for every
  overlap of requests: a request of the trash has a row, a purge deletes what it has marked
  (`RowsHold`), and only the one ingest inserts.
* `IndexIsExactHolds`, from `IndexInv`, if `IndexOverlaps \subseteq
  Clash`: between the change of a row and that of the index a file waits for one thread that adds
  it or for those that remove it (`IndexFollows`). The overlaps are two restores, trash and restore,
  restore and purge, ingest and trash of one file.
* `TreeIsTableHolds`, from `TreeInv`, if `TreeOverlaps \subseteq Clash`: a thread between the table
  and the tree agrees with the table (`ItemsHold`). The overlaps are unlink with link or ingest.

`Clash` is a parameter of the model, not of the code: the code excludes none of these overlaps, and
`MCLibrary_overlap` shows what they do. The theorems say that nothing else goes wrong.

Only model-checked:

* liveness (`ServerGoesOn`, `Healed`, `TaskEnds`, `DueIsSealed`, `BackedUp`, `StagingIsFreed`,
  `PurgeFrees`), which is out of the prover's reach;
* `RetiredIsEmpty`, which is about what a replacement alone leaves behind: puts and scrubs break it
  (`MCRebuild_retired`), and a server always has them, so there is no theorem to state;
* the properties of `Structures`: what a recursive function computes for every input takes an
  induction over data, which is out of the prover's reach.

The properties that only a refuted configuration of section 4 lists are not proved, being false.

## 8. What is left out

* The payload and the codec where the store is concerned: any `k` of `k + m` shards decode,
  checksums tell. `ErasureCode` has the arithmetic; the SIMD kernels are not modelled.
* The stripe cache: it holds what a stripe decoded to, and a uuid is not drawn twice.
* Snapshots of the database and a `recover_index` that runs on one: it adds the stripes it does not
  know to the object rows it finds. A copy of the database at an earlier state would double every
  variable of `ObjectStore`.
* SMART, throttling, statistics; `evacuate`, which queues a rebuild without a target: nothing in
  the server calls it.
* `record_error` counts up to a threshold; in the model any error may demote an online disk or not,
  and its update and its test are one step.
* Power loss, after which the last SQLite transactions may be missing (`synchronous=NORMAL`,
  `db/database.py:29`): which ones is SQLite's choice, and a model would need the order of its log
  against the fsyncs of every file operation. A crash here is the end of the process; in `Uploads`
  file content that was not synced is lost as well.
* The division of a batch into compression frames: it is one frame, and its dictionary a part of
  the object. A chunk has size one.
* An exception, without a crash, between the row of a file and its entry in the duplicate index
  (`ingest/pipeline.py:156-166`): the retry finds the content known and the image stays out of the
  index until the next start. `Library` has the crash only, after which the index is loaded anew.
* `terminate` of an upload, which no client calls, uploads of length zero and the limit of the size.
* The bulk mode of the sync planner, which is the difference of two sets; geohashes; albums,
  favourites and listings, which are queries.
* A map box over the antimeridian whose west and east sides lie in one column of cells: the code
  reports that column's cells twice, so the instance has no such box.
* User interface, authentication and the parsers of media formats, which keep no state that the
  rest depends on.
