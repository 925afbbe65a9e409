# Marble in TLA+

Marble is a garbage-collecting, disk-based object store written in Rust: a map
from 64-bit object ids to blobs, with three operations that matter here.
`write_batch` stores a set of objects and deletions in a new file, `read` looks
one object up, and `maintenance` moves the objects that are still in use out of
fragmented files and deletes files nothing refers to any more. All of them may be
called from many threads at once, and the store must survive the death of the
process, and as far as it says so the loss of power, at any step. This directory
models all of that, checks it with TLC and proves most of it with TLAPS. Paths below
are relative to the repository.

## The system

| component | source | state | operations |
|---|---|---|---|
| disk locations | `src/disk_location.rs`, `src/lib.rs:206` | none | shift, unshift, to_absolute, new_fam, the new-batch bit and its mask |
| location table | `src/location_table.rs` | one atomic 64-bit slot per object id | load, store, cas, fetch_max |
| file map | `src/file_map.rs`, `FileAndMetadata` in `src/lib.rs` | concurrent map from locations to open files (live count, claim, generation, metadata); the next LSN | insert, fam_for_location, files_to_defrag, prune_empty_files, finalize_fam, decrement_evacuated_fams, delete_partially_installed_fam, sync_all, stats |
| write path | `src/writepath.rs` | temporary files, the heap directory | write_batch, shard_batch, write_batch_inner |
| maintenance | `src/gc.rs` | the claims it holds | maintenance |
| recovery | `src/recovery.rs` | builds all of the above from the heap directory | Config::open |
| read path | `src/readpath.rs` | none | read |
| file lifetime | `Drop for FileAndMetadata`, `src/lib.rs:352` | reference counts | unlinks an empty file |
| configuration | `src/config.rs` | constants | validate |
| durability | `src/lib.rs:532`, `src/file_map.rs:178`, `src/writepath.rs:115` | a synced flag per file | sync_all, fsync_each_batch |
| id iterators | `src/lib.rs:540` | max_object_id | free_object_ids, allocated_object_ids |
| sharding | `src/writepath.rs:49`, `src/lib.rs:409` | the shards being filled | the loop of shard_batch, default_partition_function |
| file format | `src/trailer.rs`, `src/writepath.rs:191`, `src/readpath.rs`, `src/gc.rs:57` | the bytes of a file | write_trailer, read_trailer, the decoders of read and maintenance |
| compression | `src/zstd.rs` | one dictionary per file, one context per file and thread | from_samples, decompress, drop |
| runtime validation | `src/debug_history.rs`, `src/file_map.rs:314` | sets of added and removed locations | mark_add, mark_remove, verify_file_uninhabited |
| examples | `examples/kv.rs`, `examples/bench.rs` | an index and a page; the files | recover, set, remove; repeated maintenance |
| statistics, file names, tests | `src/lib.rs`, `tests/`, `fuzz/`, `benches/` | counters | - |

**How they interact.** A writer puts its objects in a temporary file, takes a
range of log sequence numbers (LSNs) from a shared counter and inserts the file,
claimed, into the file map. It points the location table at the new copies, one
atomic instruction each: `fetch_max` for a new batch, compare-and-swap for a
rewrite. Then it writes the trailer and renames the file, which commits it. Then
it decrements the live counts of the files whose objects it replaced, corrects
its own count, publishes the metadata and releases the claim. Maintenance iterates the
map, claims files worth rewriting, reads them, sends the surviving objects down
the same write path at a higher generation, releases its claims and prunes files
whose count is 0. Nothing blocks: threads meet only in the atomics of the location
table, in the counts and claims of the files and in the concurrent map.

Locations are compared as integers. An LSN of a new batch carries bit 62, that of
a rewritten file does not, so at run time a new batch always beats a rewrite that
races with it. Recovery, on the other hand, applies trailers in the order of the LSNs
*without* the bit.

**What is hard here** (every item is a hazard in `PROJECT.json`, at its line): the two
orders just described; counts that are raised before and lowered after the
table changes; pruning that checks a count and removes a file in separate steps;
claims that must be released on every path; a read between whose two steps
everything may move; errors after locations were installed; restarts of the LSN
counter; tombstones, which must outlive every older copy; iterations over a map
that changes. Power may fail between a rename and the fsync of the directory, a
file may be flagged as synced too early, and an unlink may become durable before the
rename it depends on. The split of a batch decides whether one rename commits
it. Three decoders share a format but no code. A raw pointer per thread hides in
a map behind a read-write lock. Maintenance, repeated, must come to an end.

## Modules

| module | models | state |
|---|---|---|
| `DiskLocation` | `disk_location.rs`, the bit and mask of `lib.rs` | - |
| `LocationTable` | `location_table.rs` | `location_table` |
| `FileMap` | `file_map.rs`, `FileAndMetadata` | `fams`, `next_file_lsn` |
| `Marble` | `writepath.rs`, `gc.rs`, `recovery.rs`, `Drop` of files: the composition | the above, `heap` (the renamed files), the threads |
| `MarbleFaults` | the error and panic paths of `writepath.rs` and `gc.rs` | `faults` |
| `MarbleReads` | `readpath.rs` beside all of `MarbleIds` | one reader |
| `ObjectStore` | what the documentation of `write_batch`, `read` and `maintenance` promises | `durable`, `visible`, `writing` |
| `MarbleStore` | the refinement mapping from `Marble` to `ObjectStore` | - |
| `MarblePower` | `sync_all`, `fsync_each_batch`, power failures beside all of `Marble` | the directories a power failure may leave, synced flags, threads in a sync |
| `MarbleIds` | `max_object_id` and the id iterators beside all of `Marble` | `max_object_id` |
| `MarbleHistory` | `debug_history.rs`, `verify_file_uninhabited` beside all of `Marble` | `adds`, `removes`, `rewritten` |
| `ShardBatch` | the loop of `shard_batch`, `default_partition_function` | shards, fragments |
| `StorageFile` | `trailer.rs`, the encoder of `writepath.rs`, the decoders of `readpath.rs` and `gc.rs`, `from_samples` | one file, field by field |
| `ThreadLocalDict` | the contexts of one file, `zstd.rs` | the map, its lock, the contexts in use |
| `Compaction` | whole calls of `maintenance` repeated by `examples/bench.rs` | files by size, generation and live objects |
| `KvStore` | `examples/kv.rs` on `ObjectStore` | the index, the page, the call in progress |
| `MCMarble`, `MCFaults`, `MCPower`, `MCHistory`, `MCClients`, `MCFiles` | sets of threads and values, and symmetry, for TLC; `MCClients` brings `MarbleReads` and `MarbleStore` together | - |
| `MCComponents` | `ShardBatch`, `StorageFile`, `ThreadLocalDict`, `Compaction` and `KvStore` side by side: each behaviour is one of a single part | `part` |
| `MarbleProofs`, `MarbleVersions`, `MarbleRecovery` | the TLAPS proofs about `Marble` | - |
| `FaultProofs` | the proofs about `MarbleFaults` | - |
| `PowerProofs` | the proofs about `MarblePower` | - |
| `MarbleClients` | the proofs about `MarbleReads`, `MarbleIds` and the refinement of `MarbleStore` | - |
| `HistoryProofs` | the proofs about `MarbleHistory` | - |
| `ComponentProofs` | the proofs about `ThreadLocalDict`, `ShardBatch`, `Compaction`, `StorageFile` and `KvStore` | - |

`DiskLocation`, `LocationTable`, `FileMap` and `Marble` extend each other in this
order, and `MarbleFaults`, `MarbleStore`, `MarblePower`, `MarbleIds` and
`MarbleHistory` each extend `Marble` with one concern; `MarbleReads` extends
`MarbleIds`. A step of a thread makes at most one access
to shared state, so that every interleaving of the code is one of the model:

| action of `Marble` | code |
|---|---|
| `WriteBatch` | `write_batch` and the collecting loop of `shard_batch` |
| `InsertPart` | steps 1, 2 of `write_batch_inner`; which part is written next is any subset of what is left (one part, the whole batch, for generation 0) |
| `Install` | one iteration of step 3, by `cas` or `fetch_max` |
| `Abandon` / `Commit` | step 4 when nothing was installed / step 5: trailer and rename |
| `Evacuate`, `Finalize`, `Unclaim` | step 6: one decrement, `finalize_fam`, `drop(fam_claim)` |
| `StartMaintenance`, `Scan`, `Claim` | `files_to_defrag`, the decision and the swap in separate steps |
| `Rewrite`, `ReadFile` | the loops of `maintenance` over generations and files |
| `Release`, `Prune`, `Remove` | `drop(claims)`, the two loops of `prune_empty_files` |
| `Unlink` | `Drop` of a file that left the map, at any later time |
| `CrashRecover`, `CloseAndReopen` | death of the process, or drop of the last clone, then `Config::open` |

Where several accesses are merged into one step the comment of the action says why
no other thread can tell: the LSN and the insertion (nothing refers to the range
yet), the parts of `finalize_fam` (the writer holds the claim), the loads of the
location table for one file in `maintenance` (what changed since fails to install),
the load of a zero count and the swap in `prune_empty_files` (a zero count stays).

**Data.** An object's contents are the number of the `write_batch` call that
wrote them; an object takes one unit of its file, a tombstone none. The file size is data
plus one unit for the trailer's header and one per trailer entry. `order` and `latest` are
history variables, read only by properties: the LSN of each call's file, and for
each object the last committed call in LSN order.

**Faults.** `MarbleFaults` gives each fallible call its error path: staging the
temporary file, reading a file in maintenance, trailer/fsync/rename (with the undo
loop), reading the length after the rename, the fsync of the directory, and the
panics of `decrement_evacuated_fams`, which a lost undo makes reachable.

**The abstract store.** `ObjectStore` is a map from ids to versions, where a
version is the stamp of a batch. A batch begins with a stamp above all others (when
it takes its LSN), becomes visible one object at a time, and durable in one step once
all of it is visible; a crash makes the durable versions the visible ones.
`MarbleStore` maps `durable` to what recovery would read from the
heap directory now, `visible` to what the location table leads to, and `writing` to the
batches between their insertion and their rename. Everything else, all of
maintenance, pruning, unlinking and recovery, must be a stutter. `KvStore` is
built on the abstract store, not on `Marble`.

**Power.** `MarblePower` keeps the set `possible` of directories that a power
failure would leave. A rename or unlink adds to it, an fsync of the directory makes
it the current directory alone. `setup`, chosen once, says whether batches are
synced and what the file system does. On an ordered directory (a journal) operations are
lost from the end only; on an unordered one any subset of the unsynced ones is
lost. Contents of files are no part of this, because `write_trailer` and the
call after it sync the file before it is renamed whatever the configuration. `promised`
is what a caller was told: with `fsync_each_batch` when the call returns, otherwise what
had returned before `sync_all` was called, when that returns. After a power failure
the history variables `latest` and `returned` go on from the versions that were
recovered.

| action of `MarblePower` | code |
|---|---|
| `Begin`, `StepOn` | the actions of `Marble`, with what they do to the directory and the flags |
| `FsyncBatch` | the fsync of the directory at the end of `shard_batch` |
| `SyncAll`, `SyncFile`, `SyncFiles`, `SyncDirectory` | `sync_all`: its call, one iteration, the test of `synced_files`, the fsync |
| `Restart` | death or close of the process; the page cache survives and all files count as synced |
| `PowerLoss` | the store is opened over one of the possible directories |

**Files.** In `StorageFile` a field or a byte of an object is one cell; a checksum
is the sequence of what was hashed. `WriteObject`, `RefuseObject` and
`WriteTrailer` are the iterations and the end of the write path; which objects were
installed is any non-empty subset. `ReadTrailer`, `ReadObject` and `ScanFile` are
the three decoders, each with its own bounds and its own errors. A zstd frame
records its decompressed size and can be read only with its dictionary.

**Contexts.** In `ThreadLocalDict` the read lock is held from the lookup to the
end of a use, and released before a context is made and the write lock is taken.
Taking the read lock is a step of its own inside the call, so a thread that waits there is
one that must return. Making a context may panic, in zstd or in `load_dictionary`.
A waiting writer keeps new readers out, as the lock of the standard library
does on Linux.

**Compaction.** A whole call of `maintenance` is one step, since nothing overlaps in
the loop it models; the split of a group is the one of `shard_batch`, shard by shard,
for some order of the items.

## What is checked

The configurations use `NewWriteBatchBit = 64` in place of 2^62, large enough for
every LSN a bounded run reaches (`InsertPart` stops before the bit).
`CHECK_DEADLOCK FALSE` is set everywhere: the runs end when the bounds on calls,
maintenances and crashes are used up, with every thread idle, or when a file is
written, a map dropped or a loop done. That calls do not get stuck is the subject of
`CallsReturn`, `DecompressReturns` and `Settles`.

| run | instance | checks |
|---|---|---|
| `concurrent` | 2 threads, 2 ids, 2 batches, 1 maintenance | `LiveObjectsExact`, `TableBacked`, `EvacuationSafe`, `MaintenanceKeepsVersions` |
| `sweepers` | 2 threads, 1 id, 2 batches, 2 maintenances, 1 restart | `ClaimsExclusive`, `RewrittenObjectsKnown`, `HistoryUnique`, `VerifyPasses` |
| `exclusive` | 2 threads, 2 ids, 2 batches, 1 maintenance, 1 restart, 1 read; callers keep writes and maintenance apart | `RecoversCommitted`, `VersionsAdvance`, `ImplementsObjectStore`, `ReadsFresh`, `NextIdAbove`, `FreshIdsVacant`, `QuiescentAgreement`, `RangesDisjoint`, `TypeOK` |
| `liveness` | 2 threads, 1 id, 1 batch, 2 maintenances, 1 restart | `CallsReturn` |
| `faults` | 2 threads, 2 ids, 2 batches, 1 maintenance, 1 fault | `ClaimsExclusive` |
| `power` | 2 threads, 2 ids, 2 batches, 1 maintenance of at least 2 files, 1 power failure, in three setups: `sync_all` on an ordered directory; `fsync_each_batch` on an unordered one; `fsync_each_batch` on an ordered one with 1 restart | `PromisesKept`, `PowerLossAtomic` |
| `components`, sharding | up to 3 items over 3 ids, six sizes around the partition limits and the target size of 2040, deletions | `PartsComplete`, `NewBatchWhole`, `RewritesNearTarget`, `SizesCover` |
| `components`, files | up to 3 objects of 4 values, any of them deleted or not installed, with or without a dictionary, one damaged cell or a lost tail | `ReadersAgree`, `DamageDetected` |
| `components`, contexts | 3 threads, 2 panics, any number of calls | `ContextsPrivate`, `ContextsFreed`, `DecompressReturns` |
| `components`, compaction | 3 objects of sizes 1, 2, 3, target size 5, 4 batches, any number of maintenances | `SecondCallIdle`, `Settles`, `FilesNeverMultiply` |
| `components`, key-value example | 2 keys, 2 values, 6 batches, any number of crashes | `PagesReadable`, `AcknowledgedSurvive` |
| `overlap` | as `concurrent` | `RecoversCommitted`: violated |
| `read_race` | 2 threads, 2 ids, 2 batches, 1 maintenance, 1 read | `ReadsAnswer`: violated |
| `lost_undo` | 1 thread, 2 ids, 3 batches, 1 maintenance, 1 fault | `RecoversCommitted`: violated |
| `sync_restart` | a batch, a restart, `sync_all`, a power failure | `PromisesKept`: violated |
| `size_limit` | files of up to 2 objects, as in `components` | `ScanAccepts`: violated |

**Why these bounds.** Two batches and one rewrite are enough for every pair of
writers of one object to meet (new/new, new/rewrite), two ids for a file that is
partly live, three batches for a count that one batch raises, the second lowers
and the third misses. With two maintenances a claim is contested. The cap on
generations takes four maintenances, which no run has: it is part of `TypeOK`, which
is proved for any number. One restart shows recovered files to everything that
comes after. With `TargetFileSize` large and the small-file threshold 1, every
file with live objects is a candidate, so maintenance rewrites as much as it can;
`power` uses `MinCompactionFiles = 2`, so there groups are skipped or merge files. `power` needs a batch whose promise is at stake and a second file that
replaces it, by a later batch or by a rewrite; with two ids a batch can be torn.
For sharding every pair of partitions and both sides of the target size meet. For
files the dictionary needs two samples instead of eight, so that small batches
have one, and the size limit is reached with and without compression. Compaction
starts from every set of files that its bounds reach, and its states are finite
without a bound on maintenance.
Symmetry is by permutation of the threads, which all behave alike; it is
not used with one thread or under liveness.

**Fairness.** `FairSpec` asks that a thread inside a call keeps running
(`WF_vars(Step(t))`). No step waits for another thread, so the operating system's
scheduler provides exactly this. Nothing makes callers call, crash or unlink.
`DictSpec` asks the same of a thread inside `decompress`; there threads do wait, for a
lock, and weak fairness is enough because a waiting writer is not overtaken for ever.
`CompactionSpec` asks that the loop of the caller keeps calling once the
writers are done.

**Callers.** `CallersExclude` says whether callers keep `write_batch` and
`maintenance` from overlapping (calls of `write_batch` may always overlap each
other, and so may maintenances). The code allows overlap; the documentation of
`maintenance` says that it blocks `write_batch`. The properties of `concurrent`,
`sweepers`, `liveness` and `faults` hold with overlap. `RecoversCommitted` holds without
it and fails with it; `exclusive` and `power` keep the calls apart for
that reason.

**Power failures, precisely.** The three setups of `power` say where the promises
hold: without `fsync_each_batch` if `sync_all` overlaps no other call, nothing
restarts, and the file system keeps the order of directory operations; with
`fsync_each_batch` on any directory as long as the process does not restart, and with restarts
on an ordered one. The other cases fail in the model. On an unordered directory,
a process that dies between a rename and the fsync leaves a file that the next process takes for
synced: it may prune the files it replaces, and the unlink may survive a power
failure where the rename does not. Without `fsync_each_batch` the same happens
inside one process between a rewrite and the next `sync_all`. The case that
contradicts the documentation on every file system is kept as a run, `sync_restart`.

**Compaction, precisely.** `Settles` needs `min_compaction_files` of at least 2 (the
default): with 0 or 1, which `validate` accepts, a small file is rewritten on
its own again and again. It also needs files of the last generation that are
small to be few: with several partitions, each rewrite leaves a small file per
partition, and when those are at least `min_compaction_files` and the number of files
reaches `small_file_cleanup_threshold` (64 by default) the loop goes on for ever.
The run has one partition.

### What the violations show

* `overlap`: a batch takes an LSN; a rewrite of the object's older version takes a higher one
  and moves it; the batch then installs over the rewrite (its bit wins) and
  both commit. Until the rewritten file is emptied and unlinked, a crash makes
  recovery apply the rewrite last, and the older version is back, alone, without the
  rest of its batch. `maintenance` does not block `write_batch`, contrary to
  `src/gc.rs:11` and `README.md:15`.
* `read_race`: a location is loaded, maintenance moves the object and prunes the
  file, the lookup then finds a neighbouring file or none.
* `lost_undo`: the error path after a failed rename restores replaced locations
  only. An id that was new stays pointed into a range that no file owns. Its next
  overwrite lowers the count of whichever file lies below, which is then pruned
  although it still holds a committed object.
* `sync_restart`: a batch is written and its call returns; the process restarts; every
  file now counts as synced (`src/recovery.rs:97`), so `sync_all` returns
  without touching the directory; power fails and the file is gone.
* `size_limit`: `write_batch` refuses sizes above `max_object_size`
  (`src/writepath.rs:200`), `maintenance` refuses that size itself (`src/gc.rs:77`) with an
  error that blames corruption or a change of configuration. Every maintenance of a file
  with such an object fails. `ReadersAgree` is about files without one.

### Other differences between code and documentation

Met while modelling, and not kept as runs of their own. No property of a passing run
takes the side of the code in any of them:

* `SyncsExclude = FALSE`: `sync_all` meets a file that a writer has inserted and not yet
  renamed, syncs and flags it (`src/file_map.rs:183`). The writer renames it and
  returns. The next `sync_all` skips it and may not sync the directory, so
  `PromisesKept` fails.
* After the id `u64::MAX` was written, `max + 1` (`src/lib.rs:555`) wraps in a release build,
  and `free_object_ids` returns 0 as the id "1 higher than the current max"
  (`src/lib.rs:542`); 0 may be in use. A debug build panics. The model has both outcomes
  (`NextObjectIds`); `NextIdAbove` and `FreshIdsVacant` speak of the time before.
* The iterator of `free_object_ids` is documented to yield deleted ids
  (`src/lib.rs:543`). It yields ids without a location, and a deleted id has one, that of
  its tombstone. `FreshIdsVacant` asks that no id handed out holds an object, and a
  deleted id holds none.
* `read` allocates what the header says before it verifies the header
  (`src/readpath.rs:44`), so a damaged length can exceed the ceiling on allocations that
  `src/config.rs:26` states. Only `maintenance` tests it. `DamageDetected` says that
  such a length is never taken for an object.

## What is proved

Every theorem holds for any set of threads, any finite set of ids, any configuration
that `validate` accepts and any bounds. The proofs about `Marble` form a chain,
`MarbleProofs`, `MarbleVersions`, `MarbleRecovery`, each module extending the one before with the
next parts of the inductive invariant. `MarbleClients` and `PowerProofs` build on
the end of the chain and `HistoryProofs` on its middle, `FaultProofs` instantiates its
beginning, and `ComponentProofs` stands alone:

| module | invariant | theorems about properties of the runs |
|---|---|---|
| `MarbleProofs` | `CoreInv`: types, where files lie, who holds which claim | `TypeOK`, `ClaimsExclusive`, `RangesDisjoint` |
| `MarbleVersions` | `AccountsInv`: where a location can be | `LiveObjectsExact`, `TableBacked`, `EvacuationSafe` |
| | `BatchesInv`: what the batch of a rewrite was read from | `MaintenanceKeepsVersions` |
| | `KnownInv`: ids that a renamed file vouches for | `RewrittenObjectsKnown` |
| `MarbleRecovery` | `OrderInv`, `RecoveryInv`: the two orders of the files agree | `RecoversCommitted`, `QuiescentAgreement`, `VersionsAdvance` |
| `MarbleClients` | `IdsInv`, `ReadInv`, `FlagsInv` | `NextIdAbove`, `FreshIdsVacant`, `ReadsFresh`, `ImplementsObjectStore` |
| `HistoryProofs` | `MarksInv`, `RewrittenInv` | `HistoryUnique`, `VerifyPasses` |
| `FaultProofs` | `FaultInv`: `CoreInv` with the program counters of error paths | `ClaimsExclusive`, `RangesDisjoint`, both of `FaultSpec` |
| `PowerProofs` | `OrderedInv`: what every possible directory holds | `PowerLossAtomic` |
| | `DurableInv`: `FsyncInv` or `SyncInv` | `PromisesKept` |
| `ComponentProofs` | `DictInv` | `ContextsPrivate`, `ContextsFreed` |
| | `ShardInv`, `SizesInv`, `CoverInv` | `PartsComplete`, `NewBatchWhole`, `RewritesNearTarget`, `SizesCover` |
| | `FilesInv`, `IdleInv`, `ShelfInv` | `SecondCallIdle`, `FilesNeverMultiply` |
| | `FileInv` | `ReadersAgree`, `DamageDetected` |
| | `KvInv` | `PagesReadable`, `AcknowledgedSurvive` |

**Core.** `RangesDisjoint` needs that every file lies below the new-batch bit once
masked and behind `next_file_lsn`, also a file that has left the map and waits to be
unlinked, since a crash brings it back (`FilesInv`). `ClaimsExclusive` needs to know which
program points hold a file, that what is queued or being read is claimed, and that a
file in the map is in the heap directory unless its writer has yet to rename it
(`HoldersInv`). `TypeOK` needs both: that a writer finds its own file in the map, and
that range queries have a greatest element to choose. `FamForOwner` is the lemma
to read first: a range query for a location of a file finds that file, because
ranges are disjoint and the bit separates the two kinds of files.

**Counts.** A count is lowered long after the table has changed. It is exact because
a location is in one place at a time: still to be tried or refused, in the table,
or among the replaced locations of exactly one thread (`LocationsInv`). So a fetch_sub
always finds its file and a count of at least 1, and a count of 0 stays 0.

**Versions.** Between the load of a location by maintenance and its
compare-and-swap the claim keeps the file, so the location cannot come to mean anything else
(`ItemsInv`), and a successful exchange moves the version that is there.

**Known ids.** A rewritten file holds data of ids that lost their exchange and that its
trailer leaves out. After a crash only trailers bring ids back. `Chained` says
that from the file the table leads to, over the replaced locations of files not yet
renamed, one always reaches a renamed file that names the id; it is stated by
closed sets of files, since chains of every length occur.

**Recovery.** The running store orders locations with the bit, recovery orders
files without it. `TableInv` says that the table leads to the file with the highest place
among those that name the object, and `CommitInv` that this file holds `latest`.
Both rest on `PlacesInv`: while a batch is written no rewritten file lies behind it.
That is where the hypothesis `CallersExclude` enters; without it the statements are
false, and the run `overlap` is the counterexample. `RecoversCommitted`,
`QuiescentAgreement`, `VersionsAdvance`, `ReadsFresh` and `ImplementsObjectStore`
carry that hypothesis and no other, the theorems of `PowerProofs` carry it beside
those on the file system; all other theorems about the store hold with overlapping calls.

**Clients.** A lemma, `ReadsLeaveNoTrace` (`ReadSpec => Spec`, by the shape of
`MarbleReads`), carries all invariants over. An id that is handed out is vacant because an id
that any trailer on disk names has a location, also while its rewrites fail to install
and its files are pruned (`TrailersKnown`), and because no location and no batch in
progress has an id above `max_object_id`, which a restart takes from the trailers
(`IdsInv`). A read is fresh because LSN ranges are never used twice: a location that was loaded leads to its own file or to none (`ReadInv`), so it may fail but never
answers with another object. For the refinement, `StoreImplemented`, the initial
states map to each other, and there is one lemma for each kind of step of the abstract store
(`StoreBegin`, `StoreShow`, `StoreCommit`, `StoreRestart`) and one that all
others are stutters (`StoreNextMaps`); `FlagsInv` says that all copies of a version agree
on whether it is a deletion.

**Self-checks.** Here the carrying lemma is `HistoryLeavesNoTrace`. The history never
repeats because everything in it lies behind the LSN counter, while a location still to be tried was never marked (`MarksInv`). No
location is left in a rewritten file: what the table held when the file was read is in
the batch with that very location, so its compare-and-swap succeeds unless the
table has changed, and a claimed file gains no location (`RewrittenInv`). `CoreVacant`
turns this into what `verify_file_uninhabited` tests, a range of raw locations.

**Faults.** As far as files and claims go, a thread that undoes its installations is
one that still installs, and a thread on its way out of `maintenance` with an error is one
that releases its claims. `FaultProofs` reads the program counters in this way
(`Stage`), takes `MarbleProofs` as an instance with them, and has every step that is
one of `Marble` from `CoreStep`; what is left are the steps at which a call fails.
`FaultInduction` holds for any number of faults.

**Power.** On a file system that keeps the order of directory operations, every
directory that a power failure may leave is the heap directory of some moment since
the last fsync, short of files that decided nothing then (`Snapshot`). At that
moment it held the latest versions (`AllSnapshots`). `Readable` is what remains true
of such a directory while the store moves on, and enough for the store opened over it to
satisfy all the invariants of `Marble` again, so a power failure is one more step that
keeps them (`OrderedInduction`, `PowerLossAlwaysAtomic`). With `fsync_each_batch` no possible directory is
behind what has returned (`FsyncInv`). `sync_all` may skip the directory, and there the
argument is about flags: its thread is alone (`AloneInv`), every flagged file is in all
possible directories (`FlagsInv`), and none of these has a file past the
last one of the heap directory (`PastInv`), so when all files are flagged all
directories agree with the heap. `PromisesAlwaysKept` has as hypotheses
`CallersExclude`, an ordered directory, and either `fsync_each_batch`, or callers
that keep `sync_all` from overlapping other calls (`SyncsExclude`) and no restart. The run
`sync_restart` shows that the last one is needed.

**Components.** A context has one owner: the map, one thread, or the set of
freed ones (`DictInv`). The shards and fragments of a batch partition its ids after every
item (`ShardInv`); here an induction over the items is one over steps. The size
that `shard_batch` adds up is the sum over the set of objects (`Adds`,
`AddsSplit`), which is exact for rewrites because there no id comes twice (`SizesInv`). In a new batch
ids do come twice, and the size of a replaced object is subtracted without its header: the
running size then exceeds the sum, and never falls below it (`CoverInv`), so the
subtraction does not wrap. For the
key-value example, the index and the page it names are durable together or not at all
(`KvInv`), and `KvUsesStore` shows that it asks no more of the store than `ObjectStore`
promises.

**Compaction loop.** A call that rewrites nothing leaves nothing to rewrite behind, although
it prunes files: pruning lowers the number of files, and with fewer files fewer are
candidates (`IdleInv`). That the number of files does not grow is a count: all
parts of a split but one are over the target size, and the files they come from are
not (the condition of the property), while each is larger than its live data (`Weighed`), so the parts are no more than
the files. It takes the hypothesis that all objects are in one partition,
as all of less than 2048 bytes are. With several, a group can become one file for each of
them, and the statement is false.

**Storage files.** The objects of a batch lie one behind the other from the start of a file
(`Tiles`), those that were not installed included, whose offsets the writer has
forgotten: the invariant says that offsets exist (`Layout`). A trailer is described cell by cell
(`IsTrailer`, `Ended`), and a damaged file by where it may differ (`Spoilt`). A reader that starts
at the offset of an object finds it, and the scan finds all of them and
nothing else (`WalkTiles`). For `DamageDetected` the point is a damaged length: the checksum
over the wrong cells begins with that length, so it cannot be the one stored.

Assumptions: `BitAssumption`, `ObjectIdsAssumption`, `FiniteObjectIds`,
`ConfigAssumption`, `BoundsAssumption`, `CallersAssumption`, `FaultsAssumption`,
`PowerAssumption`, and those of the components (`PanicsAssumption`, `ShardAssumption`,
`CompactionAssumption`, `FileAssumption`, `KvAssumption`), each stated in the module that
declares the constants, and evaluated by TLC in every run that has them. They are types and
finiteness, and what `validate` demands.

**Only model-checked.**

* `CallsReturn`, `DecompressReturns`, `Settles`: liveness under fairness, outside the
  prover's reach.
* `PromisesKept` and `PowerLossAtomic` with `fsync_each_batch` on an unordered
  directory (the second setup of `power`): there a possible directory need not have been the
  heap directory at any moment, and the proof rests on that.

What a walk or a sum computes for inputs of every length is proved where the prover's
lack of induction theorems can be got round: the least counterexample among the
natural numbers is picked by hand (`LeastNumber`).

## What is not modelled

* **Failing fsyncs.** `MarblePower` lets fsync succeed. In the code a directory
  fsync that fails in `sync_all` comes after the flags were set, so a retry
  would skip it.
* **Bytes.** Widths and byte order of fields, file names, byte counters. Checksums
  do not collide. The corruption of more than one place at once.
* **Statistics.** `stats` changes nothing and computes floating-point ratios. Its one
  integer subtraction, stored minus live objects, cannot wrap: `LiveObjectsExact`.
  The result of `maintenance` counts the objects it tried to rewrite, installed or not.
* **External code.** The concurrent map is taken to iterate in key order over its
  current contents; the pagetable to hold one
  atomic word per id; zstd and the read-write lock as described above.
* **Overflow checks.** The model is of a release build, where a count lowered below 0 and
  `max + 1` at the last id wrap. A wrapped count is written as a negative number; only
  `MarbleFaults` reaches it, after a lost undo. The product in `files_to_defrag`
  (`src/file_map.rs`) then wraps too, to a percentage far above 100, so such a file is
  no candidate by percentage. A debug build panics at these places.
* **Debug builds.** `debug_delay` only widens interleavings. `LocationTable::iter`
  (`src/location_table.rs:60`) reads a field its struct does not have, so the feature
  `runtime_validation` does not build at this commit; `MarbleHistory` models what it is
  meant to do. It does not cover the undo of a failed rename, which the history does
  not record.
* **Clients.** Benchmarks, the fuzz target and the tests; the readers and timings of
  `examples/bench.rs`.
* An iterator over ids is taken at one moment, not spread over concurrent writes.
* Empty batches, which only sync the directory; errors while opening the store.
* In `MarbleFaults` an undo can bring a location back, so reading all locations of a file
  in one step (`ReadFile`) leaves out a maintenance that straddles an undo.

## Plan

1. *Done*: `DiskLocation`, `LocationTable`, `FileMap`, `Marble`, `MarbleFaults`,
   `MarbleReads`, their runs, and the core proofs.
2. *Done*: the abstract store and its refinement, power failures, the id iterators, the
   self-checks, sharding, the file format, the decompression contexts, the compaction
   loop and the key-value example.
3. *Done*: the proofs listed above.
4. *Done*: the proofs about power failures on an ordered directory, about faults, about the
   sizes and numbers of files and about the file format.
5. Left: power failures on an unordered directory with `fsync_each_batch`, which needs to know
   which operations on the directory depend on each other; fsyncs that fail.
