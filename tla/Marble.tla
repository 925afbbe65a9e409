------------------------------- MODULE Marble -------------------------------
(***************************************************************************)
(* The store: write_batch, maintenance and recovery over the location      *)
(* table, the file map and the heap directory (writepath.rs, gc.rs,        *)
(* file_map.rs, recovery.rs, lib.rs).                                      *)
(*                                                                         *)
(* Any number of threads call write_batch and maintenance on clones of one *)
(* Marble; nothing in the code excludes one from the other.  Each step     *)
(* below makes at most one access to state that threads share: one atomic  *)
(* instruction, one operation of the concurrent map, or one operation on   *)
(* the heap directory.  System calls succeed here; MarbleFaults adds the   *)
(* paths taken when they fail.                                             *)
(***************************************************************************)
EXTENDS FileMap, FiniteSetsExt

CONSTANTS
  Threads,              \* the callers of write_batch and maintenance
  CallersExclude,       \* whether the callers themselves keep write_batch
                        \* and maintenance from overlapping
  MaxCalls,             \* bound: calls of write_batch
  MaxSweeps,            \* bound: calls of maintenance
  MaxCrashes            \* bound: crashes and orderly restarts

ASSUME CallersAssumption == CallersExclude \in BOOLEAN

ASSUME BoundsAssumption ==
  MaxCalls \in Nat /\ MaxSweeps \in Nat /\ MaxCrashes \in Nat

VARIABLES
  heap,         \* renamed files of the heap directory: location -> contents,
                \* ids in the trailer, generation.  Temporary files are left
                \* out: recovery deletes them unread
  \* The threads.
  pc,           \* where each thread is
  sweeping,     \* the threads inside maintenance
  gen,          \* generation of the batch being written
  batch,        \* that batch: id -> deletion flag, value, old location
  rest,         \* its ids not yet written to a file
  base,         \* base_location of the file being written
  todo,         \* new_relative_locations not yet tried
  failed,       \* ids whose installation failed (subtract_from_len)
  replaced,     \* replaced_locations: pairs of id and location
  claims,       \* DeferUnclaim::claims of maintenance
  queue,        \* files_to_defrag
  reading,      \* files of the current group still to be read
  cursor,       \* where an iteration of the file map is
  fam_len,      \* approximate_fam_len
  \* Bounds.
  calls, sweeps, crashes,
  \* History, read by properties only.
  order,        \* call of write_batch -> place of its file in LSN order
  latest        \* id -> the last call, in LSN order, whose file was renamed

shared == <<location_table, fams, next_file_lsn, heap>>
maint == <<claims, queue, reading, cursor, fam_len>>
inner == <<base, todo, failed, replaced>>
local == <<pc, sweeping, gen, batch, rest, inner, maint>>
bounds == <<calls, sweeps, crashes>>
history == <<order, latest>>
vars == <<shared, local, bounds, history>>

Top == 4 * NewWriteBatchBit     \* above every location: DiskLocation::MAX
EmptyBatch == [o \in {} |-> 0]
PCs == {"idle", "insert", "install", "evacuate", "unclaim",
        "scan", "claim", "rewrite", "read", "release", "prune", "remove"}

HeapFile(ids) == [objs : [ids -> Entry], trailer : SUBSET ids,
                  generation : 0 .. MAX_GENERATION]
Item == [del : BOOLEAN, val : Nat, old : Nat]

TypeOK ==
  /\ location_table \in [ObjectIds -> Nat]
  /\ FileMapTypeOK
  /\ DOMAIN heap \subseteq FamLocations
  /\ \A f \in DOMAIN heap : /\ DOMAIN heap[f].objs \subseteq ObjectIds
                            /\ heap[f] \in HeapFile(DOMAIN heap[f].objs)
  /\ pc \in [Threads -> PCs]
  /\ sweeping \in SUBSET Threads
  /\ gen \in [Threads -> 0 .. MAX_GENERATION]
  /\ DOMAIN batch = Threads
  /\ \A t \in Threads : /\ DOMAIN batch[t] \subseteq ObjectIds
                        /\ batch[t] \in [DOMAIN batch[t] -> Item]
  /\ rest \in [Threads -> SUBSET ObjectIds]
  /\ \A t \in Threads : rest[t] \subseteq DOMAIN batch[t]
  /\ base \in [Threads -> Nat]
  /\ todo \in [Threads -> SUBSET ObjectIds]
  /\ failed \in [Threads -> SUBSET ObjectIds]
  /\ replaced \in [Threads -> SUBSET (ObjectIds \X Nat)]
  /\ claims \in [Threads -> SUBSET FamLocations]
  /\ queue \in [Threads -> SUBSET FamLocations]
  /\ reading \in [Threads -> SUBSET FamLocations]
  /\ cursor \in [Threads -> 0 .. Top]
  /\ fam_len \in [Threads -> Nat]
  /\ calls \in 0 .. MaxCalls /\ sweeps \in 0 .. MaxSweeps
  /\ crashes \in 0 .. MaxCrashes
  /\ order \in [0 .. MaxCalls -> Nat]
  /\ latest \in [ObjectIds -> Nat]

Init ==
  /\ location_table = EmptyTable
  /\ fams = [f \in {} |-> 0] /\ heap = [f \in {} |-> 0]
  /\ next_file_lsn = 1
  /\ pc = [t \in Threads |-> "idle"] /\ sweeping = {}
  /\ gen = [t \in Threads |-> 0]
  /\ batch = [t \in Threads |-> EmptyBatch] /\ rest = [t \in Threads |-> {}]
  /\ base = [t \in Threads |-> 0] /\ todo = [t \in Threads |-> {}]
  /\ failed = [t \in Threads |-> {}] /\ replaced = [t \in Threads |-> {}]
  /\ claims = [t \in Threads |-> {}] /\ queue = [t \in Threads |-> {}]
  /\ reading = [t \in Threads |-> {}] /\ cursor = [t \in Threads |-> 0]
  /\ fam_len = [t \in Threads |-> 0]
  /\ calls = 0 /\ sweeps = 0 /\ crashes = 0
  /\ order = [c \in 0 .. MaxCalls |-> 0]
  /\ latest = [o \in ObjectIds |-> 0]

Goto(t, label) == pc' = [pc EXCEPT ![t] = label]

(***************************************************************************)
(* write_batch and the write path it shares with maintenance.              *)
(***************************************************************************)
(* The code lets the calls overlap.  The documentation of maintenance says *)
(* that it blocks write_batch; a caller can see to that itself.            *)
MayWrite == CallersExclude => sweeping = {}

MayMaintain ==
  CallersExclude => \A t \in Threads : pc[t] = "idle" \/ t \in sweeping

(* write_batch, shard_batch for generation 0: the whole batch is one part. *)
(* The batch is a map, so of several items for an id the last one is kept. *)
WriteBatch(t) ==
  /\ pc[t] = "idle" /\ calls < MaxCalls /\ MayWrite
  /\ calls' = calls + 1
  /\ \E ids \in (SUBSET ObjectIds) \ {{}} : \E deleted \in SUBSET ids :
       /\ batch' = [batch EXCEPT ![t] =
                      [o \in ids |-> [del |-> o \in deleted,
                                      val |-> calls + 1, old |-> Null]]]
       /\ rest' = [rest EXCEPT ![t] = ids]
  /\ gen' = [gen EXCEPT ![t] = 0]
  /\ Goto(t, "insert")
  /\ UNCHANGED <<shared, sweeping, inner, maint, sweeps, crashes, history>>

(* What write_batch_inner writes for a part of a batch: data in some order *)
(* of the ids, tombstones at offset 0.                                     *)
Contents(items, part) ==
  [o \in part |->
     [off |-> IF items[o].del THEN 0
              ELSE Cardinality({p \in part : p < o /\ ~ items[p].del}),
      del |-> items[o].del, val |-> items[o].val]]

(* Steps 1 and 2 of write_batch_inner: the data goes to a temporary file,  *)
(* which gets an LSN and enters the file map.  shard_batch splits the      *)
(* batches of maintenance by partition_function and target_file_size; here *)
(* every split may happen.  A new batch is never split.  Taking the LSN    *)
(* and inserting the file are one step: until the file is in the map       *)
(* nothing refers to its range.                                            *)
InsertPart(t) ==
  /\ pc[t] = "insert"
  /\ \E part \in (SUBSET rest[t]) \ {{}} :
       LET objs == Contents(batch[t], part)
           f == NewFam(StampLsn(next_file_lsn, gen[t] # 0))
       IN  /\ gen[t] = 0 => part = rest[t]
           /\ next_file_lsn + DataLen(objs) + 1 <= NewWriteBatchBit
           /\ InsertFam(f, objs, gen[t])
           /\ base' = [base EXCEPT ![t] = f]
           /\ todo' = [todo EXCEPT ![t] = part]
           /\ rest' = [rest EXCEPT ![t] = @ \ part]
           /\ order' = [c \in DOMAIN order |->
                          IF gen[t] = 0 /\ \E o \in part : batch[t][o].val = c
                          THEN next_file_lsn ELSE order[c]]
  /\ Goto(t, "install")
  /\ UNCHANGED <<location_table, heap, sweeping, gen, batch, failed, replaced,
                 maint, bounds, latest>>

(* Step 3, one iteration: the location table is pointed at the new copy.   *)
(* Maintenance compares and swaps; a new batch raises the location.        *)
Install(t, o) ==
  LET f == base[t]
      old == location_table[o]
      new == LocationIn(f, fams[f].objs, o)
      installs == IF gen[t] # 0 THEN CasSucceeds(o, batch[t][o].old)
                                ELSE FetchMaxSucceeds(o, new)
  IN  /\ pc[t] = "install" /\ o \in todo[t]
      /\ IF gen[t] # 0 THEN Cas(o, batch[t][o].old, new) ELSE FetchMax(o, new)
      /\ todo' = [todo EXCEPT ![t] = @ \ {o}]
      /\ replaced' = IF installs /\ old # Null
                     THEN [replaced EXCEPT ![t] = @ \cup {<<o, old>>}]
                     ELSE replaced
      /\ failed' = IF installs THEN failed
                   ELSE [failed EXCEPT ![t] = @ \cup {o}]
      /\ UNCHANGED <<fams, next_file_lsn, heap, pc, sweeping, gen, batch, rest,
                     base, maint, bounds, history>>

(* new_relative_locations after step 3: maintenance leaves out what it     *)
(* failed to install, a new batch is recorded whole.                       *)
Trailer(t) ==
  DOMAIN fams[base[t]].objs \ (IF gen[t] # 0 THEN failed[t] ELSE {})

(* Mutation: the batch is dropped after its first part.                    *)
PartDoneDropsBatch(t) ==
  /\ Goto(t, IF rest[t] # {} THEN "insert"
             ELSE IF t \in sweeping THEN "rewrite" ELSE "idle")
  /\ batch' = [batch EXCEPT ![t] = EmptyBatch]
  /\ base' = [base EXCEPT ![t] = 0]
  /\ failed' = [failed EXCEPT ![t] = {}]

(* write_batch_inner returns, shard_batch goes on with the next part.      *)
PartDone(t) ==
  /\ Goto(t, IF rest[t] # {} THEN "insert"
             ELSE IF t \in sweeping THEN "rewrite" ELSE "idle")
  /\ batch' = IF rest[t] # {} THEN batch ELSE [batch EXCEPT ![t] = EmptyBatch]
  /\ base' = [base EXCEPT ![t] = 0]
  /\ failed' = [failed EXCEPT ![t] = {}]

(* Step 4: nothing was installed, the file is dropped again.               *)
Abandon(t) ==
  /\ pc[t] = "install" /\ todo[t] = {} /\ Trailer(t) = {}
  /\ RemoveFam(base[t])
  /\ PartDone(t)
  /\ UNCHANGED <<location_table, next_file_lsn, heap, sweeping, gen, rest, todo,
                 replaced, maint, bounds, history>>

(* Mutation: deletions are left out of the trailer.                        *)
RenameWithoutDeletes(t) ==
  LET fam == fams[base[t]]
  IN  /\ heap' = [f \in DOMAIN heap \cup {base[t]} |->
                    IF f = base[t]
                    THEN [objs |-> fam.objs,
                          trailer |-> {o \in Trailer(t) : ~ fam.objs[o].del},
                          generation |-> fam.generation]
                    ELSE heap[f]]
      /\ latest' = [o \in ObjectIds |->
                      IF /\ gen[t] = 0 /\ o \in Trailer(t)
                         /\ order[latest[o]] < order[fam.objs[o].val]
                      THEN fam.objs[o].val ELSE latest[o]]

(* The rename that makes a file count: its data and trailer are complete.  *)
Rename(t) ==
  LET fam == fams[base[t]]
  IN  /\ heap' = [f \in DOMAIN heap \cup {base[t]} |->
                    IF f = base[t]
                    THEN [objs |-> fam.objs, trailer |-> Trailer(t),
                          generation |-> fam.generation]
                    ELSE heap[f]]
      /\ latest' = [o \in ObjectIds |->
                      IF /\ gen[t] = 0 /\ o \in Trailer(t)
                         /\ order[latest[o]] < order[fam.objs[o].val]
                      THEN fam.objs[o].val ELSE latest[o]]

(* Step 5: write the trailer, sync the file, rename it.                    *)
Commit(t) ==
  /\ pc[t] = "install" /\ todo[t] = {} /\ Trailer(t) # {}
  /\ Rename(t)
  /\ Goto(t, "evacuate")
  /\ UNCHANGED <<location_table, fams, next_file_lsn, sweeping, gen, batch, rest,
                 inner, maint, bounds, order>>

(* The unwrap and the assertions of decrement_evacuated_fams.              *)
EvacuationPasses(t, location) ==
  /\ HasFamFor(fams, location)
  /\ FamFor(fams, location) # base[t]
  /\ fams[FamFor(fams, location)].live >= 1

(* Step 6, one iteration of decrement_evacuated_fams.                      *)
Evacuate(t) ==
  /\ pc[t] = "evacuate"
  /\ \E r \in replaced[t] :
       /\ EvacuationPasses(t, r[2])
       /\ DecrementFam(r[2])
       /\ replaced' = [replaced EXCEPT ![t] = @ \ {r}]
  /\ UNCHANGED <<location_table, next_file_lsn, heap, pc, sweeping, gen, batch,
                 rest, base, todo, failed, maint, bounds, history>>

(* finalize_fam: the file becomes visible to maintenance.                  *)
Finalize(t) ==
  /\ pc[t] = "evacuate" /\ replaced[t] = {}
  /\ FinalizeFam(base[t], FileSize(fams[base[t]].objs, heap[base[t]].trailer),
                 Cardinality(failed[t]))
  /\ failed' = [failed EXCEPT ![t] = {}]
  /\ Goto(t, "unclaim")
  /\ UNCHANGED <<location_table, next_file_lsn, heap, sweeping, gen, batch, rest,
                 base, todo, replaced, maint, bounds, history>>

(* drop(fam_claim).                                                        *)
Unclaim(t) ==
  /\ pc[t] = "unclaim"
  /\ ReleaseClaim(base[t])
  /\ PartDone(t)
  /\ UNCHANGED <<location_table, next_file_lsn, heap, sweeping, gen, rest, todo,
                 replaced, maint, bounds, history>>

(***************************************************************************)
(* maintenance.                                                            *)
(***************************************************************************)
StartMaintenance(t) ==
  /\ pc[t] = "idle" /\ sweeps < MaxSweeps /\ MayMaintain
  /\ sweeps' = sweeps + 1
  /\ sweeping' = sweeping \cup {t}
  /\ fam_len' = [fam_len EXCEPT ![t] = Cardinality(DOMAIN fams)]
  /\ cursor' = [cursor EXCEPT ![t] = Top]
  /\ Goto(t, "scan")
  /\ UNCHANGED <<shared, gen, batch, rest, inner, claims, queue, reading, calls,
                 crashes, history>>

(* files_to_defrag, one iteration up to the decision to claim a file, or   *)
(* the end of its loop.                                                    *)
Scan(t) ==
  /\ pc[t] = "scan"
  /\ IF HasNextFam(cursor[t])
     THEN LET f == NextFam(cursor[t]) IN
            /\ cursor' = [cursor EXCEPT ![t] = f]
            /\ Goto(t, IF WorthDefrag(f, fam_len[t]) THEN "claim" ELSE "scan")
     ELSE /\ cursor' = [cursor EXCEPT ![t] = Top]
          /\ Goto(t, "rewrite")
  /\ UNCHANGED <<shared, sweeping, gen, batch, rest, inner, claims, queue,
                 reading, fam_len, bounds, history>>

(* Mutation: the result of the swap is ignored.                            *)
ClaimIgnoresSwap(t) ==
  LET f == cursor[t]
      free == f \in DOMAIN fams
  IN  /\ pc[t] = "claim"
      /\ IF free THEN TakeClaim(f) ELSE UNCHANGED fams
      /\ claims' = IF free THEN [claims EXCEPT ![t] = @ \cup {f}] ELSE claims
      /\ queue' = IF free THEN [queue EXCEPT ![t] = @ \cup {f}] ELSE queue
      /\ Goto(t, "scan")
      /\ UNCHANGED <<location_table, next_file_lsn, heap, sweeping, gen, batch,
                     rest, inner, reading, cursor, fam_len, bounds, history>>

(* Mutation: the claim is waited for.                                      *)
ClaimSpins(t) ==
  LET f == cursor[t]
  IN  /\ pc[t] = "claim" /\ f \in DOMAIN fams /\ ~ fams[f].claim
      /\ TakeClaim(f)
      /\ claims' = [claims EXCEPT ![t] = @ \cup {f}]
      /\ queue' = [queue EXCEPT ![t] = @ \cup {f}]
      /\ Goto(t, "scan")
      /\ UNCHANGED <<location_table, next_file_lsn, heap, sweeping, gen, batch,
                     rest, inner, reading, cursor, fam_len, bounds, history>>

(* rewrite_claim.swap(true).  A file pruned since it was looked at keeps   *)
(* its claim.                                                              *)
Claim(t) ==
  LET f == cursor[t]
      free == f \in DOMAIN fams /\ ~ fams[f].claim
  IN  /\ pc[t] = "claim"
      /\ IF free THEN TakeClaim(f) ELSE UNCHANGED fams
      /\ claims' = IF free THEN [claims EXCEPT ![t] = @ \cup {f}] ELSE claims
      /\ queue' = IF free THEN [queue EXCEPT ![t] = @ \cup {f}] ELSE queue
      /\ Goto(t, "scan")
      /\ UNCHANGED <<location_table, next_file_lsn, heap, sweeping, gen, batch,
                     rest, inner, reading, cursor, fam_len, bounds, history>>

(* The next generation's files: skipped when too few.  After the last      *)
(* generation the claims are dropped.                                      *)
Rewrite(t) ==
  /\ pc[t] = "rewrite"
  /\ \/ \E g \in {NextGeneration(f) : f \in queue[t]} :
          LET group == {f \in queue[t] : NextGeneration(f) = g}
              skip == Cardinality(group) < MinCompactionFiles
          IN  /\ queue' = [queue EXCEPT ![t] = @ \ group]
              /\ reading' = IF skip THEN reading
                            ELSE [reading EXCEPT ![t] = group]
              /\ gen' = IF skip THEN gen ELSE [gen EXCEPT ![t] = g]
              /\ Goto(t, IF skip THEN "rewrite" ELSE "read")
     \/ /\ queue[t] = {}
        /\ Goto(t, "release")
        /\ UNCHANGED <<gen, queue, reading>>
  /\ UNCHANGED <<shared, sweeping, batch, rest, inner, claims, cursor, fam_len,
                 bounds, history>>

(* The objects of a file that the location table still points at, the data *)
(* section and the deletions of the trailer taken together.                *)
Survivors(f) ==
  {o \in DOMAIN fams[f].objs :
     location_table[o] = LocationIn(f, fams[f].objs, o)}

(* The body of the loop over a group's files, and after the last one the   *)
(* call of shard_batch, which does nothing for an empty batch.  The loads  *)
(* of the location table are one step: what a later load would not find    *)
(* fails to install instead, because locations never recur.                *)
ReadFile(t) ==
  /\ pc[t] = "read"
  /\ \E f \in reading[t] :
       LET items == [o \in DOMAIN batch[t] \cup Survivors(f) |->
                       IF o \in Survivors(f)
                       THEN [del |-> fams[f].objs[o].del,
                             val |-> fams[f].objs[o].val,
                             old |-> location_table[o]]
                       ELSE batch[t][o]]
           last == reading[t] = {f}
       IN  /\ batch' = [batch EXCEPT ![t] = items]
           /\ reading' = [reading EXCEPT ![t] = @ \ {f}]
           /\ rest' = IF last THEN [rest EXCEPT ![t] = DOMAIN items] ELSE rest
           /\ Goto(t, IF ~ last THEN "read"
                      ELSE IF DOMAIN items # {} THEN "insert" ELSE "rewrite")
  /\ UNCHANGED <<shared, sweeping, gen, inner, claims, queue, cursor, fam_len,
                 bounds, history>>

(* drop(claims), then prune_empty_files.                                   *)
Release(t) ==
  /\ pc[t] = "release"
  /\ \/ \E f \in claims[t] :
          /\ IF f \in DOMAIN fams THEN ReleaseClaim(f) ELSE UNCHANGED fams
          /\ claims' = [claims EXCEPT ![t] = @ \ {f}]
          /\ UNCHANGED pc
     \/ /\ claims[t] = {}
        /\ Goto(t, "prune")
        /\ UNCHANGED <<fams, claims>>
  /\ UNCHANGED <<location_table, next_file_lsn, heap, sweeping, gen, batch, rest,
                 inner, queue, reading, cursor, fam_len, bounds, history>>

(* prune_empty_files, one iteration of its first loop.  Reading            *)
(* live_objects and taking the claim are one step: a count of 0 stays.     *)
Prune(t) ==
  /\ pc[t] = "prune"
  /\ IF HasNextFam(cursor[t])
     THEN LET f == NextFam(cursor[t]) IN
            /\ cursor' = [cursor EXCEPT ![t] = f]
            /\ IF Prunable(f)
               THEN /\ TakeClaim(f)
                    /\ claims' = [claims EXCEPT ![t] = @ \cup {f}]
               ELSE UNCHANGED <<fams, claims>>
            /\ UNCHANGED pc
     ELSE /\ cursor' = [cursor EXCEPT ![t] = 0]
          /\ Goto(t, "remove")
          /\ UNCHANGED <<fams, claims>>
  /\ UNCHANGED <<location_table, next_file_lsn, heap, sweeping, gen, batch, rest,
                 inner, queue, reading, fam_len, bounds, history>>

(* prune_empty_files, one iteration of its second loop, and the return of  *)
(* maintenance.  The claim of a removed file is never released.            *)
Remove(t) ==
  /\ pc[t] = "remove"
  /\ \/ \E f \in claims[t] :
          /\ RemoveFam(f)
          /\ claims' = [claims EXCEPT ![t] = @ \ {f}]
          /\ UNCHANGED <<pc, sweeping, fam_len, gen>>
     \/ /\ claims[t] = {}
        /\ Goto(t, "idle")
        /\ sweeping' = sweeping \ {t}
        /\ fam_len' = [fam_len EXCEPT ![t] = 0]
        /\ gen' = [gen EXCEPT ![t] = 0]
        /\ UNCHANGED <<fams, claims>>
  /\ UNCHANGED <<location_table, next_file_lsn, heap, batch, rest, inner, queue,
                 reading, cursor, bounds, history>>

(***************************************************************************)
(* The heap directory and recovery.                                        *)
(***************************************************************************)
(* Drop of FileAndMetadata: a removed file is unlinked when the last       *)
(* reference to it goes, some time after it left the map.                  *)
Unlink(f) ==
  /\ f \in DOMAIN heap \ DOMAIN fams
  /\ heap' = [g \in DOMAIN heap \ {f} |-> heap[g]]
  /\ UNCHANGED <<location_table, fams, next_file_lsn, local, bounds, history>>

(* Config::open applies the trailers in the order of the masked LSNs, so   *)
(* the last file with an entry for an object decides.                      *)
FilesWith(files, o) == {f \in DOMAIN files : o \in files[f].trailer}

Position(f) == MaskLsn(LsnOf(f))

(* Mutation: the files are sorted by their LSNs, the bit included.         *)
LastFileByLsn(files, o) ==
  CHOOSE f \in FilesWith(files, o) :
    \A g \in FilesWith(files, o) : LsnOf(g) <= LsnOf(f)

LastFileWith(files, o) ==
  CHOOSE f \in FilesWith(files, o) :
    \A g \in FilesWith(files, o) : Position(g) <= Position(f)

(* Mutation: deletions are not stored in the location table.               *)
RecoveredLocationOfData(files, o) ==
  IF FilesWith(files, o) = {} THEN Null
  ELSE LET f == LastFileWith(files, o)
       IN  IF files[f].objs[o].del THEN Null ELSE LocationIn(f, files[f].objs, o)

RecoveredLocation(files, o) ==
  IF FilesWith(files, o) = {} THEN Null
  ELSE LET f == LastFileWith(files, o) IN LocationIn(f, files[f].objs, o)

SizeOf(files, f) == FileSize(files[f].objs, files[f].trailer)

(* Mutation: the sizes of the files are forgotten.                         *)
RecoveredLsnWithoutSize(files) == Max({0} \cup {Position(f) : f \in DOMAIN files}) + 1

(* max_file_lsn + max_file_size + 1: LSNs continue past every file.        *)
RecoveredLsn(files) ==
  Max({0} \cup {Position(f) : f \in DOMAIN files})
    + Max({0} \cup {SizeOf(files, f) : f \in DOMAIN files}) + 1

(* The rest of Config::open: live objects are counted file by file.        *)
Recover(files) ==
  /\ location_table' = [o \in ObjectIds |-> RecoveredLocation(files, o)]
  /\ fams' = [f \in DOMAIN files |->
                [objs |-> files[f].objs, generation |-> files[f].generation,
                 live |-> Cardinality({o \in ObjectIds :
                            /\ RecoveredLocation(files, o) # Null
                            /\ FamFor(files, RecoveredLocation(files, o)) = f}),
                 claim |-> FALSE, size |-> SizeOf(files, f)]]
  /\ next_file_lsn' = RecoveredLsn(files)

ResetThreads ==
  /\ pc' = [t \in Threads |-> "idle"] /\ sweeping' = {}
  /\ gen' = [t \in Threads |-> 0]
  /\ batch' = [t \in Threads |-> EmptyBatch] /\ rest' = [t \in Threads |-> {}]
  /\ base' = [t \in Threads |-> 0] /\ todo' = [t \in Threads |-> {}]
  /\ failed' = [t \in Threads |-> {}] /\ replaced' = [t \in Threads |-> {}]
  /\ claims' = [t \in Threads |-> {}] /\ queue' = [t \in Threads |-> {}]
  /\ reading' = [t \in Threads |-> {}] /\ cursor' = [t \in Threads |-> 0]
  /\ fam_len' = [t \in Threads |-> 0]

(* The process dies and the store is opened again.  Until it serves calls  *)
(* recovery changes nothing that a second crash would lose.                *)
CrashRecover ==
  /\ crashes < MaxCrashes
  /\ crashes' = crashes + 1
  /\ Recover(heap)
  /\ ResetThreads
  /\ UNCHANGED <<heap, calls, sweeps, history>>

(* The last clone is dropped with no call in progress, which unlinks every *)
(* empty file whose path is known, and the store is opened again.          *)
CloseAndReopen ==
  LET kept == [f \in {g \in DOMAIN fams : fams[g].live # 0 \/ fams[g].size = 0}
                 |-> heap[f]]
  IN  /\ crashes < MaxCrashes
      /\ \A t \in Threads : pc[t] = "idle"
      /\ crashes' = crashes + 1
      /\ heap' = kept
      /\ Recover(kept)
      /\ ResetThreads
      /\ UNCHANGED <<calls, sweeps, history>>

(* What a thread does once a call has begun.                               *)
Step(t) ==
  \/ InsertPart(t) \/ (\E o \in ObjectIds : Install(t, o))
  \/ Abandon(t) \/ Commit(t) \/ Evacuate(t) \/ Finalize(t) \/ Unclaim(t)
  \/ Scan(t) \/ Claim(t) \/ Rewrite(t) \/ ReadFile(t) \/ Release(t)
  \/ Prune(t) \/ Remove(t)

Next ==
  \/ \E t \in Threads : WriteBatch(t) \/ StartMaintenance(t) \/ Step(t)
  \/ \E f \in DOMAIN heap : Unlink(f)
  \/ CrashRecover
  \/ CloseAndReopen

Spec == Init /\ [][Next]_vars

(* Every call runs to its end when the scheduler does not stop its thread. *)
FairSpec == Spec /\ \A t \in Threads : WF_vars(Step(t))

(***************************************************************************)
(* Properties.                                                             *)
(***************************************************************************)
At(f, o) == LocationIn(f, fams[f].objs, o)

(* The objects that account for the live count of a file: still to be      *)
(* installed, or refused and not yet subtracted; pointed at by the table;  *)
(* replaced by a thread that has not yet decremented the count.            *)
Accounted(f) ==
  {o \in DOMAIN fams[f].objs :
     \/ location_table[o] = At(f, o)
     \/ \E t \in Threads : \/ base[t] = f /\ o \in todo[t] \cup failed[t]
                           \/ <<o, At(f, o)>> \in replaced[t]}

(* At every moment of every interleaving live_objects of every file is     *)
(* exactly the number of objects that account for it: it reaches 0 when    *)
(* and only when nothing refers to the file, and fetch_sub in              *)
(* decrement_evacuated_fams and finalize_fam never wraps around.           *)
LiveObjectsExact ==
  \A f \in DOMAIN fams : fams[f].live = Cardinality(Accounted(f))

(* fam_for_location finds, for every entry of the location table, the file *)
(* that holds that version of that object: prune_empty_files removes no    *)
(* file in use ("orphaned object location pairs" of                        *)
(* verify_file_uninhabited), and no other file begins in between.          *)
TableBacked ==
  \A o \in ObjectIds : location_table[o] # Null =>
    /\ HasFamFor(fams, location_table[o])
    /\ LET f == FamFor(fams, location_table[o])
       IN  o \in DOMAIN fams[f].objs /\ location_table[o] = At(f, o)

(* The unwrap and the two assertions of decrement_evacuated_fams: each     *)
(* replaced location leads to a file other than the one being written,     *)
(* whose count is at least 1.                                              *)
EvacuationSafe ==
  \A t \in Threads : pc[t] = "evacuate" =>
    \A r \in replaced[t] : EvacuationPasses(t, r[2])

Holders(f) == {t \in Threads : f \in claims[t] \/ base[t] = f}

(* DeferUnclaim: a claim has one holder, so the swap in drop finds it set  *)
(* and remove in prune_empty_files finds the file; and no claim is leaked, *)
(* an unheld file can always be claimed by a later maintenance.            *)
ClaimsExclusive ==
  /\ \A f \in DOMAIN fams :
       Cardinality(Holders(f)) = IF fams[f].claim THEN 1 ELSE 0
  /\ \A t \in Threads : claims[t] \subseteq DOMAIN fams

(* The expects of maintenance: every object it meets in the data section   *)
(* of a file, or as a deletion in its trailer, is in the location table,   *)
(* also when the file was written before the last crash.                   *)
RewrittenObjectsKnown ==
  \A f \in DOMAIN fams : fams[f].size # 0 =>
    \A o \in DOMAIN fams[f].objs :
      (~ fams[f].objs[o].del \/ o \in heap[f].trailer) => location_table[o] # Null

(* The version of an object that recovery would restore, and the one the   *)
(* location table leads to (0 for none).                                   *)
RecoveredVersion(o) ==
  IF FilesWith(heap, o) = {} THEN 0
  ELSE heap[LastFileWith(heap, o)].objs[o].val

TableVersion(o) ==
  IF location_table[o] = Null THEN 0
  ELSE fams[FamFor(fams, location_table[o])].objs[o].val

(* "Upon crash, batches are recovered atomically": whenever the process    *)
(* dies, recovery restores for every object the last version, in LSN       *)
(* order, among the batches whose file was renamed; no object of a batch   *)
(* falls back to an older version because its file was rewritten, pruned   *)
(* or unlinked.                                                            *)
RecoversCommitted == \A o \in ObjectIds : RecoveredVersion(o) = latest[o]

(* Once every call has returned, what reads see is what a restart would    *)
(* bring back: the location table and the trailers agree on the version of *)
(* every object.                                                           *)
QuiescentAgreement ==
  (\A t \in Threads : pc[t] = "idle") =>
    \A o \in ObjectIds : TableVersion(o) = RecoveredVersion(o)

(* While the process runs, the version of an object never goes back in LSN *)
(* order: fetch_max lets later batches win, and a location lowered by      *)
(* maintenance is not overtaken by an earlier batch.                       *)
VersionsAdvance ==
  [][crashes' = crashes =>
       \A o \in ObjectIds : order[TableVersion(o)] <= order'[TableVersion(o)']]_vars

(* maintenance moves objects and changes none: when a thread inside it     *)
(* installs a location, or takes a file out of the map, every object keeps *)
(* its version, whatever is written at the same time.                      *)
MaintenanceKeepsVersions ==
  [][(\E t \in sweeping : Step(t)) =>
       \A o \in ObjectIds : TableVersion(o)' = TableVersion(o)]_vars

(* Every file, open or waiting to be unlinked, and where its data ends.    *)
Files == DOMAIN fams \cup DOMAIN heap

ObjsOf(f) == IF f \in DOMAIN fams THEN fams[f].objs ELSE heap[f].objs

End(f) == Position(f) + DataLen(ObjsOf(f))

(* The LSN ranges of two files never overlap, tombstone-only files         *)
(* included, across restarts and whether or not a file carries the new     *)
(* batch bit: the assertion of Config::open that locations are applied in  *)
(* monotonic order, and the one of insert that no file is displaced.       *)
RangesDisjoint ==
  /\ \A f \in Files : End(f) < next_file_lsn
  /\ \A f, g \in Files : Position(f) < Position(g) => End(f) < Position(g)
  /\ \A f, g \in Files : Position(f) = Position(g) => f = g

(* Every call of write_batch and of maintenance returns: the iterations of *)
(* the file map end although files are inserted and removed under them.    *)
CallsReturn == \A t \in Threads : pc[t] # "idle" ~> pc[t] = "idle"
=============================================================================
