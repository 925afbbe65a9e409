----------------------------- MODULE Compaction -----------------------------
(***************************************************************************)
(* A caller that repeats maintenance until it rewrites nothing more, as    *)
(* examples/bench.rs does when its writers are done.  Nothing overlaps     *)
(* here, so that a whole call is one step; locations and LSNs are left     *)
(* out, which makes the loop finite.  What decides whether it ends is kept: *)
(* generations, live counts, file sizes, the number of files, and how      *)
(* rewritten objects are split over files (file_map.rs, gc.rs,             *)
(* writepath.rs).                                                          *)
(***************************************************************************)
EXTENDS Naturals, Sequences, FiniteSets, FiniteSetsExt, SequencesExt

CONSTANTS
  Objects,              \* object ids
  SizeOfObject,         \* object id -> its size, header included
  PartitionOf,          \* object id -> the shard of partition_function
  CompactionPercent,    \* Config::file_compaction_percent
  CleanupThreshold,     \* Config::small_file_cleanup_threshold
  TargetFileSize,           \* Config::target_file_size
  MinFiles,             \* Config::min_compaction_files
  MaxBatches            \* bound: calls of write_batch

(* What Config::validate accepts.                                          *)
ASSUME CompactionAssumption ==
  /\ IsFiniteSet(Objects)
  /\ SizeOfObject \in [Objects -> Nat] /\ PartitionOf \in [Objects -> Nat]
  /\ CompactionPercent \in 0 .. 99 /\ TargetFileSize \in Nat \ {0}
  /\ CleanupThreshold \in Nat /\ MinFiles \in Nat /\ MaxBatches \in Nat

VARIABLES
  files,        \* files with live objects: generation, objects written,
                \* size, live objects and which of them are tombstones
  empty,        \* how many files without live objects there are
  caller,       \* "writing", "compacting", "verifying", "done"
  cleaned_up,   \* what the last call of maintenance returned
  batches       \* bound

compactionVars == <<files, empty, caller, cleaned_up, batches>>

DataSize(ids, deleted) ==
  MapThenSumSet(LAMBDA o : SizeOfObject[o], ids \ deleted)

(* A file as it is written: data, a unit for the trailer's header and one  *)
(* for each entry.                                                         *)
NewFile(generation, ids, deleted) ==
  [generation |-> generation, present |-> Cardinality(ids),
   size |-> DataSize(ids, deleted) + 1 + Cardinality(ids),
   live |-> ids, deleted |-> deleted]

Without(f, ids) == [f EXCEPT !.live = @ \ ids, !.deleted = @ \ ids]

CompactionInit ==
  /\ files = {} /\ empty = 0
  /\ caller = "writing" /\ cleaned_up = 1 /\ batches = 0

WriteOneBatch ==
  /\ caller = "writing" /\ batches < MaxBatches
  /\ batches' = batches + 1
  /\ \E ids \in (SUBSET Objects) \ {{}} : \E deleted \in SUBSET ids :
       LET left == {Without(f, ids) : f \in files}
       IN  /\ files' = {f \in left : f.live # {}} \cup {NewFile(0, ids, deleted)}
           /\ empty' = empty + Cardinality({f \in files : f.live \subseteq ids})
  /\ UNCHANGED <<caller, cleaned_up>>

(***************************************************************************)
(* maintenance.                                                            *)
(***************************************************************************)
FamLen == Cardinality(files) + empty

(* Mutation: small files are squished while there are few.                 *)
CandidateWhenFew(f) ==
  \/ (Cardinality(f.live) * 100) \div f.present < CompactionPercent
  \/ CleanupThreshold >= FamLen /\ f.size * MinFiles < TargetFileSize

(* files_to_defrag.                                                        *)
Candidate(f) ==
  \/ (Cardinality(f.live) * 100) \div f.present < CompactionPercent
  \/ CleanupThreshold <= FamLen /\ f.size * MinFiles < TargetFileSize

Rewritten(f) == IF f.generation < 3 THEN f.generation + 1 ELSE 3

Group(g) == {f \in files : Candidate(f) /\ Rewritten(f) = g}

(* Mutation: a file alone is rewritten too.                                *)
RewritesSingle(g) == Group(g) # {}

(* Groups of too few files are skipped.                                    *)
Rewrites(g) == Group(g) # {} /\ Cardinality(Group(g)) >= MinFiles

LiveOf(group) == UNION {f.live : f \in group}

DeletedOf(group) == UNION {f.deleted : f \in group}

(* shard_batch for one shard and one order of its items: a part is closed  *)
(* when it is over the target and another item comes.                      *)
PartsInOrder(ids, deleted) ==
  LET add(acc, o) ==
        IF DataSize(acc.open, deleted) > TargetFileSize
        THEN [closed |-> acc.closed \cup {acc.open}, open |-> {o}]
        ELSE [acc EXCEPT !.open = @ \cup {o}]
      all == FoldLeft(add, [closed |-> {}, open |-> {}], ids)
  IN  all.closed \cup {all.open}

(* Tombstones go to shard 0.                                               *)
ShardsOf(group) ==
  LET shard(o) == IF o \in DeletedOf(group) THEN 0 ELSE PartitionOf[o]
  IN  {{o \in LiveOf(group) : shard(o) = s} : s \in {shard(o) : o \in LiveOf(group)}}

(* The ways to write a group: any order of the items of each shard.        *)
Orders(group) ==
  {order \in [ShardsOf(group) -> UNION {SetToSeqs(s) : s \in ShardsOf(group)}] :
     \A s \in ShardsOf(group) : order[s] \in SetToSeqs(s)}

Splits(group) ==
  {UNION {PartsInOrder(order[s], DeletedOf(group)) : s \in ShardsOf(group)} :
     order \in Orders(group)}

(* The new files of a generation.                                          *)
Rewrite(g, parts) ==
  {NewFile(g, p, p \cap DeletedOf(Group(g))) : p \in parts}

(* Mutation: empty files stay.                                             *)
MaintenanceWithoutPrune ==
  LET groups == {g \in 1 .. 3 : Rewrites(g)}
  IN  /\ \E split \in [groups -> UNION {Splits(Group(g)) : g \in groups}] :
           /\ \A g \in groups : split[g] \in Splits(Group(g))
           /\ files' = (files \ UNION {Group(g) : g \in groups})
                         \cup UNION {Rewrite(g, split[g]) : g \in groups}
      /\ empty' = empty + MapThenSumSet(LAMBDA g : Cardinality(Group(g)), groups)
      /\ cleaned_up' = MapThenSumSet(LAMBDA g : Cardinality(LiveOf(Group(g))), groups)

(* A call of maintenance: every group is rewritten, and then all empty     *)
(* files are pruned.                                                       *)
Maintenance ==
  LET groups == {g \in 1 .. 3 : Rewrites(g)}
  IN  /\ \E split \in [groups -> UNION {Splits(Group(g)) : g \in groups}] :
           /\ \A g \in groups : split[g] \in Splits(Group(g))
           /\ files' = (files \ UNION {Group(g) : g \in groups})
                         \cup UNION {Rewrite(g, split[g]) : g \in groups}
      /\ empty' = 0
      /\ cleaned_up' = MapThenSumSet(LAMBDA g : Cardinality(LiveOf(Group(g))), groups)

(* While the writers run.                                                  *)
MaintainWhileWriting ==
  /\ caller = "writing" /\ Maintenance
  /\ UNCHANGED <<caller, batches>>

(* The writers are joined: let mut cleaned_up = 1.                         *)
WritersDone ==
  /\ caller = "writing"
  /\ caller' = "compacting" /\ cleaned_up' = 1
  /\ UNCHANGED <<files, empty, batches>>

(* while cleaned_up != 0.                                                  *)
Compact ==
  /\ caller = "compacting"
  /\ IF cleaned_up # 0 THEN Maintenance /\ UNCHANGED caller
     ELSE caller' = "verifying" /\ UNCHANGED <<files, empty, cleaned_up>>
  /\ UNCHANGED batches

(* cleaned_up_2.                                                           *)
Verify ==
  /\ caller = "verifying" /\ Maintenance
  /\ caller' = "done"
  /\ UNCHANGED batches

CompactionNext ==
  \/ WriteOneBatch \/ MaintainWhileWriting \/ WritersDone \/ Compact \/ Verify

CompactionSpec ==
  /\ CompactionInit /\ [][CompactionNext]_compactionVars
  /\ WF_compactionVars(Compact \/ Verify)

(***************************************************************************)
(* Properties.                                                             *)
(***************************************************************************)
(* The loop of the benchmark ends: rewriting small files does not produce  *)
(* small files for ever.                                                   *)
Settles == caller = "compacting" ~> caller = "done"

(* "assert_eq!(cleaned_up_2, 0)" of the benchmark: a call of maintenance   *)
(* that rewrote nothing has pruned files, and yet leaves the next call     *)
(* nothing to do.                                                          *)
SecondCallIdle == caller = "done" => cleaned_up = 0

(* Rewriting pays: a call of maintenance never leaves more files than it   *)
(* found, empty ones included, when no file is over the target size.       *)
FilesNeverMultiply ==
  [][(batches' = batches /\ \A f \in files : f.size <= TargetFileSize) =>
       Cardinality(files') + empty' <= FamLen]_compactionVars
=============================================================================
