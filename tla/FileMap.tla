------------------------------- MODULE FileMap -------------------------------
(***************************************************************************)
(* The map of open storage files (file_map.rs, FileAndMetadata of lib.rs). *)
(*                                                                         *)
(* fams is the concurrent map from the location where a file begins to its *)
(* FileAndMetadata.  Of a file the model keeps                             *)
(*   objs        what was written: object id -> offset, deletion flag and  *)
(*               value; the data section has one unit for each object that *)
(*               is not a tombstone.  A value is the number of the call of *)
(*               write_batch that wrote it, tombstones included, so that   *)
(*               the properties can tell versions of an object apart.      *)
(*   live        live_objects, an AtomicU64                                *)
(*   generation  0 for a new batch, else how often its objects were moved  *)
(*   claim       rewrite_claim, an AtomicBool                              *)
(*   size        file_size of the metadata, 0 while the metadata and the   *)
(*               path are not installed (a null AtomicPtr)                 *)
(***************************************************************************)
EXTENDS LocationTable, Integers, FiniteSets

CONSTANTS
  FileCompactionPercent,        \* Config::file_compaction_percent
  SmallFileCleanupThreshold,    \* Config::small_file_cleanup_threshold
  TargetFileSize,               \* Config::target_file_size, in units
  MinCompactionFiles            \* Config::min_compaction_files

(* Config::validate refuses a target size of 0 and a percentage over 99.   *)
ASSUME ConfigAssumption ==
  /\ FileCompactionPercent \in 0 .. 99
  /\ SmallFileCleanupThreshold \in Nat
  /\ TargetFileSize \in Nat \ {0}
  /\ MinCompactionFiles \in Nat

ASSUME FiniteObjectIds == IsFiniteSet(ObjectIds)

VARIABLES
  fams,
  next_file_lsn         \* AtomicU64, the LSN base of the next file

MAX_GENERATION == 3

Entry == [off : Nat, del : BOOLEAN, val : Nat]

(* The FileAndMetadata of a file that was written with the given ids.      *)
Fam(ids) ==
  [objs : [ids -> Entry], live : Int, generation : 0 .. MAX_GENERATION,
   claim : BOOLEAN, size : Nat]

FileMapTypeOK ==
  /\ DOMAIN fams \subseteq FamLocations
  /\ \A f \in DOMAIN fams : /\ DOMAIN fams[f].objs \subseteq ObjectIds
                            /\ fams[f] \in Fam(DOMAIN fams[f].objs)
  /\ next_file_lsn \in Nat

(* Bytes of the data section, the trailer_offset of the metadata.          *)
DataLen(objs) == Cardinality({o \in DOMAIN objs : ~ objs[o].del})

(* expected_file_len: data, trailer header, one trailer entry per item.    *)
FileSize(objs, trailer) == DataLen(objs) + 1 + Cardinality(trailer)

(* Where object o of the file that begins at location f is.                *)
LocationIn(f, objs, o) ==
  ToAbsolute(ShiftLocation(objs[o].off, objs[o].del), LsnOf(f))

(* fam_for_location, and the same range query in decrement_evacuated_fams  *)
(* and in recovery: the file with the greatest location not above the      *)
(* given one.  The code panics when there is none.                         *)
HasFamFor(files, location) == \E f \in DOMAIN files : f <= location

FamFor(files, location) ==
  CHOOSE f \in DOMAIN files :
    /\ f <= location
    /\ \A g \in DOMAIN files : g <= location => g <= f

(* Mutation: tombstones are left out of the initial live count.            *)
InsertFamCountsData(f, objs, generation) ==
  /\ next_file_lsn' = next_file_lsn + DataLen(objs) + 1
  /\ fams' = [g \in DOMAIN fams \cup {f} |->
                IF g = f
                THEN [objs |-> objs, live |-> DataLen(objs),
                      generation |-> generation, claim |-> TRUE, size |-> 0]
                ELSE fams[g]]

(* insert: takes an LSN range one longer than the data, so that files      *)
(* holding only tombstones begin at distinct locations too.  The new file  *)
(* is claimed by its writer.                                               *)
InsertFam(f, objs, generation) ==
  /\ next_file_lsn' = next_file_lsn + DataLen(objs) + 1
  /\ fams' = [g \in DOMAIN fams \cup {f} |->
                IF g = f
                THEN [objs |-> objs, live |-> Cardinality(DOMAIN objs),
                      generation |-> generation, claim |-> TRUE, size |-> 0]
                ELSE fams[g]]

RemoveFam(f) == fams' = [g \in DOMAIN fams \ {f} |-> fams[g]]

(* One iteration of decrement_evacuated_fams.                              *)
DecrementFam(location) ==
  fams' = [fams EXCEPT ![FamFor(fams, location)].live = @ - 1]

(* Mutation: failed installations stay counted.                            *)
FinalizeFamKeepsFailed(f, size, subtract_from_len) ==
  fams' = [fams EXCEPT ![f].size = size]

(* finalize_fam: path and metadata become visible, failed installations    *)
(* are subtracted.  One step: the writer still holds the claim, so nobody  *)
(* can act on a count that is too high for a moment.                       *)
FinalizeFam(f, size, subtract_from_len) ==
  fams' = [fams EXCEPT ![f].size = size, ![f].live = @ - subtract_from_len]

ReleaseClaim(f) == fams' = [fams EXCEPT ![f].claim = FALSE]

TakeClaim(f) == fams' = [fams EXCEPT ![f].claim = TRUE]

(* files_to_defrag: which files are worth rewriting, given the number of   *)
(* files there were when the iteration began.  A negative count -k stands  *)
(* for the unsigned 2^64 - k that a fetch_sub below 0 leaves: in a release *)
(* build the product wraps around too, to 2^64 - 100k, and the percentage  *)
(* is over 99.                                                             *)
LivePercent(f) ==
  LET present == Cardinality(DOMAIN fams[f].objs)
  IN  IF fams[f].live < 0 THEN 100
      ELSE (fams[f].live * 100) \div (IF present = 0 THEN 1 ELSE present)

WorthDefrag(f, approximate_fam_len) ==
  /\ fams[f].size # 0
  /\ fams[f].live # 0
  /\ \/ LivePercent(f) < FileCompactionPercent
     \/ /\ SmallFileCleanupThreshold <= approximate_fam_len
        /\ fams[f].size * MinCompactionFiles < TargetFileSize

(* The generation that the objects of a rewritten file move to.            *)
NextGeneration(f) ==
  IF fams[f].generation + 1 < MAX_GENERATION
  THEN fams[f].generation + 1 ELSE MAX_GENERATION

(* Mutation: the live count is not looked at.                              *)
PrunableIgnoresLive(f) == fams[f].size # 0 /\ ~ fams[f].claim

(* prune_empty_files: a file that can go.                                  *)
Prunable(f) == fams[f].size # 0 /\ fams[f].live = 0 /\ ~ fams[f].claim

(* The map is iterated from the highest location down while it changes:    *)
(* the next file of an iteration that has reached the given cursor.        *)
HasNextFam(cursor) == \E f \in DOMAIN fams : f < cursor

NextFam(cursor) ==
  CHOOSE f \in DOMAIN fams :
    f < cursor /\ \A g \in DOMAIN fams : g < cursor => g <= f
=============================================================================
