---------------------------- MODULE MCComponents ----------------------------
(***************************************************************************)
(* The parts that share no state with the others, checked side by side:    *)
(* a behaviour is one of a single part, and the others stay in one initial *)
(* state.                                                                  *)
(***************************************************************************)
EXTENDS ShardBatch, MCFiles, ThreadLocalDict, Compaction, KvStore

CONSTANTS r1, r2, r3
MCReaders == {r1, r2, r3}

(* Sizes on both sides of the partition limits and of the target size, and *)
(* the empty object.                                                       *)
Boundaries == {0, 2020, 2047, 2048, 16385, 4194305}

UnevenSizes == [o \in Objects |-> o]
OnePartition == [o \in Objects |-> 0]

VARIABLE part           \* the one that runs

allVars == <<shardVars, fileVars, dictVars, compactionVars, storeVars, kvVars, part>>

PartsInit ==
  /\ ShardInit /\ FileInit /\ DictInit /\ CompactionInit /\ KvInit
  /\ part \in {"shards", "files", "dicts", "compaction", "kv"}
  /\ part # "shards" => generation = 0
  /\ part # "files" => objects = <<>> /\ tombstones = {1}

PartsNext ==
  /\ \/ part = "shards" /\ ShardNext
        /\ UNCHANGED <<fileVars, dictVars, compactionVars, storeVars, kvVars>>
     \/ part = "files" /\ FileNext
        /\ UNCHANGED <<shardVars, dictVars, compactionVars, storeVars, kvVars>>
     \/ part = "dicts" /\ DictNext
        /\ UNCHANGED <<shardVars, fileVars, compactionVars, storeVars, kvVars>>
     \/ part = "compaction" /\ CompactionNext
        /\ UNCHANGED <<shardVars, fileVars, dictVars, storeVars, kvVars>>
     \/ part = "kv" /\ KvNext
        /\ UNCHANGED <<shardVars, fileVars, dictVars, compactionVars>>
  /\ UNCHANGED part

(* The fairness of DictSpec and of CompactionSpec.                         *)
PartsSpec ==
  /\ PartsInit /\ [][PartsNext]_allVars
  /\ \A t \in Readers : WF_dictVars(DictStep(t))
  /\ WF_compactionVars(Compact \/ Verify)
=============================================================================
