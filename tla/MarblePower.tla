---------------------------- MODULE MarblePower ----------------------------
(***************************************************************************)
(* The store when the machine loses power: sync_all, fsync_each_batch and  *)
(* the fsync of the heap directory (lib.rs, file_map.rs, writepath.rs).    *)
(*                                                                         *)
(* The contents of a file are synced before it is renamed, whatever the    *)
(* configuration (write_trailer), so a power failure loses renames and     *)
(* unlinks only: the operations on the directory since it was last synced. *)
(***************************************************************************)
EXTENDS Marble

CONSTANTS
  Setups,               \* the configurations and environments considered
  SyncsExclude,         \* whether callers keep sync_all from overlapping
                        \* any other call
  MaxPowerLosses        \* bound: power failures

(* fsync_each_batch is the one of Config.  ordered says whether the file   *)
(* system keeps the order of operations on a directory, as a journal does; *)
(* otherwise any of them may be lost.  restarts and syncs are bounds:      *)
(* restarts of the process, beside MaxCrashes, and calls of sync_all.      *)
ASSUME PowerAssumption ==
  /\ Setups \subseteq [fsync_each_batch : BOOLEAN, ordered : BOOLEAN,
                      restarts : Nat, syncs : Nat]
  /\ SyncsExclude \in BOOLEAN
  /\ MaxPowerLosses \in Nat

VARIABLES
  setup,        \* never changes
  possible,     \* the directories that a power failure now may leave
  synced,       \* files whose FileAndMetadata::synced is set
  sync_at,      \* thread -> "no", or what it syncs: "batch" at the end of
                \* shard_batch, "files" and "directory" in sync_all
  sync_cursor,  \* where the iteration of sync_all is
  synced_files, \* whether sync_all met a file that was not synced
  syncs, losses,        \* bounds
  \* History: functions from ids to calls of write_batch, 0 for none.
  pending,      \* thread -> what its sync makes durable, if it succeeds
  returned,     \* the last version whose write_batch returned
  promised,     \* the last version a caller was told is durable
  wrote         \* call of write_batch -> its ids

syncVars == <<synced, sync_at, sync_cursor, synced_files, syncs>>
promises == <<pending, returned, promised, wrote>>
powerVars == <<setup, possible, syncVars, losses, promises>>

Nothing == [o \in ObjectIds |-> 0]

(* Of two such functions, the later version of each object.                *)
Later(v, w) ==
  [o \in ObjectIds |-> IF order[v[o]] < order[w[o]] THEN w[o] ELSE v[o]]

PowerInit ==
  /\ Init
  /\ setup \in Setups
  /\ possible = {heap} /\ synced = {}
  /\ sync_at = [t \in Threads |-> "no"]
  /\ sync_cursor = [t \in Threads |-> 0]
  /\ synced_files = [t \in Threads |-> FALSE]
  /\ syncs = 0 /\ losses = 0
  /\ pending = [t \in Threads |-> Nothing]
  /\ returned = Nothing /\ promised = Nothing
  /\ wrote = [c \in 0 .. MaxCalls |-> {}]

(***************************************************************************)
(* The directory.                                                          *)
(***************************************************************************)
(* A directory after the rename of the current step, if there is one, and  *)
(* some of its unlinks.                                                    *)
Redo(directory, gone) ==
  LET renamed == DOMAIN heap' \ DOMAIN heap
  IN  [f \in (DOMAIN directory \cup renamed) \ gone |->
         IF f \in renamed THEN heap'[f] ELSE directory[f]]

RecordOperation ==
  possible' = possible \cup
    {Redo(d, gone) : d \in IF setup.ordered THEN {heap} ELSE possible,
                     gone \in SUBSET (DOMAIN heap \ DOMAIN heap')}

(* directory_lock.sync_all().                                              *)
SyncHeapDirectory == possible' = {heap}

(***************************************************************************)
(* write_batch and maintenance.                                            *)
(***************************************************************************)
(* insert sets the flag of a new file when each batch is synced.           *)
TrackSynced ==
  synced' = (synced \cap DOMAIN fams')
              \cup (IF setup.fsync_each_batch THEN DOMAIN fams' \ DOMAIN fams ELSE {})

(* shard_batch has written its last part, or had nothing to write.         *)
LastPartDone(t) ==
  /\ pc[t] \in {"unclaim", "install", "read"} /\ pc'[t] \in {"idle", "rewrite"}

(* The version of each object of the batch being written.                  *)
Written(t) ==
  [o \in ObjectIds |-> IF gen[t] = 0 /\ o \in DOMAIN batch[t]
                       THEN batch[t][o].val ELSE 0]

(* Without fsync_each_batch write_batch returns, else it goes on with the  *)
(* fsync of the directory.                                                 *)
EndOfBatch(t) ==
  /\ IF LastPartDone(t) /\ setup.fsync_each_batch
     THEN /\ sync_at' = [sync_at EXCEPT ![t] = "batch"]
          /\ pending' = [pending EXCEPT ![t] = Written(t)]
     ELSE UNCHANGED <<sync_at, pending>>
  /\ returned' = IF LastPartDone(t) /\ ~ setup.fsync_each_batch
                 THEN Later(returned, Written(t)) ELSE returned

(* Nothing else runs beside sync_all.                                      *)
NoSync == SyncsExclude => \A t \in Threads : sync_at[t] \notin {"files", "directory"}

Begin(t) ==
  /\ sync_at[t] = "no" /\ NoSync
  /\ \/ /\ WriteBatch(t)
        /\ wrote' = [wrote EXCEPT ![calls'] = DOMAIN batch'[t]]
     \/ /\ StartMaintenance(t)
        /\ CallersExclude => \A u \in Threads \ sweeping : sync_at[u] # "batch"
        /\ UNCHANGED wrote
  /\ UNCHANGED <<possible, syncVars, losses, pending, returned, promised>>

StepOn(t) ==
  /\ sync_at[t] = "no"
  /\ Step(t)
  /\ RecordOperation
  /\ TrackSynced
  /\ EndOfBatch(t)
  /\ UNCHANGED <<sync_cursor, synced_files, syncs, losses, promised, wrote>>

(* Mutation: the directory is not synced.                                  *)
FsyncBatchSkipped(t) ==
  /\ sync_at[t] = "batch"
  /\ UNCHANGED possible
  /\ sync_at' = [sync_at EXCEPT ![t] = "no"]
  /\ returned' = Later(returned, pending[t])
  /\ promised' = Later(promised, pending[t])
  /\ pending' = [pending EXCEPT ![t] = Nothing]
  /\ UNCHANGED <<vars, synced, sync_cursor, synced_files, syncs, losses, wrote>>

(* The fsync of the directory at the end of shard_batch, and its return.   *)
FsyncBatch(t) ==
  /\ sync_at[t] = "batch"
  /\ SyncHeapDirectory
  /\ sync_at' = [sync_at EXCEPT ![t] = "no"]
  /\ returned' = Later(returned, pending[t])
  /\ promised' = Later(promised, pending[t])
  /\ pending' = [pending EXCEPT ![t] = Nothing]
  /\ UNCHANGED <<vars, synced, sync_cursor, synced_files, syncs, losses, wrote>>

(***************************************************************************)
(* sync_all.                                                               *)
(***************************************************************************)
SyncReturns(t) ==
  /\ sync_at' = [sync_at EXCEPT ![t] = "no"]
  /\ sync_cursor' = [sync_cursor EXCEPT ![t] = 0]
  /\ promised' = Later(promised, pending[t])
  /\ pending' = [pending EXCEPT ![t] = Nothing]

SyncAll(t) ==
  /\ pc[t] = "idle" /\ sync_at[t] = "no" /\ syncs < setup.syncs
  /\ SyncsExclude => \A u \in Threads : pc[u] = "idle" /\ sync_at[u] = "no"
  /\ syncs' = syncs + 1
  /\ sync_at' = [sync_at EXCEPT ![t] = "files"]
  /\ sync_cursor' = [sync_cursor EXCEPT ![t] = Top]
  /\ synced_files' = [synced_files EXCEPT ![t] = FALSE]
  /\ pending' = [pending EXCEPT ![t] = returned]
  /\ UNCHANGED <<vars, possible, synced, losses, returned, promised, wrote>>

(* One iteration of FileMap::sync_all: a file is synced and flagged, also  *)
(* one that is not renamed yet.  A file flagged meanwhile by another call  *)
(* is synced twice in the code, which makes nothing less durable.          *)
SyncFile(t) ==
  LET f == NextFam(sync_cursor[t])
  IN  /\ sync_at[t] = "files" /\ HasNextFam(sync_cursor[t])
      /\ sync_cursor' = [sync_cursor EXCEPT ![t] = f]
      /\ synced' = synced \cup {f}
      /\ synced_files' = [synced_files EXCEPT ![t] = @ \/ f \notin synced]
      /\ UNCHANGED <<vars, possible, sync_at, syncs, losses, promises>>

(* Mutation: the result of the iteration is not looked at.                 *)
SyncFilesIgnored(t) ==
  /\ sync_at[t] = "files" /\ ~ HasNextFam(sync_cursor[t])
  /\ SyncReturns(t)
  /\ UNCHANGED <<vars, possible, synced, synced_files, syncs, losses, returned,
                 wrote>>

(* The end of the iteration: the directory is synced next if a file was.   *)
SyncFiles(t) ==
  /\ sync_at[t] = "files" /\ ~ HasNextFam(sync_cursor[t])
  /\ IF synced_files[t]
     THEN /\ sync_at' = [sync_at EXCEPT ![t] = "directory"]
          /\ UNCHANGED <<sync_cursor, pending, promised>>
     ELSE SyncReturns(t)
  /\ UNCHANGED <<vars, possible, synced, synced_files, syncs, losses, returned,
                 wrote>>

SyncDirectory(t) ==
  /\ sync_at[t] = "directory"
  /\ SyncHeapDirectory
  /\ SyncReturns(t)
  /\ UNCHANGED <<vars, synced, synced_files, syncs, losses, returned,
                 wrote>>

(***************************************************************************)
(* Restarts.                                                               *)
(***************************************************************************)
(* The calls in progress are gone.                                         *)
ForgetSyncs ==
  /\ sync_at' = [t \in Threads |-> "no"]
  /\ sync_cursor' = [t \in Threads |-> 0]
  /\ synced_files' = [t \in Threads |-> FALSE]
  /\ pending' = [t \in Threads |-> Nothing]

(* Config::open takes every file that it finds for synced.                 *)
RecoveredSynced(files) == DOMAIN files

(* The process dies or is restarted; the page cache survives.              *)
Restart ==
  /\ crashes < setup.restarts
  /\ \/ CrashRecover
     \/ CloseAndReopen /\ \A t \in Threads : sync_at[t] = "no"
  /\ RecordOperation
  /\ synced' = RecoveredSynced(heap')
  /\ ForgetSyncs
  /\ UNCHANGED <<syncs, losses, returned, promised, wrote>>

(* The version of an object that recovery restores from a directory.       *)
VersionIn(files, o) ==
  IF FilesWith(files, o) = {} THEN 0 ELSE files[LastFileWith(files, o)].objs[o].val

(* Power fails, and the store is opened over what is left: the history of  *)
(* what was committed and returned goes on from there.                     *)
PowerLoss ==
  /\ losses < MaxPowerLosses
  /\ losses' = losses + 1
  /\ \E d \in possible :
       /\ heap' = d
       /\ possible' = {d}
       /\ Recover(d)
       /\ latest' = [o \in ObjectIds |-> VersionIn(d, o)]
  /\ returned' = latest'
  /\ synced' = RecoveredSynced(heap')
  /\ ResetThreads
  /\ ForgetSyncs
  /\ UNCHANGED <<bounds, order, syncs, promised, wrote>>

PowerNext ==
  /\ \/ \E t \in Threads : \/ Begin(t) \/ StepOn(t) \/ FsyncBatch(t)
                           \/ SyncAll(t) \/ SyncFile(t) \/ SyncFiles(t)
                           \/ SyncDirectory(t)
     \/ \E f \in DOMAIN heap : Unlink(f) /\ RecordOperation
                                 /\ UNCHANGED <<syncVars, losses, promises>>
     \/ Restart
     \/ PowerLoss
  /\ UNCHANGED setup

PowerSpec == PowerInit /\ [][PowerNext]_<<vars, powerVars>>

(***************************************************************************)
(* Properties.                                                             *)
(***************************************************************************)
(* "this method can be called at a desired interval to ensure that the     *)
(* written batches are durable on disk" (sync_all), and "Issue fsyncs on   *)
(* each new file and the containing directory" (fsync_each_batch): when    *)
(* the call has returned, no power failure brings an object back to before *)
(* that batch, whatever was rewritten, pruned and unlinked since.          *)
PromisesKept ==
  \A d \in possible : \A o \in ObjectIds :
    order[promised[o]] <= order[VersionIn(d, o)]

(* "Upon crash, batches are recovered atomically", when the crash is a     *)
(* power failure: a version that is recovered comes with every other       *)
(* object of its batch, or with later versions of them, also when the      *)
(* batch has been taken apart by maintenance.                              *)
PowerLossAtomic ==
  \A d \in possible : \A o, p \in ObjectIds :
    LET c == VersionIn(d, o)
    IN  (c # 0 /\ p \in wrote[c]) => order[c] <= order[VersionIn(d, p)]
=============================================================================
