---------------------------- MODULE FaultProofs -----------------------------
(***************************************************************************)
(* Proofs about MarbleFaults: errors and panics leak no claim and move no  *)
(* file, for every number of threads, of failing calls and of crashes.     *)
(*                                                                         *)
(* As far as files and claims go, a thread that undoes its installations   *)
(* is one that still installs, and a thread that returns an error from     *)
(* maintenance is one that releases its claims.  With the program counters *)
(* read in this way every step of the store is a step of Marble, whose     *)
(* lemmas apply; what is left are the steps at which a call fails.         *)
(***************************************************************************)
EXTENDS MarbleFaults, FiniteSetTheorems, TLAPS

(* Where a thread is, as far as files and claims go.                       *)
Stage ==
  [t \in Threads |-> IF pc[t] = "undo" THEN "install"
                     ELSE IF pc[t] = "bail" THEN "release" ELSE pc[t]]

Store == INSTANCE MarbleProofs WITH pc <- Stage

FaultInv == DOMAIN pc = Threads /\ Store!CoreInv

(***************************************************************************)
(* The store reads its variables as Marble does.                           *)
(***************************************************************************)
(* Operators without program counters are the same.                        *)
LEMMA SameNumbers ==
  /\ \A S : Store!Cardinality(S) = Cardinality(S) /\ Store!Max(S) = Max(S)
  /\ \A S : Store!IsFiniteSet(S) = IsFiniteSet(S)
BY DEF Cardinality, Store!Cardinality, Max, Store!Max, IsFiniteSet, Store!IsFiniteSet

(* Locations are the same.                                                 *)
LEMMA SameLocations ==
  /\ \A f, objs, o : Store!LocationIn(f, objs, o) = LocationIn(f, objs, o)
  /\ \A f : Store!Position(f) = Position(f)
  /\ \A n, g : Store!NewFam(Store!StampLsn(n, g)) = NewFam(StampLsn(n, g))
BY DEF LocationIn, Store!LocationIn, ToAbsolute, Store!ToAbsolute, ShiftLocation,
       Store!ShiftLocation, LsnOf, Store!LsnOf, IsDelete, Store!IsDelete, Position,
       Store!Position, MaskLsn, Store!MaskLsn, NewFam, Store!NewFam, StampLsn, Store!StampLsn

(* So are the sizes and the contents of files.                             *)
LEMMA SameSizes ==
  /\ \A objs : Store!DataLen(objs) = DataLen(objs)
  /\ \A objs, trailer : Store!FileSize(objs, trailer) = FileSize(objs, trailer)
  /\ \A items, part : Store!Contents(items, part) = Contents(items, part)
BY SameNumbers DEF DataLen, Store!DataLen, FileSize, Store!FileSize, Contents, Store!Contents

(* So are the queries of the file map.                                     *)
LEMMA SameQueries ==
  /\ \A files, l : /\ Store!HasFamFor(files, l) = HasFamFor(files, l)
                   /\ Store!FamFor(files, l) = FamFor(files, l)
  /\ \A c : Store!HasNextFam(c) = HasNextFam(c) /\ Store!NextFam(c) = NextFam(c)
  /\ \A f, n : Store!WorthDefrag(f, n) = WorthDefrag(f, n)
  /\ \A f : Store!NextGeneration(f) = NextGeneration(f) /\ Store!Prunable(f) = Prunable(f)
BY SameNumbers DEF HasFamFor, Store!HasFamFor, FamFor, Store!FamFor, HasNextFam,
       Store!HasNextFam, NextFam, Store!NextFam, WorthDefrag, Store!WorthDefrag,
       LivePercent, Store!LivePercent, NextGeneration, Store!NextGeneration,
       MAX_GENERATION, Store!MAX_GENERATION, Prunable, Store!Prunable

(* How the reading of the program counters follows them.                   *)
LEMMA StageFacts ==
  ASSUME DOMAIN pc = Threads
  PROVE  /\ DOMAIN Stage = Threads
         /\ \A t \in Threads : pc[t] \notin {"undo", "bail"} => Stage[t] = pc[t]
         /\ \A t \in Threads : pc[t] = "undo" => Stage[t] = "install"
         /\ \A t \in Threads : pc[t] = "bail" => Stage[t] = "release"
         /\ pc' = pc => Stage' = Stage
         /\ \A t \in Threads : \A label :
              Goto(t, label) => Stage' = [Stage EXCEPT ![t] =
                                            IF label = "undo" THEN "install"
                                            ELSE IF label = "bail" THEN "release" ELSE label]
BY DEF Stage, Goto

(* A step of the program is a step of its reading.                         *)
LEMMA StageGoto ==
  ASSUME DOMAIN pc = Threads, NEW t \in Threads, NEW label, label \notin {"undo", "bail"},
         Goto(t, label)
  PROVE  Store!Goto(t, label)
BY StageFacts DEF Store!Goto

USE DEF Store!shared, Store!maint, Store!inner, Store!bounds, Store!history,
        shared, maint, inner, bounds, history, EmptyBatch, Store!EmptyBatch

(* The steps of write_batch are steps of Marble.                           *)
LEMMA WriteBatchMaps ==
  ASSUME DOMAIN pc = Threads, NEW t \in Threads, WriteBatch(t)
  PROVE  Store!WriteBatch(t)
BY StageFacts, StageGoto
   DEF WriteBatch, Store!WriteBatch, MayWrite, Store!MayWrite, Null, Store!Null

(* Steps 1 and 2 of write_batch_inner.                                     *)
LEMMA InsertMaps ==
  ASSUME DOMAIN pc = Threads, NEW t \in Threads, InsertPart(t)
  PROVE  Store!InsertPart(t)
<1>1. \A f, objs, g : Store!InsertFam(f, objs, g) = InsertFam(f, objs, g)
  BY SameSizes, SameNumbers DEF InsertFam, Store!InsertFam
<1>2. Stage[t] = "insert" /\ Store!Goto(t, "install")
  BY StageFacts, StageGoto DEF InsertPart
<1> DEFINE Takes(part) ==
             /\ gen[t] = 0 => part = rest[t]
             /\ todo' = [todo EXCEPT ![t] = part]
             /\ rest' = [rest EXCEPT ![t] = @ \ part]
             /\ order' = [c \in DOMAIN order |->
                            IF gen[t] = 0 /\ \E o \in part : batch[t][o].val = c
                            THEN next_file_lsn ELSE order[c]]
<1>3. PICK part \in (SUBSET rest[t]) \ {{}} :
        LET objs == Contents(batch[t], part)
            f == NewFam(StampLsn(next_file_lsn, gen[t] # 0))
        IN  /\ next_file_lsn + DataLen(objs) + 1 <= NewWriteBatchBit
            /\ InsertFam(f, objs, gen[t]) /\ base' = [base EXCEPT ![t] = f]
            /\ Takes(part)
  BY DEF InsertPart
<1>4. LET objs == Store!Contents(batch[t], part)
          f == Store!NewFam(Store!StampLsn(next_file_lsn, gen[t] # 0))
      IN  /\ next_file_lsn + Store!DataLen(objs) + 1 <= NewWriteBatchBit
          /\ Store!InsertFam(f, objs, gen[t]) /\ base' = [base EXCEPT ![t] = f]
          /\ Takes(part)
  BY <1>1, <1>3, SameLocations, SameSizes
<1>5. UNCHANGED <<location_table, heap, sweeping, gen, batch, failed, replaced,
                  claims, queue, reading, cursor, fam_len, calls, sweeps, crashes, latest>>
  BY DEF InsertPart
<1> QED BY <1>2, <1>4, <1>5 DEF Store!InsertPart

(* Step 3.                                                                 *)
LEMMA InstallMaps ==
  ASSUME DOMAIN pc = Threads, NEW t \in Threads, NEW o \in ObjectIds, Install(t, o)
  PROVE  Store!Install(t, o)
BY StageFacts, SameLocations
   DEF Install, Store!Install, Cas, Store!Cas, CasSucceeds, Store!CasSucceeds, FetchMax,
       Store!FetchMax, FetchMaxSucceeds, Store!FetchMaxSucceeds, Null, Store!Null

(* The return of write_batch_inner.                                        *)
LEMMA PartDoneMaps ==
  ASSUME DOMAIN pc = Threads, NEW t \in Threads, PartDone(t)
  PROVE  Store!PartDone(t)
BY StageGoto DEF PartDone, Store!PartDone

(* Step 4.                                                                 *)
LEMMA AbandonMaps ==
  ASSUME DOMAIN pc = Threads, NEW t \in Threads, Abandon(t)
  PROVE  Store!Abandon(t)
BY StageFacts, PartDoneMaps
   DEF Abandon, Store!Abandon, Trailer, Store!Trailer, RemoveFam, Store!RemoveFam

(* Step 5.                                                                 *)
LEMMA CommitMaps ==
  ASSUME DOMAIN pc = Threads, NEW t \in Threads, Commit(t)
  PROVE  Store!Commit(t)
BY StageFacts, StageGoto
   DEF Commit, Store!Commit, Trailer, Store!Trailer, Rename, Store!Rename

(* Step 6, decrement_evacuated_fams.                                       *)
LEMMA EvacuateMaps ==
  ASSUME DOMAIN pc = Threads, NEW t \in Threads, Evacuate(t)
  PROVE  Store!Evacuate(t)
BY StageFacts, SameQueries
   DEF Evacuate, Store!Evacuate, EvacuationPasses, Store!EvacuationPasses, DecrementFam,
       Store!DecrementFam

(* finalize_fam.                                                           *)
LEMMA FinalizeMaps ==
  ASSUME DOMAIN pc = Threads, NEW t \in Threads, Finalize(t)
  PROVE  Store!Finalize(t)
BY StageFacts, StageGoto, SameSizes, SameNumbers
   DEF Finalize, Store!Finalize, FinalizeFam, Store!FinalizeFam

(* drop(fam_claim).                                                        *)
LEMMA UnclaimMaps ==
  ASSUME DOMAIN pc = Threads, NEW t \in Threads, Unclaim(t)
  PROVE  Store!Unclaim(t)
BY StageFacts, PartDoneMaps DEF Unclaim, Store!Unclaim, ReleaseClaim, Store!ReleaseClaim

(* The steps of maintenance are steps of Marble.                           *)
LEMMA StartMaps ==
  ASSUME DOMAIN pc = Threads, NEW t \in Threads, StartMaintenance(t)
  PROVE  Store!StartMaintenance(t)
BY StageFacts, StageGoto, SameNumbers
   DEF StartMaintenance, Store!StartMaintenance, MayMaintain, Store!MayMaintain, Top, Store!Top

(* files_to_defrag.                                                        *)
LEMMA ScanMaps ==
  ASSUME DOMAIN pc = Threads, NEW t \in Threads, Scan(t)
  PROVE  Store!Scan(t)
BY StageFacts, StageGoto, SameQueries DEF Scan, Store!Scan, Top, Store!Top

(* The swap of rewrite_claim.                                              *)
LEMMA ClaimMaps ==
  ASSUME DOMAIN pc = Threads, NEW t \in Threads, Claim(t)
  PROVE  Store!Claim(t)
BY StageFacts, StageGoto DEF Claim, Store!Claim, TakeClaim, Store!TakeClaim

(* The loop over the generations.                                          *)
LEMMA RewriteMaps ==
  ASSUME DOMAIN pc = Threads, NEW t \in Threads, Rewrite(t)
  PROVE  Store!Rewrite(t)
BY StageFacts, StageGoto, SameQueries, SameNumbers DEF Rewrite, Store!Rewrite

(* The loop over the files of a generation.                                *)
LEMMA ReadFileMaps ==
  ASSUME DOMAIN pc = Threads, NEW t \in Threads, ReadFile(t)
  PROVE  Store!ReadFile(t)
<1>1. \A f : Store!Survivors(f) = Survivors(f)
  BY SameLocations DEF Survivors, Store!Survivors
<1>2. PICK label : Goto(t, label) /\ label \notin {"undo", "bail"}
  BY DEF ReadFile
<1>3. \A l : Goto(t, l) => Store!Goto(t, l)
  BY <1>2, StageFacts, StageGoto DEF Goto, Store!Goto
<1>4. Stage[t] = "read"
  BY StageFacts DEF ReadFile
<1> QED BY <1>1, <1>3, <1>4, Zenon DEF ReadFile, Store!ReadFile

(* drop(claims).                                                           *)
LEMMA ReleaseMaps ==
  ASSUME DOMAIN pc = Threads, NEW t \in Threads, Release(t)
  PROVE  Store!Release(t)
BY StageFacts, StageGoto DEF Release, Store!Release, ReleaseClaim, Store!ReleaseClaim

(* prune_empty_files, the first loop.                                      *)
LEMMA PruneMaps ==
  ASSUME DOMAIN pc = Threads, NEW t \in Threads, Prune(t)
  PROVE  Store!Prune(t)
BY StageFacts, StageGoto, SameQueries DEF Prune, Store!Prune, TakeClaim, Store!TakeClaim

(* prune_empty_files, the second loop.                                     *)
LEMMA RemoveMaps ==
  ASSUME DOMAIN pc = Threads, NEW t \in Threads, Remove(t)
  PROVE  Store!Remove(t)
BY StageFacts, StageGoto DEF Remove, Store!Remove, RemoveFam, Store!RemoveFam

(* Unlinking and opening again, too.                                       *)
LEMMA UnlinkMaps ==
  ASSUME DOMAIN pc = Threads, NEW f, Unlink(f)
  PROVE  Store!Unlink(f)
BY StageFacts DEF Unlink, Store!Unlink, local, Store!local

(* Recovery computes the same.                                             *)
LEMMA SameRecovery ==
  /\ \A files, o : Store!RecoveredLocation(files, o) = RecoveredLocation(files, o)
  /\ \A files : Store!RecoveredLsn(files) = RecoveredLsn(files)
  /\ \A files, f : Store!SizeOf(files, f) = SizeOf(files, f)
<1>1. \A files, o : Store!LastFileWith(files, o) = LastFileWith(files, o)
  BY DEF FilesWith, Store!FilesWith, LastFileWith, Store!LastFileWith, Position,
         Store!Position, LsnOf, Store!LsnOf, MaskLsn, Store!MaskLsn
<1>2. \A files, o : Store!RecoveredLocation(files, o) = RecoveredLocation(files, o)
  BY <1>1, SameLocations
     DEF RecoveredLocation, Store!RecoveredLocation, FilesWith, Store!FilesWith, Null, Store!Null
<1>3. \A files, f : Store!SizeOf(files, f) = SizeOf(files, f)
  BY SameSizes DEF SizeOf, Store!SizeOf
<1>4. ASSUME NEW files PROVE Store!RecoveredLsn(files) = RecoveredLsn(files)
  <2>1. /\ {Store!Position(f) : f \in DOMAIN files} = {Position(f) : f \in DOMAIN files}
        /\ {Store!SizeOf(files, f) : f \in DOMAIN files} = {SizeOf(files, f) : f \in DOMAIN files}
    BY <1>3, SameLocations
  <2> QED BY <2>1, SameNumbers DEF RecoveredLsn, Store!RecoveredLsn
<1> QED BY <1>2, <1>3, <1>4

(* It rebuilds the same store.                                             *)
LEMMA RecoverMaps ==
  ASSUME NEW files, Recover(files)
  PROVE  Store!Recover(files)
BY SameRecovery, SameNumbers, SameQueries DEF Recover, Store!Recover, Null, Store!Null

(* It finds no thread in a call.                                           *)
LEMMA ResetMaps == ResetThreads => Store!ResetThreads
BY DEF ResetThreads, Store!ResetThreads, Stage

(* A crash or an orderly restart.                                          *)
LEMMA RestartMaps ==
  ASSUME DOMAIN pc = Threads, CrashRecover \/ CloseAndReopen
  PROVE  Store!CrashRecover \/ Store!CloseAndReopen
BY StageFacts, RecoverMaps, ResetMaps
   DEF CrashRecover, Store!CrashRecover, CloseAndReopen, Store!CloseAndReopen

(* What Marble assumes of its constants holds here.                        *)
USE BitAssumption, ObjectIdsAssumption, ConfigAssumption, FiniteObjectIds,
    CallersAssumption, BoundsAssumption, SameNumbers

(* A step without a failure preserves the inductive invariant of Marble.   *)
LEMMA PlainStep ==
  ASSUME FaultInv, Next
  PROVE  FaultInv'
<1>1. DOMAIN pc = Threads
  BY DEF FaultInv
<1>2. ASSUME NEW t \in Threads, Step(t) PROVE Store!Step(t)
  BY <1>1, <1>2, InsertMaps, InstallMaps, AbandonMaps, CommitMaps, EvacuateMaps,
     FinalizeMaps, UnclaimMaps, ScanMaps, ClaimMaps, RewriteMaps, ReadFileMaps,
     ReleaseMaps, PruneMaps, RemoveMaps DEF Step, Store!Step
<1>3. Store!Next
  BY <1>1, <1>2, WriteBatchMaps, StartMaps, UnlinkMaps, RestartMaps DEF Next, Store!Next
<1>4. DOMAIN pc' = Threads
  <2>1. ASSUME NEW t \in Threads, WriteBatch(t) \/ StartMaintenance(t) \/ Step(t)
        PROVE  DOMAIN pc' = Threads
    BY <1>1, <2>1 DEF Step, WriteBatch, StartMaintenance, InsertPart, Install, Abandon, PartDone,
       Commit, Evacuate, Finalize, Unclaim, Scan, Claim, Rewrite, ReadFile, Release, Prune, Remove,
       Goto
  <2> QED BY <1>1, <2>1 DEF Next, Unlink, local, CrashRecover, CloseAndReopen, ResetThreads
<1>5. Store!CoreInv'
  BY <1>3, Store!CoreStep DEF FaultInv
<1> QED BY <1>4, <1>5 DEF FaultInv

(***************************************************************************)
(* The steps at which a call fails.                                        *)
(***************************************************************************)
(* Where an error leads, as far as files and claims go.                    *)
LEMMA GiveUpStage ==
  ASSUME DOMAIN pc = Threads, NEW t \in Threads, GiveUp(t)
  PROVE  /\ DOMAIN pc' = Threads
         /\ \E label \in {"idle", "release"} : Stage' = [Stage EXCEPT ![t] = label]
<1>1. PICK label \in {"idle", "bail"} : Goto(t, label)
  BY DEF GiveUp
<1>2. Stage' = [Stage EXCEPT ![t] = IF label = "bail" THEN "release" ELSE label]
  BY <1>1, StageFacts
<1> QED BY <1>1, <1>2 DEF Goto

(* An error keeps the types.                                               *)
LEMMA GiveUpType ==
  ASSUME Store!TypeOK, DOMAIN pc = Threads, NEW t \in Threads, GiveUp(t),
         Store!FamsType(fams'), DOMAIN heap' \subseteq Store!FamLocations,
         \A f \in DOMAIN heap' : /\ DOMAIN heap'[f].objs \subseteq ObjectIds
                                 /\ heap'[f] \in Store!HeapFile(DOMAIN heap'[f].objs),
         latest' \in [ObjectIds -> Nat],
         UNCHANGED <<location_table, next_file_lsn, sweeping, gen, todo, claims, cursor,
                     fam_len, calls, sweeps, crashes, order>>
  PROVE  Store!TypeOK'
<1>1. Stage' \in [Threads -> Store!PCs]
  BY GiveUpStage DEF Store!TypeOK, Store!PCs
<1>2. /\ DOMAIN batch' = Threads
      /\ \A u \in Threads : /\ DOMAIN batch'[u] \subseteq ObjectIds
                            /\ batch'[u] \in [DOMAIN batch'[u] -> Store!Item]
                            /\ rest'[u] \subseteq DOMAIN batch'[u]
  BY DEF GiveUp, Store!TypeOK
<1>3. /\ rest' \in [Threads -> SUBSET ObjectIds] /\ base' \in [Threads -> Nat]
      /\ failed' \in [Threads -> SUBSET ObjectIds]
      /\ replaced' \in [Threads -> SUBSET (ObjectIds \X Nat)]
      /\ queue' \in [Threads -> SUBSET Store!FamLocations]
      /\ reading' \in [Threads -> SUBSET Store!FamLocations]
  BY DEF GiveUp, Store!TypeOK
<1>4. Store!FileMapTypeOK'
  BY DEF Store!FileMapTypeOK, Store!FamsType, Store!TypeOK
<1> QED BY <1>1, <1>2, <1>3, <1>4 DEF Store!TypeOK

(* A thread that has no file gives up: no claim changes hands.             *)
LEMMA GiveUpWithout ==
  ASSUME Store!CoreInv, DOMAIN pc = Threads, NEW t \in Threads, GiveUp(t),
         pc[t] \in {"insert", "read"}, UNCHANGED <<fams, heap, claims, todo>>
  PROVE  Store!HoldersInv'
<1>1. PICK label \in {"idle", "release"} : Stage' = [Stage EXCEPT ![t] = label]
  BY GiveUpStage
<1>2. Stage[t] = pc[t] /\ DOMAIN Stage = Threads
  BY StageFacts
<1>3. base[t] = 0 /\ base \in [Threads -> Nat] /\ DOMAIN queue = Threads /\ DOMAIN reading = Threads
  BY <1>2 DEF Store!CoreInv, Store!HoldersInv, Store!Working, Store!TypeOK
<1>4. base' = base /\ queue' = [queue EXCEPT ![t] = {}] /\ reading' = [reading EXCEPT ![t] = {}]
  BY <1>3 DEF GiveUp
<1> QED BY <1>1, <1>2, <1>3, <1>4 DEF Store!CoreInv, Store!HoldersInv, Store!Working

(* A thread gives up with its file: it has taken it out of the map, or has *)
(* reset its claim once the file has its name.                             *)
LEMMA GiveUpFile ==
  ASSUME Store!CoreInv, DOMAIN pc = Threads, NEW t \in Threads, GiveUp(t),
         Stage[t] \in Store!Working, UNCHANGED <<claims, todo>>,
         DOMAIN fams' \subseteq DOMAIN fams,
         base[t] \in DOMAIN fams' => ~ fams'[base[t]].claim /\ base[t] \in DOMAIN heap',
         \A g \in DOMAIN fams : g # base[t] =>
           g \in DOMAIN fams' /\ fams'[g].objs = fams[g].objs /\ fams'[g].claim = fams[g].claim,
         DOMAIN heap \subseteq DOMAIN heap'
  PROVE  Store!HoldersInv'
<1>1. PICK label \in {"idle", "release"} : Stage' = [Stage EXCEPT ![t] = label]
  BY GiveUpStage
<1>2. /\ DOMAIN Stage = Threads /\ DOMAIN base = Threads /\ DOMAIN queue = Threads
      /\ DOMAIN reading = Threads
  BY StageFacts DEF Store!CoreInv, Store!TypeOK
<1>3. /\ base' = [base EXCEPT ![t] = 0] /\ queue' = [queue EXCEPT ![t] = {}]
      /\ reading' = [reading EXCEPT ![t] = {}]
  BY DEF GiveUp
<1>4. base[t] # 0 /\ 0 \notin DOMAIN fams
  BY Store!ZeroNotFam DEF Store!CoreInv, Store!HoldersInv
<1>5. ASSUME NEW u \in Threads
      PROVE  /\ Stage'[u] \in Store!Working <=> base'[u] # 0
             /\ base'[u] # 0 => base'[u] \in DOMAIN fams' /\ fams'[base'[u]].claim
             /\ Stage'[u] = "install" => todo'[u] \subseteq DOMAIN fams'[base'[u]].objs
             /\ \A f \in claims'[u] : f \in DOMAIN fams' /\ fams'[f].claim
             /\ queue'[u] \subseteq claims'[u] /\ reading'[u] \subseteq claims'[u]
             /\ Stage'[u] # "read" => reading'[u] = {}
             /\ Stage'[u] \in {"release", "prune", "remove"} => queue'[u] = {}
  BY <1>1, <1>2, <1>3, <1>4 DEF Store!CoreInv, Store!HoldersInv, Store!Working
<1>6. \A u, v \in Threads :
        /\ base'[u] \notin claims'[v]
        /\ u # v => /\ base'[u] # 0 => base'[u] # base'[v]
                    /\ claims'[u] \cap claims'[v] = {}
  BY <1>2, <1>3, <1>4 DEF Store!CoreInv, Store!HoldersInv
<1>7. ASSUME NEW f \in DOMAIN fams'
      PROVE  /\ fams'[f].claim => \E u \in Threads : f \in claims'[u] \/ base'[u] = f
             /\ f \in DOMAIN heap' \/ \E u \in Threads : base'[u] = f /\ Stage'[u] = "install"
  BY <1>1, <1>2, <1>3, <1>4 DEF Store!CoreInv, Store!HoldersInv
<1> QED BY <1>5, <1>6, <1>7 DEF Store!HoldersInv

(* What the invariant says of the types and of the files.                  *)
LEMMA StoreTypes ==
  ASSUME Store!CoreInv
  PROVE  /\ Store!FamsType(fams) /\ DOMAIN heap \subseteq Store!FamLocations
         /\ \A f \in DOMAIN heap : /\ DOMAIN heap[f].objs \subseteq ObjectIds
                                   /\ heap[f] \in Store!HeapFile(DOMAIN heap[f].objs)
         /\ latest \in [ObjectIds -> Nat]
BY DEF Store!CoreInv, Store!TypeOK, Store!FileMapTypeOK, Store!FamsType

(* A failure that leaves the map and the directory alone.                  *)
LEMMA FaultBefore ==
  ASSUME FaultInv, NEW t \in Threads, StageFails(t) \/ ReadFails(t)
  PROVE  FaultInv'
<1>1. /\ Store!CoreInv /\ DOMAIN pc = Threads /\ GiveUp(t) /\ pc[t] \in {"insert", "read"}
      /\ UNCHANGED <<fams, heap, claims, todo, location_table, next_file_lsn, sweeping, gen,
                     cursor, fam_len, calls, sweeps, crashes, order, latest>>
  BY DEF FaultInv, StageFails, ReadFails
<1>2. Store!HoldersInv'
  BY <1>1, GiveUpWithout
<1>3. Store!TypeOK'
  BY <1>1, StoreTypes, GiveUpType DEF Store!CoreInv
<1>4. Store!FilesInv'
  BY <1>1, Store!FilesUpdate DEF Store!CoreInv
<1> QED BY <1>1, <1>2, <1>3, <1>4, GiveUpStage DEF FaultInv, Store!CoreInv

(* A failure with a file: it leaves the map, or its claim is reset.        *)
LEMMA FaultWithFile ==
  ASSUME FaultInv, NEW t \in Threads, GiveUp(t), Stage[t] \in Store!Working, heap' = heap,
         Store!FamsType(fams'), DOMAIN fams' \subseteq DOMAIN fams,
         \A g \in DOMAIN fams' : fams'[g].objs = fams[g].objs,
         base[t] \in DOMAIN fams' => ~ fams'[base[t]].claim /\ base[t] \in DOMAIN heap,
         \A g \in DOMAIN fams : g # base[t] => g \in DOMAIN fams' /\ fams'[g].claim = fams[g].claim,
         UNCHANGED <<claims, todo, location_table, next_file_lsn, sweeping, gen,
                     cursor, fam_len, calls, sweeps, crashes, order, latest>>
  PROVE  FaultInv'
<1>1. Store!CoreInv /\ DOMAIN pc = Threads
  BY DEF FaultInv
<1>2. Store!HoldersInv'
  <2>1. \A g \in DOMAIN fams : g # base[t] =>
          g \in DOMAIN fams' /\ fams'[g].objs = fams[g].objs /\ fams'[g].claim = fams[g].claim
    OBVIOUS
  <2>2. base[t] \in DOMAIN fams' => ~ fams'[base[t]].claim /\ base[t] \in DOMAIN heap'
    OBVIOUS
  <2> QED BY <1>1, <2>1, <2>2, GiveUpFile
<1>3. Store!TypeOK'
  <2>1. /\ DOMAIN heap' \subseteq Store!FamLocations
        /\ \A f \in DOMAIN heap' : /\ DOMAIN heap'[f].objs \subseteq ObjectIds
                                   /\ heap'[f] \in Store!HeapFile(DOMAIN heap'[f].objs)
        /\ latest' \in [ObjectIds -> Nat]
    BY <1>1, StoreTypes
  <2> QED BY <1>1, <2>1, GiveUpType DEF Store!CoreInv
<1>4. Store!FilesInv'
  BY <1>1, Store!FilesUpdate DEF Store!CoreInv
<1> QED BY <1>1, <1>2, <1>3, <1>4, GiveUpStage DEF FaultInv, Store!CoreInv

(* Updates of the map, as Marble states them.                              *)
LEMMA StoreUpdates ==
  ASSUME Store!CoreInv, NEW f
  PROVE  /\ RemoveFam(f) => /\ Store!FamsType(fams') /\ DOMAIN fams' = DOMAIN fams \ {f}
                            /\ \A g \in DOMAIN fams' : fams'[g] = fams[g]
         /\ ReleaseClaim(f) =>
              /\ Store!FamsType(fams') /\ DOMAIN fams' = DOMAIN fams
              /\ \A g \in DOMAIN fams : /\ fams'[g].objs = fams[g].objs
                                        /\ g # f => fams'[g] = fams[g]
              /\ f \in DOMAIN fams => fams'[f].claim = FALSE
<1>1. ASSUME RemoveFam(f)
      PROVE  /\ Store!FamsType(fams') /\ DOMAIN fams' = DOMAIN fams \ {f}
             /\ \A g \in DOMAIN fams' : fams'[g] = fams[g]
  <2>1. Store!RemoveFam(f)
    BY <1>1 DEF RemoveFam, Store!RemoveFam
  <2> QED BY <2>1, StoreTypes, Store!RemoveUpdate
<1>2. ASSUME ReleaseClaim(f)
      PROVE  /\ Store!FamsType(fams') /\ DOMAIN fams' = DOMAIN fams
             /\ \A g \in DOMAIN fams : /\ fams'[g].objs = fams[g].objs
                                       /\ g # f => fams'[g] = fams[g]
             /\ f \in DOMAIN fams => fams'[f].claim = FALSE
  <2>1. Store!ReleaseClaim(f)
    BY <1>2 DEF ReleaseClaim, Store!ReleaseClaim
  <2> QED BY <2>1, StoreTypes, Store!ClaimUpdate
<1> QED BY <1>1, <1>2

(* The file that a thread works on is in the map, and has its name after   *)
(* the rename.                                                             *)
LEMMA OwnFile ==
  ASSUME Store!CoreInv, NEW t \in Threads, Stage[t] \in Store!Working
  PROVE  /\ base[t] \in DOMAIN fams
         /\ Stage[t] # "install" => base[t] \in DOMAIN heap
BY DEF Store!CoreInv, Store!HoldersInv, Store!Working

(* The locations are undone: the file leaves the map.                      *)
LEMMA FaultUndone ==
  ASSUME FaultInv, NEW t \in Threads, Undone(t)
  PROVE  FaultInv'
<1>1. /\ GiveUp(t) /\ RemoveFam(base[t]) /\ pc[t] = "undo" /\ heap' = heap
      /\ UNCHANGED <<claims, todo, location_table, next_file_lsn, sweeping, gen,
                     cursor, fam_len, calls, sweeps, crashes, order, latest>>
  BY DEF Undone
<1>2. Store!CoreInv /\ Stage[t] \in Store!Working
  BY <1>1, StageFacts DEF FaultInv, Store!Working
<1>3. /\ Store!FamsType(fams') /\ DOMAIN fams' = DOMAIN fams \ {base[t]}
      /\ \A g \in DOMAIN fams' : fams'[g] = fams[g]
  BY <1>1, <1>2, StoreUpdates
<1> QED BY <1>1, <1>2, <1>3, FaultWithFile

(* The fsync of the directory fails.                                       *)
LEMMA FaultSync ==
  ASSUME FaultInv, NEW t \in Threads, SyncFails(t)
  PROVE  FaultInv'
<1>1. /\ GiveUp(t) /\ heap' = heap
      /\ UNCHANGED <<claims, todo, location_table, next_file_lsn, sweeping, gen,
                     cursor, fam_len, calls, sweeps, crashes, order, latest>>
      /\ \/ pc[t] = "unclaim" /\ ReleaseClaim(base[t])
         \/ pc[t] = "install" /\ RemoveFam(base[t])
  BY DEF SyncFails
<1>2. Store!CoreInv /\ Stage[t] \in Store!Working /\ Stage[t] = pc[t]
  BY <1>1, StageFacts DEF FaultInv, Store!Working
<1>3. CASE pc[t] = "unclaim" /\ ReleaseClaim(base[t])
  <2>1. /\ Store!FamsType(fams') /\ DOMAIN fams' = DOMAIN fams
        /\ \A g \in DOMAIN fams : /\ fams'[g].objs = fams[g].objs
                                  /\ g # base[t] => fams'[g] = fams[g]
        /\ base[t] \in DOMAIN fams => fams'[base[t]].claim = FALSE
    BY <1>2, <1>3, StoreUpdates
  <2>2. base[t] \in DOMAIN heap
    BY <1>2, <1>3, OwnFile
  <2> QED BY <1>1, <1>2, <2>1, <2>2, FaultWithFile
<1>4. CASE pc[t] = "install" /\ RemoveFam(base[t])
  <2>1. /\ Store!FamsType(fams') /\ DOMAIN fams' = DOMAIN fams \ {base[t]}
        /\ \A g \in DOMAIN fams' : fams'[g] = fams[g]
    BY <1>2, <1>4, StoreUpdates
  <2> QED BY <1>1, <1>2, <2>1, FaultWithFile
<1> QED BY <1>1, <1>3, <1>4

(* decrement_evacuated_fams panics: the claim is dropped, a count may have *)
(* been decremented.                                                       *)
LEMMA FaultPanic ==
  ASSUME FaultInv, NEW t \in Threads, EvacuatePanics(t)
  PROVE  FaultInv'
<1>1. /\ GiveUp(t) /\ pc[t] = "evacuate" /\ heap' = heap
      /\ UNCHANGED <<claims, todo, location_table, next_file_lsn, sweeping, gen,
                     cursor, fam_len, calls, sweeps, crashes, order, latest>>
  BY DEF EvacuatePanics
<1>2. Store!CoreInv /\ Stage[t] \in Store!Working /\ Stage[t] = "evacuate"
  BY <1>1, StageFacts DEF FaultInv, Store!Working
<1>3. base[t] \in DOMAIN heap
  BY <1>2, OwnFile
<1>4. PICK r \in replaced[t] :
        fams' = [f \in DOMAIN fams |->
                   IF f = base[t] THEN [fams[f] EXCEPT !.claim = FALSE]
                   ELSE IF HasFamFor(fams, r[2]) /\ f = FamFor(fams, r[2])
                   THEN [fams[f] EXCEPT !.live = @ - 1]
                   ELSE fams[f]]
  BY DEF EvacuatePanics
<1>5. DOMAIN fams' = DOMAIN fams
  BY <1>4
<1>6. ASSUME NEW f \in DOMAIN fams
      PROVE  /\ fams'[f].objs = fams[f].objs
             /\ f = base[t] => fams'[f].claim = FALSE
             /\ f # base[t] => fams'[f].claim = fams[f].claim
             /\ fams'[f] \in Store!Fam(DOMAIN fams[f].objs)
  <2>1. PICK fam, ids : fam = fams[f] /\ ids = DOMAIN fam.objs
    OBVIOUS
  <2>2. fam \in Store!Fam(ids)
    BY <1>2, <2>1, StoreTypes DEF Store!FamsType
  <2>3. /\ [fam EXCEPT !.claim = FALSE] \in Store!Fam(ids)
        /\ [fam EXCEPT !.claim = FALSE].objs = fam.objs
        /\ [fam EXCEPT !.claim = FALSE].claim = FALSE
    BY <2>2 DEF Store!Fam
  <2>4. /\ [fam EXCEPT !.live = @ - 1] \in Store!Fam(ids)
        /\ [fam EXCEPT !.live = @ - 1].objs = fam.objs
        /\ [fam EXCEPT !.live = @ - 1].claim = fam.claim
    BY <2>2 DEF Store!Fam
  <2>5. \/ f = base[t] /\ fams'[f] = [fam EXCEPT !.claim = FALSE]
        \/ f # base[t] /\ fams'[f] = [fam EXCEPT !.live = @ - 1]
        \/ f # base[t] /\ fams'[f] = fam
    BY <1>4, <2>1
  <2> QED BY <2>1, <2>2, <2>3, <2>4, <2>5
<1>7. Store!FamsType(fams')
  BY <1>2, <1>5, <1>6, StoreTypes DEF Store!FamsType
<1> QED BY <1>1, <1>2, <1>3, <1>5, <1>6, <1>7, FaultWithFile

(* The file is renamed, and reading its length fails.                      *)
LEMMA FaultStat ==
  ASSUME FaultInv, NEW t \in Threads, StatFails(t)
  PROVE  FaultInv'
<1>1. /\ GiveUp(t) /\ pc[t] = "install" /\ Rename(t) /\ ReleaseClaim(base[t])
      /\ UNCHANGED <<claims, todo, location_table, next_file_lsn, sweeping, gen,
                     cursor, fam_len, calls, sweeps, crashes, order>>
  BY DEF StatFails
<1>2. /\ Store!CoreInv /\ DOMAIN pc = Threads
      /\ Stage[t] \in Store!Working /\ Stage[t] = "install"
  BY <1>1, StageFacts DEF FaultInv, Store!Working
<1>3. PICK f : f = base[t]
  OBVIOUS
<1>4. f \in DOMAIN fams
  BY <1>2, <1>3, OwnFile
<1>5. /\ Store!FamsType(fams') /\ DOMAIN fams' = DOMAIN fams
      /\ \A g \in DOMAIN fams : /\ fams'[g].objs = fams[g].objs
                                /\ g # f => fams'[g] = fams[g]
      /\ fams'[f].claim = FALSE
  BY <1>1, <1>2, <1>3, <1>4, StoreUpdates
<1>6. /\ DOMAIN heap' = DOMAIN heap \cup {f}
      /\ heap'[f] = [objs |-> fams[f].objs, trailer |-> Trailer(t),
                     generation |-> fams[f].generation]
      /\ \A g \in DOMAIN heap : g # f => heap'[g] = heap[g]
  BY <1>1, <1>3 DEF Rename
<1>7. Store!HoldersInv'
  BY <1>1, <1>2, <1>3, <1>5, <1>6, GiveUpFile
<1>8. /\ f \in Store!FamLocations /\ DOMAIN fams[f].objs \subseteq ObjectIds
      /\ fams[f].objs \in [DOMAIN fams[f].objs -> Store!Entry]
      /\ fams[f].generation \in 0 .. Store!MAX_GENERATION
  BY <1>2, <1>4, StoreTypes DEF Store!FamsType, Store!Fam
<1>9. heap'[f] \in Store!HeapFile(DOMAIN heap'[f].objs) /\ DOMAIN heap'[f].objs \subseteq ObjectIds
  BY <1>3, <1>6, <1>8 DEF Store!HeapFile, Trailer
<1>10. latest' \in [ObjectIds -> Nat]
  <2>1. latest \in [ObjectIds -> Nat]
    BY <1>2, StoreTypes
  <2>2. \A o \in DOMAIN fams[f].objs : fams[f].objs[o].val \in Nat
    BY <1>8 DEF Store!Entry
  <2>3. Trailer(t) \subseteq DOMAIN fams[f].objs
    BY <1>3 DEF Trailer
  <2> QED BY <1>1, <1>3, <2>1, <2>2, <2>3 DEF Rename
<1>11. Store!TypeOK'
  <2>1. /\ DOMAIN heap' \subseteq Store!FamLocations
        /\ \A g \in DOMAIN heap' : /\ DOMAIN heap'[g].objs \subseteq ObjectIds
                                   /\ heap'[g] \in Store!HeapFile(DOMAIN heap'[g].objs)
    BY <1>2, <1>6, <1>8, <1>9, StoreTypes
  <2> QED BY <1>1, <1>2, <1>5, <1>10, <2>1, GiveUpType DEF Store!CoreInv
<1>12. Store!FilesInv'
  <2>1. Store!Files' = Store!Files
    BY <1>4, <1>5, <1>6 DEF Store!Files
  <2>2. \A g \in Store!Files' : Store!ObjsOf(g)' = Store!ObjsOf(g)
    BY <1>4, <1>5, <1>6 DEF Store!Files, Store!ObjsOf
  <2>3. \A g \in DOMAIN heap' : heap'[g].objs = Store!ObjsOf(g)
    BY <1>2, <1>4, <1>6 DEF Store!CoreInv, Store!FilesInv, Store!ObjsOf
  <2> QED BY <1>1, <1>2, <2>1, <2>2, <2>3, Store!FilesFrame
             DEF Store!CoreInv
<1> QED BY <1>1, <1>2, <1>7, <1>11, <1>12, GiveUpStage DEF FaultInv, Store!CoreInv

(* The trailer or the rename fails: nothing has changed yet.               *)
LEMMA FaultCommit ==
  ASSUME FaultInv, NEW t \in Threads, CommitFails(t)
  PROVE  FaultInv'
<1>1. /\ pc[t] = "install" /\ Goto(t, "undo") /\ DOMAIN pc = Threads
      /\ UNCHANGED <<location_table, fams, next_file_lsn, heap, sweeping, gen, batch, rest,
                     base, todo, failed, replaced, claims, queue, reading, cursor, fam_len,
                     calls, sweeps, crashes, order, latest>>
  BY DEF CommitFails, FaultInv
<1>2. Stage' = Stage /\ DOMAIN pc' = Threads
  BY <1>1 DEF Stage, Goto
<1>3. UNCHANGED Store!vars
  BY <1>1, <1>2 DEF Store!vars, Store!local
<1>4. Store!CoreInv'
  BY <1>3, Store!CoreStutter DEF FaultInv
<1> QED BY <1>2, <1>4 DEF FaultInv

(* An installed location is undone.                                        *)
LEMMA FaultUndo ==
  ASSUME FaultInv, NEW t \in Threads, Undo(t)
  PROVE  FaultInv'
<1>1. /\ Store!CoreInv /\ DOMAIN pc = Threads
      /\ UNCHANGED <<fams, next_file_lsn, heap, pc, sweeping, gen, batch, rest, base, todo,
                     failed, claims, queue, reading, cursor, fam_len, calls, sweeps, crashes,
                     order, latest>>
  BY DEF Undo, FaultInv
<1>2. PICK r \in replaced[t] :
        /\ Cas(r[1], LocationIn(base[t], fams[base[t]].objs, r[1]), r[2])
        /\ replaced' = [replaced EXCEPT ![t] = @ \ {r}]
  BY DEF Undo
<1>3. r \in ObjectIds \X Nat /\ replaced \in [Threads -> SUBSET (ObjectIds \X Nat)]
      /\ location_table \in [ObjectIds -> Nat]
  BY <1>1 DEF Store!CoreInv, Store!TypeOK
<1>4. location_table' \in [ObjectIds -> Nat] /\ replaced' \in [Threads -> SUBSET (ObjectIds \X Nat)]
  BY <1>2, <1>3 DEF Cas
<1>5. Stage' = Stage
  BY <1>1 DEF Stage
<1>6. Store!TypeOK'
  BY <1>1, <1>4, <1>5 DEF Store!CoreInv, Store!TypeOK, Store!FileMapTypeOK
<1>7. Store!FilesInv'
  BY <1>1, Store!FilesUpdate DEF Store!CoreInv
<1>8. Store!HoldersInv'
  BY <1>1, <1>5 DEF Store!CoreInv, Store!HoldersInv
<1> QED BY <1>1, <1>6, <1>7, <1>8 DEF FaultInv, Store!CoreInv

(* Maintenance that returns an error drops its claims as it does when it   *)
(* succeeds.                                                               *)
LEMMA FaultBail ==
  ASSUME FaultInv, NEW t \in Threads, Bail(t)
  PROVE  FaultInv'
<1>1. /\ Store!CoreInv /\ DOMAIN pc = Threads /\ pc[t] = "bail" /\ Stage[t] = "release"
      /\ UNCHANGED <<location_table, next_file_lsn, heap, batch, rest, base, todo, failed,
                     replaced, queue, reading, calls, sweeps, crashes, order, latest>>
  BY StageFacts DEF Bail, FaultInv
<1>2. CASE \E f \in claims[t] :
             /\ IF f \in DOMAIN fams THEN ReleaseClaim(f) ELSE UNCHANGED fams
             /\ claims' = [claims EXCEPT ![t] = @ \ {f}]
             /\ UNCHANGED <<pc, sweeping, gen, cursor, fam_len>>
  <2>1. Stage' = Stage
    BY <1>1, <1>2, StageFacts
  <2>2. Store!Release(t)
    BY <1>1, <1>2, <2>1 DEF Store!Release, ReleaseClaim, Store!ReleaseClaim
  <2>3. Store!CoreInv'
    BY <1>1, <2>2, Store!CoreThread DEF Store!Step
  <2> QED BY <1>1, <1>2, <2>3 DEF FaultInv
<1>3. CASE /\ Goto(t, "idle") /\ sweeping' = sweeping \ {t}
           /\ gen' = [gen EXCEPT ![t] = 0] /\ cursor' = [cursor EXCEPT ![t] = 0]
           /\ fam_len' = [fam_len EXCEPT ![t] = 0] /\ UNCHANGED <<fams, claims>>
  <2>1. Stage' = [Stage EXCEPT ![t] = "idle"] /\ DOMAIN pc' = Threads
    BY <1>1, <1>3, StageFacts DEF Goto
  <2>2. queue[t] = {}
    BY <1>1 DEF Store!CoreInv, Store!HoldersInv
  <2>3. Store!HoldersInv'
    BY <1>1, <1>3, <2>1, <2>2, Store!HoldersMove
       DEF Store!CoreInv
  <2>4. Store!FilesInv'
    BY <1>1, <1>3, Store!FilesUpdate DEF Store!CoreInv
  <2>5. Store!TypeOK'
    <3>1. /\ Stage' \in [Threads -> Store!PCs] /\ sweeping' \in SUBSET Threads
          /\ gen' \in [Threads -> 0 .. Store!MAX_GENERATION]
          /\ cursor' \in [Threads -> 0 .. Store!Top] /\ fam_len' \in [Threads -> Nat]
      BY <1>1, <1>3, <2>1, BitAssumption
         DEF Store!CoreInv, Store!TypeOK, Store!PCs, Store!MAX_GENERATION, Store!Top
    <3> QED BY <1>1, <1>3, <3>1 DEF Store!CoreInv, Store!TypeOK, Store!FileMapTypeOK
  <2> QED BY <2>1, <2>3, <2>4, <2>5 DEF FaultInv, Store!CoreInv
<1> QED BY <1>2, <1>3 DEF Bail

(***************************************************************************)
(* The theorems.                                                           *)
(***************************************************************************)
(* The inductive invariant of Marble holds in every reachable state of a   *)
(* store whose calls may fail: the types, where the files lie and who      *)
(* holds which claim.                                                      *)
THEOREM FaultInduction == FaultSpec => []FaultInv
<1>1. FaultInit => FaultInv
  <2> SUFFICES ASSUME FaultInit PROVE FaultInv
    OBVIOUS
  <2>1. Store!Init
    BY DEF FaultInit, Init, Store!Init, Stage, EmptyTable, Store!EmptyTable, Null, Store!Null
  <2>2. Store!CoreInv
    BY <2>1, Store!InitCore
  <2> QED BY <2>2 DEF FaultInit, Init, FaultInv
<1>2. FaultInv /\ [FaultNext]_fvars => FaultInv'
  <2> SUFFICES ASSUME FaultInv, [FaultNext]_fvars PROVE FaultInv'
    OBVIOUS
  <2>1. CASE UNCHANGED fvars
    <3>1. UNCHANGED vars
      BY <2>1 DEF fvars
    <3>2. UNCHANGED Store!vars /\ pc' = pc
      BY <3>1, StageFacts DEF vars, local, Store!vars, Store!local, FaultInv
    <3>3. Store!CoreInv'
      BY <3>2, Store!CoreStutter DEF FaultInv
    <3> QED BY <3>2, <3>3 DEF FaultInv
  <2>2. CASE Next
    BY <2>2, PlainStep
  <2>3. ASSUME NEW t \in Threads, FaultStep(t) PROVE FaultInv'
    BY <2>3, FaultBefore, FaultCommit, FaultUndo, FaultUndone, FaultStat, FaultSync,
       FaultPanic, FaultBail DEF FaultStep
  <2> QED BY <2>1, <2>2, <2>3 DEF FaultNext
<1> QED BY <1>1, <1>2, PTL DEF FaultSpec

(* No failing system call and no panic of the write path leaks a claim,    *)
(* releases one twice or releases that of another thread: as without       *)
(* failures, the claim of a file is set exactly while one thread holds it. *)
THEOREM FaultsKeepClaimsExclusive == FaultSpec => []ClaimsExclusive
<1>1. FaultInv => ClaimsExclusive
  <2> SUFFICES ASSUME FaultInv PROVE ClaimsExclusive
    OBVIOUS
  <2>1. Store!HoldersInv /\ 0 \notin DOMAIN fams
    BY Store!ZeroNotFam DEF FaultInv, Store!CoreInv
  <2>2. ASSUME NEW f \in DOMAIN fams
        PROVE  Cardinality(Holders(f)) = IF fams[f].claim THEN 1 ELSE 0
    <3>1. CASE fams[f].claim
      <4>1. PICK t \in Threads : f \in claims[t] \/ base[t] = f
        BY <2>1, <3>1 DEF Store!HoldersInv
      <4>2. Holders(f) = {t}
        BY <2>1, <4>1 DEF Store!HoldersInv, Holders
      <4> QED BY <3>1, <4>2, FS_Singleton
    <3>2. CASE ~ fams[f].claim
      <4>1. Holders(f) = {}
        BY <2>1, <3>2 DEF Store!HoldersInv, Holders
      <4> QED BY <3>2, <4>1, FS_EmptySet
    <3> QED BY <3>1, <3>2
  <2>3. \A t \in Threads : claims[t] \subseteq DOMAIN fams
    BY <2>1 DEF Store!HoldersInv
  <2> QED BY <2>2, <2>3 DEF ClaimsExclusive
<1> QED BY <1>1, FaultInduction, PTL

(* Files that were undone or left behind without metadata do not disturb   *)
(* the LSN space: all ranges stay apart and behind next_file_lsn.          *)
THEOREM FaultsKeepRangesDisjoint == FaultSpec => []RangesDisjoint
<1>1. FaultInv => RangesDisjoint
  <2> SUFFICES ASSUME FaultInv PROVE RangesDisjoint
    OBVIOUS
  <2>1. Store!RangesDisjoint
    BY Store!CoreRanges DEF FaultInv
  <2> QED BY <2>1, SameLocations, SameSizes
          DEF RangesDisjoint, Store!RangesDisjoint, End, Store!End, Files, Store!Files, ObjsOf,
              Store!ObjsOf
<1> QED BY <1>1, FaultInduction, PTL
=============================================================================
