--------------------------- MODULE MarbleClients ---------------------------
(***************************************************************************)
(* Proofs about what the callers of Marble see: the ids in use             *)
(* (NextIdAbove, FreshIdsVacant), reads beside writers (ReadsFresh) and    *)
(* the abstract store (ImplementsObjectStore), for every set of threads,   *)
(* every finite set of object ids, every configuration and every value of  *)
(* the bounds.                                                             *)
(*                                                                         *)
(* Reads and the greatest id change nothing of Marble (ReadsStutter), so   *)
(* what was proved of Marble holds beside them.                            *)
(***************************************************************************)
EXTENDS MarbleReads, MarbleStore, MarbleRecovery

USE DEF Null

(***************************************************************************)
(* Marble beside its readers.                                              *)
(***************************************************************************)
(* A step of Marble with a reader is a step of Marble or changes nothing   *)
(* of it.                                                                  *)
LEMMA ReadsStutter ==
  ASSUME [ReadNext]_<<vars, max_object_id, rvars>>
  PROVE  [Next]_vars
<1>1. CASE IdsStep
  BY <1>1 DEF IdsStep, Next
<1>2. CASE IdsReopen
  BY <1>2 DEF IdsReopen, Next
<1>3. ASSUME NEW o \in ObjectIds, ReadLoad(o) PROVE UNCHANGED vars
  BY <1>3 DEF ReadLoad
<1>4. CASE ReadFetch
  BY <1>4 DEF ReadFetch
<1> QED BY <1>1, <1>2, <1>3, <1>4 DEF ReadNext

(* Marble with a reader is Marble: a read and the counter of ids leave no  *)
(* trace in the store.                                                     *)
LEMMA ReadsLeaveNoTrace == ReadSpec => Spec
<1>1. ReadInit => Init
  BY DEF ReadInit, IdsInit
<1>2. [ReadNext]_<<vars, max_object_id, rvars>> => [Next]_vars
  BY ReadsStutter
<1> QED BY <1>1, <1>2, PTL DEF ReadSpec, Spec

(***************************************************************************)
(* The ids in use.                                                         *)
(***************************************************************************)
(* The greatest id covers every id with a location, and every id of a      *)
(* batch from the moment shard_batch has seen it.                          *)
IdsInv ==
  /\ max_object_id \in 0 .. LastId
  /\ \A o \in ObjectIds : location_table[o] # Null => o <= max_object_id
  /\ \A t \in Threads : pc[t] \in Writing =>
       \A o \in DOMAIN batch[t] : o <= max_object_id

(* The greatest element of a bounded set.                                  *)
LEMMA MaxOf ==
  ASSUME NEW S, S \subseteq Nat, S # {}, NEW n \in Nat, \A x \in S : x <= n
  PROVE  Max(S) \in S /\ \A x \in S : x <= Max(S)
<1>1. PICK m \in S : \A x \in S : x <= m
  BY BoundedHasMax
<1>2. m \in S /\ \A y \in S : m >= y
  BY <1>1
<1>3. Max(S) \in S /\ \A y \in S : Max(S) >= y
  BY <1>2 DEF Max
<1> QED BY <1>3

(* A thread has a batch to write because it had one, or because it has     *)
(* just called shard_batch.                                                *)
LEMMA WritingStep ==
  ASSUME TypeOK, NEW t \in Threads, WriteBatch(t) \/ StartMaintenance(t) \/ Step(t),
         pc'[t] \in Writing
  PROVE  (pc[t] \in Writing /\ batch'[t] = batch[t]) \/ Sharded(t)
<1>1. DOMAIN pc = Threads /\ DOMAIN batch = Threads
  BY DEF TypeOK
<1>2. CASE WriteBatch(t) \/ StartMaintenance(t)
  BY <1>1, <1>2 DEF WriteBatch, StartMaintenance, Goto, Sharded, Writing, Working
<1>3. CASE InsertPart(t)
  BY <1>1, <1>3 DEF InsertPart, Goto, Writing, Working
<1>4. CASE \E o \in ObjectIds : Install(t, o)
  BY <1>1, <1>4 DEF Install, Writing, Working
<1>5. CASE Abandon(t) \/ Unclaim(t)
  BY <1>1, <1>5 DEF Abandon, Unclaim, PartDone, Goto, Writing, Working
<1>6. CASE Commit(t) \/ Evacuate(t) \/ Finalize(t)
  BY <1>1, <1>6 DEF Commit, Evacuate, Finalize, Goto, Writing, Working
<1>7. CASE Scan(t) \/ Claim(t) \/ Rewrite(t)
  BY <1>1, <1>7 DEF Scan, Claim, Rewrite, Goto, Writing, Working
<1>8. CASE ReadFile(t)
  <2>1. pc[t] = "read" /\ PCs \cap Writing = Writing
    BY <1>8 DEF ReadFile, Writing, Working, PCs
  <2>2. PICK label \in {"read", "insert", "rewrite"} : pc' = [pc EXCEPT ![t] = label]
    BY <1>8, ReadFacts DEF Reads
  <2> QED BY <1>1, <2>1, <2>2 DEF Sharded, Writing, Working
<1>9. CASE Release(t) \/ Prune(t) \/ Remove(t)
  BY <1>1, <1>9 DEF Release, Prune, Remove, Goto, Writing, Working
<1> QED BY <1>2, <1>3, <1>4, <1>5, <1>6, <1>7, <1>8, <1>9 DEF Step

(* fetch_max with the ids of a batch.                                      *)
LEMMA RaiseFacts ==
  ASSUME IdsInv, TypeOK', NEW t \in Threads, RaiseMax(t)
  PROVE  /\ max_object_id' \in 0 .. LastId /\ max_object_id <= max_object_id'
         /\ Sharded(t) => \A o \in DOMAIN batch'[t] : o <= max_object_id'
<1> DEFINE T == {max_object_id} \cup DOMAIN batch'[t]
<1>1. LastId \in Nat /\ max_object_id \in 0 .. LastId
  BY IdsAssumption DEF IdsInv
<1>2. DOMAIN batch'[t] \subseteq 0 .. LastId
  BY IdsAssumption DEF TypeOK
<1>3. Max(T) \in T /\ \A x \in T : x <= Max(T)
  <2>1. T \subseteq Nat /\ T # {} /\ \A x \in T : x <= LastId
    BY <1>1, <1>2
  <2> HIDE DEF T
  <2> QED BY <1>1, <2>1, MaxOf
<1>4. Max(T) \in 0 .. LastId
  BY <1>1, <1>2, <1>3
<1>5. max_object_id' = IF Sharded(t) THEN Max(T) ELSE max_object_id
  BY DEF RaiseMax
<1> HIDE DEF T
<1>6. max_object_id \in T /\ DOMAIN batch'[t] \subseteq T
  BY DEF T
<1>7. max_object_id <= Max(T) /\ \A o \in DOMAIN batch'[t] : o <= Max(T)
  BY <1>3, <1>6
<1>8. CASE Sharded(t)
  BY <1>4, <1>5, <1>7, <1>8
<1>9. CASE ~ Sharded(t)
  BY <1>1, <1>5, <1>9
<1> QED BY <1>8, <1>9

(* The id counter covers what a thread is about to install.                *)
LEMMA IdsThread ==
  ASSUME CoreInv, CoreInv', AccountsInv, BatchesInv, IdsInv, NEW t \in Threads,
         WriteBatch(t) \/ StartMaintenance(t) \/ Step(t), RaiseMax(t)
  PROVE  IdsInv'
<1>0. TypeOK /\ TypeOK'
  BY DEF CoreInv
<1>1. /\ max_object_id' \in 0 .. LastId /\ max_object_id <= max_object_id'
      /\ Sharded(t) => \A o \in DOMAIN batch'[t] : o <= max_object_id'
  BY <1>0, RaiseFacts
<1>2. max_object_id \in Nat /\ max_object_id' \in Nat /\ ObjectIds \subseteq Nat
  BY <1>1, ObjectIdsAssumption DEF IdsInv
<1>3. ASSUME NEW o \in ObjectIds, location_table'[o] # Null
      PROVE  o <= max_object_id'
  <2>1. CASE location_table'[o] = location_table[o]
    BY <1>1, <1>2, <1>3, <2>1 DEF IdsInv
  <2>2. CASE location_table'[o] # location_table[o]
    <3>1. PICK p \in ObjectIds : Install(t, p)
      BY <2>2, TableStays
    <3>2. p = o /\ o \in DOMAIN batch[t]
      BY <2>2, <3>1, InstallFacts
    <3>3. pc[t] \in Writing
      BY <3>1 DEF Install, Writing, Working
    <3> QED BY <1>1, <1>2, <3>2, <3>3 DEF IdsInv
  <2> QED BY <2>1, <2>2
<1>4. ASSUME NEW u \in Threads, pc'[u] \in Writing, NEW o \in DOMAIN batch'[u]
      PROVE  o <= max_object_id'
  <2>0. o \in ObjectIds
    BY <1>0, <1>4 DEF TypeOK
  <2>1. ASSUME pc[u] \in Writing, batch'[u] = batch[u] PROVE o <= max_object_id'
    <3>1. o <= max_object_id
      BY <1>4, <2>1 DEF IdsInv
    <3> QED BY <1>1, <1>2, <2>0, <3>1
  <2>2. CASE u # t
    BY <1>0, <1>4, <2>1, <2>2, ThreadsApart DEF OthersStay
  <2>3. CASE u = t
    BY <1>0, <1>1, <1>4, <2>1, <2>3, WritingStep
  <2> QED BY <2>2, <2>3
<1> QED BY <1>1, <1>3, <1>4 DEF IdsInv

(* After a restart the greatest id is that of the table.                   *)
LEMMA IdsRestart ==
  ASSUME CoreInv', IdsReopen
  PROVE  IdsInv'
<1> DEFINE T == {0} \cup {o \in ObjectIds : location_table'[o] # Null}
<1>1. max_object_id' = Max(T) /\ \A t \in Threads : pc'[t] = "idle"
  BY DEF IdsReopen, RecoveredMax, CrashRecover, CloseAndReopen, ResetThreads
<1>2. T \subseteq 0 .. LastId /\ 0 \in T /\ LastId \in Nat
  <2>1. {o \in ObjectIds : location_table'[o] # Null} \subseteq 0 .. LastId
    BY IdsAssumption
  <2> QED BY <2>1, IdsAssumption
<1>3. \A o \in ObjectIds : location_table'[o] # Null => o \in T
  OBVIOUS
<1> HIDE DEF T
<1>4. Max(T) \in T /\ \A x \in T : x <= Max(T)
  <2>1. T \subseteq Nat /\ T # {} /\ \A x \in T : x <= LastId
    BY <1>2
  <2> QED BY <1>2, <2>1, MaxOf
<1>5. max_object_id' \in 0 .. LastId
  BY <1>1, <1>2, <1>4
<1>6. "idle" \notin Writing
  BY DEF Writing, Working
<1> QED BY <1>1, <1>3, <1>4, <1>5, <1>6 DEF IdsInv

(* Nothing that the ids depend on changes.                                 *)
LEMMA IdsFrame ==
  ASSUME IdsInv, UNCHANGED <<location_table, pc, batch, max_object_id>>
  PROVE  IdsInv'
BY DEF IdsInv

(* Every step keeps the greatest id.                                       *)
LEMMA IdsNext ==
  ASSUME CoreInv, CoreInv', AccountsInv, BatchesInv, IdsInv,
         [ReadNext]_<<vars, max_object_id, rvars>>
  PROVE  IdsInv'
<1>1. CASE IdsStep
  <2>1. ASSUME NEW f \in DOMAIN heap, Unlink(f), UNCHANGED max_object_id PROVE IdsInv'
    BY <2>1, IdsFrame DEF Unlink, local
  <2> QED BY <1>1, <2>1, IdsThread DEF IdsStep
<1>2. CASE IdsReopen
  BY <1>2, IdsRestart
<1>3. CASE UNCHANGED <<vars, max_object_id>>
  BY <1>3, IdsFrame DEF vars, shared, local
<1>4. ASSUME NEW o \in ObjectIds, ReadLoad(o) PROVE UNCHANGED <<vars, max_object_id>>
  BY <1>4 DEF ReadLoad
<1>5. ReadFetch => UNCHANGED <<vars, max_object_id>>
  BY DEF ReadFetch
<1> QED BY <1>1, <1>2, <1>3, <1>4, <1>5 DEF ReadNext

(* The greatest id covers the table and the batches in every reachable     *)
(* state.                                                                  *)
THEOREM IdsInduction == ReadSpec => []IdsInv
<1>1. ReadInit => IdsInv
  <2> SUFFICES ASSUME ReadInit PROVE IdsInv
    OBVIOUS
  <2>1. max_object_id = 0 /\ Init
    BY DEF ReadInit, IdsInit
  <2>2. /\ \A o \in ObjectIds : location_table[o] = Null
        /\ \A t \in Threads : pc[t] = "idle"
    BY <2>1 DEF Init, EmptyTable
  <2> QED BY <2>1, <2>2, IdsAssumption DEF IdsInv, Writing, Working
<1>2. CoreInv /\ CoreInv' /\ AccountsInv /\ BatchesInv /\ IdsInv
      /\ [ReadNext]_<<vars, max_object_id, rvars>> => IdsInv'
  BY IdsNext
<1> QED BY <1>1, <1>2, ReadsLeaveNoTrace, CoreInduction, AccountsInduction,
           BatchesInduction, PTL DEF ReadSpec

(* Ids that a renamed file names are in the table, also when the file only *)
(* waits to be unlinked.                                                   *)
TrailersKnown ==
  \A f \in DOMAIN heap : \A o \in heap[f].trailer : location_table[o] # Null

(* Every step keeps the ids of the trailers in the table.                  *)
LEMMA TrailersKnownNext ==
  ASSUME CoreInv, CoreInv', AccountsInv, AccountsInv', BatchesInv, KnownInv, KnownInv',
         TrailersKnown, [Next]_vars
  PROVE  TrailersKnown'
<1>0. TypeOK /\ TypeOK'
  BY DEF CoreInv
<1>1. ASSUME NEW t \in Threads, WriteBatch(t) \/ StartMaintenance(t) \/ Step(t),
             NEW f \in DOMAIN heap', NEW o \in heap'[f].trailer
      PROVE  location_table'[o] # Null
  <2>1. o \in ObjectIds
    <3>1. TypeOK' => \A g \in DOMAIN heap' : heap'[g].trailer \subseteq ObjectIds
      BY DEF TypeOK, HeapFile
    <3> QED BY <1>0, <3>1
  <2>2. SUFFICES location_table[o] # Null
    BY <1>1, <2>1, ChainedStep DEF KnownInv
  <2>3. CASE f \in DOMAIN heap /\ heap'[f] = heap[f]
    BY <2>3 DEF TrailersKnown
  <2>4. CASE Commit(t) /\ f = base[t] /\ heap'[f].trailer = Trailer(t)
    <3>1. pc[t] = "install" /\ todo[t] = {}
      BY <2>4 DEF Commit
    <3>2. o \in DOMAIN fams[base[t]].objs
      BY <2>4 DEF Trailer
    <3> QED BY <3>1, <3>2 DEF KnownInv, InstallInv
  <2> QED BY <1>1, <2>3, <2>4, HeapEffect DEF HeapChange
<1>2. ASSUME NEW f \in DOMAIN heap, Unlink(f) PROVE TrailersKnown'
  BY <1>2 DEF Unlink, TrailersKnown
<1>3. CASE CrashRecover \/ CloseAndReopen
  <2>1. PICK files : Kept(files) /\ Recover(files) /\ heap' = files
    BY <1>3, RestartFacts DEF CoreInv
  <2>2. DOMAIN fams' = DOMAIN heap' /\ \A f \in DOMAIN files : fams'[f].objs = heap[f].objs
    BY <2>1, KeptDirectory, RecoverFams DEF CoreInv, Kept
  <2>3. \A f \in DOMAIN files : heap'[f] = heap[f] /\ f \in DOMAIN heap
    BY <2>1 DEF Kept
  <2>4. \A f \in DOMAIN heap' : heap'[f].trailer \subseteq DOMAIN fams'[f].objs
    BY <1>0, <2>1, <2>2, <2>3, HeapTypes
  <2> QED BY <2>2, <2>4 DEF TrailersKnown, KnownInv, TrailersInv
<1>4. CASE UNCHANGED vars
  BY <1>4 DEF vars, shared, TrailersKnown
<1>5. (\E t \in Threads : WriteBatch(t) \/ StartMaintenance(t) \/ Step(t)) => TrailersKnown'
  BY <1>1 DEF TrailersKnown
<1> QED BY <1>2, <1>3, <1>4, <1>5 DEF Next

(* In every reachable state every id of every trailer is in the table.     *)
THEOREM TrailersAlwaysKnown == Spec => []TrailersKnown
<1>1. Init => TrailersKnown
  BY DEF Init, TrailersKnown
<1>2. /\ CoreInv /\ CoreInv' /\ AccountsInv /\ AccountsInv' /\ BatchesInv /\ KnownInv
      /\ KnownInv' /\ TrailersKnown /\ [Next]_vars
      => TrailersKnown'
  BY TrailersKnownNext
<1> QED BY <1>1, <1>2, CoreInduction, AccountsInduction, BatchesInduction,
           KnownInduction, PTL DEF Spec

(* Before the last id is used there is one next id.                        *)
LEMMA OneNext ==
  ASSUME IdsInv
  PROVE  /\ max_object_id \in Nat /\ LastId \in Nat /\ ObjectIds \subseteq Nat
         /\ max_object_id < LastId => NextObjectIds = {max_object_id + 1}
<1>1. /\ LastId \in Nat /\ max_object_id \in 0 .. LastId /\ max_object_id \in Nat
      /\ ObjectIds \subseteq Nat
  BY IdsAssumption, ObjectIdsAssumption DEF IdsInv
<1> QED BY <1>1 DEF NextObjectIds

(* Every id that the store knows of is within the greatest id.             *)
LEMMA IdsWithin ==
  ASSUME CoreInv, TrailersKnown, IdsInv, NEW f \in DOMAIN heap, NEW o \in heap[f].trailer
  PROVE  o \in ObjectIds /\ location_table[o] # Null /\ o <= max_object_id
<1>1. o \in ObjectIds /\ location_table[o] # Null
  BY HeapTypes DEF CoreInv, TrailersKnown
<1> QED BY <1>1 DEF IdsInv

(* The greatest id covers the table, the disk and the batches, so the next *)
(* one is above them.                                                      *)
LEMMA IdsAbove == CoreInv /\ TrailersKnown /\ IdsInv => NextIdAbove
<1> SUFFICES ASSUME CoreInv, TrailersKnown, IdsInv PROVE NextIdAbove
  OBVIOUS
<1>1. max_object_id \in Nat /\ LastId \in Nat /\ ObjectIds \subseteq Nat
  BY OneNext
<1>2. ASSUME NEW o \in ObjectIds, Holds(o) PROVE o \in AllocatedObjectIds
  <2>1. location_table[o] # Null /\ o \in Nat /\ o <= max_object_id
    BY <1>1, <1>2 DEF Holds, IdsInv
  <2> QED BY <1>1, <2>1 DEF AllocatedObjectIds, Load
<1>3. ASSUME max_object_id < LastId, NEW next \in NextObjectIds
      PROVE  /\ \A o \in ObjectIds : location_table[o] # Null => o < next
             /\ \A f \in DOMAIN heap : \A o \in heap[f].trailer : o < next
             /\ \A t \in Threads : pc[t] \in {"insert", "install", "evacuate"} =>
                  \A o \in DOMAIN batch[t] : o < next
  <2>1. \A o \in ObjectIds : o <= max_object_id => o < next
    BY <1>1, <1>3, OneNext
  <2>2. \A o \in ObjectIds : location_table[o] # Null => o < next
    BY <2>1 DEF IdsInv
  <2>3. \A f \in DOMAIN heap : \A o \in heap[f].trailer : o < next
    BY <2>1, IdsWithin
  <2>4. ASSUME NEW t \in Threads, pc[t] \in {"insert", "install", "evacuate"},
               NEW o \in DOMAIN batch[t]
        PROVE  o < next
    <3>1. o \in ObjectIds
      BY DEF CoreInv, TypeOK
    <3>2. o <= max_object_id
      BY <2>4 DEF IdsInv, Writing, Working
    <3> QED BY <2>1, <3>1, <3>2
  <2> QED BY <2>2, <2>3, <2>4
<1> QED BY <1>2, <1>3 DEF NextIdAbove

(* "1 higher than the current max allocated object ID": until the last id  *)
(* is used, the next id is above every id with a location, in a file on    *)
(* disk or in a batch, whatever is being written, moved or recovered.      *)
THEOREM NextIdAlwaysAbove == ReadSpec => []NextIdAbove
BY IdsInduction, IdsAbove, TrailersAlwaysKnown, ReadsLeaveNoTrace, CoreInduction, PTL

(* An id without a location is in no trailer.                              *)
LEMMA IdsVacant == CoreInv /\ TrailersKnown /\ IdsInv => FreshIdsVacant
<1> SUFFICES ASSUME CoreInv, TrailersKnown, IdsInv, max_object_id < LastId,
                    NEW o \in FreshIds, FilesWith(heap, o) # {}
             PROVE  FALSE
  BY DEF FreshIdsVacant
<1>1. PICK f \in DOMAIN heap : o \in heap[f].trailer
  BY DEF FilesWith
<1>2. o \in ObjectIds /\ location_table[o] # Null /\ o <= max_object_id
  BY <1>1, IdsWithin
<1>3. CASE o \in FreeObjectIds
  BY <1>2, <1>3 DEF FreeObjectIds, Load
<1>4. CASE o \in NextObjectIds
  BY <1>2, <1>4, OneNext
<1> QED BY <1>3, <1>4 DEF FreshIds

(* "to bootstrap a higher level object ID allocator": until the last id is *)
(* used, no id that free_object_ids hands out between calls has an object  *)
(* that recovery would find, not even in a file that waits to be unlinked. *)
THEOREM FreshIdsAlwaysVacant == ReadSpec => []FreshIdsVacant
BY IdsInduction, IdsVacant, TrailersAlwaysKnown, ReadsLeaveNoTrace, CoreInduction, PTL

(***************************************************************************)
(* Reads.                                                                  *)
(***************************************************************************)
(* What the table leads to is at least as late, in LSN order, as what was  *)
(* committed: a batch is installed before its file is renamed.             *)
LEMMA TableAhead ==
  ASSUME CoreInv, AccountsInv, KnownInv, OrderInv, RecoveryInv, NEW o \in ObjectIds
  PROVE  /\ order[latest[o]] <= order[TableVersion(o)]
         /\ order[latest[o]] \in Nat /\ order[TableVersion(o)] \in Nat
<1>0. order[TableVersion(o)] \in Nat
  BY VersionPlace
<1>1. order[latest[o]] \in Nat
  <2>1. order \in [0 .. MaxCalls -> Nat] /\ calls \in 0 .. MaxCalls
    BY DEF CoreInv, TypeOK
  <2>2. latest[o] \in 0 .. MaxCalls
    BY <2>1, BoundsAssumption DEF OrderInv
  <2> QED BY <2>1, <2>2
<1>2. CASE Unnamed(o)
  <2>1. order[latest[o]] = 0
    BY <1>2 DEF RecoveryInv, CommitInv, CommittedOk, OrderInv
  <2> QED BY <1>0, <2>1
<1>3. CASE ~ Unnamed(o)
  <2>1. PICK g : IsLast(g, o)
    BY <1>3, LastExists
  <2>2. g \in DOMAIN heap /\ o \in heap[g].trailer /\ g \in DOMAIN fams /\ g \in Files
    BY <2>1 DEF IsLast, RecoveryInv, CommitInv, CommittedOk, Files
  <2>3. o \in DOMAIN heap[g].objs /\ heap[g].objs = ObjsOf(g) /\ ObjsOf(g) = fams[g].objs
    BY <2>2, HeapTypes DEF CoreInv, FilesInv, ObjsOf
  <2>4. latest[o] = ObjsOf(g)[o].val /\ order[latest[o]] <= Position(g)
    BY <2>1, <2>2, <2>3 DEF IsLast, RecoveryInv, CommitInv, CommittedOk, OrderInv, Ordered
  <2>5. PICK f \in DOMAIN fams : /\ OwnedBy(f, o, location_table[o])
                                 /\ Position(g) <= Position(f)
    BY <2>2 DEF RecoveryInv, TableInv, Named
  <2>6. /\ TableVersion(o) = fams[f].objs[o].val /\ o \in DOMAIN fams[f].objs
        /\ f \in Files /\ ObjsOf(f) = fams[f].objs
    BY <2>5, CoreVersions DEF VersionsRead, OwnedBy, Files, ObjsOf
  <2>7. Position(f) \in Nat /\ Position(g) \in Nat
    BY <2>2, <2>5, FamTypes, FamLocationFacts DEF CoreInv
  <2>8. CASE IsNew(f)
    <3>1. order[TableVersion(o)] = Position(f)
      BY <2>6, <2>8 DEF OrderInv, Ordered
    <3> QED BY <1>0, <1>1, <2>4, <2>5, <2>7, <3>1
  <2>9. CASE f \in DOMAIN heap
    <3>1. o \in heap[f].trailer
      BY <2>5, <2>6, <2>9 DEF KnownInv, TrailersInv, Referred, OwnedBy
    <3>2. f = g
      BY <2>1, <2>2, <2>5, <2>6, <2>9, <3>1, PlacesDiffer DEF IsLast
    <3> QED BY <1>0, <1>1, <2>4, <2>6, <3>2
  <2>10. CASE ~ IsNew(f) /\ f \notin DOMAIN heap
    <3>1. PICK t \in Threads : base[t] = f /\ pc[t] = "install"
      BY <2>10 DEF CoreInv, HoldersInv
    <3>2. t \in sweeping
      BY <2>10, <3>1 DEF RecoveryInv, PlacesInv, PlaceOk, Working
    <3>3. TableVersion(o) = latest[o]
      BY <3>2 DEF RecoveryInv, CommitInv, SweepInv
    <3> QED BY <1>0, <3>3
  <2> QED BY <2>8, <2>9, <2>10
<1> QED BY <1>0, <1>1, <1>2, <1>3

(* A call whose version has its place: it was made, and no thread is about *)
(* to insert its file.                                                     *)
Settled(c) ==
  /\ c \in 0 .. calls
  /\ \A t \in Threads : t \notin sweeping /\ pc[t] = "insert" =>
       \A o \in DOMAIN batch[t] : batch[t][o].val # c

(* A settled call stays settled, in the same place.                        *)
LEMMA SettledStep ==
  ASSUME CoreInv, BatchesInv, OrderInv, NEW c, Settled(c), [Next]_vars
  PROVE  Settled(c)' /\ order'[c] = order[c]
<1>0. /\ calls \in 0 .. MaxCalls /\ MaxCalls \in Nat /\ DOMAIN pc = Threads
      /\ c \in 0 .. MaxCalls /\ c \in 0 .. calls
      /\ \A t \in Threads : rest[t] \subseteq DOMAIN batch[t]
  <2>1. calls \in 0 .. MaxCalls /\ DOMAIN pc = Threads
        /\ \A t \in Threads : rest[t] \subseteq DOMAIN batch[t]
    BY DEF CoreInv, TypeOK
  <2> QED BY <2>1, BoundsAssumption DEF Settled
<1>1. ASSUME NEW t \in Threads, WriteBatch(t) \/ StartMaintenance(t) \/ Step(t)
      PROVE  Settled(c)' /\ order'[c] = order[c]
  <2>1. CASE InsertPart(t)
    <3>0. TypeOK
      BY DEF CoreInv
    <3>1. /\ order'[c] = IF gen[t] = 0 /\ \E o \in rest[t] : batch[t][o].val = c
                         THEN next_file_lsn ELSE order[c]
          /\ UNCHANGED <<batch, sweeping, calls>>
          /\ pc' = [pc EXCEPT ![t] = "install"] /\ pc[t] = "insert"
      BY <1>0, <2>1, <3>0, InsertOrder
    <3>2. order'[c] = order[c]
      <4>1. CASE gen[t] = 0
        <5>1. t \notin sweeping
          BY <3>1, <4>1 DEF BatchesInv, CallInv, CallOk, Writing, Working
        <5> QED BY <1>0, <3>1, <5>1 DEF Settled
      <4> QED BY <3>1, <4>1
    <3>3. \A u \in Threads : pc'[u] = "insert" => pc[u] = "insert"
      BY <1>0, <3>1
    <3> QED BY <1>0, <3>1, <3>2, <3>3 DEF Settled
  <2>2. CASE ~ InsertPart(t)
    <3>1. order' = order
      BY <1>1, <2>2, HistoryStays
    <3>2. calls' = calls \/ calls' = calls + 1
      <4>1. WriteBatch(t) => calls' = calls + 1
        BY DEF WriteBatch
      <4> QED BY <1>1, <4>1, HistoryStays
    <3>3. c \in 0 .. calls' /\ c # calls + 1
      BY <1>0, <3>2
    <3>4. ASSUME NEW u \in Threads, u \notin sweeping', pc'[u] = "insert",
                 NEW o \in DOMAIN batch'[u]
          PROVE  batch'[u][o].val # c
      <4>1. \/ u \notin sweeping /\ pc[u] = "insert" /\ batch'[u] = batch[u] /\ u # t
            \/ /\ u = t /\ WriteBatch(t)
               /\ \A p \in DOMAIN batch'[u] : batch'[u][p].val = calls + 1
        BY <1>1, <2>2, <3>4, WritersStep
      <4> QED BY <3>3, <3>4, <4>1 DEF Settled
    <3> QED BY <3>1, <3>3, <3>4 DEF Settled
  <2> QED BY <2>1, <2>2
<1>2. ASSUME UNCHANGED <<order, calls>>,
             \/ UNCHANGED <<pc, batch, sweeping>>
             \/ \A u \in Threads : pc'[u] = "idle"
      PROVE  Settled(c)' /\ order'[c] = order[c]
  BY <1>2 DEF Settled
<1>3. ASSUME NEW f \in DOMAIN heap, Unlink(f)
      PROVE  UNCHANGED <<order, calls, pc, batch, sweeping>>
  BY <1>3 DEF Unlink, local, history, bounds
<1>4. ASSUME CrashRecover \/ CloseAndReopen
      PROVE  UNCHANGED <<order, calls>> /\ \A u \in Threads : pc'[u] = "idle"
  BY <1>4 DEF CrashRecover, CloseAndReopen, ResetThreads, history
<1>5. CASE UNCHANGED vars
  BY <1>2, <1>5 DEF vars, history, bounds, local
<1> QED BY <1>1, <1>2, <1>3, <1>4, <1>5 DEF Next

(* The versions of files are settled.                                      *)
LEMMA FileSettled ==
  ASSUME OrderInv, calls \in Nat, NEW f \in Files, NEW o \in DOMAIN ObjsOf(f)
  PROVE  Settled(ObjsOf(f)[o].val)
<1>1. ObjsOf(f)[o].val \in 0 .. calls
  BY DEF OrderInv, Ordered
<1> QED BY <1>1 DEF Settled, OrderInv, OwnVersions, Unwritten

(* The versions committed, and those the table leads to, are settled.      *)
LEMMA TableSettled ==
  ASSUME CoreInv, AccountsInv, OrderInv, NEW o \in ObjectIds
  PROVE  Settled(0) /\ Settled(latest[o]) /\ Settled(TableVersion(o))
<1>0. calls \in Nat
  BY DEF CoreInv, TypeOK
<1>1. Settled(0)
  BY <1>0 DEF Settled, OrderInv
<1>2. Settled(latest[o])
  BY DEF Settled, OrderInv, OwnVersions, Unwritten
<1>3. CASE TableVersion(o) # 0
  <2>1. PICK f \in DOMAIN fams : /\ o \in DOMAIN ObjsOf(f) /\ f \in Files
                                 /\ TableVersion(o) = ObjsOf(f)[o].val
    BY <1>3, VersionPlace
  <2>2. Settled(ObjsOf(f)[o].val)
    BY <1>0, <2>1, FileSettled
  <2> QED BY <1>1, <1>2, <2>1, <2>2
<1>4. CASE TableVersion(o) = 0
  BY <1>1, <1>2, <1>4 DEF Settled
<1> QED BY <1>1, <1>2, <1>3, <1>4

(* A location that was loaded leads, as long as a file holds the object    *)
(* there, to a version as late as what was committed at the load; and no   *)
(* file can come to hold anything there, since next_file_lsn is past it.   *)
Loaded ==
  /\ object_id \in ObjectIds /\ location \in Nat /\ ~ IsDelete(location)
  /\ MaskLsn(LsnOf(location)) < next_file_lsn
  /\ \A f \in DOMAIN fams : OwnedBy(f, object_id, location) =>
       order[floor] <= order[fams[f].objs[object_id].val]

ReadInv ==
  /\ Settled(floor) /\ Settled(version)
  /\ read_at = "fetch" => Loaded
  /\ ReadsFresh

(* A step of a thread brings nothing new to a location that was loaded.    *)
LEMMA LoadedStep ==
  ASSUME CoreInv, CoreInv', AccountsInv, BatchesInv, OrderInv, Settled(floor), Loaded,
         NEW t \in Threads, WriteBatch(t) \/ StartMaintenance(t) \/ Step(t),
         UNCHANGED rvars
  PROVE  Loaded'
<1>0. /\ UNCHANGED <<object_id, location, floor>> /\ calls \in Nat
      /\ next_file_lsn \in Nat /\ next_file_lsn' \in Nat /\ [Next]_vars
  <2>1. calls \in Nat /\ next_file_lsn \in Nat
    BY DEF CoreInv, TypeOK, FileMapTypeOK
  <2>2. next_file_lsn' \in Nat
    BY DEF CoreInv, TypeOK, FileMapTypeOK
  <2> QED BY <2>1, <2>2 DEF rvars, Next
<1>1. MaskLsn(LsnOf(location)) \in Nat
  BY BitAssumption DEF Loaded, MaskLsn, LsnOf
<1>2. MaskLsn(LsnOf(location)) < next_file_lsn'
  BY <1>0, <1>1, LsnGrows DEF Loaded
<1>3. ASSUME NEW f \in DOMAIN fams', OwnedBy(f, object_id, location)'
      PROVE  order'[floor] <= order'[fams'[f].objs[object_id].val]
  <2>1. CASE f \in DOMAIN fams /\ fams'[f].objs = fams[f].objs
    <3>1. OwnedBy(f, object_id, location)
      BY <1>0, <1>3, <2>1 DEF OwnedBy, At
    <3>2. f \in Files /\ ObjsOf(f) = fams[f].objs /\ object_id \in DOMAIN ObjsOf(f)
      BY <2>1, <3>1 DEF Files, ObjsOf, OwnedBy
    <3>3. Settled(fams[f].objs[object_id].val)
      BY <1>0, <3>2, FileSettled
    <3>4. /\ order'[floor] = order[floor]
          /\ order'[fams[f].objs[object_id].val] = order[fams[f].objs[object_id].val]
      BY <1>0, <3>3, SettledStep
    <3> QED BY <2>1, <3>1, <3>4 DEF Loaded
  <2>2. CASE InsertPart(t) /\ f = base'[t]
    <3>1. Position(f) = next_file_lsn
      BY <2>2, LsnGrows
    <3>2. Position(f) <= MaskLsn(LsnOf(location))
      BY <1>0, <1>3, CoreBelowNext DEF FilesBelow
    <3> QED BY <1>0, <1>1, <3>1, <3>2 DEF Loaded
  <2>3. f \in Files'
    BY DEF Files
  <2>4. ObjsOf(f)' = fams'[f].objs
    BY DEF ObjsOf
  <2>5. CASE f \in Files /\ ObjsOf(f)' = ObjsOf(f)
    <3>1. CASE f \in DOMAIN fams
      BY <2>1, <2>4, <2>5, <3>1 DEF ObjsOf
    <3>2. CASE f \notin DOMAIN fams
      BY <2>2, <2>5, <3>2, FilesEffect, InsertPlace DEF FilesChange, SameFiles
    <3> QED BY <3>1, <3>2
  <2> QED BY <2>2, <2>3, <2>5, ContentsStay
<1> QED BY <1>0, <1>2, <1>3 DEF Loaded

(* The file map finds a file for a location that is not below all files.   *)
LEMMA FamForFound ==
  ASSUME TypeOK, NEW l \in Nat, HasFamFor(fams, l)
  PROVE  FamFor(fams, l) \in DOMAIN fams /\ FamFor(fams, l) <= l
<1> DEFINE S == {f \in DOMAIN fams : f <= l}
<1>1. DOMAIN fams \subseteq Nat
  BY FamTypes, FamLocationFacts
<1>2. S \subseteq Nat /\ S # {} /\ \A f \in S : f <= l
  BY <1>1 DEF HasFamFor
<1>3. PICK f \in S : \A g \in S : g <= f
  <2> HIDE DEF S
  <2> QED BY <1>2, BoundedHasMax
<1>4. f \in DOMAIN fams /\ f <= l /\ \A g \in DOMAIN fams : g <= l => g <= f
  BY <1>3
<1> QED BY <1>4 DEF FamFor

(* What read finds at the location it loaded is the object it was asked    *)
(* for, at that location.                                                  *)
LEMMA FetchFinds ==
  ASSUME CoreInv, Loaded, HasFamFor(fams, location),
         object_id \in ObjectAt(FamFor(fams, location),
                                LsnOf(location) - LsnOf(FamFor(fams, location)))
  PROVE  OwnedBy(FamFor(fams, location), object_id, location)
<1>0. location \in Nat /\ location = 2 * LsnOf(location) /\ LsnOf(location) \in Nat
  BY FamLocationFacts DEF Loaded, FamLocations
<1>1. PICK f : f = FamFor(fams, location)
  OBVIOUS
<1>2. f \in DOMAIN fams
  BY <1>0, <1>1, FamForFound DEF CoreInv
<1>3. /\ object_id \in DOMAIN fams[f].objs /\ ~ fams[f].objs[object_id].del
      /\ fams[f].objs[object_id].off = LsnOf(location) - LsnOf(f)
  BY <1>1 DEF ObjectAt
<1>4. /\ f \in FamLocations /\ fams[f].objs[object_id].off \in Nat
      /\ fams[f].objs[object_id].del \in BOOLEAN /\ LsnOf(f) \in Nat
  BY <1>2, <1>3, FamTypes, FamLocationFacts DEF CoreInv
<1>5. At(f, object_id) = 2 * (LsnOf(f) + fams[f].objs[object_id].off)
  <2>1. At(f, object_id) = 2 * (LsnOf(f) + fams[f].objs[object_id].off)
                           + (IF fams[f].objs[object_id].del THEN 1 ELSE 0)
    BY <1>4, LocationInFacts DEF At
  <2> QED BY <1>3, <1>4, <2>1
<1>6. At(f, object_id) = location
  BY <1>0, <1>3, <1>4, <1>5
<1> QED BY <1>1, <1>2, <1>3, <1>6 DEF OwnedBy

(* A read that begins.                                                     *)
LEMMA ReadInvLoad ==
  ASSUME CoreInv, AccountsInv, KnownInv, OrderInv, RecoveryInv, NEW o \in ObjectIds,
         ReadLoad(o)
  PROVE  ReadInv'
<1>0. /\ floor' = latest[o] /\ UNCHANGED <<order, fams, next_file_lsn, calls, sweeping, pc, batch>>
  BY DEF ReadLoad, vars, shared, local, bounds, history
<1>1. Settled(0) /\ Settled(latest[o]) /\ Settled(TableVersion(o))
  BY TableSettled
<1>2. /\ order[latest[o]] <= order[TableVersion(o)]
      /\ order[latest[o]] \in Nat /\ order[TableVersion(o)] \in Nat
  BY TableAhead
<1>3. CASE location_table[o] = Null \/ IsDelete(location_table[o])
  <2>1. read_at' = "ok" /\ version' = TableVersion(o)
    BY <1>3 DEF ReadLoad
  <2>2. Settled(floor)' /\ Settled(version)'
    BY <1>0, <1>1, <2>1 DEF Settled
  <2> QED BY <1>0, <1>2, <2>1, <2>2 DEF ReadInv, ReadsFresh
<1>4. CASE ~ (location_table[o] = Null \/ IsDelete(location_table[o]))
  <2>1. /\ read_at' = "fetch" /\ version' = 0 /\ object_id' = o
        /\ location' = location_table[o]
    BY <1>4 DEF ReadLoad
  <2>2. Settled(floor)' /\ Settled(version)'
    BY <1>0, <1>1, <2>1 DEF Settled
  <2>3. PICK f \in DOMAIN fams : OwnedBy(f, o, location_table[o])
    BY <1>4 DEF AccountsInv, LocationsInv, Backed
  <2>4. location' \in Nat /\ MaskLsn(LsnOf(location')) < next_file_lsn
    BY <2>1, <2>3, OwnedLsn
  <2>5. ASSUME NEW g \in DOMAIN fams, OwnedBy(g, o, location_table[o])
        PROVE  order[latest[o]] <= order[fams[g].objs[o].val]
    BY <1>2, <2>5, CoreVersions DEF VersionsRead
  <2>6. Loaded'
    BY <1>0, <1>4, <2>1, <2>4, <2>5 DEF Loaded, OwnedBy, At
  <2> QED BY <2>1, <2>2, <2>6 DEF ReadInv, ReadsFresh
<1> QED BY <1>3, <1>4

(* A read that ends.                                                       *)
LEMMA ReadInvFetch ==
  ASSUME CoreInv, OrderInv, ReadInv, ReadFetch
  PROVE  ReadInv'
<1>0. UNCHANGED <<order, calls, sweeping, pc, batch, floor>> /\ read_at = "fetch"
  BY DEF ReadFetch, vars, local, bounds, history
<1>1. Loaded /\ Settled(floor) /\ Settled(version) /\ calls \in Nat
  BY <1>0 DEF ReadInv, CoreInv, TypeOK
<1>2. PICK f : f = FamFor(fams, location)
  OBVIOUS
<1>3. CASE read_at' = "error" /\ version' = version
  BY <1>0, <1>1, <1>3 DEF ReadInv, ReadsFresh, Settled
<1>4. CASE /\ read_at' = "ok" /\ version' = fams[f].objs[object_id].val
           /\ HasFamFor(fams, location)
           /\ object_id \in ObjectAt(f, LsnOf(location) - LsnOf(f))
  <2>1. OwnedBy(f, object_id, location)
    BY <1>1, <1>2, <1>4, FetchFinds
  <2>2. order[floor] <= order[version']
    BY <1>1, <1>4, <2>1 DEF Loaded, OwnedBy
  <2>3. f \in Files /\ object_id \in DOMAIN ObjsOf(f) /\ version' = ObjsOf(f)[object_id].val
    BY <1>4, <2>1 DEF OwnedBy, Files, ObjsOf
  <2>4. Settled(ObjsOf(f)[object_id].val)
    BY <1>1, <2>3, FileSettled
  <2>5. Settled(version)' /\ Settled(floor)'
    BY <1>0, <1>1, <2>3, <2>4 DEF Settled
  <2> QED BY <1>0, <1>4, <2>2, <2>5 DEF ReadInv, ReadsFresh
<1> QED BY <1>2, <1>3, <1>4 DEF ReadFetch

(* Every step keeps the invariant of the reads.                            *)
LEMMA ReadInvNext ==
  ASSUME CoreInv, CoreInv', AccountsInv, BatchesInv, KnownInv, OrderInv, RecoveryInv,
         ReadInv, [ReadNext]_<<vars, max_object_id, rvars>>
  PROVE  ReadInv'
<1>0. /\ [Next]_vars
      /\ Settled(floor) /\ Settled(version)
  BY ReadsStutter DEF ReadInv
<1>1. ASSUME UNCHANGED rvars, read_at = "fetch" => Loaded' PROVE ReadInv'
  <2>1. UNCHANGED <<read_at, floor, version>>
    BY <1>1 DEF rvars
  <2>2. PICK a, b : a = floor /\ b = version
    OBVIOUS
  <2>3. Settled(a)' /\ Settled(b)' /\ order'[a] = order[a] /\ order'[b] = order[b]
    BY <1>0, <2>2, SettledStep
  <2>4. Settled(floor)' /\ Settled(version)' /\ floor' = a /\ version' = b
    BY <2>1, <2>2, <2>3 DEF Settled
  <2> QED BY <1>1, <2>1, <2>2, <2>3, <2>4 DEF ReadInv, ReadsFresh
<1>2. ASSUME NEW t \in Threads, WriteBatch(t) \/ StartMaintenance(t) \/ Step(t),
             UNCHANGED rvars
      PROVE  ReadInv'
  BY <1>0, <1>1, <1>2, LoadedStep DEF ReadInv
<1>3. ASSUME UNCHANGED <<fams, next_file_lsn, order, rvars>> PROVE ReadInv'
  BY <1>1, <1>3 DEF ReadInv, Loaded, OwnedBy, At, rvars
<1>4. ASSUME NEW f \in DOMAIN heap, Unlink(f) PROVE UNCHANGED <<fams, next_file_lsn, order>>
  BY <1>4 DEF Unlink, history
<1>5. CASE IdsStep /\ UNCHANGED rvars
  BY <1>2, <1>3, <1>4, <1>5 DEF IdsStep
<1>6. CASE IdsReopen /\ ForgetRead
  <2>1. UNCHANGED calls /\ \A t \in Threads : pc'[t] = "idle"
    BY <1>6 DEF IdsReopen, CrashRecover, CloseAndReopen, ResetThreads
  <2>2. read_at' = "idle" /\ floor' = 0 /\ version' = 0 /\ calls \in Nat
    BY <1>6 DEF ForgetRead, CoreInv, TypeOK
  <2> QED BY <2>1, <2>2 DEF ReadInv, ReadsFresh, Settled
<1>7. ASSUME NEW o \in ObjectIds, ReadLoad(o) PROVE ReadInv'
  BY <1>7, ReadInvLoad
<1>8. CASE ReadFetch
  BY <1>8, ReadInvFetch
<1>9. CASE UNCHANGED <<vars, max_object_id, rvars>>
  BY <1>3, <1>9 DEF vars, shared, history
<1> QED BY <1>5, <1>6, <1>7, <1>8, <1>9 DEF ReadNext

(* Where the callers keep write_batch and maintenance apart, a location    *)
(* that a read has loaded leads to versions as late as those committed     *)
(* when it was loaded, or nowhere.                                         *)
THEOREM ReadInduction == ASSUME CallersExclude PROVE ReadSpec => []ReadInv
<1>1. ReadInit => ReadInv
  <2> SUFFICES ASSUME ReadInit PROVE ReadInv
    OBVIOUS
  <2>1. /\ floor = 0 /\ version = 0 /\ read_at = "idle" /\ calls = 0
        /\ \A t \in Threads : pc[t] = "idle"
    BY DEF ReadInit, IdsInit, Init
  <2> QED BY <2>1 DEF ReadInv, ReadsFresh, Settled
<1>2. /\ CoreInv /\ CoreInv' /\ AccountsInv /\ BatchesInv /\ KnownInv /\ OrderInv
      /\ RecoveryInv /\ ReadInv /\ [ReadNext]_<<vars, max_object_id, rvars>>
      => ReadInv'
  BY ReadInvNext
<1> QED BY <1>1, <1>2, ReadsLeaveNoTrace, CoreInduction, AccountsInduction,
           BatchesInduction, KnownInduction, OrderInduction, RecoveryInduction,
           PTL DEF ReadSpec

(* A read that answers returns a version at least as late as every batch   *)
(* committed before it began: between the load of the location and the     *)
(* search in the file map the object may be moved, its file pruned, the    *)
(* LSN counter advanced, and still nothing else comes to lie at the        *)
(* location.                                                               *)
THEOREM ReadsAlwaysFresh == ASSUME CallersExclude PROVE ReadSpec => []ReadsFresh
<1>1. ReadInv => ReadsFresh
  BY DEF ReadInv
<1> QED BY <1>1, ReadInduction, PTL

(***************************************************************************)
(* The abstract store: deletion flags.                                     *)
(***************************************************************************)
HasEntry(entries, o, v, d) ==
  o \in DOMAIN entries /\ entries[o].val = v /\ entries[o].del = d

(* Some file or some batch has version v of an object, with that flag.     *)
Written(o, v, d) ==
  \/ \E f \in Files : HasEntry(ObjsOf(f), o, v, d)
  \/ \E t \in Threads : HasEntry(batch[t], o, v, d)

(* A version is a deletion in all of its copies or in none; and a file     *)
(* that is being installed has something in it.                            *)
FlagsInv ==
  /\ \A o \in ObjectIds : \A v, d, e : Written(o, v, d) /\ Written(o, v, e) => d = e
  /\ \A t \in Threads : pc[t] = "install" => DOMAIN fams[base[t]].objs # {}

(* Copies keep the flag: a file has the flags of the batch it was written  *)
(* from, the batch of maintenance those of the files it has read.          *)
LEMMA WrittenThread ==
  ASSUME CoreInv, AccountsInv, NEW t \in Threads,
         WriteBatch(t) \/ StartMaintenance(t) \/ Step(t),
         NEW o, NEW v, NEW d, Written(o, v, d)'
  PROVE  \/ Written(o, v, d)
         \/ WriteBatch(t) /\ HasEntry(batch'[t], o, v, d)
<1>c. TypeOK /\ HoldersInv /\ DOMAIN pc = Threads /\ DOMAIN batch = Threads
  BY DEF CoreInv, TypeOK
<1>1. ASSUME NEW g \in Files', HasEntry(ObjsOf(g)', o, v, d)
      PROVE  Written(o, v, d)
  <2>1. CASE g \in Files /\ ObjsOf(g)' = ObjsOf(g)
    BY <1>1, <2>1 DEF Written
  <2>2. CASE InsertPart(t) /\ g = base'[t]
    <3>1. PICK part, objs, f : Inserts(t, part, objs, f)
      BY <1>c, <2>2, InsertFacts
    <3>2. /\ g = f /\ f \in DOMAIN fams' /\ fams'[f].objs = objs /\ DOMAIN objs = part
          /\ part \subseteq rest[t] /\ rest[t] \subseteq DOMAIN batch[t]
          /\ \A p \in part : objs[p].val = batch[t][p].val /\ objs[p].del = batch[t][p].del
      BY <1>c, <2>2, <3>1 DEF Inserts, TypeOK
    <3>3. ObjsOf(g)' = objs
      BY <3>2 DEF ObjsOf
    <3>4. HasEntry(batch[t], o, v, d)
      BY <1>1, <3>2, <3>3 DEF HasEntry
    <3> QED BY <3>4 DEF Written
  <2> QED BY <2>1, <2>2, ContentsStay
<1>2. ASSUME NEW u \in Threads, HasEntry(batch'[u], o, v, d), u # t
      PROVE  Written(o, v, d)
  BY <1>c, <1>2, ThreadsApart DEF OthersStay, Written
<1>3. ASSUME HasEntry(batch'[t], o, v, d), ~ WriteBatch(t)
      PROVE  Written(o, v, d)
  <2>1. ASSUME batch'[t] = batch[t] \/ DOMAIN batch'[t] = {} PROVE Written(o, v, d)
    BY <1>3, <2>1 DEF Written, HasEntry
  <2>2. CASE ReadFile(t)
    <3>1. PICK f, items : Reads(t, f, items)
      BY <2>2, ReadFacts
    <3>2. f \in DOMAIN fams /\ batch'[t] = items
      BY <1>c, <3>1 DEF Reads, HoldersInv
    <3>3. f \in Files /\ ObjsOf(f) = fams[f].objs
      BY <3>2 DEF Files, ObjsOf
    <3>4. CASE o \in Survivors(f)
      <4>1. HasEntry(ObjsOf(f), o, v, d)
        BY <1>3, <3>1, <3>2, <3>3, <3>4 DEF Reads, Survivors, HasEntry
      <4> QED BY <3>3, <4>1 DEF Written
    <3>5. CASE o \notin Survivors(f)
      <4>1. HasEntry(batch[t], o, v, d)
        BY <1>3, <3>1, <3>2, <3>5 DEF Reads, HasEntry
      <4> QED BY <4>1 DEF Written
    <3> QED BY <3>4, <3>5
  <2>3. CASE Abandon(t) \/ Unclaim(t)
    <3>1. batch'[t] = batch[t] \/ batch'[t] = EmptyBatch
      BY <1>c, <2>3 DEF Abandon, Unclaim, PartDone
    <3> QED BY <2>1, <3>1 DEF EmptyBatch
  <2>4. CASE InsertPart(t) \/ (\E p \in ObjectIds : Install(t, p)) \/ Commit(t) \/ Evacuate(t)
             \/ Finalize(t) \/ StartMaintenance(t)
    BY <2>1, <2>4 DEF InsertPart, Install, Commit, Evacuate, Finalize, StartMaintenance
  <2>5. CASE Scan(t) \/ Claim(t) \/ Rewrite(t) \/ Release(t) \/ Prune(t) \/ Remove(t)
    BY <2>1, <2>5 DEF Scan, Claim, Rewrite, Release, Prune, Remove
  <2> QED BY <1>3, <2>2, <2>3, <2>4, <2>5 DEF Step
<1> QED BY <1>1, <1>2, <1>3 DEF Written

(* The steps outside of the calls write nothing.                           *)
LEMMA WrittenRestart ==
  ASSUME CoreInv, NEW o, NEW v, NEW d, Written(o, v, d)',
         \/ CrashRecover \/ CloseAndReopen \/ UNCHANGED vars
         \/ \E f \in DOMAIN heap : Unlink(f)
  PROVE  Written(o, v, d)
<1>1. ASSUME \A g \in Files' : g \in Files /\ ObjsOf(g)' = ObjsOf(g),
             batch' = batch \/ \A u \in Threads : DOMAIN batch'[u] = {}
      PROVE  Written(o, v, d)
  <2>1. CASE \E g \in Files' : HasEntry(ObjsOf(g)', o, v, d)
    BY <1>1, <2>1 DEF Written
  <2>2. CASE \E u \in Threads : HasEntry(batch'[u], o, v, d)
    BY <1>1, <2>2 DEF Written, HasEntry
  <2> QED BY <2>1, <2>2 DEF Written
<1>2. CASE CrashRecover \/ CloseAndReopen
  <2>1. PICK files : Kept(files) /\ Recover(files) /\ ResetThreads /\ heap' = files
    BY <1>2, RestartFacts DEF CoreInv
  <2>2. /\ DOMAIN fams' = DOMAIN files
        /\ \A f \in DOMAIN files : fams'[f].objs = heap[f].objs
    BY <2>1, KeptDirectory, RecoverFams DEF CoreInv, Kept
  <2>3. \A f \in DOMAIN files : f \in DOMAIN heap /\ heap[f].objs = ObjsOf(f)
    BY <2>1 DEF Kept, CoreInv, FilesInv
  <2>4. \A g \in Files' : g \in Files /\ ObjsOf(g)' = ObjsOf(g)
    BY <2>1, <2>2, <2>3 DEF Files, ObjsOf
  <2>5. \A u \in Threads : DOMAIN batch'[u] = {}
    BY <2>1 DEF ResetThreads, EmptyBatch
  <2> QED BY <1>1, <2>4, <2>5
<1>3. ASSUME UNCHANGED <<fams, batch>>, DOMAIN heap' \subseteq DOMAIN heap,
             \A g \in DOMAIN heap' : heap'[g] = heap[g]
      PROVE  Written(o, v, d)
  <2>1. \A g \in Files' : g \in Files /\ ObjsOf(g)' = ObjsOf(g)
    BY <1>3 DEF Files, ObjsOf
  <2> QED BY <1>1, <1>3, <2>1
<1>4. CASE UNCHANGED vars
  BY <1>3, <1>4 DEF vars, shared, local
<1>5. ASSUME NEW f \in DOMAIN heap, Unlink(f) PROVE Written(o, v, d)
  <2>1. DOMAIN heap' \subseteq DOMAIN heap /\ \A g \in DOMAIN heap' : heap'[g] = heap[g]
    BY <1>5 DEF Unlink
  <2> QED BY <1>3, <1>5, <2>1 DEF Unlink, local
<1> QED BY <1>2, <1>4, <1>5

(* The calls that were made are behind every version that was written.     *)
LEMMA WrittenCalls ==
  ASSUME OrderInv, NEW o, NEW v, NEW d, Written(o, v, d)
  PROVE  v \in 1 .. calls
BY DEF OrderInv, Ordered, Written, HasEntry

(* A version that exists before a step exists with the same flags after    *)
(* it.                                                                     *)
LEMMA WrittenNext ==
  ASSUME CoreInv, AccountsInv, OrderInv, [Next]_vars, NEW o, NEW v \in 0 .. calls,
         NEW d, Written(o, v, d)'
  PROVE  Written(o, v, d)
<1>1. ASSUME NEW t \in Threads, WriteBatch(t), HasEntry(batch'[t], o, v, d) PROVE FALSE
  <2>1. \A p \in DOMAIN batch'[t] : batch'[t][p].val = calls + 1
    <3>1. DOMAIN batch = Threads
      BY DEF CoreInv, TypeOK
    <3> QED BY <1>1, <3>1 DEF WriteBatch
  <2>2. calls \in Nat
    BY DEF CoreInv, TypeOK
  <2> QED BY <1>1, <2>1, <2>2 DEF HasEntry
<1>2. ASSUME NEW t \in Threads, WriteBatch(t) \/ StartMaintenance(t) \/ Step(t)
      PROVE  Written(o, v, d)
  BY <1>1, <1>2, WrittenThread
<1> QED BY <1>2, WrittenRestart DEF Next

(* Every step keeps the flags.                                             *)
LEMMA FlagsNext ==
  ASSUME CoreInv, AccountsInv, OrderInv, OrderInv', FlagsInv, [Next]_vars
  PROVE  FlagsInv'
<1>c. TypeOK /\ HoldersInv /\ DOMAIN pc = Threads /\ DOMAIN batch = Threads /\ calls \in Nat
  BY DEF CoreInv, TypeOK
<1>1. ASSUME NEW o \in ObjectIds, NEW v, NEW d, NEW e, Written(o, v, d)', Written(o, v, e)'
      PROVE  d = e
  <2>1. CASE v \in 0 .. calls
    <3>1. Written(o, v, d) /\ Written(o, v, e)
      BY <1>1, <2>1, WrittenNext
    <3> QED BY <3>1 DEF FlagsInv
  <2>2. CASE v \notin 0 .. calls
    <3>1. \A b : ~ Written(o, v, b)
      BY <1>c, <2>2, WrittenCalls
    <3>2. PICK t \in Threads : WriteBatch(t) \/ StartMaintenance(t) \/ Step(t)
      BY <1>1, <3>1, WrittenRestart DEF Next
    <3>3. HasEntry(batch'[t], o, v, d) /\ HasEntry(batch'[t], o, v, e)
      BY <1>1, <3>1, <3>2, WrittenThread
    <3> QED BY <3>3 DEF HasEntry
  <2> QED BY <2>1, <2>2
<1>2. ASSUME NEW u \in Threads, pc'[u] = "install"
      PROVE  DOMAIN fams'[base'[u]].objs # {}
  <2>1. ASSUME NEW t \in Threads, WriteBatch(t) \/ StartMaintenance(t) \/ Step(t)
        PROVE  DOMAIN fams'[base'[u]].objs # {}
    <3>1. CASE InsertPart(t) /\ u = t
      <4>1. PICK part, objs, f : Inserts(t, part, objs, f)
        BY <1>c, <3>1, InsertFacts
      <4>2. base'[t] = f /\ fams'[f].objs = objs /\ DOMAIN objs = part /\ part # {}
        BY <1>c, <4>1 DEF Inserts, TypeOK
      <4> QED BY <3>1, <4>2
    <3>2. CASE ~ (InsertPart(t) /\ u = t)
      <4>1. pc[u] = "install" /\ base'[u] = base[u]
        <5>1. CASE u # t
          BY <1>2, <1>c, <2>1, <5>1, ThreadsApart DEF OthersStay
        <5>2. CASE u = t
          <6>1. pc[t] \in Working /\ base'[t] = base[t]
            BY <1>2, <1>c, <2>1, <3>2, <5>2, WorkStep DEF Working
          <6>2. pc[t] = "install"
            BY <1>2, <1>c, <2>1, <3>2, <5>2, InstallOnly DEF Install
          <6> QED BY <5>2, <6>1, <6>2
        <5> QED BY <5>1, <5>2
      <4>2. base[u] \in DOMAIN fams
        BY <1>c, <4>1 DEF HoldersInv, Working
      <4>3. StaysOpen(base[u])
        <5>1. u = t => ~ Abandon(t) /\ ~ Remove(t)
          BY <1>2, <1>c, <4>1 DEF Abandon, Remove, PartDone, Goto
        <5> QED BY <2>1, <4>2, <5>1, HeldStay
      <4> QED BY <4>1, <4>3 DEF FlagsInv, StaysOpen
    <3> QED BY <3>1, <3>2
  <2>2. CASE UNCHANGED <<pc, base, fams>>
    BY <1>2, <2>2 DEF FlagsInv
  <2>3. ~ CrashRecover /\ ~ CloseAndReopen
    BY <1>2 DEF CrashRecover, CloseAndReopen, ResetThreads
  <2>4. ASSUME NEW f \in DOMAIN heap, Unlink(f) PROVE UNCHANGED <<pc, base, fams>>
    BY <2>4 DEF Unlink, local, inner
  <2>5. UNCHANGED vars => UNCHANGED <<pc, base, fams>>
    BY DEF vars, shared, local, inner
  <2> QED BY <2>1, <2>2, <2>3, <2>4, <2>5 DEF Next
<1> QED BY <1>1, <1>2 DEF FlagsInv

(* In every reachable state all copies of a version agree on whether it is *)
(* a deletion.                                                             *)
THEOREM FlagsInduction == Spec => []FlagsInv
<1>1. Init => FlagsInv
  <2> SUFFICES ASSUME Init PROVE FlagsInv
    OBVIOUS
  <2>1. Files = {} /\ \A t \in Threads : pc[t] = "idle" /\ DOMAIN batch[t] = {}
    BY DEF Init, EmptyBatch, Files
  <2> QED BY <2>1 DEF FlagsInv, Written, HasEntry
<1>2. CoreInv /\ AccountsInv /\ OrderInv /\ OrderInv' /\ FlagsInv /\ [Next]_vars => FlagsInv'
  BY FlagsNext
<1> QED BY <1>1, <1>2, CoreInduction, AccountsInduction, OrderInduction, PTL DEF Spec

(***************************************************************************)
(* The abstract store: versions.                                           *)
(***************************************************************************)
(* The abstract version w of an object is that of call v: none, or the     *)
(* place of the call with the flag of its copies.                          *)
IsVersion(o, v, w) ==
  \/ v = 0 /\ w = NoVersion
  \/ v # 0 /\ \E d \in BOOLEAN : Written(o, v, d) /\ w = [stamp |-> order[v], del |-> d]

(* The durable version is that of the call committed last, the visible one *)
(* that of the call the table leads to.                                    *)
Abstracted ==
  \A o \in ObjectIds : /\ IsVersion(o, latest[o], DurableVersion(o))
                       /\ IsVersion(o, TableVersion(o), VisibleVersion(o))

(* The invariants of Marble imply it.                                      *)
LEMMA VersionsAbstracted ==
  CoreInv /\ AccountsInv /\ OrderInv /\ RecoveryInv => Abstracted
<1> SUFFICES ASSUME CoreInv, AccountsInv, OrderInv, RecoveryInv, NEW o \in ObjectIds
             PROVE  /\ IsVersion(o, latest[o], DurableVersion(o))
                    /\ IsVersion(o, TableVersion(o), VisibleVersion(o))
  BY DEF Abstracted
<1>0. TypeOK /\ calls \in Nat
  BY DEF CoreInv, TypeOK
<1>1. IsVersion(o, latest[o], DurableVersion(o))
  <2>1. CASE FilesWith(heap, o) = {}
    <3>1. latest[o] = 0
      BY <2>1, LastExists DEF RecoveryInv, CommitInv, CommittedOk
    <3> QED BY <2>1, <3>1 DEF IsVersion, DurableVersion
  <2>2. CASE FilesWith(heap, o) # {}
    <3>1. PICK f : f = LastFileWith(heap, o)
      OBVIOUS
    <3>2. IsLast(f, o)
      BY <2>2, <3>1, LastExists
    <3>3. f \in DOMAIN heap /\ o \in heap[f].trailer /\ heap[f].objs[o].val = latest[o]
      BY <3>2 DEF IsLast, RecoveryInv, CommitInv, CommittedOk
    <3>4. o \in DOMAIN heap[f].objs /\ heap[f].objs[o].del \in BOOLEAN
      BY <1>0, <3>3, HeapTypes
    <3>5. f \in Files /\ ObjsOf(f) = heap[f].objs
      BY <3>3 DEF Files, CoreInv, FilesInv
    <3>6. latest[o] # 0
      BY <1>0, <3>3, <3>4, <3>5 DEF OrderInv, Ordered
    <3>7. Written(o, latest[o], heap[f].objs[o].del)
      BY <3>3, <3>4, <3>5 DEF Written, HasEntry
    <3>8. DurableVersion(o) = [stamp |-> order[latest[o]], del |-> heap[f].objs[o].del]
      BY <2>2, <3>1, <3>3 DEF DurableVersion, VersionOf
    <3> QED BY <3>4, <3>6, <3>7, <3>8 DEF IsVersion
  <2> QED BY <2>1, <2>2
<1>2. IsVersion(o, TableVersion(o), VisibleVersion(o))
  <2>1. CASE location_table[o] = Null
    BY <2>1 DEF IsVersion, TableVersion, VisibleVersion
  <2>2. CASE location_table[o] # Null
    <3>1. PICK f \in DOMAIN fams : OwnedBy(f, o, location_table[o])
      BY <2>2 DEF AccountsInv, LocationsInv, Backed
    <3>2. FamFor(fams, location_table[o]) = f
      BY <3>1, OwnerIsFamFor DEF CoreInv
    <3>3. o \in DOMAIN fams[f].objs /\ fams[f].objs[o].del \in BOOLEAN
      BY <1>0, <3>1, FamTypes DEF OwnedBy
    <3>4. f \in Files /\ ObjsOf(f) = fams[f].objs
      BY <3>1 DEF Files, ObjsOf
    <3>5. TableVersion(o) = fams[f].objs[o].val
      BY <2>2, <3>2 DEF TableVersion
    <3>6. TableVersion(o) # 0
      BY <1>0, <3>3, <3>4, <3>5 DEF OrderInv, Ordered
    <3>7. Written(o, TableVersion(o), fams[f].objs[o].del)
      BY <3>3, <3>4, <3>5 DEF Written, HasEntry
    <3>8. VisibleVersion(o) = [stamp |-> order[TableVersion(o)], del |-> fams[f].objs[o].del]
      BY <2>2, <3>2, <3>5 DEF VisibleVersion, VersionOf
    <3> QED BY <3>3, <3>6, <3>7, <3>8 DEF IsVersion
  <2> QED BY <2>1, <2>2
<1> QED BY <1>1, <1>2

(* The same of the state after a step.                                     *)
LEMMA VersionsAbstractedNext ==
  CoreInv' /\ AccountsInv' /\ OrderInv' /\ RecoveryInv' => Abstracted'
BY VersionsAbstracted, PTL

(* The stamp of a version is the place of its call.                        *)
LEMMA VersionStamp ==
  ASSUME OrderInv, NEW o, NEW v, NEW w, IsVersion(o, v, w)
  PROVE  w.stamp = order[v]
BY DEF OrderInv, IsVersion, NoVersion

(* The invariants, before and after a step.                                *)
StoreInv == CoreInv /\ AccountsInv /\ BatchesInv /\ KnownInv /\ OrderInv /\ RecoveryInv /\ FlagsInv

(* A call has the same abstract version before and after a step.           *)
LEMMA VersionKept ==
  ASSUME StoreInv, [Next]_vars, NEW o \in ObjectIds, NEW v, NEW w, NEW x, Settled(v),
         IsVersion(o, v, w), IsVersion(o, v, x)'
  PROVE  x = w
<1>1. order'[v] = order[v] /\ v \in 0 .. calls
  BY SettledStep DEF StoreInv, Settled
<1>2. CASE v = 0
  BY <1>2 DEF IsVersion, NoVersion
<1>3. CASE v # 0
  <2>1. PICK d \in BOOLEAN : Written(o, v, d) /\ w = [stamp |-> order[v], del |-> d]
    BY <1>3 DEF IsVersion
  <2>2. PICK e \in BOOLEAN : Written(o, v, e)' /\ x = [stamp |-> order'[v], del |-> e]
    BY <1>3 DEF IsVersion
  <2>3. Written(o, v, e)
    BY <1>1, <2>2, WrittenNext DEF StoreInv
  <2>4. d = e
    BY <2>1, <2>3 DEF StoreInv, FlagsInv
  <2> QED BY <1>1, <2>1, <2>2, <2>4
<1> QED BY <1>2, <1>3

(* What is committed stays durable as it is.                               *)
LEMMA DurableStays ==
  ASSUME StoreInv, StoreInv', [Next]_vars, NEW o \in ObjectIds, latest'[o] = latest[o]
  PROVE  DurableVersion(o)' = DurableVersion(o)
<1>1. PICK v, w, x : v = latest[o] /\ w = DurableVersion(o) /\ x = DurableVersion(o)'
  OBVIOUS
<1>2. IsVersion(o, v, w) /\ Settled(v)
  BY <1>1, VersionsAbstracted, TableSettled DEF StoreInv, Abstracted
<1>3. IsVersion(o, v, x)'
  BY <1>1, VersionsAbstractedNext DEF StoreInv, Abstracted
<1> QED BY <1>1, <1>2, <1>3, VersionKept

(* An object whose version in the table stays is visible as it was.        *)
LEMMA VisibleStays ==
  ASSUME StoreInv, StoreInv', [Next]_vars, NEW o \in ObjectIds,
         TableVersion(o)' = TableVersion(o)
  PROVE  VisibleVersion(o)' = VisibleVersion(o)
<1>1. PICK v, w, x : v = TableVersion(o) /\ w = VisibleVersion(o) /\ x = VisibleVersion(o)'
  OBVIOUS
<1>2. IsVersion(o, v, w) /\ Settled(v)
  BY <1>1, VersionsAbstracted, TableSettled DEF StoreInv, Abstracted
<1>3. IsVersion(o, v, x)'
  BY <1>1, VersionsAbstractedNext DEF StoreInv, Abstracted
<1> QED BY <1>1, <1>2, <1>3, VersionKept

(* The stamps of the abstract versions.                                    *)
LEMMA VersionStamps ==
  ASSUME StoreInv, NEW o \in ObjectIds
  PROVE  /\ DurableVersion(o).stamp = order[latest[o]]
         /\ VisibleVersion(o).stamp = order[TableVersion(o)]
         /\ order[latest[o]] \in Nat /\ order[TableVersion(o)] \in Nat
         /\ order[latest[o]] <= order[TableVersion(o)]
BY VersionsAbstracted, VersionStamp, TableAhead DEF StoreInv, Abstracted

(* A store that was just created.                                          *)
LEMMA StoreInitMaps == Init => Store!StoreInit
<1> SUFFICES ASSUME Init PROVE Store!StoreInit
  OBVIOUS
<1>1. /\ \A o \in ObjectIds : location_table[o] = Null
      /\ DOMAIN heap = {} /\ \A t \in Threads : pc[t] = "idle"
  BY DEF Init, EmptyTable
<1>2. \A o \in ObjectIds : VisibleVersion(o) = Store!NeverWritten
  BY <1>1 DEF VisibleVersion, NoVersion, Store!NeverWritten
<1>3. \A o \in ObjectIds : DurableVersion(o) = Store!NeverWritten
  BY <1>1 DEF DurableVersion, FilesWith, NoVersion, Store!NeverWritten
<1>4. {u \in Threads : pc[u] = "install" /\ gen[u] = 0} = {}
  BY <1>1
<1> QED BY <1>2, <1>3, <1>4 DEF Store!StoreInit

(***************************************************************************)
(* The abstract store: batches being written.                              *)
(***************************************************************************)
Begun == {u \in Threads : pc[u] = "install" /\ gen[u] = 0}

WritingSet == {BatchOf(base[t]) : t \in Begun}

(* A thread that begins or goes on with a batch is not affected by others. *)
LEMMA BegunStays ==
  ASSUME CoreInv, AccountsInv, NEW t \in Threads,
         WriteBatch(t) \/ StartMaintenance(t) \/ Step(t), NEW u \in Threads,
         u # t \/ \E o \in ObjectIds : Install(t, o)
  PROVE  /\ u \in Begun' <=> u \in Begun
         /\ u \in Begun => BatchOf(base[u])' = BatchOf(base[u])
<1>0. TypeOK
  BY DEF CoreInv
<1>1. pc'[u] = pc[u] /\ gen'[u] = gen[u] /\ base'[u] = base[u]
  <2>1. CASE u # t
    BY <1>0, <2>1, ThreadsApart DEF OthersStay
  <2>2. CASE \E o \in ObjectIds : Install(t, o)
    BY <2>2 DEF Install
  <2> QED BY <2>1, <2>2
<1>2. ASSUME u \in Begun PROVE BatchOf(base[u])' = BatchOf(base[u])
  <2>1. base[u] \in DOMAIN fams
    BY <1>2 DEF Begun, CoreInv, HoldersInv, Working
  <2>2. u # t \/ (~ Abandon(t) /\ ~ Remove(t))
    <3>1. ASSUME NEW o \in ObjectIds, Install(t, o) PROVE ~ Abandon(t) /\ ~ Remove(t)
      BY <3>1 DEF Install, Abandon, Remove
    <3> QED BY <3>1
  <2>3. StaysOpen(base[u])
    BY <2>1, <2>2, HeldStay
  <2>4. fams'[base'[u]].objs = fams[base[u]].objs
    BY <1>1, <2>3 DEF StaysOpen
  <2> QED BY <1>1, <2>4 DEF BatchOf
<1> QED BY <1>1, <1>2 DEF Begun

(* A thread enters the set of writers with InsertPart and leaves it with   *)
(* Commit: a batch is never dropped.                                       *)
LEMMA BegunSelf ==
  ASSUME CoreInv, FlagsInv, NEW t \in Threads,
         WriteBatch(t) \/ StartMaintenance(t) \/ Step(t),
         \A o \in ObjectIds : ~ Install(t, o)
  PROVE  /\ t \in Begun' <=> InsertPart(t) /\ gen[t] = 0
         /\ t \in Begun <=> Commit(t) /\ gen[t] = 0
<1>0. TypeOK /\ DOMAIN pc = Threads
  BY DEF CoreInv, TypeOK
<1>1. pc'[t] = "install" => InsertPart(t)
  BY <1>0, InstallOnly
<1>2. InsertPart(t) => pc'[t] = "install" /\ gen' = gen
  BY <1>0 DEF InsertPart, Goto
<1>3. Commit(t) => pc[t] = "install"
  BY DEF Commit
<1>4. ASSUME pc[t] = "install", gen[t] = 0 PROVE Commit(t)
  <2>1. ~ Abandon(t)
    BY <1>4 DEF Abandon, Trailer, FlagsInv
  <2>2. ~ (WriteBatch(t) \/ StartMaintenance(t) \/ InsertPart(t) \/ Evacuate(t) \/ Finalize(t))
    BY <1>4 DEF WriteBatch, StartMaintenance, InsertPart, Evacuate, Finalize
  <2>3. ~ (Unclaim(t) \/ Scan(t) \/ Claim(t) \/ Rewrite(t) \/ ReadFile(t) \/ Release(t))
    BY <1>4 DEF Unclaim, Scan, Claim, Rewrite, ReadFile, Release
  <2>4. ~ (Prune(t) \/ Remove(t))
    BY <1>4 DEF Prune, Remove
  <2> QED BY <2>1, <2>2, <2>3, <2>4 DEF Step
<1> QED BY <1>1, <1>2, <1>3, <1>4 DEF Begun

(* Batches of different threads differ, and no batch comes back.           *)
LEMMA BatchesDiffer ==
  ASSUME CoreInv, NEW t \in Begun, NEW u \in Begun, BatchOf(base[t]) = BatchOf(base[u])
  PROVE  t = u
<1>1. /\ base[t] \in DOMAIN fams /\ base[u] \in DOMAIN fams
      /\ base[t] # 0 /\ (t # u => base[t] # base[u])
  BY DEF Begun, CoreInv, HoldersInv, Working
<1>2. Position(base[t]) = Position(base[u])
  BY DEF BatchOf
<1>3. Position(base[t]) \in Nat
  BY <1>1, FamTypes, FamLocationFacts DEF CoreInv
<1>4. base[t] = base[u]
  BY <1>1, <1>2, <1>3, PlacesDiffer DEF Files
<1> QED BY <1>1, <1>4

(* The batches being written change when one begins and when one is        *)
(* committed.                                                              *)
LEMMA WritingThread ==
  ASSUME CoreInv, AccountsInv, FlagsInv, NEW t \in Threads,
         WriteBatch(t) \/ StartMaintenance(t) \/ Step(t)
  PROVE  /\ InsertPart(t) /\ gen[t] = 0 =>
              /\ BatchOf(base[t])' \in WritingSet'
              /\ WritingSet' = WritingSet \cup {BatchOf(base[t])'}
         /\ Commit(t) /\ gen[t] = 0 =>
              /\ BatchOf(base[t]) \in WritingSet
              /\ WritingSet' = WritingSet \ {BatchOf(base[t])}
         /\ ~ (InsertPart(t) /\ gen[t] = 0) /\ ~ (Commit(t) /\ gen[t] = 0) =>
              WritingSet' = WritingSet
<1> DEFINE S == {BatchOf(base[u]) : u \in Begun \ {t}}
<1>1. S' = S
  <2>1. ASSUME NEW u \in Threads, u # t
        PROVE  /\ u \in Begun' <=> u \in Begun
               /\ u \in Begun => BatchOf(base[u])' = BatchOf(base[u])
    BY <2>1, BegunStays
  <2>2. Begun \subseteq Threads /\ Begun' \subseteq Threads
    BY DEF Begun
  <2>3. (Begun \ {t})' = Begun \ {t}
    BY <2>1, <2>2
  <2> QED BY <2>1, <2>2, <2>3
<1>2. /\ t \in Begun => WritingSet = S \cup {BatchOf(base[t])} /\ BatchOf(base[t]) \in WritingSet
      /\ t \notin Begun => WritingSet = S
  BY DEF WritingSet
<1>3. /\ t \in Begun' => /\ WritingSet' = S' \cup {BatchOf(base[t])'}
                         /\ BatchOf(base[t])' \in WritingSet'
      /\ t \notin Begun' => WritingSet' = S'
  BY DEF WritingSet
<1>4. t \in Begun => BatchOf(base[t]) \notin S
  BY BatchesDiffer
<1> HIDE DEF S
<1>5. ASSUME NEW o \in ObjectIds, Install(t, o)
      PROVE  WritingSet' = WritingSet /\ ~ InsertPart(t) /\ ~ Commit(t)
  <2>1. /\ t \in Begun' <=> t \in Begun
        /\ t \in Begun => BatchOf(base[t])' = BatchOf(base[t])
    BY <1>5, BegunStays
  <2>2. ~ InsertPart(t) /\ ~ Commit(t)
    BY <1>5 DEF Install, InsertPart, Commit
  <2> QED BY <1>1, <1>2, <1>3, <2>1, <2>2
<1>6. ASSUME \A o \in ObjectIds : ~ Install(t, o)
      PROVE  /\ t \in Begun' <=> InsertPart(t) /\ gen[t] = 0
             /\ t \in Begun <=> Commit(t) /\ gen[t] = 0
  BY <1>6, BegunSelf
<1>7. ~ (InsertPart(t) /\ Commit(t))
  BY DEF InsertPart, Commit
<1> QED BY <1>1, <1>2, <1>3, <1>4, <1>5, <1>6, <1>7

(***************************************************************************)
(* The abstract store: the steps of Marble.                                *)
(***************************************************************************)
(* The set of batches is the one of the refinement mapping.                *)
LEMMA WritingMapped ==
  WritingSet = {BatchOf(base[t]) : t \in {u \in Threads : pc[u] = "install" /\ gen[u] = 0}}
BY DEF WritingSet, Begun

(* The same of the state after a step.                                     *)
LEMMA WritingMappedNext ==
  WritingSet' =
    {BatchOf(base[t]) : t \in {u \in Threads : pc[u] = "install" /\ gen[u] = 0}}'
BY DEF WritingSet, Begun

(* A step that changes no version and no batch being written.              *)
LEMMA StoreStutters ==
  ASSUME \A o \in ObjectIds : /\ DurableVersion(o)' = DurableVersion(o)
                              /\ VisibleVersion(o)' = VisibleVersion(o),
         WritingSet' = WritingSet
  PROVE  UNCHANGED Store!storeVars
<1>1. [o \in ObjectIds |-> DurableVersion(o)]' = [o \in ObjectIds |-> DurableVersion(o)]
  OBVIOUS
<1>2. [o \in ObjectIds |-> VisibleVersion(o)]' = [o \in ObjectIds |-> VisibleVersion(o)]
  OBVIOUS
<1> QED BY <1>1, <1>2, WritingMapped, WritingMappedNext DEF Store!storeVars

(* What a thread does between the insertion, the installations and the     *)
(* rename shows in no version.                                             *)
LEMMA StoreQuiet ==
  ASSUME StoreInv, StoreInv', NEW t \in Threads,
         WriteBatch(t) \/ StartMaintenance(t) \/ Step(t)
  PROVE  /\ (\A p \in ObjectIds : ~ Install(t, p)) \/ gen[t] # 0 =>
              \A o \in ObjectIds : VisibleVersion(o)' = VisibleVersion(o)
         /\ ~ Commit(t) \/ gen[t] # 0 =>
              \A o \in ObjectIds : DurableVersion(o)' = DurableVersion(o)
<1>0. [Next]_vars
  BY DEF Next
<1>1. ASSUME NEW o \in ObjectIds, (\A p \in ObjectIds : ~ Install(t, p)) \/ gen[t] # 0
      PROVE  VisibleVersion(o)' = VisibleVersion(o)
  <2>1. CASE \A p \in ObjectIds : ~ Install(t, p)
    <3>1. TableVersion(o)' = TableVersion(o)
      BY <2>1, TableStays, VersionStays DEF StoreInv
    <3> QED BY <1>0, <3>1, VisibleStays
  <2>2. ASSUME NEW p \in ObjectIds, Install(t, p), gen[t] # 0
        PROVE  VisibleVersion(o)' = VisibleVersion(o)
    <3>1. t \in sweeping /\ Step(t)
      BY <2>2 DEF StoreInv, BatchesInv, CallInv, CallOk, Step
    <3>2. TableVersion(o)' = TableVersion(o)
      BY <3>1, MaintenanceStep DEF StoreInv
    <3> QED BY <1>0, <3>2, VisibleStays
  <2> QED BY <1>1, <2>1, <2>2
<1>2. ASSUME NEW o \in ObjectIds, ~ Commit(t) \/ gen[t] # 0
      PROVE  DurableVersion(o)' = DurableVersion(o)
  <2>1. latest'[o] = latest[o]
    <3>1. CASE ~ Commit(t)
      BY <3>1, HistoryStays
    <3>2. CASE Commit(t) /\ gen[t] # 0
      BY <3>2 DEF Commit, Rename
    <3> QED BY <1>2, <3>1, <3>2
  <2> QED BY <1>0, <2>1, DurableStays
<1> QED BY <1>1, <1>2

(* Taking an LSN for a new batch begins it: its stamp is above all others. *)
LEMMA StoreBegin ==
  ASSUME StoreInv, StoreInv', NEW t \in Threads, InsertPart(t), gen[t] = 0
  PROVE  Store!StoreNext
<1>0. TypeOK /\ CoreInv /\ AccountsInv /\ Step(t)
  BY DEF StoreInv, CoreInv, Step
<1>1. PICK part, objs, f : Inserts(t, part, objs, f)
  BY <1>0, InsertFacts
<1>2. /\ base'[t] = f /\ fams'[f].objs = objs /\ DOMAIN objs = part /\ part # {}
      /\ part \subseteq ObjectIds /\ objs \in [part -> Entry]
      /\ Position(f) = next_file_lsn /\ next_file_lsn \in Nat
      /\ DataLen(objs) \in Nat /\ next_file_lsn + DataLen(objs) < NewWriteBatchBit
  BY <1>0, <1>1 DEF Inserts, TypeOK, FileMapTypeOK
<1>3. PICK b : b = BatchOf(base[t])'
  OBVIOUS
<1>4. b = [stamp |-> next_file_lsn, del |-> [o \in part |-> objs[o].del]]
  BY <1>2, <1>3 DEF BatchOf
<1>5. b \in Store!Batch
  <2>1. next_file_lsn \in 1 .. NewWriteBatchBit
    BY <1>2, BitAssumption DEF StoreInv, CoreInv, FilesInv
  <2>2. [o \in part |-> objs[o].del] \in [part -> BOOLEAN]
    BY <1>2 DEF Entry
  <2>3. [o \in part |-> objs[o].del] \in UNION {[ids -> BOOLEAN] : ids \in (SUBSET ObjectIds) \ {{}}}
    BY <1>2, <2>2
  <2> QED BY <1>4, <2>1, <2>3 DEF Store!Batch
<1>6. b \in WritingSet' /\ WritingSet' = WritingSet \cup {b}
  BY <1>0, <1>3, WritingThread DEF StoreInv
<1>7. ASSUME NEW c \in WritingSet PROVE c.stamp < b.stamp
  <2>1. PICK u \in Begun : c = BatchOf(base[u])
    BY DEF WritingSet
  <2>2. base[u] \in Files
    BY <2>1 DEF Begun, CoreInv, HoldersInv, Working, Files, StoreInv
  <2>3. Position(base[u]) < next_file_lsn
    BY <2>2, FilesBehind DEF CoreInv, StoreInv
  <2> QED BY <1>4, <2>1, <2>3 DEF BatchOf
<1>8. ASSUME NEW o \in ObjectIds
      PROVE  VisibleVersion(o).stamp < b.stamp /\ DurableVersion(o).stamp < b.stamp
  <2>1. /\ DurableVersion(o).stamp = order[latest[o]]
        /\ VisibleVersion(o).stamp = order[TableVersion(o)]
        /\ order[latest[o]] \in Nat /\ order[TableVersion(o)] \in Nat
        /\ order[latest[o]] <= order[TableVersion(o)]
    BY VersionStamps
  <2>2. order[TableVersion(o)] < next_file_lsn
    <3>1. CASE TableVersion(o) = 0
      BY <1>2, <3>1 DEF StoreInv, OrderInv, CoreInv, FilesInv
    <3>2. CASE TableVersion(o) # 0
      <4>1. PICK h \in DOMAIN fams : h \in Files /\ order[TableVersion(o)] <= Position(h)
        BY <3>2, VersionPlace DEF StoreInv
      <4>2. Position(h) < next_file_lsn /\ Position(h) \in Nat
        BY <4>1, FilesBehind DEF CoreInv, StoreInv
      <4> QED BY <1>2, <2>1, <4>1, <4>2
    <3> QED BY <3>1, <3>2
  <2> QED BY <1>2, <1>4, <2>1, <2>2
<1>9. \A o \in ObjectIds : /\ DurableVersion(o)' = DurableVersion(o)
                           /\ VisibleVersion(o)' = VisibleVersion(o)
  <2>1. ~ Commit(t) /\ \A p \in ObjectIds : ~ Install(t, p)
    BY DEF InsertPart, Commit, Install
  <2> QED BY <1>0, <2>1, StoreQuiet
<1>10. Store!Begin(b)
  <2>1. [o \in ObjectIds |-> DurableVersion(o)]' = [o \in ObjectIds |-> DurableVersion(o)]
    BY <1>9
  <2>2. [o \in ObjectIds |-> VisibleVersion(o)]' = [o \in ObjectIds |-> VisibleVersion(o)]
    BY <1>9
  <2> QED BY <1>6, <1>7, <1>8, <2>1, <2>2, WritingMapped, WritingMappedNext DEF Store!Begin
<1>11. \E c \in WritingSet' : c \in Store!Batch /\ Store!Begin(c)
  BY <1>5, <1>6, <1>10
<1> QED BY <1>11, WritingMappedNext DEF Store!StoreNext

(* While its file is being installed a new batch has the place of its file *)
(* as its stamp, and the rewritten files are below it.                     *)
LEMMA BatchPlace ==
  ASSUME StoreInv, NEW t \in Begun
  PROVE  LET f == base[t]
         IN  /\ f \in DOMAIN fams /\ t \notin sweeping /\ IsNew(f) /\ Position(f) \in Nat
             /\ BatchOf(f).stamp = Position(f) /\ Position(f) >= 1
             /\ DOMAIN BatchOf(f).del = DOMAIN fams[f].objs
             /\ \A o \in DOMAIN fams[f].objs :
                  /\ order[fams[f].objs[o].val] = Position(f)
                  /\ fams[f].objs[o].val \in 1 .. calls
                  /\ BatchOf(f).del[o] = fams[f].objs[o].del
                  /\ Written(o, fams[f].objs[o].val, fams[f].objs[o].del)
                  /\ fams[f].objs[o].del \in BOOLEAN
             /\ \A g \in DOMAIN fams : Position(f) <= Position(g) => IsNew(g)
<1>1. PICK f : f = base[t]
  OBVIOUS
<1>2. t \in Threads /\ pc[t] = "install" /\ gen[t] = 0
  BY DEF Begun
<1>3. f \in DOMAIN fams /\ f \in Files /\ ObjsOf(f) = fams[f].objs
  BY <1>1, <1>2 DEF StoreInv, CoreInv, HoldersInv, Working, Files, ObjsOf
<1>4. t \notin sweeping
  BY <1>2 DEF StoreInv, BatchesInv, CallInv, CallOk, Writing, Working
<1>5. IsNew(f) /\ \A g \in Files : ~ IsNew(g) => Position(g) < Position(f)
  BY <1>1, <1>2, <1>4 DEF StoreInv, RecoveryInv, PlacesInv, PlaceOk, Working
<1>6. Position(f) \in Nat /\ Position(f) >= 1
  BY <1>3, FilesBehind DEF StoreInv, CoreInv, FilesInv, Placed
<1>7. /\ BatchOf(f).stamp = Position(f) /\ DOMAIN BatchOf(f).del = DOMAIN fams[f].objs
      /\ \A o \in DOMAIN fams[f].objs : BatchOf(f).del[o] = fams[f].objs[o].del
  BY DEF BatchOf
<1>8. \A o \in DOMAIN fams[f].objs : fams[f].objs[o].del \in BOOLEAN
  BY <1>3, FamTypes DEF StoreInv, CoreInv
<1>9. ASSUME NEW o \in DOMAIN fams[f].objs
      PROVE  /\ order[fams[f].objs[o].val] = Position(f)
             /\ fams[f].objs[o].val \in 1 .. calls
             /\ Written(o, fams[f].objs[o].val, fams[f].objs[o].del)
  BY <1>3, <1>5 DEF StoreInv, OrderInv, Ordered, Written, HasEntry
<1>10. ASSUME NEW g \in DOMAIN fams, Position(f) <= Position(g) PROVE IsNew(g)
  <2>1. g \in Files /\ Position(g) \in Nat
    BY <1>10, FamTypes, FamLocationFacts DEF Files, StoreInv, CoreInv
  <2> QED BY <1>5, <1>6, <1>10, <2>1
<1> QED BY <1>1, <1>3, <1>4, <1>5, <1>6, <1>7, <1>8, <1>9, <1>10

(* fetch_max shows an object of a new batch, if nothing later is visible.  *)
LEMMA StoreShow ==
  ASSUME StoreInv, StoreInv', NEW t \in Threads, NEW o \in ObjectIds, Install(t, o),
         gen[t] = 0
  PROVE  Store!StoreNext
<1>0. /\ CoreInv /\ AccountsInv /\ BatchesInv /\ PlacesInv /\ OrderInv /\ Step(t) /\ [Next]_vars
      /\ WriteBatch(t) \/ StartMaintenance(t) \/ Step(t)
  BY DEF StoreInv, RecoveryInv, Step, Next
<1>1. t \in Begun
  BY DEF Install, Begun
<1>2. PICK f, b : f = base[t] /\ b = BatchOf(base[t])
  OBVIOUS
<1>3. /\ f \in DOMAIN fams /\ t \notin sweeping /\ IsNew(f) /\ Position(f) \in Nat
      /\ b.stamp = Position(f) /\ Position(f) >= 1 /\ DOMAIN b.del = DOMAIN fams[f].objs
      /\ \A p \in DOMAIN fams[f].objs :
           /\ order[fams[f].objs[p].val] = Position(f)
           /\ fams[f].objs[p].val \in 1 .. calls
           /\ b.del[p] = fams[f].objs[p].del
           /\ Written(p, fams[f].objs[p].val, fams[f].objs[p].del)
           /\ fams[f].objs[p].del \in BOOLEAN
      /\ \A g \in DOMAIN fams : Position(f) <= Position(g) => IsNew(g)
  BY <1>1, <1>2, BatchPlace
<1>4. /\ OwnedBy(f, o, At(f, o)) /\ o \in DOMAIN fams[f].objs
      /\ \A p \in ObjectIds : p # o => location_table'[p] = location_table[p]
      /\ location_table'[o] = location_table[o] \/ location_table'[o] = At(f, o)
  BY <1>0, <1>2, InstallFacts DEF OwnedBy
<1>5. /\ VisibleVersion(o).stamp = order[TableVersion(o)] /\ order[TableVersion(o)] \in Nat
  BY VersionStamps
<1>6. ASSUME NEW p \in ObjectIds, p # o PROVE VisibleVersion(p)' = VisibleVersion(p)
  <2>1. TableVersion(p)' = TableVersion(p)
    BY <1>0, <1>4, <1>6, VersionStays DEF StoreInv
  <2> QED BY <1>0, <2>1, VisibleStays
<1>7. ASSUME location_table'[o] = location_table[o]
      PROVE  VisibleVersion(o)' = Store!Apply(b, o, VisibleVersion(o))
  <2>1. VisibleVersion(o)' = VisibleVersion(o)
    <3>1. TableVersion(o)' = TableVersion(o)
      BY <1>0, <1>7, VersionStays DEF StoreInv
    <3> QED BY <1>0, <3>1, VisibleStays
  <2>2. location_table[o] # Null
    <3>1. At(f, o) \in Nat /\ At(f, o) # Null /\ o \in DOMAIN location_table
      BY <1>0, <1>3, <1>4, AtPositive DEF CoreInv, TypeOK
    <3>2. FetchMax(o, At(f, o))
      BY <1>2 DEF Install, At
    <3>3. ~ (location_table[o] < At(f, o))
      BY <1>7, <3>1, <3>2 DEF FetchMax, FetchMaxSucceeds
    <3> QED BY <3>1, <3>3
  <2>3. PICK h \in DOMAIN fams : OwnedBy(h, o, location_table[o])
    BY <1>0, <2>2 DEF AccountsInv, LocationsInv, Backed
  <2>4. Position(f) < Position(h) /\ Position(h) \in Nat
    BY <1>0, <1>2, <1>3, <1>7, <2>3, InstallPlaces
  <2>5. IsNew(h) /\ h \in Files /\ ObjsOf(h) = fams[h].objs /\ o \in DOMAIN fams[h].objs
    BY <1>3, <2>3, <2>4 DEF Files, ObjsOf, OwnedBy
  <2>6. order[TableVersion(o)] = Position(h)
    BY <1>0, <2>3, <2>5, CoreVersions DEF VersionsRead, OrderInv, Ordered
  <2>7. Store!Apply(b, o, VisibleVersion(o)) = VisibleVersion(o)
    BY <1>3, <1>5, <2>4, <2>6 DEF Store!Apply
  <2> QED BY <2>1, <2>7
<1>8. ASSUME location_table'[o] # location_table[o]
      PROVE  VisibleVersion(o)' = Store!Apply(b, o, VisibleVersion(o))
  <2>1. order[TableVersion(o)] < Position(f)
    <3>1. CASE TableVersion(o) = 0
      BY <1>0, <1>3, <3>1 DEF OrderInv
    <3>2. CASE TableVersion(o) # 0
      <4>1. PICK h \in DOMAIN fams : /\ OwnedBy(h, o, location_table[o])
                                     /\ order[TableVersion(o)] <= Position(h)
        BY <1>0, <3>2, VersionPlace
      <4>2. Position(h) < Position(f) /\ Position(h) \in Nat
        BY <1>0, <1>2, <1>8, <4>1, InstallPlaces
      <4> QED BY <1>3, <1>5, <4>1, <4>2
    <3> QED BY <3>1, <3>2
  <2>2. Store!Apply(b, o, VisibleVersion(o))
          = [stamp |-> Position(f), del |-> fams[f].objs[o].del]
    BY <1>3, <1>4, <1>5, <2>1 DEF Store!Apply
  <2>3. OwnedBy(f, o, location_table[o])'
    <3>1. fams' = fams
      BY DEF Install
    <3> QED BY <1>3, <1>4, <1>8, <3>1 DEF OwnedBy, At
  <2>4. location_table'[o] # Null /\ FamFor(fams', location_table'[o]) = f
    <3>1. fams' = fams /\ location_table'[o] = At(f, o)
      BY <1>4, <1>8 DEF Install
    <3>2. FamFor(fams, At(f, o)) = f
      BY <1>0, <1>4, OwnerIsFamFor DEF CoreInv
    <3>3. At(f, o) # Null
      BY <1>0, <1>3, <1>4, AtPositive
    <3> QED BY <3>1, <3>2, <3>3
  <2>5. VisibleVersion(o)' = [stamp |-> order'[fams'[f].objs[o].val], del |-> fams'[f].objs[o].del]
    BY <2>4 DEF VisibleVersion, VersionOf
  <2>6. order' = order /\ fams' = fams
    BY DEF Install, history
  <2> QED BY <1>3, <1>4, <2>2, <2>5, <2>6
<1>9. VisibleVersion(o)' = Store!Apply(b, o, VisibleVersion(o))
  BY <1>7, <1>8
<1>10. /\ \A p \in ObjectIds : DurableVersion(p)' = DurableVersion(p)
       /\ WritingSet' = WritingSet /\ b \in WritingSet
  <2>1. ~ Commit(t) /\ ~ InsertPart(t)
    BY DEF Install, Commit, InsertPart
  <2>2. b \in WritingSet
    BY <1>1, <1>2 DEF WritingSet
  <2> QED BY <1>0, <2>1, <2>2, StoreQuiet, WritingThread DEF StoreInv
<1>11. Store!Show(b, o)
  <2>1. [p \in ObjectIds |-> DurableVersion(p)]' = [p \in ObjectIds |-> DurableVersion(p)]
    BY <1>10
  <2> DEFINE seen == [p \in ObjectIds |-> VisibleVersion(p)]
  <2>2. seen' = [seen EXCEPT ![o] = Store!Apply(b, o, @)]
    BY <1>6, <1>9
  <2> QED BY <1>10, <2>1, <2>2, WritingMapped, WritingMappedNext DEF Store!Show
<1>12. b \in WritingSet /\ o \in DOMAIN b.del /\ Store!Show(b, o)
  BY <1>3, <1>4, <1>10, <1>11
<1> QED BY <1>12, WritingMapped DEF Store!StoreNext

(* The rename makes a new batch durable as a whole, after all of it was    *)
(* made visible.                                                           *)
LEMMA StoreCommit ==
  ASSUME StoreInv, StoreInv', NEW t \in Threads, Commit(t), gen[t] = 0
  PROVE  Store!StoreNext
<1>0. /\ CoreInv /\ AccountsInv /\ BatchesInv /\ OrderInv /\ TableInv /\ Step(t) /\ [Next]_vars
  BY DEF StoreInv, RecoveryInv, Step, Next
<1>1. t \in Begun
  BY DEF Commit, Begun
<1>2. PICK f, b : f = base[t] /\ b = BatchOf(base[t])
  OBVIOUS
<1>3. /\ f \in DOMAIN fams /\ IsNew(f) /\ Position(f) \in Nat
      /\ b.stamp = Position(f) /\ DOMAIN b.del = DOMAIN fams[f].objs
      /\ \A p \in DOMAIN fams[f].objs :
           /\ order[fams[f].objs[p].val] = Position(f)
           /\ fams[f].objs[p].val \in 1 .. calls
           /\ b.del[p] = fams[f].objs[p].del
           /\ Written(p, fams[f].objs[p].val, fams[f].objs[p].del)
           /\ fams[f].objs[p].del \in BOOLEAN
      /\ \A g \in DOMAIN fams : Position(f) <= Position(g) => IsNew(g)
  BY <1>1, <1>2, BatchPlace
<1>4. /\ Trailer(t) = DOMAIN fams[f].objs /\ todo[t] = {} /\ pc[t] = "install"
      /\ order' = order /\ DOMAIN fams[f].objs \subseteq ObjectIds
      /\ \A o \in ObjectIds :
           latest'[o] = IF /\ o \in DOMAIN fams[f].objs
                           /\ order[latest[o]] < order[fams[f].objs[o].val]
                        THEN fams[f].objs[o].val ELSE latest[o]
  <2>1. Trailer(t) = DOMAIN fams[f].objs
    BY <1>2 DEF Trailer
  <2>2. DOMAIN fams[f].objs \subseteq ObjectIds
    BY <1>0, <1>3, FamTypes DEF CoreInv
  <2> QED BY <1>2, <2>1, <2>2 DEF Commit, Rename
<1>5. ASSUME NEW o \in DOMAIN fams[f].objs PROVE b.stamp <= VisibleVersion(o).stamp
  <2>1. o \in ObjectIds /\ Named(f, o) /\ f \in Files
    BY <1>2, <1>3, <1>4 DEF Named, Tried, Files
  <2>2. PICK h \in DOMAIN fams : OwnedBy(h, o, location_table[o]) /\ Position(f) <= Position(h)
    BY <1>0, <2>1 DEF TableInv
  <2>3. IsNew(h) /\ h \in Files /\ ObjsOf(h) = fams[h].objs /\ o \in DOMAIN fams[h].objs
    BY <1>3, <2>2 DEF Files, ObjsOf, OwnedBy
  <2>4. order[TableVersion(o)] = Position(h)
    BY <1>0, <2>1, <2>2, <2>3, CoreVersions DEF VersionsRead, OrderInv, Ordered
  <2>5. VisibleVersion(o).stamp = order[TableVersion(o)]
    BY <2>1, VersionStamps
  <2> QED BY <1>3, <2>2, <2>4, <2>5
<1>6. ASSUME NEW o \in ObjectIds
      PROVE  DurableVersion(o)' = Store!Apply(b, o, DurableVersion(o))
  <2>1. DurableVersion(o).stamp = order[latest[o]]
    BY VersionStamps
  <2>2. CASE o \in DOMAIN fams[f].objs /\ order[latest[o]] < Position(f)
    <3>1. PICK v, d : v = fams[f].objs[o].val /\ d = fams[f].objs[o].del
      OBVIOUS
    <3>2. Store!Apply(b, o, DurableVersion(o)) = [stamp |-> Position(f), del |-> d]
      BY <1>3, <2>1, <2>2, <3>1 DEF Store!Apply
    <3>3. v \in 1 .. calls /\ calls \in Nat /\ order[v] = Position(f) /\ Written(o, v, d)
      BY <1>0, <1>3, <2>2, <3>1 DEF CoreInv, TypeOK
    <3>4. latest'[o] = v
      BY <1>3, <1>4, <2>2, <3>1
    <3>5. PICK x : x = DurableVersion(o)'
      OBVIOUS
    <3>6. IsVersion(o, v, x)'
      BY <3>4, <3>5, VersionsAbstractedNext DEF StoreInv, Abstracted
    <3>7. PICK e \in BOOLEAN : Written(o, v, e)' /\ x = [stamp |-> order'[v], del |-> e]
      BY <3>3, <3>6 DEF IsVersion
    <3>8. Written(o, v, e)
      BY <1>0, <3>3, <3>7, WrittenNext
    <3>9. d = e
      BY <3>3, <3>8 DEF StoreInv, FlagsInv
    <3> QED BY <1>4, <3>2, <3>3, <3>5, <3>7, <3>9
  <2>3. CASE ~ (o \in DOMAIN fams[f].objs /\ order[latest[o]] < Position(f))
    <3>1. latest'[o] = latest[o]
      BY <1>3, <1>4, <2>3
    <3>2. DurableVersion(o)' = DurableVersion(o)
      BY <1>0, <3>1, DurableStays
    <3>3. Store!Apply(b, o, DurableVersion(o)) = DurableVersion(o)
      BY <1>3, <2>1, <2>3 DEF Store!Apply
    <3> QED BY <3>2, <3>3
  <2> QED BY <2>2, <2>3
<1>7. /\ \A o \in ObjectIds : VisibleVersion(o)' = VisibleVersion(o)
      /\ WritingSet' = WritingSet \ {b} /\ b \in WritingSet
  <2>1. \A p \in ObjectIds : ~ Install(t, p)
    BY DEF Install, Commit
  <2> QED BY <1>0, <1>2, <2>1, StoreQuiet, WritingThread DEF StoreInv
<1>8. Store!MakeDurable(b)
  <2>1. [p \in ObjectIds |-> VisibleVersion(p)]' = [p \in ObjectIds |-> VisibleVersion(p)]
    BY <1>7
  <2> DEFINE kept == [p \in ObjectIds |-> DurableVersion(p)]
  <2>2. kept' = [p \in ObjectIds |-> Store!Apply(b, p, kept[p])]
    BY <1>6
  <2>3. \A p \in DOMAIN b.del : p \in ObjectIds /\ b.stamp <= VisibleVersion(p).stamp
    BY <1>3, <1>4, <1>5
  <2> QED BY <1>7, <2>1, <2>2, <2>3, WritingMapped, WritingMappedNext DEF Store!MakeDurable
<1> QED BY <1>7, <1>8, WritingMapped DEF Store!StoreNext

(* With no call in progress the table has what was committed.              *)
Agreed ==
  (\A t \in Threads : pc[t] = "idle") => \A o \in ObjectIds : TableVersion(o) = latest[o]

(* The invariants of Marble imply it.                                      *)
LEMMA IdleAgreed == StoreInv => Agreed
<1> SUFFICES ASSUME StoreInv PROVE Agreed
  OBVIOUS
<1>1. QuiescentAgreement /\ RecoversCommitted
  BY IdleAgreement, CommitRecovers DEF StoreInv, RecoveryInv
<1> QED BY <1>1 DEF Agreed, QuiescentAgreement, RecoversCommitted

(* The same of the state after a step.                                     *)
LEMMA IdleAgreedNext == StoreInv' => Agreed'
BY IdleAgreed, PTL

(* A crash, and a restart, bring back the durable versions.                *)
LEMMA StoreRestart ==
  ASSUME StoreInv, StoreInv', CrashRecover \/ CloseAndReopen
  PROVE  Store!StoreNext
<1>0. [Next]_vars /\ latest' = latest /\ \A u \in Threads : pc'[u] = "idle"
  BY DEF Next, CrashRecover, CloseAndReopen, ResetThreads, history
<1>1. WritingSet' = {}
  BY <1>0 DEF WritingSet, Begun
<1>2. \A o \in ObjectIds : DurableVersion(o)' = DurableVersion(o)
  BY <1>0, DurableStays
<1>3. ASSUME NEW o \in ObjectIds PROVE VisibleVersion(o)' = DurableVersion(o)
  <2>1. PICK v, w, x : v = latest[o] /\ w = DurableVersion(o) /\ x = VisibleVersion(o)'
    OBVIOUS
  <2>2. TableVersion(o)' = v
    BY <1>0, <2>1, IdleAgreedNext DEF Agreed
  <2>3. IsVersion(o, v, w) /\ Settled(v)
    BY <2>1, VersionsAbstracted, TableSettled DEF StoreInv, Abstracted
  <2>4. IsVersion(o, v, x)'
    BY <2>1, <2>2, VersionsAbstractedNext DEF StoreInv, Abstracted
  <2> QED BY <1>0, <2>1, <2>3, <2>4, VersionKept
<1>4. Store!Crash
  <2>1. [o \in ObjectIds |-> VisibleVersion(o)]' = [o \in ObjectIds |-> DurableVersion(o)]
    BY <1>3
  <2>2. [o \in ObjectIds |-> DurableVersion(o)]' = [o \in ObjectIds |-> DurableVersion(o)]
    BY <1>2
  <2> QED BY <1>1, <2>1, <2>2, WritingMappedNext DEF Store!Crash
<1> QED BY <1>4 DEF Store!StoreNext

(* Every step of Marble is a step of the abstract store, or does not show. *)
LEMMA StoreNextMaps ==
  ASSUME StoreInv, StoreInv', [Next]_vars
  PROVE  [Store!StoreNext]_(Store!storeVars)
<1>1. ASSUME NEW t \in Threads, WriteBatch(t) \/ StartMaintenance(t) \/ Step(t)
      PROVE  [Store!StoreNext]_(Store!storeVars)
  <2>1. CASE InsertPart(t) /\ gen[t] = 0
    BY <2>1, StoreBegin
  <2>2. CASE Commit(t) /\ gen[t] = 0
    BY <2>2, StoreCommit
  <2>3. CASE \E o \in ObjectIds : Install(t, o) /\ gen[t] = 0
    BY <2>3, StoreShow
  <2>4. CASE /\ ~ (InsertPart(t) /\ gen[t] = 0) /\ ~ (Commit(t) /\ gen[t] = 0)
             /\ \A o \in ObjectIds : ~ (Install(t, o) /\ gen[t] = 0)
    <3>1. WritingSet' = WritingSet
      BY <1>1, <2>4, WritingThread DEF StoreInv
    <3>2. (\A p \in ObjectIds : ~ Install(t, p)) \/ gen[t] # 0
      BY <2>4
    <3>3. \A o \in ObjectIds : /\ DurableVersion(o)' = DurableVersion(o)
                               /\ VisibleVersion(o)' = VisibleVersion(o)
      BY <1>1, <2>4, <3>2, StoreQuiet
    <3> QED BY <3>1, <3>3, StoreStutters
  <2> QED BY <2>1, <2>2, <2>3, <2>4
<1>2. ASSUME \/ UNCHANGED vars
             \/ \E f \in DOMAIN heap : Unlink(f)
      PROVE  [Store!StoreNext]_(Store!storeVars)
  <2>1. UNCHANGED <<location_table, fams, local, history>>
    BY <1>2 DEF Unlink, vars, shared
  <2>2. /\ \A o \in ObjectIds : TableVersion(o)' = TableVersion(o) /\ latest'[o] = latest[o]
        /\ WritingSet' = WritingSet
    BY <2>1 DEF TableVersion, WritingSet, Begun, BatchOf, history, local, inner
  <2>3. \A o \in ObjectIds : /\ DurableVersion(o)' = DurableVersion(o)
                             /\ VisibleVersion(o)' = VisibleVersion(o)
    BY <2>2, DurableStays, VisibleStays
  <2> QED BY <2>2, <2>3, StoreStutters
<1>3. ASSUME CrashRecover \/ CloseAndReopen PROVE [Store!StoreNext]_(Store!storeVars)
  BY <1>3, StoreRestart
<1> QED BY <1>1, <1>2, <1>3 DEF Next

(* Marble implements the abstract store where its callers keep write_batch *)
(* and maintenance apart: a batch becomes durable as a whole at the rename *)
(* and after it is visible, later batches win in both maps, a restart      *)
(* brings back exactly the durable versions, and no step of maintenance,   *)
(* pruning, unlinking or recovery shows to callers at all.                 *)
THEOREM StoreImplemented == ASSUME CallersExclude PROVE Spec => ImplementsObjectStore
<1>1. StoreInv /\ StoreInv' /\ [Next]_vars => [Store!StoreNext]_(Store!storeVars)
  BY StoreNextMaps
<1>2. Spec => []StoreInv
  BY CoreInduction, AccountsInduction, BatchesInduction, KnownInduction, OrderInduction,
     RecoveryInduction, FlagsInduction, PTL DEF StoreInv
<1> QED BY <1>1, <1>2, StoreInitMaps, PTL DEF Spec, ImplementsObjectStore, Store!StoreSpec
=============================================================================
