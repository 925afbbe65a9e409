---------------------------- MODULE PowerProofs ----------------------------
(***************************************************************************)
(* Proofs about power failures: PowerLossAtomic and PromisesKept, for      *)
(* every set of threads, every finite set of object ids, every             *)
(* configuration and every value of the bounds, when callers keep          *)
(* write_batch and maintenance apart and the file system keeps the order   *)
(* of operations on a directory.                                           *)
(*                                                                         *)
(* On such a file system every directory that a power failure may leave is *)
(* one that was there at some moment since the last fsync, short of the    *)
(* unlinks then under way.  At that moment it held every version that was  *)
(* committed (AllSnapshots).  The invariant remembers what stays true of   *)
(* it (Readable), so that the store opened over it satisfies all the       *)
(* invariants of Marble again.                                             *)
(***************************************************************************)
EXTENDS MarblePower, MarbleRecovery

(***************************************************************************)
(* The inductive invariant.                                                *)
(***************************************************************************)
(* The invariants of Marble.                                               *)
StateInv ==
  CoreInv /\ AccountsInv /\ BatchesInv /\ KnownInv /\ OrderInv /\ RecoveryInv

(* A call of write_batch whose file has not been given its place.          *)
Fresh(c) ==
  \E t \in Threads \ sweeping :
    pc[t] = "insert" /\ \E o \in DOMAIN batch[t] : batch[t][o].val = c

(* A call whose place in LSN order is settled.                             *)
Assigned(c) == c \in 0 .. calls /\ ~ Fresh(c)

(* A directory over which the store can be opened: its files hold versions *)
(* of calls whose files have no higher place.                              *)
Readable(d) ==
  /\ Directory(d) /\ Complete(d)
  /\ \A f \in DOMAIN d : \A o \in DOMAIN d[f].objs :
       LET c == d[f].objs[o].val
       IN  /\ c # 0 /\ Assigned(c) /\ order[c] <= Position(f)
           /\ IsNew(f) => order[c] = Position(f)

(* Versions, one for each object, that are no later than the committed     *)
(* ones.                                                                   *)
Settled(v) ==
  /\ v \in [ObjectIds -> Nat]
  /\ \A o \in ObjectIds : Assigned(v[o]) /\ order[v[o]] <= order[latest[o]]

(* What a call of write_batch writes: one file with the ids of its batch,  *)
(* committed for all of them at once.                                      *)
CallWrites(t, c) ==
  /\ c \in 1 .. calls /\ wrote[c] = DOMAIN batch[t]
  /\ \A o \in DOMAIN batch[t] : batch[t][o].val = c
  /\ pc[t] = "insert" => rest[t] = DOMAIN batch[t]
  /\ pc[t] \in Working => DOMAIN fams[base[t]].objs = DOMAIN batch[t]
  /\ pc[t] \in {"evacuate", "unclaim"} =>
       \A o \in DOMAIN batch[t] : order[c] <= order[latest[o]]

(* Every call of write_batch that is being written does so.                *)
CallsInv == \A t \in Threads :
  t \notin sweeping /\ pc[t] \in Writing =>
    \E c \in 1 .. calls : CallWrites(t, c)

(* The committed versions are atomic.                                      *)
LatestAtomic ==
  \A o, p \in ObjectIds : latest[o] # 0 /\ p \in wrote[latest[o]] =>
    order[latest[o]] <= order[latest[p]]

(* The types of the variables of MarblePower.  What was promised has its   *)
(* place.                                                                  *)
PowerTypeOK ==
  /\ sync_at \in [Threads -> {"no", "batch", "files", "directory"}]
  /\ sync_cursor \in [Threads -> Nat] /\ synced_files \in [Threads -> BOOLEAN]
  /\ DOMAIN pending = Threads
  /\ promised \in [ObjectIds -> Nat]
  /\ \A o \in ObjectIds : Assigned(promised[o])
  /\ DOMAIN wrote = 0 .. MaxCalls

(* The invariant of a store on an ordered file system.                     *)
OrderedInv ==
  /\ StateInv /\ PowerTypeOK /\ CallsInv /\ LatestAtomic
  /\ \A d \in possible : Readable(d)
  /\ Settled(returned) /\ \A t \in Threads : Settled(pending[t])
  /\ PowerLossAtomic

(***************************************************************************)
(* Calls keep their places.                                                *)
(***************************************************************************)
(* Versions of files, and committed ones, have their place.                *)
VersionsAssigned ==
  /\ Assigned(0) /\ order[0] = 0
  /\ \A o \in ObjectIds : Assigned(latest[o])
  /\ \A f \in Files : \A o \in DOMAIN ObjsOf(f) :
       ObjsOf(f)[o].val # 0 /\ Assigned(ObjsOf(f)[o].val)
  /\ \A c : Assigned(c) => c \in 0 .. MaxCalls /\ c \in 0 .. calls /\ order[c] \in Nat

(* The order of the calls implies it.                                      *)
LEMMA OrderAssigned == CoreInv /\ OrderInv => VersionsAssigned
<1> SUFFICES ASSUME CoreInv, OrderInv PROVE VersionsAssigned
  OBVIOUS
<1>1. calls \in 0 .. MaxCalls /\ order \in [0 .. MaxCalls -> Nat] /\ MaxCalls \in Nat
  BY BoundsAssumption DEF CoreInv, TypeOK
<1>2. ASSUME NEW c, Assigned(c)
      PROVE  c \in 0 .. MaxCalls /\ c \in 0 .. calls /\ order[c] \in Nat
  BY <1>1, <1>2 DEF Assigned
<1>3. ASSUME NEW t \in Threads \ sweeping, pc[t] = "insert", NEW o \in DOMAIN batch[t]
      PROVE  batch[t][o].val # 0 /\ Unwritten(batch[t][o].val)
  BY <1>1, <1>3 DEF OrderInv, OwnVersions
<1>4. ~ Fresh(0)
  BY <1>3 DEF Fresh
<1>5. ASSUME NEW o \in ObjectIds PROVE Assigned(latest[o])
  BY <1>3 DEF OrderInv, Assigned, Fresh, Unwritten
<1>6. ASSUME NEW f \in Files, NEW o \in DOMAIN ObjsOf(f)
      PROVE  ObjsOf(f)[o].val # 0 /\ Assigned(ObjsOf(f)[o].val)
  <2>1. ObjsOf(f)[o].val \in 1 .. calls
    BY DEF OrderInv, Ordered
  <2>2. ~ Fresh(ObjsOf(f)[o].val)
    BY <1>3 DEF Fresh, Unwritten
  <2> QED BY <1>1, <2>1, <2>2 DEF Assigned
<1> QED BY <1>1, <1>2, <1>4, <1>5, <1>6 DEF VersionsAssigned, Assigned, OrderInv

(* The same of the state after a step.                                     *)
LEMMA OrderAssignedNext == CoreInv' /\ OrderInv' => VersionsAssigned'
BY OrderAssigned, PTL

(* A step keeps the places of the calls that have one.                     *)
PlacesKept == \A c : Assigned(c) => Assigned(c)' /\ order'[c] = order[c]

(* A thread gives a place only to the call that it is writing.             *)
LEMMA PlacesKeptThread ==
  ASSUME CoreInv, BatchesInv, OrderInv, NEW t \in Threads,
         WriteBatch(t) \/ StartMaintenance(t) \/ Step(t)
  PROVE  PlacesKept
<1> SUFFICES ASSUME NEW c, Assigned(c) PROVE Assigned(c)' /\ order'[c] = order[c]
  BY DEF PlacesKept
<1>0. TypeOK /\ calls \in Nat /\ c \in 0 .. MaxCalls /\ c \in 0 .. calls
  BY BoundsAssumption DEF CoreInv, TypeOK, Assigned
<1>1. CASE InsertPart(t)
  <2>1. /\ \A b \in 0 .. MaxCalls :
              order'[b] = IF gen[t] = 0 /\ \E o \in rest[t] : batch[t][o].val = b
                          THEN next_file_lsn ELSE order[b]
        /\ UNCHANGED <<batch, sweeping, calls>> /\ pc' = [pc EXCEPT ![t] = "install"]
        /\ pc[t] = "insert"
    BY <1>0, <1>1, InsertOrder
  <2>2. rest[t] \subseteq DOMAIN batch[t] /\ pc \in [Threads -> PCs]
    BY <1>0 DEF TypeOK
  <2>3. gen[t] = 0 => t \notin sweeping
    BY <2>1 DEF BatchesInv, CallInv, CallOk, Writing
  <2>4. order'[c] = order[c]
    BY <1>0, <2>1, <2>2, <2>3 DEF Assigned, Fresh
  <2>5. ~ Fresh(c)'
    BY <2>1, <2>2 DEF Assigned, Fresh
  <2> QED BY <1>0, <2>1, <2>4, <2>5 DEF Assigned
<1>2. CASE ~ InsertPart(t)
  <2>1. order' = order /\ (calls' = calls \/ WriteBatch(t))
    BY <1>2, HistoryStays
  <2>2. calls' \in Nat /\ calls <= calls'
    BY <1>0, <2>1 DEF WriteBatch
  <2>3. ASSUME NEW u \in Threads, u \notin sweeping', pc'[u] = "insert",
               NEW o \in DOMAIN batch'[u], batch'[u][o].val = c
        PROVE  FALSE
    <3>1. \/ u \notin sweeping /\ pc[u] = "insert" /\ batch'[u] = batch[u]
          \/ \A p \in DOMAIN batch'[u] : batch'[u][p].val = calls + 1
      BY <1>2, <2>3, WritersStep
    <3> QED BY <1>0, <2>3, <3>1 DEF Assigned, Fresh
  <2>4. ~ Fresh(c)'
    BY <2>3 DEF Fresh
  <2> QED BY <1>0, <2>1, <2>2, <2>4 DEF Assigned
<1> QED BY <1>1, <1>2

(* A restart forgets the calls in progress and gives no places.            *)
LEMMA PlacesKeptReset ==
  ASSUME UNCHANGED <<calls, order>>,
         UNCHANGED <<pc, sweeping, batch>> \/ ResetThreads
  PROVE  PlacesKept
<1>1. CASE UNCHANGED <<pc, sweeping, batch>>
  BY <1>1 DEF PlacesKept, Assigned, Fresh
<1>2. CASE ResetThreads
  <2>1. \A c : ~ Fresh(c)'
    BY <1>2 DEF ResetThreads, Fresh
  <2> QED BY <2>1 DEF PlacesKept, Assigned
<1> QED BY <1>1, <1>2

(* No step of the store takes a place away.                                *)
LEMMA PlacesKeptNext ==
  ASSUME CoreInv, BatchesInv, OrderInv, [Next]_vars
  PROVE  PlacesKept
<1>1. ASSUME NEW f \in DOMAIN heap, Unlink(f) PROVE PlacesKept
  BY <1>1, PlacesKeptReset DEF Unlink, local, bounds, history
<1>2. CASE UNCHANGED vars
  BY <1>2, PlacesKeptReset DEF vars, local, bounds, history
<1>3. CASE CrashRecover \/ CloseAndReopen
  BY <1>3, PlacesKeptReset DEF CrashRecover, CloseAndReopen, history
<1> QED BY <1>1, <1>2, <1>3, PlacesKeptThread DEF Next

(* A committed version is replaced only by a later one.                    *)
LEMMA LatestGrows ==
  ASSUME CoreInv, CoreInv', BatchesInv, OrderInv, OrderInv', [Next]_vars, NEW o \in ObjectIds
  PROVE  order'[latest[o]] = order[latest[o]] /\ order[latest[o]] <= order'[latest'[o]]
<1>1. PlacesKept /\ VersionsAssigned /\ VersionsAssigned'
  BY PlacesKeptNext, OrderAssigned, OrderAssignedNext
<1>2. /\ order'[latest[o]] = order[latest[o]] /\ order[latest[o]] \in Nat
      /\ order'[latest'[o]] \in Nat
  BY <1>1 DEF PlacesKept, VersionsAssigned
<1>3. ASSUME NEW t \in Threads, Commit(t) PROVE order[latest[o]] <= order'[latest'[o]]
  <2>1. order' = order
    BY <1>3 DEF Commit
  <2>2. \/ latest'[o] = latest[o]
        \/ /\ latest'[o] = fams[base[t]].objs[o].val
           /\ order[latest[o]] < order[fams[base[t]].objs[o].val]
    BY <1>3 DEF Commit, Rename
  <2> QED BY <1>2, <2>1, <2>2
<1>4. ASSUME NEW t \in Threads, WriteBatch(t) \/ StartMaintenance(t) \/ Step(t), ~ Commit(t)
      PROVE  latest' = latest
  BY <1>4, HistoryStays
<1>5. ASSUME NEW f \in DOMAIN heap, Unlink(f) PROVE latest' = latest
  BY <1>5 DEF Unlink, history
<1>6. CASE UNCHANGED vars
  BY <1>2, <1>6 DEF vars, history
<1>7. CASE CrashRecover \/ CloseAndReopen
  BY <1>2, <1>7 DEF CrashRecover, CloseAndReopen, history
<1> QED BY <1>2, <1>3, <1>4, <1>5, <1>6, <1>7 DEF Next

(***************************************************************************)
(* The directories that a power failure may leave.                         *)
(***************************************************************************)
(* The heap directory, short of files that decide nothing.                 *)
Snapshot(d) ==
  /\ Kept(d)
  /\ \A o \in ObjectIds : \A g : IsLast(g, o) => g \in DOMAIN d

(* What such a directory is worth: a state predicate, which can be primed. *)
SnapshotsRead ==
  \A d : Snapshot(d) => /\ Readable(d)
                        /\ \A o \in ObjectIds : VersionIn(d, o) = latest[o]

(* Chained ids, those that a trailer leaves out, are in another trailer.   *)
LEMMA HeapComplete ==
  ASSUME CoreInv, AccountsInv, KnownInv, NEW f \in DOMAIN heap, NEW o \in DOMAIN heap[f].objs
  PROVE  ~ Unnamed(o)
<1>1. CASE o \in heap[f].trailer
  BY <1>1 DEF Unnamed
<1>2. CASE o \notin heap[f].trailer
  <2>1. Chained(o)
    BY <1>2 DEF KnownInv, ChainsInv
  <2>2. \E g \in DOMAIN fams : g \in DOMAIN heap /\ o \in heap[g].trailer
    <3>1. \A g \in DOMAIN fams : OwnedBy(g, o, location_table[o]) => g \in DOMAIN fams
      OBVIOUS
    <3>2. Closed(o, DOMAIN fams)
      BY DEF Closed
    <3> QED BY <2>1, <3>1, <3>2 DEF Chained
  <2> QED BY <2>2 DEF Unnamed
<1> QED BY <1>1, <1>2

(* The last file of a snapshot is the last file of all.                    *)
LEMMA SnapshotLast ==
  ASSUME CoreInv, NEW d, Snapshot(d), NEW o \in ObjectIds
  PROVE  /\ Unnamed(o) <=> FilesWith(d, o) = {}
         /\ ~ Unnamed(o) => IsLast(LastFileWith(d, o), o)
<1>1. /\ Directory(d) /\ DOMAIN d \subseteq DOMAIN heap
      /\ \A f \in DOMAIN d : d[f] = heap[f]
  BY KeptDirectory DEF Snapshot, CoreInv, Kept
<1>2. Unnamed(o) => FilesWith(d, o) = {}
  BY <1>1 DEF Unnamed, FilesWith
<1>3. CASE ~ Unnamed(o)
  <2> DEFINE g == LastFileWith(heap, o)
             f == LastFileWith(d, o)
  <2>1. IsLast(g, o)
    BY <1>3, LastExists
  <2>2. g \in FilesWith(d, o)
    BY <1>1, <2>1 DEF Snapshot, IsLast, FilesWith
  <2>3. f \in DOMAIN d /\ o \in d[f].trailer /\ Position(g) <= Position(f)
    BY <1>1, <2>2, LastFileFacts
  <2>4. Position(f) <= Position(g)
    BY <1>1, <2>1, <2>3 DEF IsLast
  <2>5. f = g
    BY <1>1, <2>1, <2>3, <2>4, PlacesDiffer DEF IsLast, Files
  <2> QED BY <1>3, <2>1, <2>2, <2>5
<1> QED BY <1>2, <1>3

(* The store can be opened over a snapshot, and finds there what was       *)
(* committed.                                                              *)
LEMMA AllSnapshots == StateInv => SnapshotsRead
<1> SUFFICES ASSUME StateInv, NEW d, Snapshot(d)
             PROVE  Readable(d) /\ \A o \in ObjectIds : VersionIn(d, o) = latest[o]
  BY DEF SnapshotsRead
<1> USE DEF StateInv
<1>1. /\ Directory(d) /\ DOMAIN d \subseteq DOMAIN heap
      /\ \A f \in DOMAIN d : d[f] = heap[f]
  BY KeptDirectory DEF Snapshot, CoreInv, Kept
<1>2. \A f \in DOMAIN d : DOMAIN d[f].objs \subseteq ObjectIds
  BY <1>1 DEF Directory
<1>3. Complete(d)
  BY <1>1, <1>2, HeapComplete, SnapshotLast DEF Complete
<1>4. ASSUME NEW f \in DOMAIN d, NEW o \in DOMAIN d[f].objs
      PROVE  LET c == d[f].objs[o].val
             IN  /\ c # 0 /\ Assigned(c) /\ order[c] <= Position(f)
                 /\ IsNew(f) => order[c] = Position(f)
  <2>1. f \in Files /\ d[f].objs = ObjsOf(f)
    BY <1>1 DEF Files, CoreInv, FilesInv
  <2>2. VersionsAssigned
    BY OrderAssigned
  <2>3. Ordered(f)
    BY <2>1 DEF OrderInv
  <2> QED BY <2>1, <2>2, <2>3 DEF VersionsAssigned, Ordered
<1>5. ASSUME NEW o \in ObjectIds PROVE VersionIn(d, o) = latest[o]
  <2>1. CommittedOk(o)
    BY DEF RecoveryInv, CommitInv
  <2>2. CASE Unnamed(o)
    BY <2>1, <2>2, SnapshotLast DEF CommittedOk, VersionIn
  <2>3. CASE ~ Unnamed(o)
    <3>1. IsLast(LastFileWith(d, o), o) /\ FilesWith(d, o) # {}
      BY <2>3, SnapshotLast
    <3>2. LastFileWith(d, o) \in DOMAIN d /\ LastFileWith(d, o) \in DOMAIN heap
      BY <1>1, <3>1, LastFileFacts
    <3>3. heap[LastFileWith(d, o)].objs[o].val = latest[o]
      BY <2>1, <3>1, <3>2 DEF CommittedOk
    <3> QED BY <1>1, <3>1, <3>2, <3>3 DEF VersionIn
  <2> QED BY <2>2, <2>3
<1> QED BY <1>1, <1>3, <1>4, <1>5 DEF Readable

(* The same of the state after a step.                                     *)
LEMMA AllSnapshotsNext == StateInv' => SnapshotsRead'
BY AllSnapshots, PTL

(* A directory stays readable: the versions in it keep their places.       *)
LEMMA ReadableStays ==
  ASSUME PlacesKept, NEW d, Readable(d)
  PROVE  Readable(d)'
<1>1. Directory(d)' /\ Complete(d)'
  BY DEF Readable, Directory, Complete, Disjoint, FilesWith, Position
<1>2. ASSUME NEW f \in DOMAIN d, NEW o \in DOMAIN d[f].objs
      PROVE  LET c == d[f].objs[o].val
             IN  /\ c # 0 /\ Assigned(c)' /\ order'[c] <= Position(f)
                 /\ IsNew(f) => order'[c] = Position(f)
  BY DEF Readable, PlacesKept
<1> QED BY <1>1, <1>2 DEF Readable

(* What recovery restores from a directory is a version of one of its      *)
(* files, or none.                                                         *)
LEMMA VersionInFacts ==
  ASSUME NEW d, Readable(d), VersionsAssigned, NEW o \in ObjectIds
  PROVE  Assigned(VersionIn(d, o))
<1>1. CASE FilesWith(d, o) = {}
  BY <1>1 DEF VersionIn, VersionsAssigned
<1>2. CASE FilesWith(d, o) # {}
  <2> DEFINE f == LastFileWith(d, o)
  <2>1. Directory(d)
    BY DEF Readable
  <2>2. f \in DOMAIN d /\ o \in d[f].trailer
    BY <1>2, <2>1, LastFileFacts
  <2>3. o \in DOMAIN d[f].objs
    BY <2>1, <2>2, DirectoryTypes
  <2> QED BY <1>2, <2>2, <2>3 DEF VersionIn, Readable
<1> QED BY <1>1, <1>2

(* A step that a power failure may find done or not, and whose unlinks it  *)
(* may find done in part, leaves only snapshots, of the directory before   *)
(* it or after it.                                                         *)
LEMMA RecordedThread ==
  ASSUME CoreInv, KnownInv, NEW t \in Threads, WriteBatch(t) \/ StartMaintenance(t) \/ Step(t),
         NEW gone \in SUBSET (DOMAIN heap \ DOMAIN heap'), NEW d, d = Redo(heap, gone)
  PROVE  Snapshot(d) \/ Snapshot(d)'
<1>1. HeapChange(t)
  BY HeapEffect
<1>2. CASE heap' = heap
  <2>1. DOMAIN d = DOMAIN heap /\ \A f \in DOMAIN d : d[f] = heap[f]
    BY <1>2 DEF Redo
  <2>2. Kept(d)
    BY <2>1 DEF Kept
  <2>3. \A o \in ObjectIds : \A g : IsLast(g, o) => g \in DOMAIN d
    BY <2>1 DEF IsLast
  <2> QED BY <2>2, <2>3 DEF Snapshot
<1>3. CASE heap' # heap
  <2>1. /\ Commit(t) /\ DOMAIN heap' = DOMAIN heap \cup {base[t]}
        /\ \A g \in DOMAIN heap : g # base[t] => heap'[g] = heap[g]
    BY <1>1, <1>3 DEF HeapChange
  <2>2. base[t] \notin DOMAIN heap
    BY <2>1 DEF Commit, KnownInv, InstallInv
  <2>3. DOMAIN d = DOMAIN heap' /\ \A f \in DOMAIN d : d[f] = heap'[f]
    BY <2>1, <2>2 DEF Redo
  <2>4. Kept(d)'
    BY <2>3 DEF Kept
  <2>5. (\A o \in ObjectIds : \A g : IsLast(g, o) => g \in DOMAIN d)'
    BY <2>3 DEF IsLast
  <2> QED BY <2>4, <2>5 DEF Snapshot
<1> QED BY <1>2, <1>3

(* Files that leave the directory are nobody's last.                       *)
LEMMA RecordedUnlinks ==
  ASSUME DOMAIN heap' \subseteq DOMAIN heap,
         \A o \in ObjectIds : \A g : IsLast(g, o) => g \in DOMAIN heap',
         NEW gone \in SUBSET (DOMAIN heap \ DOMAIN heap'), NEW d, d = Redo(heap, gone)
  PROVE  Snapshot(d)
<1>1. /\ DOMAIN d \subseteq DOMAIN heap /\ DOMAIN heap' \subseteq DOMAIN d
      /\ \A f \in DOMAIN d : d[f] = heap[f]
  BY DEF Redo
<1> QED BY <1>1 DEF Snapshot, Kept

(* Every step of the store leaves only snapshots.                          *)
LEMMA RecordedSnapshots ==
  ASSUME StateInv, [Next]_vars, RecordOperation, setup.ordered, NEW d \in possible'
  PROVE  d \in possible \/ Snapshot(d) \/ Snapshot(d)'
<1> USE DEF StateInv
<1> SUFFICES ASSUME d \notin possible PROVE Snapshot(d) \/ Snapshot(d)'
  OBVIOUS
<1>1. PICK gone \in SUBSET (DOMAIN heap \ DOMAIN heap') : d = Redo(heap, gone)
  BY DEF RecordOperation
<1>2. ASSUME NEW t \in Threads, WriteBatch(t) \/ StartMaintenance(t) \/ Step(t)
      PROVE  Snapshot(d) \/ Snapshot(d)'
  BY <1>1, <1>2, RecordedThread
<1>3. ASSUME NEW f \in DOMAIN heap, Unlink(f) PROVE Snapshot(d)
  <2>1. /\ DOMAIN heap' \subseteq DOMAIN heap /\ f \notin DOMAIN fams
        /\ DOMAIN heap' = DOMAIN heap \ {f}
    BY <1>3 DEF Unlink
  <2>2. ASSUME NEW o \in ObjectIds, NEW g, IsLast(g, o) PROVE g \in DOMAIN heap'
    BY <2>1, <2>2 DEF IsLast, RecoveryInv, CommitInv, CommittedOk
  <2> QED BY <1>1, <2>1, <2>2, RecordedUnlinks
<1>4. CASE CrashRecover \/ CloseAndReopen
  <2>1. DOMAIN heap' \subseteq DOMAIN heap
    BY <1>4, RestartFacts DEF CoreInv, Kept
  <2>2. ASSUME NEW o \in ObjectIds, NEW g, IsLast(g, o) PROVE g \in DOMAIN heap'
    BY <1>4, <2>2, LastSurvives DEF RecoveryInv
  <2> QED BY <1>1, <2>1, <2>2, RecordedUnlinks
<1>5. CASE UNCHANGED vars
  <2>1. DOMAIN heap' \subseteq DOMAIN heap
        /\ \A o \in ObjectIds : \A g : IsLast(g, o) => g \in DOMAIN heap'
    BY <1>5 DEF vars, shared, IsLast
  <2> QED BY <1>1, <2>1, RecordedUnlinks
<1> QED BY <1>2, <1>3, <1>4, <1>5 DEF Next

(***************************************************************************)
(* The invariants of Marble.                                               *)
(***************************************************************************)
(* A step of the store keeps them.                                         *)
LEMMA StateNext ==
  ASSUME CallersExclude, StateInv, [Next]_vars
  PROVE  StateInv'
<1> USE DEF StateInv
<1>1. CoreInv'
  <2>1. ASSUME NEW f \in DOMAIN heap, Unlink(f) PROVE CoreInv'
    BY <2>1, TypeUnlink, FilesUnlink, HoldersUnlink DEF CoreInv
  <2> QED BY <2>1, CoreStutter, CoreThread, CoreRestart DEF Next
<1>2. AccountsInv'
  BY <1>1, AccountsNext
<1>3. BatchesInv'
  BY BatchesNext
<1>4. KnownInv'
  BY <1>1, <1>2, KnownNext
<1>5. OrderInv'
  BY <1>1, OrderNext
<1>6. RecoveryInv'
  BY <1>1, <1>2, <1>4, RecoveryNext
<1> QED BY <1>1, <1>2, <1>3, <1>4, <1>5, <1>6

(* Power fails, and the store is opened over a directory.                  *)
Reopens(d) ==
  /\ heap' = d /\ Recover(d) /\ ResetThreads
  /\ latest' = [o \in ObjectIds |-> VersionIn(d, o)]
  /\ UNCHANGED <<calls, sweeps, crashes, order>>

(* Opening a readable directory establishes them again.                    *)
LEMMA StateReopened ==
  ASSUME StateInv, NEW d, Readable(d), Reopens(d)
  PROVE  StateInv'
<1> USE DEF StateInv
<1>1. VersionsAssigned /\ Directory(d) /\ Complete(d)
  BY OrderAssigned DEF Readable
<1>2. ASSUME NEW o \in ObjectIds PROVE VersionIn(d, o) \in 0 .. calls /\ VersionIn(d, o) \in Nat
  BY <1>1, VersionInFacts DEF VersionsAssigned
<1>3. CoreInv'
  <2>1. latest' \in [ObjectIds -> Nat] /\ crashes' \in 0 .. MaxCrashes
    BY <1>2 DEF Reopens, CoreInv, TypeOK
  <2>2. /\ Recover(d) /\ ResetThreads /\ heap' = d /\ UNCHANGED <<calls, sweeps, order>>
    BY DEF Reopens
  <2> QED BY <1>1, <2>1, <2>2, CoreRecover
<1>4. AccountsInv'
  BY <1>1, <1>3, AccountsRestart DEF Reopens
<1>5. BatchesInv'
  BY BatchesRestart DEF Reopens
<1>6. KnownInv'
  BY <1>1, <1>3, KnownRecover DEF Reopens
<1>7. OrderInv'
  <2>1. DOMAIN fams' = DOMAIN d /\ \A f \in DOMAIN d : fams'[f].objs = d[f].objs
    BY <1>1, RecoverFams DEF Reopens
  <2>2. Files' = DOMAIN d /\ \A f \in DOMAIN d : ObjsOf(f)' = d[f].objs
    BY <2>1 DEF Files, ObjsOf, Reopens
  <2>3. calls' = calls /\ order' = order /\ calls \in Nat
    BY BoundsAssumption DEF Reopens, CoreInv, TypeOK
  <2>4. ASSUME NEW f \in Files' PROVE Ordered(f)'
    <3>1. ASSUME NEW o \in DOMAIN d[f].objs
          PROVE  /\ d[f].objs[o].val \in 1 .. calls /\ order[d[f].objs[o].val] <= Position(f)
                 /\ IsNew(f) => order[d[f].objs[o].val] = Position(f)
      BY <1>1, <2>2, <2>3 DEF Readable, Assigned
    <3> QED BY <2>2, <2>3, <3>1 DEF Ordered
  <2>5. \A o \in ObjectIds : latest'[o] \in 0 .. calls'
    BY <1>2, <2>3 DEF Reopens
  <2>6. \A t \in Threads : pc'[t] = "idle" /\ DOMAIN batch'[t] = {}
    BY DEF Reopens, ResetThreads, EmptyBatch
  <2>7. order'[0] = 0
    BY <2>3 DEF OrderInv
  <2> QED BY <2>4, <2>5, <2>6, <2>7 DEF OrderInv, Working
<1>8. RecoveryInv'
  <2>1. ASSUME NEW o \in ObjectIds
        PROVE  /\ \A f : IsLast(f, o)' => heap'[f].objs[o].val = latest'[o]
               /\ Unnamed(o)' => latest'[o] = 0
    <3>1. heap' = d /\ latest'[o] = VersionIn(d, o)
      BY DEF Reopens
    <3>2. CASE FilesWith(d, o) = {}
      BY <3>1, <3>2 DEF IsLast, FilesWith, VersionIn
    <3>3. CASE FilesWith(d, o) # {}
      <4> DEFINE g == LastFileWith(d, o)
      <4>1. /\ g \in DOMAIN d /\ o \in d[g].trailer
            /\ \A f \in FilesWith(d, o) : Position(f) <= Position(g)
        BY <1>1, <3>3, LastFileFacts
      <4>2. ASSUME NEW f, IsLast(f, o)' PROVE f = g
        <5>1. /\ f \in DOMAIN d /\ f \in FilesWith(d, o) /\ Position(g) <= Position(f)
          BY <3>1, <4>1, <4>2 DEF IsLast, FilesWith
        <5>2. Position(f) \in Nat /\ Position(g) \in Nat /\ Disjoint(f, d[f].objs, g)
          BY <1>1, <4>1, <5>1, DirectoryTypes DEF Directory
        <5> QED BY <4>1, <5>1, <5>2 DEF Disjoint
      <4>3. ~ Unnamed(o)'
        BY <3>1, <4>1 DEF Unnamed
      <4> QED BY <3>1, <3>3, <4>2, <4>3 DEF VersionIn
    <3> QED BY <3>2, <3>3
  <2> QED BY <1>1, <2>1, RecoveryRecover DEF Reopens
<1> QED BY <1>3, <1>4, <1>5, <1>6, <1>7, <1>8

(***************************************************************************)
(* The steps of PowerSpec.                                                 *)
(***************************************************************************)
(* A step that is not a power failure is one of the store, and adds to the *)
(* possible directories or leaves the current one.                         *)
Running ==
  /\ [Next]_vars
  /\ \/ possible' = possible
     \/ RecordOperation
     \/ SyncHeapDirectory /\ UNCHANGED vars

(* Every step is one of these or a power failure, and leaves alone what    *)
(* the earlier calls wrote.                                                *)
LEMMA PowerSteps ==
  ASSUME TypeOK, PowerTypeOK, [PowerNext]_<<vars, powerVars>>
  PROVE  /\ setup' = setup /\ (Running \/ PowerLoss)
         /\ \A c \in 0 .. calls : wrote'[c] = wrote[c]
<1>0. calls \in Nat /\ DOMAIN wrote = 0 .. MaxCalls
  BY BoundsAssumption DEF TypeOK, PowerTypeOK
<1>1. CASE UNCHANGED <<vars, powerVars>>
  BY <1>1 DEF powerVars, promises, Running
<1>2. ASSUME NEW t \in Threads, Begin(t) PROVE Running /\ \A c \in 0 .. calls : wrote'[c] = wrote[c]
  <2>1. Running
    BY <1>2 DEF Begin, Running, Next
  <2>2. CASE UNCHANGED wrote
    BY <2>1, <2>2
  <2>3. CASE WriteBatch(t) /\ wrote' = [wrote EXCEPT ![calls'] = DOMAIN batch'[t]]
    <3>1. calls' = calls + 1
      BY <2>3 DEF WriteBatch
    <3> QED BY <1>0, <2>1, <2>3, <3>1
  <2> QED BY <1>2, <2>2, <2>3 DEF Begin
<1>3. ASSUME NEW t \in Threads, StepOn(t) PROVE Running /\ wrote' = wrote
  BY <1>3 DEF StepOn, Running, Next
<1>4. ASSUME NEW t \in Threads, FsyncBatch(t) \/ SyncDirectory(t) PROVE Running /\ wrote' = wrote
  BY <1>4 DEF FsyncBatch, SyncDirectory, Running
<1>5. ASSUME NEW t \in Threads, SyncAll(t) \/ SyncFile(t) \/ SyncFiles(t)
      PROVE  Running /\ wrote' = wrote
  BY <1>5 DEF SyncAll, SyncFile, SyncFiles, Running, promises
<1>6. ASSUME NEW f \in DOMAIN heap, Unlink(f), RecordOperation,
             UNCHANGED <<syncVars, losses, promises>>
      PROVE  Running /\ wrote' = wrote
  BY <1>6 DEF Running, Next, promises
<1>7. ASSUME Restart PROVE Running /\ wrote' = wrote
  BY <1>7 DEF Restart, Running, Next
<1>8. ASSUME PowerLoss PROVE wrote' = wrote
  BY <1>8 DEF PowerLoss
<1>9. CASE PowerNext
  <2>1. setup' = setup
    BY <1>9 DEF PowerNext
  <2> QED BY <1>9, <2>1, <1>2, <1>3, <1>4, <1>5, <1>6, <1>7, <1>8 DEF PowerNext
<1> QED BY <1>1, <1>9

(* A power failure opens the store over a possible directory.              *)
LEMMA LossReopens ==
  ASSUME PowerLoss
  PROVE  \E d \in possible : Reopens(d) /\ possible' = {d}
BY DEF PowerLoss, Reopens, bounds

(* The directories stay readable, and the new ones are snapshots of before *)
(* the step or after it.                                                   *)
LEMMA PossibleNext ==
  ASSUME StateInv, StateInv', Running, setup.ordered,
         \A d \in possible : Readable(d), NEW d \in possible'
  PROVE  /\ Readable(d)'
         /\ \/ d \in possible
            \/ \A o \in ObjectIds : VersionIn(d, o) = latest[o]
            \/ \A o \in ObjectIds : VersionIn(d, o) = latest'[o]
<1>1. PlacesKept /\ SnapshotsRead /\ SnapshotsRead'
  BY PlacesKeptNext, AllSnapshots, AllSnapshotsNext DEF Running, StateInv
<1>2. CASE d \in possible
  BY <1>1, <1>2, ReadableStays
<1>3. CASE Snapshot(d)
  <2>1. Readable(d) /\ \A o \in ObjectIds : VersionIn(d, o) = latest[o]
    BY <1>1, <1>3 DEF SnapshotsRead
  <2> QED BY <1>1, <2>1, ReadableStays
<1>4. CASE Snapshot(d)'
  <2>1. Readable(d)' /\ \A o \in ObjectIds : VersionIn(d, o) = latest'[o]
    <3>1. (\A o \in ObjectIds : VersionIn(d, o) = latest[o])'
      BY <1>1, <1>4 DEF SnapshotsRead
    <3> QED BY <1>1, <1>4, <3>1 DEF SnapshotsRead, VersionIn, FilesWith, LastFileWith, Position
  <2> QED BY <2>1
<1>5. CASE SyncHeapDirectory
  <2>1. Snapshot(d)
    BY <1>5 DEF SyncHeapDirectory, Snapshot, Kept, IsLast
  <2> QED BY <1>3, <2>1
<1> QED BY <1>2, <1>3, <1>4, <1>5, RecordedSnapshots DEF Running

(***************************************************************************)
(* The calls of write_batch.                                               *)
(***************************************************************************)
(* What a call being written, or a version of it, is.                      *)
LEMMA CallVersion ==
  ASSUME StateInv, NEW t \in Threads, t \notin sweeping, pc[t] \in Working,
         NEW c, CallWrites(t, c), NEW o \in DOMAIN batch[t]
  PROVE  /\ o \in DOMAIN fams[base[t]].objs /\ fams[base[t]].objs[o].val = c
         /\ base[t] \in DOMAIN fams /\ Assigned(c) /\ o \in ObjectIds
<1> USE DEF StateInv
<1>1. base[t] \in DOMAIN fams
  BY DEF CoreInv, HoldersInv
<1>2. o \in DOMAIN fams[base[t]].objs /\ fams[base[t]].objs[o].val = c
  BY DEF CallWrites, BatchesInv, ItemsInv
<1>3. VersionsAssigned /\ base[t] \in Files /\ ObjsOf(base[t]) = fams[base[t]].objs
  BY <1>1, OrderAssigned DEF Files, ObjsOf
<1> QED BY <1>1, <1>2, <1>3 DEF VersionsAssigned, CoreInv, TypeOK

(* A rename commits a call for all of its ids, unless later versions were  *)
(* committed before.                                                       *)
LEMMA CommitsCall ==
  ASSUME StateInv, StateInv', NEW t \in Threads, t \notin sweeping, Commit(t),
         NEW c, CallWrites(t, c), NEW o \in DOMAIN batch[t]
  PROVE  order' = order /\ Assigned(c) /\ order[c] <= order[latest'[o]]
<1> USE DEF StateInv
<1>1. pc[t] = "install" /\ gen[t] = 0 /\ order' = order /\ Rename(t)
  BY DEF Commit, BatchesInv, CallInv, CallOk
<1>2. /\ o \in DOMAIN fams[base[t]].objs /\ fams[base[t]].objs[o].val = c /\ o \in ObjectIds
      /\ Assigned(c)
  BY <1>1, CallVersion DEF Working
<1>3. o \in Trailer(t)
  BY <1>1, <1>2 DEF Trailer
<1>4. order[c] \in Nat /\ order[latest[o]] \in Nat
  BY <1>2, OrderAssigned DEF VersionsAssigned
<1>5. latest'[o] = IF order[latest[o]] < order[c] THEN c ELSE latest[o]
  BY <1>1, <1>2, <1>3 DEF Rename
<1> QED BY <1>1, <1>2, <1>4, <1>5

(* Between the insertion of its file and the end of a call the batch stays *)
(* what it is.                                                             *)
LEMMA WorkingSame ==
  ASSUME TypeOK, NEW t \in Threads, Step(t), ~ InsertPart(t), pc'[t] \in Working
  PROVE  /\ batch' = batch /\ pc[t] \in Working
         /\ ~ Abandon(t) /\ ~ Remove(t)
         /\ pc'[t] \in {"evacuate", "unclaim"} => Commit(t) \/ pc[t] \in {"evacuate", "unclaim"}
<1>0. pc \in [Threads -> PCs]
  BY DEF TypeOK
<1>1. ASSUME NEW o \in ObjectIds, Install(t, o)
      PROVE  batch' = batch /\ pc' = pc /\ pc[t] = "install"
  BY <1>1 DEF Install
<1>2. ASSUME PartDone(t) PROVE pc'[t] \notin Working
  BY <1>0, <1>2 DEF PartDone, Goto, Working
<1>3. ~ Abandon(t) /\ ~ Unclaim(t)
  BY <1>2 DEF Abandon, Unclaim
<1>4. ASSUME Commit(t) \/ Evacuate(t) \/ Finalize(t)
      PROVE  batch' = batch /\ pc[t] \in Working /\ (pc[t] = "evacuate" \/ Commit(t))
  BY <1>4 DEF Commit, Evacuate, Finalize, Working
<1>5. ~ Scan(t) /\ ~ Claim(t) /\ ~ Rewrite(t) /\ ~ ReadFile(t)
  BY <1>0 DEF Scan, Claim, Rewrite, ReadFile, Goto, Working
<1>6. ~ Release(t) /\ ~ Prune(t) /\ ~ Remove(t)
  BY <1>0 DEF Release, Prune, Remove, Goto, Working
<1> QED BY <1>1, <1>3, <1>4, <1>5, <1>6 DEF Step, Working

(* A step of a thread keeps what the calls write.                          *)
LEMMA CallsStep ==
  ASSUME StateInv, StateInv', PowerTypeOK, CallsInv, NEW t \in Threads,
         WriteBatch(t) \/ StartMaintenance(t) \/ Step(t),
         \A c \in 0 .. calls : wrote'[c] = wrote[c],
         WriteBatch(t) => wrote'[calls'] = DOMAIN batch'[t]
  PROVE  CallsInv'
<1> USE DEF StateInv
<1> SUFFICES ASSUME NEW u \in Threads, u \notin sweeping', pc'[u] \in Writing
             PROVE  \E c : CallWrites(u, c)'
  BY DEF CallsInv, CallWrites
<1>0. /\ TypeOK /\ calls \in Nat /\ calls' \in Nat /\ calls <= calls'
      /\ pc \in [Threads -> PCs]
  <2>0. TypeOK
    BY DEF CoreInv
  <2>1. calls \in Nat /\ pc \in [Threads -> PCs]
    BY <2>0, BoundsAssumption DEF TypeOK
  <2>2. WriteBatch(t) \/ calls' = calls
    BY HistoryStays
  <2>3. WriteBatch(t) => calls' = calls + 1
    BY DEF WriteBatch
  <2> QED BY <2>0, <2>1, <2>2, <2>3
<1>1. /\ PlacesKept /\ VersionsAssigned
      /\ \A o \in ObjectIds : order[latest[o]] <= order'[latest'[o]]
      /\ VersionsAssigned'
  BY PlacesKeptThread, OrderAssigned, OrderAssignedNext, LatestGrows DEF Next
<1>2. ASSUME NEW c, CallWrites(u, c), u \notin sweeping, batch'[u] = batch[u],
             pc[u] \in Working, pc'[u] \in Working, base'[u] = base[u],
             fams'[base[u]].objs = fams[base[u]].objs,
             pc'[u] \in {"evacuate", "unclaim"} =>
               pc[u] \in {"evacuate", "unclaim"} \/ (u = t /\ Commit(t))
      PROVE  CallWrites(u, c)'
  <2>1. c \in 1 .. calls' /\ wrote'[c] = DOMAIN batch'[u]
    BY <1>0, <1>2 DEF CallWrites
  <2>2. pc'[u] # "insert"
    BY <1>2 DEF Working
  <2>3. ASSUME pc'[u] \in {"evacuate", "unclaim"}, NEW o \in DOMAIN batch[u]
        PROVE  order'[c] <= order'[latest'[o]]
    <3>1. o \in ObjectIds /\ Assigned(c)
      BY <1>2, CallVersion
    <3>2. /\ order'[c] = order[c] /\ order[c] \in Nat /\ order[latest[o]] \in Nat
          /\ order[latest[o]] <= order'[latest'[o]] /\ order'[latest'[o]] \in Nat
      BY <1>1, <3>1 DEF PlacesKept, VersionsAssigned
    <3>3. CASE pc[u] \in {"evacuate", "unclaim"}
      BY <1>2, <3>2, <3>3 DEF CallWrites
    <3>4. CASE u = t /\ Commit(t)
      BY <1>2, <3>4, <3>2, CommitsCall
    <3> QED BY <1>2, <2>3, <3>3, <3>4
  <2> QED BY <1>2, <2>1, <2>2, <2>3 DEF CallWrites
<1>3. CASE u # t
  <2>1. /\ pc'[u] = pc[u] /\ u \notin sweeping /\ batch'[u] = batch[u]
        /\ rest'[u] = rest[u] /\ base'[u] = base[u]
    BY <1>0, <1>3, ThreadsApart DEF OthersStay
  <2>2. PICK c : CallWrites(u, c)
    BY <2>1 DEF CallsInv
  <2>3. CASE pc[u] \in Working
    <3>1. base[u] \in DOMAIN fams
      BY <2>3 DEF CoreInv, HoldersInv
    <3>2. fams'[base[u]].objs = fams[base[u]].objs
      BY <1>3, <3>1, HeldStay DEF StaysOpen
    <3> QED BY <1>2, <2>1, <2>2, <2>3, <3>2
  <2>4. CASE pc[u] \notin Working
    BY <1>0, <2>1, <2>2, <2>4 DEF CallWrites, Working
  <2> QED BY <2>3, <2>4
<1>4. CASE u = t /\ WriteBatch(t)
  <2>1. PICK ids \in SUBSET ObjectIds, deleted \in SUBSET ObjectIds :
          /\ batch' = [batch EXCEPT ![t] =
                         [o \in ids |-> [del |-> o \in deleted,
                                         val |-> calls + 1, old |-> Null]]]
          /\ rest' = [rest EXCEPT ![t] = ids]
    BY <1>4 DEF WriteBatch
  <2>2. DOMAIN batch = Threads /\ DOMAIN rest = Threads
    BY <1>0 DEF TypeOK
  <2>3. /\ calls' = calls + 1 /\ pc'[t] = "insert"
        /\ DOMAIN batch'[t] = ids /\ rest'[t] = ids
        /\ \A o \in DOMAIN batch'[t] : batch'[t][o].val = calls + 1
    BY <1>0, <1>4, <2>1, <2>2 DEF WriteBatch, Goto
  <2>4. PICK c : c = calls + 1
    OBVIOUS
  <2>5. CallWrites(t, c)'
    BY <1>0, <1>4, <2>3, <2>4 DEF CallWrites, Working
  <2> QED BY <1>4, <2>5
<1>5. CASE u = t /\ InsertPart(t)
  <2>1. /\ UNCHANGED <<batch, sweeping, calls, gen>> /\ pc'[t] = "install" /\ pc[t] = "insert"
    BY <1>0, <1>5, InsertOrder
  <2>2. t \notin sweeping /\ gen[t] = 0
    BY <1>5, <2>1 DEF BatchesInv, CallInv, CallOk
  <2>3. PICK c : CallWrites(t, c)
    BY <2>1, <2>2 DEF CallsInv, Writing
  <2>4. PICK part, objs, f : Inserts(t, part, objs, f)
    BY <1>0, <1>5, InsertFacts
  <2>5. base'[t] = f /\ DOMAIN fams'[f].objs = rest[t]
    BY <1>0, <2>2, <2>4 DEF Inserts, TypeOK
  <2>6. rest[t] = DOMAIN batch[t]
    BY <2>1, <2>3 DEF CallWrites
  <2> QED BY <1>0, <1>5, <2>1, <2>3, <2>5, <2>6 DEF CallWrites
<1>6. CASE u = t /\ ~ WriteBatch(t) /\ ~ InsertPart(t)
  <2>1. pc'[t] \in Working /\ t \notin sweeping
    BY <1>6, WritersStep DEF Writing
  <2>2. Step(t)
    BY <1>0, <1>6, <2>1 DEF StartMaintenance, Goto, Working
  <2>3. /\ batch' = batch /\ pc[t] \in Working /\ ~ Abandon(t) /\ ~ Remove(t)
        /\ pc'[t] \in {"evacuate", "unclaim"} => Commit(t) \/ pc[t] \in {"evacuate", "unclaim"}
    BY <1>0, <1>6, <2>1, <2>2, WorkingSame
  <2>4. base'[t] = base[t]
    BY <1>0, <1>6, <2>1, WorkStep
  <2>5. base[t] \in DOMAIN fams
    BY <2>3 DEF CoreInv, HoldersInv
  <2>6. fams'[base[t]].objs = fams[base[t]].objs
    BY <2>3, <2>5, HeldStay DEF StaysOpen
  <2>7. PICK c : CallWrites(t, c)
    BY <2>1, <2>3 DEF CallsInv, Writing
  <2> QED BY <1>2, <1>6, <2>1, <2>3, <2>4, <2>6, <2>7
<1> QED BY <1>3, <1>4, <1>5, <1>6

(* A thread that steps is inside a call.                                   *)
LEMMA StepInCall ==
  ASSUME NEW t \in Threads, Step(t)
  PROVE  pc[t] # "idle"
BY DEF Step, InsertPart, Install, Abandon, Commit, Evacuate, Finalize, Unclaim, Scan,
       Claim, Rewrite, ReadFile, Release, Prune, Remove

(* Every step keeps what the calls write.                                  *)
LEMMA CallsNext ==
  ASSUME StateInv, StateInv', PowerTypeOK, CallsInv, [PowerNext]_<<vars, powerVars>>
  PROVE  CallsInv'
<1>0. TypeOK /\ (\A c \in 0 .. calls : wrote'[c] = wrote[c])
  BY PowerSteps DEF StateInv, CoreInv
<1>1. ASSUME NEW t \in Threads, Begin(t) PROVE CallsInv'
  <2>1. calls \in Nat /\ calls < MaxCalls => calls + 1 \in 0 .. MaxCalls
    BY BoundsAssumption
  <2>2. pc \in [Threads -> PCs] /\ calls \in Nat /\ DOMAIN wrote = 0 .. MaxCalls
    BY <1>0, BoundsAssumption DEF TypeOK, PowerTypeOK
  <2>3. WriteBatch(t) => ~ StartMaintenance(t) /\ calls' \in 0 .. MaxCalls
    BY <2>1, <2>2 DEF WriteBatch, StartMaintenance, Goto
  <2>4. /\ WriteBatch(t) \/ StartMaintenance(t)
        /\ WriteBatch(t) => wrote'[calls'] = DOMAIN batch'[t]
    BY <1>1, <2>2, <2>3 DEF Begin
  <2> QED BY <1>0, <2>4, CallsStep
<1>2. ASSUME NEW t \in Threads, StepOn(t) PROVE CallsInv'
  <2>1. Step(t) /\ ~ WriteBatch(t)
    BY <1>2, StepInCall DEF StepOn, WriteBatch
  <2> QED BY <1>0, <2>1, CallsStep
<1>3. ASSUME UNCHANGED <<fams, local, calls, order, latest, wrote>> PROVE CallsInv'
  BY <1>3 DEF CallsInv, CallWrites, local, inner
<1>4. ASSUME NEW t \in Threads, \/ FsyncBatch(t) \/ SyncDirectory(t) \/ SyncAll(t)
                                \/ SyncFile(t) \/ SyncFiles(t)
      PROVE  CallsInv'
  <2>1. UNCHANGED <<vars, wrote>>
    BY <1>4 DEF FsyncBatch, SyncDirectory, SyncAll, SyncFile, SyncFiles, promises
  <2> QED BY <1>3, <2>1 DEF vars, shared, bounds, history
<1>5. ASSUME NEW f \in DOMAIN heap, Unlink(f), UNCHANGED promises PROVE CallsInv'
  BY <1>3, <1>5 DEF Unlink, bounds, history, promises
<1>6. ASSUME ResetThreads PROVE CallsInv'
  BY <1>6 DEF ResetThreads, CallsInv, Writing, Working
<1>7. CASE Restart \/ PowerLoss
  BY <1>6, <1>7 DEF Restart, PowerLoss, CrashRecover, CloseAndReopen
<1>8. CASE UNCHANGED <<vars, powerVars>>
  BY <1>3, <1>8 DEF vars, shared, bounds, history, powerVars, promises
<1> QED BY <1>1, <1>2, <1>4, <1>5, <1>7, <1>8 DEF PowerNext

(* The committed versions stay atomic when the process runs or restarts.   *)
LEMMA AtomicNext ==
  ASSUME StateInv, StateInv', CallsInv, LatestAtomic, [Next]_vars,
         \A c \in 0 .. calls : wrote'[c] = wrote[c]
  PROVE  LatestAtomic'
<1> USE DEF StateInv
<1> SUFFICES ASSUME NEW o \in ObjectIds, NEW p \in ObjectIds, latest'[o] # 0,
                    p \in wrote'[latest'[o]]
             PROVE  order'[latest'[o]] <= order'[latest'[p]]
  BY DEF LatestAtomic
<1>1. VersionsAssigned /\ VersionsAssigned' /\ PlacesKept
  BY OrderAssigned, OrderAssignedNext, PlacesKeptNext
<1>2. \A q \in ObjectIds : /\ order'[latest[q]] = order[latest[q]]
                           /\ order[latest[q]] <= order'[latest'[q]]
                           /\ order[latest[q]] \in Nat /\ order'[latest'[q]] \in Nat
                           /\ latest[q] \in 0 .. calls
  BY <1>1, LatestGrows DEF VersionsAssigned
<1>3. CASE latest'[o] = latest[o]
  <2>1. order[latest[o]] <= order[latest[p]]
    BY <1>2, <1>3 DEF LatestAtomic
  <2> QED BY <1>2, <1>3, <2>1
<1>4. ASSUME NEW t \in Threads, Commit(t), latest'[o] # latest[o]
      PROVE  order'[latest'[o]] <= order'[latest'[p]]
  <2>1. /\ gen[t] = 0 /\ latest'[o] = fams[base[t]].objs[o].val /\ pc[t] = "install"
        /\ o \in DOMAIN fams[base[t]].objs
    BY <1>4 DEF Commit, Rename, Trailer
  <2>2. t \notin sweeping
    BY <2>1 DEF BatchesInv, CallInv, CallOk, Writing, Working
  <2>3. PICK c : CallWrites(t, c)
    BY <2>1, <2>2 DEF CallsInv, Writing, Working
  <2>4. o \in DOMAIN batch[t]
    BY <2>1, <2>3 DEF CallWrites, Working
  <2>5. latest'[o] = c
    BY <2>1, <2>2, <2>3, <2>4, CallVersion DEF Working
  <2>6. p \in DOMAIN batch[t]
    BY <2>3, <2>5 DEF CallWrites
  <2> QED BY <1>4, <2>2, <2>3, <2>5, <2>6, CommitsCall
<1>5. ASSUME NEW t \in Threads, WriteBatch(t) \/ StartMaintenance(t) \/ Step(t), ~ Commit(t)
      PROVE  latest' = latest
  BY <1>5, HistoryStays
<1>6. ASSUME NEW f \in DOMAIN heap, Unlink(f) PROVE latest' = latest
  BY <1>6 DEF Unlink, history
<1>7. CASE UNCHANGED vars
  BY <1>3, <1>7 DEF vars, history
<1>8. CASE CrashRecover \/ CloseAndReopen
  BY <1>3, <1>8 DEF CrashRecover, CloseAndReopen, history
<1> QED BY <1>3, <1>4, <1>5, <1>6, <1>7, <1>8 DEF Next

(* The directories stay atomic.                                            *)
LEMMA LossAtomicNext ==
  ASSUME StateInv, StateInv', CallsInv, LatestAtomic, LatestAtomic', PowerLossAtomic, Running,
         \A d \in possible : Readable(d), setup.ordered,
         \A c \in 0 .. calls : wrote'[c] = wrote[c]
  PROVE  PowerLossAtomic'
<1> USE DEF StateInv
<1> SUFFICES ASSUME NEW d \in possible', NEW o \in ObjectIds, NEW p \in ObjectIds,
                    VersionIn(d, o) # 0, p \in wrote'[VersionIn(d, o)]
             PROVE  order'[VersionIn(d, o)] <= order'[VersionIn(d, p)]
  BY DEF PowerLossAtomic, VersionIn, FilesWith, LastFileWith, Position
<1>1. VersionsAssigned /\ VersionsAssigned' /\ PlacesKept
  BY OrderAssigned, OrderAssignedNext, PlacesKeptNext DEF Running
<1>2. CASE d \in possible
  <2>1. Assigned(VersionIn(d, o)) /\ Assigned(VersionIn(d, p))
    BY <1>1, <1>2, VersionInFacts
  <2>2. wrote'[VersionIn(d, o)] = wrote[VersionIn(d, o)]
    BY <2>1, <1>1 DEF VersionsAssigned
  <2>3. order[VersionIn(d, o)] <= order[VersionIn(d, p)]
    BY <1>2, <2>2 DEF PowerLossAtomic
  <2> QED BY <1>1, <2>1, <2>3 DEF PlacesKept
<1>3. CASE \A q \in ObjectIds : VersionIn(d, q) = latest[q]
  <2>1. wrote'[latest[o]] = wrote[latest[o]]
    BY <1>1 DEF VersionsAssigned
  <2>2. order[latest[o]] <= order[latest[p]]
    BY <1>3, <2>1 DEF LatestAtomic
  <2> QED BY <1>1, <1>3, <2>2 DEF PlacesKept, VersionsAssigned
<1>4. CASE \A q \in ObjectIds : VersionIn(d, q) = latest'[q]
  BY <1>4 DEF LatestAtomic
<1> QED BY <1>2, <1>3, <1>4, PossibleNext

(***************************************************************************)
(* What was returned and promised.                                         *)
(***************************************************************************)
(* Nothing, and the later of two, are settled.                             *)
LEMMA SettledFacts ==
  ASSUME VersionsAssigned
  PROVE  /\ Settled(Nothing)
         /\ \A v, w : Settled(v) /\ Settled(w) => Settled(Later(v, w))
<1>1. Settled(Nothing)
  BY DEF VersionsAssigned, Settled, Nothing
<1>2. ASSUME NEW v, NEW w, Settled(v), Settled(w) PROVE Settled(Later(v, w))
  BY <1>2 DEF Settled, Later
<1> QED BY <1>1, <1>2

(* What is settled stays so while the process runs or restarts.            *)
LEMMA SettledStays ==
  ASSUME StateInv, StateInv', [Next]_vars, NEW v, Settled(v)
  PROVE  Settled(v)'
<1>1. VersionsAssigned /\ VersionsAssigned' /\ PlacesKept
  BY OrderAssigned, OrderAssignedNext, PlacesKeptNext DEF StateInv
<1>2. ASSUME NEW o \in ObjectIds PROVE Assigned(v[o])' /\ order'[v[o]] <= order'[latest'[o]]
  <2>1. Assigned(v[o]) /\ order[v[o]] <= order[latest[o]]
    BY DEF Settled
  <2>2. Assigned(v[o])' /\ order'[v[o]] = order[v[o]] /\ order[v[o]] \in Nat
    BY <1>1, <2>1 DEF PlacesKept, VersionsAssigned
  <2>3. order[latest[o]] <= order'[latest'[o]] /\ order[latest[o]] \in Nat
        /\ order'[latest'[o]] \in Nat
    BY <1>1, LatestGrows DEF VersionsAssigned, StateInv
  <2> QED BY <2>1, <2>2, <2>3
<1>3. v \in [ObjectIds -> Nat]
  BY DEF Settled
<1> QED BY <1>2, <1>3 DEF Settled

(* A batch whose last part is done is committed.                           *)
LEMMA SettledWritten ==
  ASSUME StateInv, CallsInv, NEW t \in Threads, Step(t), LastPartDone(t)
  PROVE  Settled(Written(t))
<1> USE DEF StateInv
<1>0. VersionsAssigned
  BY OrderAssigned
<1>1. Written(t) \in [ObjectIds -> Nat]
  <2>1. \A o \in DOMAIN batch[t] : batch[t][o].val \in Nat
    BY DEF CoreInv, TypeOK, Item
  <2> QED BY <2>1 DEF Written
<1>2. ASSUME NEW o \in ObjectIds, gen[t] = 0, o \in DOMAIN batch[t]
      PROVE  Assigned(batch[t][o].val) /\ order[batch[t][o].val] <= order[latest[o]]
  <2>1. t \notin sweeping
    BY <1>2 DEF LastPartDone, BatchesInv, CallInv, CallOk, Writing, Working
  <2>2. pc[t] \in {"unclaim", "install"} /\ pc[t] \in Working
    BY <2>1 DEF LastPartDone, BatchesInv, CallInv, CallOk, Writing, Working
  <2>3. PICK c : CallWrites(t, c)
    BY <2>1, <2>2 DEF CallsInv, Writing
  <2>4. Assigned(c) /\ o \in DOMAIN fams[base[t]].objs /\ batch[t][o].val = c
    BY <1>2, <2>1, <2>2, <2>3, CallVersion DEF CallWrites
  <2>5. CASE pc[t] = "unclaim"
    BY <1>2, <2>3, <2>4, <2>5 DEF CallWrites
  <2>6. CASE pc[t] = "install"
    <3>1. pc \in [Threads -> PCs]
      BY DEF CoreInv, TypeOK
    <3>2. ~ Abandon(t)
      BY <1>2, <2>4 DEF Abandon, Trailer
    <3>3. pc'[t] \in {"idle", "rewrite"} /\ pc[t] = "install"
      BY <2>6 DEF LastPartDone
    <3>4. ~ InsertPart(t) /\ ~ Commit(t) /\ (\A p \in ObjectIds : ~ Install(t, p))
      BY <3>1, <3>3 DEF InsertPart, Commit, Install, Goto
    <3>5. ~ Evacuate(t) /\ ~ Finalize(t) /\ ~ Unclaim(t) /\ ~ Scan(t) /\ ~ Claim(t)
          /\ ~ Rewrite(t) /\ ~ ReadFile(t) /\ ~ Release(t) /\ ~ Prune(t) /\ ~ Remove(t)
      BY <3>3 DEF Evacuate, Finalize, Unclaim, Scan, Claim, Rewrite, ReadFile, Release,
                  Prune, Remove
    <3> QED BY <3>2, <3>4, <3>5 DEF Step
  <2> QED BY <2>2, <2>5, <2>6
<1>3. ASSUME NEW o \in ObjectIds
      PROVE  Assigned(Written(t)[o]) /\ order[Written(t)[o]] <= order[latest[o]]
  <2>1. CASE gen[t] = 0 /\ o \in DOMAIN batch[t]
    BY <1>2, <2>1 DEF Written
  <2>2. CASE ~ (gen[t] = 0 /\ o \in DOMAIN batch[t])
    <3>1. Written(t)[o] = 0
      BY <2>2 DEF Written
    <3> QED BY <1>0, <3>1 DEF VersionsAssigned
  <2> QED BY <2>1, <2>2
<1> QED BY <1>1, <1>3 DEF Settled

(* How returned, promised and pending change while the process runs or     *)
(* restarts.                                                               *)
PromisesChange ==
  /\ \/ returned' = returned
     \/ \E t \in Threads : /\ Step(t) /\ LastPartDone(t) /\ ~ setup.fsync_each_batch
                           /\ returned' = Later(returned, Written(t))
     \/ \E t \in Threads : /\ sync_at[t] = "batch" /\ SyncHeapDirectory /\ UNCHANGED vars
                           /\ returned' = Later(returned, pending[t])
  /\ \/ promised' = promised
     \/ \E t \in Threads :
          /\ promised' = Later(promised, pending[t]) /\ UNCHANGED vars
          /\ \/ SyncHeapDirectory
             \/ SyncFiles(t) /\ ~ synced_files[t]
  /\ \A u \in Threads :
       \/ pending'[u] = pending[u] /\ (sync_at'[u] = sync_at[u] \/ SyncFiles(u))
       \/ pending'[u] = Nothing /\ sync_at'[u] = "no"
       \/ pending'[u] = returned /\ SyncAll(u)
       \/ /\ Step(u) /\ LastPartDone(u) /\ setup.fsync_each_batch
          /\ pending'[u] = Written(u) /\ sync_at'[u] = "batch"

(* They change in no other way.                                            *)
LEMMA PromisesStep ==
  ASSUME PowerTypeOK, [PowerNext]_<<vars, powerVars>>, ~ PowerLoss
  PROVE  PromisesChange
<1>0. DOMAIN sync_at = Threads /\ DOMAIN pending = Threads
  BY DEF PowerTypeOK
<1>1. CASE UNCHANGED <<vars, powerVars>>
  BY <1>1 DEF powerVars, promises, syncVars, PromisesChange
<1>2. ASSUME NEW t \in Threads, Begin(t) PROVE PromisesChange
  BY <1>2 DEF Begin, syncVars, PromisesChange
<1>3. ASSUME NEW t \in Threads, StepOn(t) PROVE PromisesChange
  <2>1. Step(t) /\ EndOfBatch(t) /\ promised' = promised
    BY <1>3 DEF StepOn
  <2>2. CASE LastPartDone(t) /\ setup.fsync_each_batch
    BY <1>0, <2>1, <2>2 DEF EndOfBatch, PromisesChange
  <2>3. CASE LastPartDone(t) /\ ~ setup.fsync_each_batch
    BY <2>1, <2>3 DEF EndOfBatch, PromisesChange
  <2>4. CASE ~ LastPartDone(t)
    BY <2>1, <2>4 DEF EndOfBatch, PromisesChange
  <2> QED BY <2>2, <2>3, <2>4
<1>4. ASSUME NEW t \in Threads, FsyncBatch(t) PROVE PromisesChange
  BY <1>0, <1>4 DEF FsyncBatch, PromisesChange
<1>5. ASSUME NEW t \in Threads, SyncAll(t) PROVE PromisesChange
  <2>1. /\ sync_at' = [sync_at EXCEPT ![t] = "files"] /\ UNCHANGED <<returned, promised>>
        /\ pending' = [pending EXCEPT ![t] = returned]
    BY <1>5 DEF SyncAll
  <2> QED BY <1>0, <1>5, <2>1 DEF PromisesChange
<1>6. ASSUME NEW t \in Threads, SyncFile(t) PROVE PromisesChange
  BY <1>6 DEF SyncFile, promises, PromisesChange
<1>7. ASSUME NEW t \in Threads, SyncFiles(t) PROVE PromisesChange
  <2>1. UNCHANGED <<vars, returned>>
    BY <1>7 DEF SyncFiles
  <2>2. CASE synced_files[t]
    <3>1. UNCHANGED <<pending, promised>> /\ sync_at' = [sync_at EXCEPT ![t] = "directory"]
      BY <1>7, <2>2 DEF SyncFiles
    <3> QED BY <1>0, <1>7, <2>1, <3>1 DEF PromisesChange
  <2>3. CASE ~ synced_files[t]
    <3>1. SyncReturns(t)
      BY <1>7, <2>3 DEF SyncFiles
    <3>2. /\ sync_at' = [sync_at EXCEPT ![t] = "no"] /\ promised' = Later(promised, pending[t])
          /\ pending' = [pending EXCEPT ![t] = Nothing]
      BY <3>1 DEF SyncReturns
    <3> QED BY <1>0, <1>7, <2>1, <2>3, <3>2 DEF PromisesChange
  <2> QED BY <2>2, <2>3
<1>8. ASSUME NEW t \in Threads, SyncDirectory(t) PROVE PromisesChange
  BY <1>0, <1>8 DEF SyncDirectory, SyncReturns, PromisesChange
<1>9. ASSUME NEW f \in DOMAIN heap, UNCHANGED <<syncVars, losses, promises>>
      PROVE  PromisesChange
  BY <1>9 DEF promises, syncVars, PromisesChange
<1>10. CASE Restart
  BY <1>10 DEF Restart, ForgetSyncs, PromisesChange
<1> QED BY <1>1, <1>2, <1>3, <1>4, <1>5, <1>6, <1>7, <1>8, <1>9, <1>10 DEF PowerNext

(* Returned and pending versions stay settled.                             *)
LEMMA SettledNext ==
  ASSUME StateInv, StateInv', CallsInv, [Next]_vars, PromisesChange, Settled(returned),
         \A t \in Threads : Settled(pending[t])
  PROVE  Settled(returned)' /\ \A t \in Threads : Settled(pending[t])'
<1>1. VersionsAssigned
  BY OrderAssigned DEF StateInv
<1>2. \A v : Settled(v) => Settled(v)'
  BY SettledStays
<1>3. PICK v : v = returned'
  OBVIOUS
<1>4. Settled(v)
  BY <1>1, <1>3, SettledFacts, SettledWritten DEF PromisesChange
<1>5. Settled(returned)'
  <2>1. Settled(v)'
    BY <1>2, <1>4
  <2> QED BY <1>3, <2>1 DEF Settled
<1>6. ASSUME NEW t \in Threads PROVE Settled(pending[t])'
  <2>1. PICK w : w = pending'[t]
    OBVIOUS
  <2>2. Settled(w)
    BY <1>1, <2>1, SettledFacts, SettledWritten DEF PromisesChange
  <2>3. Settled(w)'
    BY <1>2, <2>2
  <2> QED BY <2>1, <2>3 DEF Settled
<1> QED BY <1>5, <1>6

(* The variables of MarblePower keep their types.                          *)
LEMMA PowerTypes ==
  ASSUME CoreInv, PowerTypeOK, [PowerNext]_<<vars, powerVars>>, PlacesKept,
         Settled(returned)', \A t \in Threads : Settled(pending[t])',
         \A t \in Threads : Settled(pending[t])
  PROVE  PowerTypeOK'
<1> DEFINE Labels == {"no", "batch", "files", "directory"}
<1>1. /\ sync_at \in [Threads -> Labels] /\ sync_cursor \in [Threads -> Nat]
      /\ synced_files \in [Threads -> BOOLEAN] /\ DOMAIN pending = Threads
      /\ DOMAIN wrote = 0 .. MaxCalls
  BY DEF PowerTypeOK
<1>2. Top \in Nat /\ TypeOK
  BY BitAssumption DEF Top, CoreInv
<1>3. ASSUME NEW t \in Threads, SyncFile(t) PROVE NextFam(sync_cursor[t]) \in Nat
  <2>1. NextFam(sync_cursor[t]) \in DOMAIN fams
    BY <1>1, <1>2, <1>3, NextFamType DEF SyncFile
  <2> QED BY <1>2, <2>1, FamTypes, FamLocationFacts
<1>4. sync_at' \in [Threads -> Labels] /\ DOMAIN pending' = Threads
  <2>1. ASSUME NEW t \in Threads, StepOn(t)
        PROVE  sync_at' \in [Threads -> Labels] /\ DOMAIN pending' = Threads
    BY <1>1, <2>1 DEF StepOn, EndOfBatch
  <2>2. ASSUME NEW t \in Threads, FsyncBatch(t) \/ SyncAll(t)
        PROVE  sync_at' \in [Threads -> Labels] /\ DOMAIN pending' = Threads
    BY <1>1, <2>2 DEF FsyncBatch, SyncAll
  <2>3. ASSUME NEW t \in Threads, SyncFiles(t) \/ SyncDirectory(t)
        PROVE  sync_at' \in [Threads -> Labels] /\ DOMAIN pending' = Threads
    BY <1>1, <2>3 DEF SyncFiles, SyncDirectory, SyncReturns
  <2>4. ASSUME UNCHANGED <<sync_at, pending>>
        PROVE  sync_at' \in [Threads -> Labels] /\ DOMAIN pending' = Threads
    BY <1>1, <2>4
  <2>5. ASSUME ForgetSyncs
        PROVE  sync_at' \in [Threads -> Labels] /\ DOMAIN pending' = Threads
    BY <2>5 DEF ForgetSyncs
  <2>6. ASSUME NEW t \in Threads, Begin(t) \/ SyncFile(t) PROVE UNCHANGED <<sync_at, pending>>
    BY <2>6 DEF Begin, SyncFile, syncVars, promises
  <2>7. UNCHANGED <<syncVars, losses, promises>> \/ UNCHANGED <<vars, powerVars>>
        => UNCHANGED <<sync_at, pending>>
    BY DEF syncVars, promises, powerVars
  <2> QED BY <2>1, <2>2, <2>3, <2>4, <2>5, <2>6, <2>7 DEF PowerNext, Restart, PowerLoss
<1>5. sync_cursor' \in [Threads -> Nat] /\ synced_files' \in [Threads -> BOOLEAN]
  <2>1. ASSUME NEW t \in Threads, SyncAll(t)
        PROVE  sync_cursor' \in [Threads -> Nat] /\ synced_files' \in [Threads -> BOOLEAN]
    BY <1>1, <1>2, <2>1 DEF SyncAll
  <2>2. ASSUME NEW t \in Threads, SyncFile(t)
        PROVE  sync_cursor' \in [Threads -> Nat] /\ synced_files' \in [Threads -> BOOLEAN]
    BY <1>1, <1>3, <2>2 DEF SyncFile
  <2>3. ASSUME NEW t \in Threads, SyncFiles(t) \/ SyncDirectory(t)
        PROVE  sync_cursor' \in [Threads -> Nat] /\ synced_files' \in [Threads -> BOOLEAN]
    BY <1>1, <2>3 DEF SyncFiles, SyncDirectory, SyncReturns
  <2>4. ASSUME UNCHANGED <<sync_cursor, synced_files>>
        PROVE  sync_cursor' \in [Threads -> Nat] /\ synced_files' \in [Threads -> BOOLEAN]
    BY <1>1, <2>4
  <2>5. ASSUME ForgetSyncs
        PROVE  sync_cursor' \in [Threads -> Nat] /\ synced_files' \in [Threads -> BOOLEAN]
    BY <2>5 DEF ForgetSyncs
  <2>6. ASSUME NEW t \in Threads, Begin(t) \/ StepOn(t) \/ FsyncBatch(t)
        PROVE  UNCHANGED <<sync_cursor, synced_files>>
    BY <2>6 DEF Begin, StepOn, FsyncBatch, syncVars
  <2>7. UNCHANGED <<syncVars, losses, promises>> \/ UNCHANGED <<vars, powerVars>>
        => UNCHANGED <<sync_cursor, synced_files>>
    BY DEF syncVars, powerVars
  <2> QED BY <2>1, <2>2, <2>3, <2>4, <2>5, <2>6, <2>7 DEF PowerNext, Restart, PowerLoss
<1>6. promised' \in [ObjectIds -> Nat] /\ \A o \in ObjectIds : Assigned(promised[o])'
  <2>1. \/ promised' = promised
        \/ \E t \in Threads : promised' = Later(promised, pending[t])
    <3>1. CASE PowerLoss
      BY <3>1 DEF PowerLoss
    <3>2. CASE ~ PowerLoss
      BY <3>2, PromisesStep DEF PromisesChange
    <3> QED BY <3>1, <3>2
  <2>2. promised' \in [ObjectIds -> Nat] /\ \A o \in ObjectIds : Assigned(promised'[o])
    BY <2>1 DEF PowerTypeOK, Settled, Later
  <2> QED BY <2>2 DEF PlacesKept, Assigned, Fresh
<1>7. DOMAIN wrote' = 0 .. MaxCalls
  <2>1. ASSUME NEW t \in Threads, Begin(t) PROVE DOMAIN wrote' = 0 .. MaxCalls
    BY <1>1, <2>1 DEF Begin
  <2>2. ASSUME NEW t \in Threads, \/ StepOn(t) \/ FsyncBatch(t) \/ SyncAll(t) \/ SyncFile(t)
                                  \/ SyncFiles(t) \/ SyncDirectory(t)
        PROVE  wrote' = wrote
    BY <2>2 DEF StepOn, FsyncBatch, SyncAll, SyncFile, SyncFiles, SyncDirectory, promises
  <2>3. Restart \/ PowerLoss => wrote' = wrote
    BY DEF Restart, PowerLoss
  <2>4. UNCHANGED <<syncVars, losses, promises>> \/ UNCHANGED <<vars, powerVars>>
        => wrote' = wrote
    BY DEF promises, powerVars
  <2> QED BY <1>1, <2>1, <2>2, <2>3, <2>4 DEF PowerNext
<1> QED BY <1>4, <1>5, <1>6, <1>7 DEF PowerTypeOK

(***************************************************************************)
(* The induction.                                                          *)
(***************************************************************************)
(* An empty store satisfies the invariants of Marble.                      *)
LEMMA StateInit == Init => StateInv
<1> SUFFICES ASSUME Init PROVE StateInv
  OBVIOUS
<1>1. /\ order = [c \in 0 .. MaxCalls |-> 0] /\ calls = 0 /\ sweeping = {}
      /\ \A o \in ObjectIds : latest[o] = 0
      /\ DOMAIN fams = {} /\ DOMAIN heap = {}
      /\ \A t \in Threads : pc[t] = "idle" /\ DOMAIN batch[t] = {}
  BY DEF Init, EmptyBatch
<1>2. BatchesInv
  BY BatchesReset DEF Init
<1>3. KnownInv
  BY <1>1 DEF KnownInv, InstallInv, TrailersInv, ChainsInv
<1>4. OrderInv
  <2>1. order[0] = 0 /\ Files = {}
    BY <1>1, BoundsAssumption DEF Files
  <2> QED BY <1>1, <2>1 DEF OrderInv, Working
<1> QED BY <1>2, <1>3, <1>4, InitCore, InitAccounts, RecoveryInit DEF StateInv

(* So does an empty store on a directory that was never synced.            *)
LEMMA OrderedInit == PowerInit => OrderedInv
<1> SUFFICES ASSUME PowerInit PROVE OrderedInv
  OBVIOUS
<1>1. StateInv /\ VersionsAssigned /\ SnapshotsRead
  BY StateInit, OrderAssigned, AllSnapshots DEF PowerInit, StateInv
<1>2. /\ \A o \in ObjectIds : latest[o] = 0
      /\ \A t \in Threads : pc[t] = "idle"
      /\ returned = Nothing /\ promised = Nothing /\ pending = [t \in Threads |-> Nothing]
      /\ possible = {heap}
  BY DEF PowerInit, Init
<1>3. Snapshot(heap)
  BY DEF Snapshot, Kept, IsLast
<1>4. Readable(heap) /\ \A o \in ObjectIds : VersionIn(heap, o) = 0
  BY <1>1, <1>2, <1>3 DEF SnapshotsRead
<1>5. PowerLossAtomic
  BY <1>2, <1>4 DEF PowerLossAtomic
<1>6. Settled(Nothing)
  BY <1>1, SettledFacts
<1>7. PowerTypeOK
  <2>1. \A o \in ObjectIds : Assigned(promised[o])
    BY <1>1, <1>2 DEF Nothing, VersionsAssigned
  <2> QED BY <2>1 DEF PowerInit, PowerTypeOK, Nothing
<1> QED BY <1>1, <1>2, <1>4, <1>5, <1>6, <1>7
        DEF OrderedInv, CallsInv, LatestAtomic, Writing, Working

(* A power failure leaves a store that satisfies the invariant.            *)
LEMMA OrderedLoss ==
  ASSUME OrderedInv, PowerLoss
  PROVE  /\ StateInv' /\ PlacesKept /\ LatestAtomic' /\ (\A d \in possible' : Readable(d)')
         /\ Settled(returned)' /\ (\A t \in Threads : Settled(pending[t])')
         /\ PowerLossAtomic'
<1>1. PICK d \in possible : Reopens(d) /\ possible' = {d}
  BY LossReopens
<1>2. StateInv /\ Readable(d)
  BY <1>1 DEF OrderedInv
<1>3. StateInv'
  BY <1>1, <1>2, StateReopened
<1>4. VersionsAssigned' /\ PlacesKept
  BY <1>1, <1>3, OrderAssignedNext, PlacesKeptReset DEF StateInv, Reopens
<1>5. Readable(d)'
  BY <1>2, <1>4, ReadableStays
<1>6. /\ \A o \in ObjectIds : latest'[o] = VersionIn(d, o)
      /\ order' = order /\ wrote' = wrote /\ returned' = latest'
      /\ pending' = [t \in Threads |-> Nothing]
  BY <1>1 DEF Reopens, PowerLoss, ForgetSyncs
<1>7. \A o, p \in ObjectIds : VersionIn(d, o) # 0 /\ p \in wrote[VersionIn(d, o)] =>
        order[VersionIn(d, o)] <= order[VersionIn(d, p)]
  BY <1>1 DEF OrderedInv, PowerLossAtomic
<1>8. LatestAtomic'
  BY <1>6, <1>7 DEF LatestAtomic
<1>9. PowerLossAtomic'
  <2> SUFFICES ASSUME NEW e \in possible', NEW o \in ObjectIds, NEW p \in ObjectIds,
                      VersionIn(e, o) # 0, p \in wrote'[VersionIn(e, o)]
               PROVE  order'[VersionIn(e, o)] <= order'[VersionIn(e, p)]
    BY DEF PowerLossAtomic, VersionIn, FilesWith, LastFileWith, Position
  <2>1. e = d
    BY <1>1
  <2> QED BY <1>6, <1>7, <2>1
<1>10. latest' \in [ObjectIds -> Nat]
  BY <1>3 DEF StateInv, CoreInv, TypeOK
<1>11. Settled(returned)'
  BY <1>4, <1>6, <1>10 DEF Settled, VersionsAssigned
<1>12. \A t \in Threads : Settled(pending[t])'
  <2>1. Settled(Nothing)'
    BY <1>4, SettledFacts, PTL
  <2> QED BY <1>6, <2>1 DEF Settled, Nothing
<1> QED BY <1>1, <1>3, <1>4, <1>5, <1>8, <1>9, <1>11, <1>12

(* Every step preserves the invariant on an ordered file system.           *)
LEMMA OrderedNext ==
  ASSUME CallersExclude, OrderedInv, setup.ordered, [PowerNext]_<<vars, powerVars>>
  PROVE  OrderedInv' /\ PlacesKept
<1> USE DEF OrderedInv
<1>0. /\ setup' = setup /\ (Running \/ PowerLoss) /\ CoreInv
      /\ \A c \in 0 .. calls : wrote'[c] = wrote[c]
  BY PowerSteps DEF StateInv, CoreInv
<1>1. /\ StateInv' /\ PlacesKept /\ LatestAtomic' /\ (\A d \in possible' : Readable(d)')
      /\ Settled(returned)' /\ (\A t \in Threads : Settled(pending[t])')
      /\ PowerLossAtomic'
  <2>1. CASE PowerLoss
    BY <2>1, OrderedLoss
  <2>2. CASE Running /\ ~ PowerLoss
    <3>1. [Next]_vars /\ StateInv'
      BY <2>2, StateNext DEF Running
    <3>2. PlacesKept
      BY <3>1, PlacesKeptNext DEF StateInv
    <3>3. LatestAtomic'
      BY <1>0, <3>1, AtomicNext
    <3>4. PowerLossAtomic' /\ \A d \in possible' : Readable(d)'
      BY <1>0, <2>2, <3>1, <3>3, LossAtomicNext, PossibleNext
    <3>5. PromisesChange
      BY <2>2, PromisesStep
    <3>6. Settled(returned)' /\ \A t \in Threads : Settled(pending[t])'
      BY <3>1, <3>5, SettledNext
    <3> QED BY <3>1, <3>2, <3>3, <3>4, <3>6
  <2> QED BY <1>0, <2>1, <2>2
<1>2. CallsInv'
  BY <1>1, CallsNext
<1>3. PowerTypeOK'
  BY <1>0, <1>1, PowerTypes
<1> QED BY <1>1, <1>2, <1>3

(* In every reachable state of a store on an ordered file system, power    *)
(* failures included, the store satisfies the invariants of Marble, and    *)
(* every directory that a power failure may leave can be opened.           *)
THEOREM OrderedInduction ==
  ASSUME CallersExclude PROVE PowerSpec => [](setup.ordered => OrderedInv)
<1>1. PowerInit => (setup.ordered => OrderedInv)
  BY OrderedInit
<1>2. (setup.ordered => OrderedInv) /\ [PowerNext]_<<vars, powerVars>>
      => (setup.ordered => OrderedInv)'
  <2>1. [PowerNext]_<<vars, powerVars>> => setup' = setup
    BY DEF PowerNext, powerVars
  <2> QED BY <2>1, OrderedNext
<1> QED BY <1>1, <1>2, PTL DEF PowerSpec

(* "Upon crash, batches are recovered atomically", when the crash is a     *)
(* power failure: on a file system that keeps the order of the operations  *)
(* on a directory, whenever power fails, a version that is recovered comes *)
(* with every other object of its batch, or with later versions of them,   *)
(* with and without fsync_each_batch, also after restarts, earlier power   *)
(* failures, and when maintenance has taken the batch apart.               *)
THEOREM PowerLossAlwaysAtomic ==
  ASSUME CallersExclude PROVE PowerSpec => [](setup.ordered => PowerLossAtomic)
<1>1. (setup.ordered => OrderedInv) => (setup.ordered => PowerLossAtomic)
  BY DEF OrderedInv
<1> QED BY <1>1, OrderedInduction, PTL

(***************************************************************************)
(* What was promised.                                                      *)
(***************************************************************************)
(* No power failure now brings an object back to before these versions.    *)
Held(v) ==
  \A d \in possible : \A o \in ObjectIds : order[v[o]] <= order[VersionIn(d, o)]

(* With fsync_each_batch everything is durable when write_batch returns.   *)
FsyncInv ==
  /\ Held(returned) /\ Held(promised) /\ Settled(promised)
  /\ \A t \in Threads : sync_at[t] \in {"files", "directory"} => Held(pending[t])

(* Without it, and callers keep other calls from overlapping sync_all, its *)
(* thread is alone.                                                        *)
AloneInv ==
  \A t \in Threads : sync_at[t] \in {"files", "directory"} =>
    \A u \in Threads : pc[u] = "idle" /\ (u # t => sync_at[u] = "no")

(* No directory has a file for an object with a higher place than the last *)
(* one of the heap directory.                                              *)
PastInv ==
  \A d \in possible : \A o \in ObjectIds : \A f \in FilesWith(d, o) :
    \E g \in DOMAIN heap : IsLast(g, o) /\ Position(f) <= Position(g)

(* A file that is flagged survives every power failure, unless sync_all    *)
(* has just flagged it and will sync the directory; the files sync_all has *)
(* passed are flagged.                                                     *)
FlagsInv ==
  /\ synced \subseteq DOMAIN fams
  /\ (\A t \in Threads : sync_at[t] \in {"files", "directory"} => ~ synced_files[t]) =>
       \A f \in synced : /\ f \in DOMAIN heap
                         /\ \A d \in possible : f \in DOMAIN d /\ d[f] = heap[f]
  /\ \A t \in Threads : sync_at[t] = "files" /\ ~ synced_files[t] =>
       \A f \in DOMAIN fams : sync_cursor[t] <= f => f \in synced

(* What sync_all needs to keep its promise.                                *)
SyncInv ==
  AloneInv /\ PastInv /\ FlagsInv /\ Held(promised) /\ Settled(promised)

(* The setups in which promises are kept on an ordered file system.        *)
Durable ==
  setup.ordered /\ (setup.fsync_each_batch \/ (SyncsExclude /\ setup.restarts = 0))

(* The invariant of both ways to make batches durable.                     *)
DurableInv ==
  /\ setup.ordered => OrderedInv
  /\ Durable => IF setup.fsync_each_batch THEN FsyncInv ELSE SyncInv

(* What is settled and held stays held while the process runs or restarts. *)
LEMMA HeldStays ==
  ASSUME StateInv, StateInv', Running, setup.ordered, \A d \in possible : Readable(d),
         NEW v, Settled(v), Held(v)
  PROVE  Held(v)'
<1> SUFFICES ASSUME NEW d \in possible', NEW o \in ObjectIds
             PROVE  order'[v[o]] <= order'[VersionIn(d, o)]
  BY DEF Held, VersionIn, FilesWith, LastFileWith, Position
<1>1. VersionsAssigned /\ VersionsAssigned' /\ PlacesKept
  BY OrderAssigned, OrderAssignedNext, PlacesKeptNext DEF StateInv, Running
<1>2. /\ order'[v[o]] = order[v[o]] /\ order[v[o]] \in Nat
      /\ order[v[o]] <= order[latest[o]] /\ order[latest[o]] \in Nat
      /\ order'[latest[o]] = order[latest[o]]
      /\ order[latest[o]] <= order'[latest'[o]] /\ order'[latest'[o]] \in Nat
  BY <1>1, LatestGrows DEF Settled, PlacesKept, VersionsAssigned, StateInv, Running
<1>3. CASE d \in possible
  <2>1. Assigned(VersionIn(d, o)) /\ order[v[o]] <= order[VersionIn(d, o)]
    BY <1>1, <1>3, VersionInFacts DEF Held
  <2> QED BY <1>1, <1>2, <2>1 DEF PlacesKept
<1>4. CASE VersionIn(d, o) = latest[o]
  BY <1>2, <1>4
<1>5. CASE VersionIn(d, o) = latest'[o]
  BY <1>2, <1>5
<1> QED BY <1>3, <1>4, <1>5, PossibleNext

(* The later of two versions that are held is held.                        *)
LEMMA HeldLater ==
  ASSUME NEW v, NEW w, Held(v), Held(w)
  PROVE  Held(Later(v, w))
BY DEF Held, Later

(* After an fsync of the directory everything settled is held.             *)
LEMMA HeldSynced ==
  ASSUME StateInv, UNCHANGED vars, SyncHeapDirectory, NEW v, Settled(v)
  PROVE  Held(v)'
<1> SUFFICES ASSUME NEW d \in possible', NEW o \in ObjectIds
             PROVE  order'[v[o]] <= order'[VersionIn(d, o)]
  BY DEF Held, VersionIn, FilesWith, LastFileWith, Position
<1>1. Snapshot(d) /\ order' = order
  BY DEF SyncHeapDirectory, Snapshot, Kept, IsLast, vars, history
<1>2. VersionIn(d, o) = latest[o]
  BY <1>1, AllSnapshots DEF SnapshotsRead
<1> QED BY <1>1, <1>2 DEF Settled

(* A power failure keeps what is held.                                     *)
LEMMA HeldLoss ==
  ASSUME StateInv, StateInv', NEW d \in possible, Readable(d), Reopens(d), possible' = {d},
         NEW v \in [ObjectIds -> Nat], \A o \in ObjectIds : Assigned(v[o]), Held(v)
  PROVE  Held(v)' /\ Settled(v)'
<1>1. PlacesKept
  BY PlacesKeptReset DEF Reopens
<1>2. \A o \in ObjectIds : order[v[o]] <= order[VersionIn(d, o)]
  BY DEF Held
<1>3. order' = order /\ \A o \in ObjectIds : latest'[o] = VersionIn(d, o)
  BY DEF Reopens
<1>4. Held(v)'
  <2> SUFFICES ASSUME NEW e \in possible', NEW o \in ObjectIds
               PROVE  order'[v[o]] <= order'[VersionIn(e, o)]
    BY DEF Held, VersionIn, FilesWith, LastFileWith, Position
  <2>1. e = d
    OBVIOUS
  <2> QED BY <1>2, <1>3, <2>1
<1>5. Settled(v)'
  BY <1>1, <1>2, <1>3 DEF Settled, PlacesKept
<1> QED BY <1>4, <1>5

(* The versions that a store opened after a power failure starts from are  *)
(* held.                                                                   *)
LEMMA HeldReopened ==
  ASSUME StateInv', NEW d, Reopens(d), possible' = {d}, NEW v, v = latest'
  PROVE  Held(v)'
<1>1. VersionsAssigned'
  BY OrderAssignedNext DEF StateInv
<1> SUFFICES ASSUME NEW e \in possible', NEW o \in ObjectIds
             PROVE  order'[v[o]] <= order'[VersionIn(e, o)]
  BY DEF Held, VersionIn, FilesWith, LastFileWith, Position
<1>2. e = d /\ latest'[o] = VersionIn(d, o)
  BY DEF Reopens
<1>3. order'[latest'[o]] \in Nat
  BY <1>1 DEF VersionsAssigned
<1> QED BY <1>2, <1>3

(* With fsync_each_batch every step keeps the promises.                    *)
LEMMA FsyncNext ==
  ASSUME OrderedInv, OrderedInv', setup.ordered, setup.fsync_each_batch, FsyncInv,
         [PowerNext]_<<vars, powerVars>>
  PROVE  FsyncInv'
<1> USE DEF OrderedInv
<1>0. /\ Running \/ PowerLoss
      /\ promised \in [ObjectIds -> Nat] /\ \A o \in ObjectIds : Assigned(promised[o])
  BY PowerSteps DEF StateInv, CoreInv, PowerTypeOK
<1>1. CASE PowerLoss
  <2>1. PICK d \in possible : Reopens(d) /\ possible' = {d}
    BY <1>1, LossReopens
  <2>2. PICK v : v = promised
    OBVIOUS
  <2>3. Held(v)' /\ Settled(v)' /\ promised' = v
    BY <1>0, <1>1, <2>1, <2>2, HeldLoss DEF FsyncInv, PowerLoss
  <2>4. PICK w : w = latest'
    OBVIOUS
  <2>5. Held(w)' /\ returned' = w
    BY <1>1, <2>1, <2>4, HeldReopened DEF PowerLoss
  <2>6. \A t \in Threads : sync_at'[t] = "no"
    BY <1>1 DEF PowerLoss, ForgetSyncs
  <2>7. Held(promised)' /\ Settled(promised)' /\ Held(returned)'
    BY <2>3, <2>5 DEF Held, Settled
  <2> QED BY <2>6, <2>7 DEF FsyncInv
<1>2. CASE Running /\ ~ PowerLoss
  <2>0. PromisesChange /\ [Next]_vars
    BY <1>2, PromisesStep DEF Running
  <2>1. \A v : Settled(v) /\ Held(v) => Held(v)'
    BY <1>2, HeldStays
  <2>2. \A v : Settled(v) /\ SyncHeapDirectory /\ UNCHANGED vars => Held(v)'
    BY HeldSynced
  <2>3. \A v, w : Settled(v) /\ Settled(w) => Settled(Later(v, w))
    BY OrderAssigned, SettledFacts DEF StateInv
  <2>4. Held(returned)'
    <3>1. PICK v : v = returned'
      OBVIOUS
    <3>2. Held(v)'
      BY <2>0, <2>1, <2>2, <2>3, <3>1 DEF PromisesChange, FsyncInv
    <3> QED BY <3>1, <3>2 DEF Held
  <2>5. Held(promised)' /\ Settled(promised)'
    <3>1. PICK v : v = promised'
      OBVIOUS
    <3>2. CASE promised' = promised
      BY <2>0, <2>1, <3>1, <3>2, SettledStays DEF FsyncInv, Held, Settled
    <3>3. ASSUME NEW t \in Threads, promised' = Later(promised, pending[t])
          PROVE  Settled(v) /\ Settled(v)'
      BY <2>0, <2>3, <3>1, <3>3, SettledStays DEF FsyncInv
    <3>4. ASSUME NEW t \in Threads, promised' = Later(promised, pending[t]),
                 SyncFiles(t)
          PROVE  Held(v)'
      <4>1. sync_at[t] = "files"
        BY <3>4 DEF SyncFiles
      <4>2. Held(Later(promised, pending[t]))
        BY <4>1, HeldLater DEF FsyncInv
      <4> QED BY <2>1, <3>1, <3>3, <3>4, <4>2
    <3>5. promised' # promised => Held(v)' /\ Settled(v)'
      BY <2>0, <2>2, <3>3, <3>4 DEF PromisesChange
    <3>6. promised' # promised => Held(promised)' /\ Settled(promised)'
      BY <3>1, <3>5 DEF Held, Settled
    <3> QED BY <3>2, <3>6
  <2>6. ASSUME NEW t \in Threads, sync_at'[t] \in {"files", "directory"}
        PROVE  Held(pending[t])'
    <3>1. PICK v : v = pending'[t]
      OBVIOUS
    <3>2. Settled(v) /\ Held(v)
      BY <2>0, <2>6, <3>1 DEF PromisesChange, FsyncInv, SyncFiles
    <3>3. Held(v)'
      BY <2>1, <3>2
    <3> QED BY <3>1, <3>3 DEF Held
  <2> QED BY <2>4, <2>5, <2>6 DEF FsyncInv
<1> QED BY <1>0, <1>1, <1>2

(***************************************************************************)
(* sync_all without fsync_each_batch.                                      *)
(***************************************************************************)
(* While sync_all runs, it runs alone.                                     *)
LEMMA AloneNext ==
  ASSUME SyncsExclude, PowerTypeOK, ~ setup.fsync_each_batch, AloneInv,
         [PowerNext]_<<vars, powerVars>>
  PROVE  AloneInv'
<1>0. sync_at \in [Threads -> {"no", "batch", "files", "directory"}]
  BY DEF PowerTypeOK
<1>1. ASSUME NEW t \in Threads, Begin(t) PROVE AloneInv'
  <2>1. UNCHANGED sync_at /\ \A u \in Threads : sync_at[u] \notin {"files", "directory"}
    BY <1>1 DEF Begin, NoSync, syncVars
  <2> QED BY <2>1 DEF AloneInv
<1>2. ASSUME NEW t \in Threads, StepOn(t) PROVE AloneInv'
  <2>1. pc[t] # "idle" /\ UNCHANGED sync_at
    BY <1>2, StepInCall DEF StepOn, EndOfBatch
  <2> QED BY <2>1 DEF AloneInv
<1>3. ASSUME NEW t \in Threads, FsyncBatch(t) PROVE AloneInv'
  <2>1. sync_at[t] = "batch" /\ sync_at' = [sync_at EXCEPT ![t] = "no"] /\ UNCHANGED vars
    BY <1>3 DEF FsyncBatch
  <2> QED BY <1>0, <2>1 DEF AloneInv, vars, local
<1>4. ASSUME NEW t \in Threads, SyncAll(t) PROVE AloneInv'
  <2>1. /\ sync_at' = [sync_at EXCEPT ![t] = "files"] /\ UNCHANGED vars
        /\ \A u \in Threads : pc[u] = "idle" /\ sync_at[u] = "no"
    BY <1>4 DEF SyncAll
  <2> QED BY <1>0, <2>1 DEF AloneInv, vars, local
<1>5. ASSUME UNCHANGED <<pc, sync_at>> PROVE AloneInv'
  BY <1>5 DEF AloneInv
<1>6. ASSUME NEW t \in Threads, SyncFile(t) PROVE AloneInv'
  BY <1>5, <1>6 DEF SyncFile, vars, local
<1>7. ASSUME NEW t \in Threads, SyncFiles(t) \/ SyncDirectory(t) PROVE AloneInv'
  <2>1. /\ sync_at[t] \in {"files", "directory"} /\ UNCHANGED vars
        /\ \E l \in {"no", "directory"} : sync_at' = [sync_at EXCEPT ![t] = l]
    BY <1>7 DEF SyncFiles, SyncDirectory, SyncReturns
  <2> QED BY <1>0, <2>1 DEF AloneInv, vars, local
<1>8. ASSUME NEW f \in DOMAIN heap, Unlink(f), UNCHANGED <<syncVars, losses, promises>>
      PROVE  AloneInv'
  BY <1>5, <1>8 DEF Unlink, local, syncVars
<1>9. CASE Restart \/ PowerLoss
  BY <1>9 DEF Restart, PowerLoss, ForgetSyncs, AloneInv
<1>10. CASE UNCHANGED <<vars, powerVars>>
  BY <1>5, <1>10 DEF vars, local, powerVars, syncVars
<1> QED BY <1>1, <1>2, <1>3, <1>4, <1>6, <1>7, <1>8, <1>9, <1>10 DEF PowerNext

(* The files of a snapshot come before the last ones: a state predicate,   *)
(* which can be primed.                                                    *)
SnapshotsPast ==
  \A d : Snapshot(d) => \A o \in ObjectIds : \A f \in FilesWith(d, o) :
    \E g \in DOMAIN heap : IsLast(g, o) /\ Position(f) <= Position(g)

(* The last file of an object exists as soon as one names it.              *)
LEMMA CorePast == CoreInv => SnapshotsPast
<1> SUFFICES ASSUME CoreInv, NEW d, Snapshot(d), NEW o \in ObjectIds, NEW f \in FilesWith(d, o)
             PROVE  \E g \in DOMAIN heap : IsLast(g, o) /\ Position(f) <= Position(g)
  BY DEF SnapshotsPast
<1>1. f \in DOMAIN heap /\ o \in heap[f].trailer
  BY DEF FilesWith, Snapshot, Kept
<1>2. IsLast(LastFileWith(heap, o), o)
  BY <1>1, LastExists DEF Unnamed
<1> QED BY <1>1, <1>2 DEF IsLast

(* The same of the state after a step.                                     *)
LEMMA CorePastNext == CoreInv' => SnapshotsPast'
BY CorePast, PTL

(* A last file stays in the directory until the store has a later one.     *)
LEMMA LastStays ==
  ASSUME StateInv, [Next]_vars, NEW o \in ObjectIds, NEW g, IsLast(g, o)
  PROVE  g \in DOMAIN heap' /\ heap'[g] = heap[g]
<1> USE DEF StateInv
<1>0. g \in DOMAIN heap
  BY DEF IsLast
<1>1. ASSUME NEW t \in Threads, WriteBatch(t) \/ StartMaintenance(t) \/ Step(t)
      PROVE  g \in DOMAIN heap' /\ heap'[g] = heap[g]
  <2>1. HeapChange(t)
    BY <1>1, HeapEffect
  <2>2. Commit(t) => base[t] \notin DOMAIN heap
    BY DEF Commit, KnownInv, InstallInv
  <2> QED BY <1>0, <2>1, <2>2 DEF HeapChange
<1>2. ASSUME NEW f \in DOMAIN heap, Unlink(f) PROVE g \in DOMAIN heap' /\ heap'[g] = heap[g]
  <2>1. g \in DOMAIN fams
    BY <1>0 DEF RecoveryInv, CommitInv, CommittedOk
  <2> QED BY <1>0, <1>2, <2>1 DEF Unlink
<1>3. CASE CrashRecover \/ CloseAndReopen
  <2>1. g \in DOMAIN heap'
    BY <1>3, LastSurvives DEF RecoveryInv
  <2> QED BY <1>3, <2>1, RestartFacts DEF CoreInv, Kept
<1>4. CASE UNCHANGED vars
  BY <1>0, <1>4 DEF vars, shared
<1> QED BY <1>1, <1>2, <1>3, <1>4 DEF Next

(* No step leaves a directory with a file past the last ones.              *)
LEMMA PastNext ==
  ASSUME StateInv, StateInv', Running, setup.ordered, \A d \in possible : Readable(d),
         PastInv
  PROVE  PastInv'
<1>1. SnapshotsPast /\ SnapshotsPast' /\ [Next]_vars
  BY CorePast, CorePastNext DEF StateInv, Running
<1>2. ASSUME NEW o \in ObjectIds, NEW g, IsLast(g, o)
      PROVE  \E h \in DOMAIN heap' : IsLast(h, o)' /\ Position(g) <= Position(h)
  <2>1. g \in DOMAIN heap' /\ o \in heap'[g].trailer
    BY <1>1, <1>2, LastStays DEF IsLast
  <2>2. PICK e : e = heap'
    OBVIOUS
  <2>3. Snapshot(e)' /\ g \in FilesWith(e, o)
    BY <2>1, <2>2 DEF Snapshot, Kept, IsLast, FilesWith
  <2> QED BY <1>1, <2>3 DEF SnapshotsPast, FilesWith, Position
<1>3. ASSUME NEW d \in possible', NEW o \in ObjectIds, NEW f \in FilesWith(d, o)
      PROVE  \E h \in DOMAIN heap' : IsLast(h, o)' /\ Position(f) <= Position(h)
  <2>0. d \in possible \/ Snapshot(d) \/ Snapshot(d)'
    <3>1. SyncHeapDirectory => Snapshot(d)
      BY DEF SyncHeapDirectory, Snapshot, Kept, IsLast
    <3> QED BY <3>1, RecordedSnapshots DEF Running
  <2>1. CASE d \in possible \/ Snapshot(d)
    <3>1. PICK g \in DOMAIN heap : IsLast(g, o) /\ Position(f) <= Position(g)
      BY <1>1, <2>1 DEF PastInv, SnapshotsPast
    <3>2. PICK h \in DOMAIN heap' : IsLast(h, o)' /\ Position(g) <= Position(h)
      BY <1>2, <3>1
    <3>3. f \in FamLocations /\ g \in FamLocations /\ h \in FamLocations
      <4>1. d \in possible => f \in FamLocations
        BY DirectoryTypes DEF Readable, FilesWith
      <4>2. Snapshot(d) => f \in DOMAIN heap
        BY DEF Snapshot, Kept, FilesWith
      <4>3. TypeOK /\ DOMAIN heap' \subseteq FamLocations
        BY DEF StateInv, CoreInv, TypeOK
      <4> QED BY <2>1, <4>1, <4>2, <4>3, HeapTypes
    <3>4. Position(f) \in Nat /\ Position(g) \in Nat /\ Position(h) \in Nat
      BY <3>3, FamLocationFacts
    <3> QED BY <3>1, <3>2, <3>4
  <2>2. CASE Snapshot(d)'
    BY <1>1, <2>2 DEF SnapshotsPast, FilesWith, Position
  <2> QED BY <2>0, <2>1, <2>2
<1> QED BY <1>3 DEF PastInv, FilesWith, Position

(* The same after a power failure, when the heap directory is the only one *)
(* possible.                                                               *)
LEMMA PastLoss ==
  ASSUME StateInv', NEW d, heap' = d, possible' = {d}
  PROVE  PastInv'
<1>1. SnapshotsPast'
  BY CorePastNext DEF StateInv
<1> SUFFICES ASSUME NEW e \in possible', NEW o \in ObjectIds, NEW f \in FilesWith(e, o)
             PROVE  \E h \in DOMAIN heap' : IsLast(h, o)' /\ Position(f) <= Position(h)
  BY DEF PastInv, FilesWith, Position
<1>2. Snapshot(e)'
  BY DEF Snapshot, Kept, IsLast
<1> QED BY <1>1, <1>2 DEF SnapshotsPast, FilesWith, Position

(* A file that every directory has, and that the step leaves alone, is in  *)
(* every directory after it.                                               *)
LEMMA FlagRecorded ==
  ASSUME setup.ordered, RecordOperation, NEW f \in DOMAIN heap,
         f \in DOMAIN heap', heap'[f] = heap[f],
         \A d \in possible : f \in DOMAIN d /\ d[f] = heap[f], NEW e \in possible'
  PROVE  f \in DOMAIN e /\ e[f] = heap'[f]
<1>1. CASE e \in possible
  BY <1>1
<1>2. ASSUME NEW gone \in SUBSET (DOMAIN heap \ DOMAIN heap'), e = Redo(heap, gone)
      PROVE  f \in DOMAIN e /\ e[f] = heap'[f]
  BY <1>2 DEF Redo
<1> QED BY <1>1, <1>2 DEF RecordOperation

(* Flags when no sync_all is running.                                      *)
LEMMA FlagsQuiet ==
  ASSUME \A t \in Threads : sync_at'[t] \notin {"files", "directory"},
         synced' \subseteq DOMAIN fams',
         \A f \in synced' : /\ f \in DOMAIN heap'
                            /\ \A d \in possible' : f \in DOMAIN d /\ d[f] = heap'[f]
  PROVE  FlagsInv'
BY DEF FlagsInv

(* A step of a call keeps the flags right.                                 *)
LEMMA FlagsStep ==
  ASSUME StateInv, PowerTypeOK, AloneInv, FlagsInv, setup.ordered, ~ setup.fsync_each_batch,
         NEW t \in Threads, StepOn(t)
  PROVE  FlagsInv'
<1>1. /\ Step(t) /\ RecordOperation /\ sync_at' = sync_at
      /\ synced' = synced \cap DOMAIN fams'
  BY DEF StepOn, EndOfBatch, TrackSynced
<1>2. \A u \in Threads : sync_at[u] \notin {"files", "directory"}
  BY <1>1, StepInCall DEF AloneInv
<1>3. \A f \in synced : /\ f \in DOMAIN heap
                        /\ \A d \in possible : f \in DOMAIN d /\ d[f] = heap[f]
  BY <1>2 DEF FlagsInv
<1>4. \A f \in DOMAIN heap : f \in DOMAIN heap' /\ heap'[f] = heap[f]
  <2>1. HeapChange(t)
    BY <1>1, HeapEffect
  <2>2. Commit(t) => base[t] \notin DOMAIN heap
    BY DEF Commit, StateInv, KnownInv, InstallInv
  <2> QED BY <2>1, <2>2 DEF HeapChange
<1>5. \A f \in synced : /\ f \in DOMAIN heap'
                        /\ \A d \in possible' : f \in DOMAIN d /\ d[f] = heap'[f]
  BY <1>1, <1>3, <1>4, FlagRecorded
<1> QED BY <1>1, <1>2, <1>5, FlagsQuiet

(* So does every step of sync_all.                                         *)
LEMMA FlagsSync ==
  ASSUME StateInv, PowerTypeOK, AloneInv, FlagsInv, SyncsExclude, NEW t \in Threads,
         SyncAll(t) \/ SyncFile(t) \/ SyncFiles(t) \/ SyncDirectory(t)
  PROVE  FlagsInv'
<1>0. /\ TypeOK /\ HoldersInv
      /\ sync_at \in [Threads -> {"no", "batch", "files", "directory"}]
      /\ sync_cursor \in [Threads -> Nat] /\ synced_files \in [Threads -> BOOLEAN]
  BY DEF StateInv, CoreInv, PowerTypeOK
<1>1. CASE SyncAll(t)
  <2>1. /\ UNCHANGED <<fams, heap, possible, synced>>
        /\ \A u \in Threads : sync_at[u] = "no"
        /\ sync_at' = [sync_at EXCEPT ![t] = "files"]
        /\ sync_cursor' = [sync_cursor EXCEPT ![t] = Top]
    BY <1>1 DEF SyncAll, vars, shared
  <2>2. ASSUME NEW f \in DOMAIN fams PROVE f < Top
    <3>1. Placed(f, ObjsOf(f)) /\ f \in FamLocations
      BY <1>0, FamTypes DEF StateInv, CoreInv, FilesInv, Files
    <3> QED BY <3>1, FamLocationFacts, BitAssumption DEF Placed, Top
  <2>3. ASSUME NEW u \in Threads, sync_at'[u] = "files", NEW f \in DOMAIN fams,
               sync_cursor'[u] <= f
        PROVE  FALSE
    <3>1. u = t /\ sync_cursor'[u] = Top /\ f < Top
      BY <1>0, <2>1, <2>2, <2>3
    <3> QED BY <1>0, <2>3, <3>1, FamTypes, FamLocationFacts, BitAssumption DEF Top
  <2> QED BY <2>1, <2>3 DEF FlagsInv
<1>2. CASE SyncFile(t)
  <2> DEFINE g == NextFam(sync_cursor[t])
  <2>1. /\ UNCHANGED <<fams, heap, possible, sync_at>> /\ sync_at[t] = "files"
        /\ sync_cursor' = [sync_cursor EXCEPT ![t] = g] /\ synced' = synced \cup {g}
        /\ synced_files' = [synced_files EXCEPT ![t] = synced_files[t] \/ g \notin synced]
        /\ HasNextFam(sync_cursor[t])
    BY <1>2 DEF SyncFile, vars, shared
  <2>2. /\ g \in DOMAIN fams /\ DOMAIN fams \subseteq Nat
        /\ \A f \in DOMAIN fams : f < sync_cursor[t] => f <= g
    BY <1>0, <2>1, NextFamType, FamTypes, FamLocationFacts
  <2> HIDE DEF g
  <2>3. synced' \subseteq DOMAIN fams'
    BY <2>1, <2>2 DEF FlagsInv
  <2>4. ASSUME \A u \in Threads : sync_at'[u] \in {"files", "directory"} => ~ synced_files'[u]
        PROVE  \A f \in synced' : /\ f \in DOMAIN heap'
                                  /\ \A d \in possible' : f \in DOMAIN d /\ d[f] = heap'[f]
    <3>1. synced_files'[t] = (synced_files[t] \/ g \notin synced)
      BY <1>0, <2>1
    <3>2. \A u \in Threads : u # t => synced_files'[u] = synced_files[u]
      BY <1>0, <2>1
    <3>3. ~ synced_files[t] /\ g \in synced
      BY <2>1, <2>4, <3>1
    <3>4. \A u \in Threads : sync_at[u] \in {"files", "directory"} => ~ synced_files[u]
      BY <2>1, <2>4, <3>2, <3>3
    <3> QED BY <2>1, <3>3, <3>4 DEF FlagsInv
  <2>5. ASSUME NEW u \in Threads, sync_at'[u] = "files", ~ synced_files'[u],
               NEW f \in DOMAIN fams', sync_cursor'[u] <= f
        PROVE  f \in synced'
    <3>1. u = t
      BY <2>1, <2>5 DEF AloneInv
    <3>2. ~ synced_files[t] /\ sync_cursor'[t] = g
      BY <1>0, <2>1, <2>5, <3>1
    <3>3. sync_cursor[t] <= f => f \in synced
      BY <2>1, <3>2 DEF FlagsInv
    <3>4. f \in Nat /\ g \in Nat /\ g <= f /\ (f < sync_cursor[t] => f <= g)
      BY <2>1, <2>2, <2>5, <3>1, <3>2
    <3>5. sync_cursor[t] <= f \/ f = g
      BY <1>0, <3>4
    <3> QED BY <2>1, <3>3, <3>5
  <2> QED BY <2>3, <2>4, <2>5 DEF FlagsInv
<1>3. CASE SyncFiles(t)
  <2>1. /\ UNCHANGED <<fams, heap, possible, synced, synced_files>> /\ sync_at[t] = "files"
        /\ \A u \in Threads : u # t => sync_at[u] = "no" /\ sync_at'[u] = "no"
        /\ sync_at'[t] = IF synced_files[t] THEN "directory" ELSE "no"
    BY <1>0, <1>3 DEF SyncFiles, SyncReturns, AloneInv, vars, shared
  <2>2. (\A u \in Threads : sync_at'[u] \in {"files", "directory"} => ~ synced_files'[u]) =>
          \A u \in Threads : sync_at[u] \in {"files", "directory"} => ~ synced_files[u]
    BY <2>1
  <2>3. \A u \in Threads : sync_at'[u] # "files"
    BY <2>1
  <2> QED BY <2>1, <2>2, <2>3 DEF FlagsInv
<1>4. CASE SyncDirectory(t)
  <2>1. /\ UNCHANGED <<fams, heap, synced>> /\ possible' = {heap}
        /\ sync_at[t] = "directory" /\ sync_at' = [sync_at EXCEPT ![t] = "no"]
    BY <1>4 DEF SyncDirectory, SyncReturns, SyncHeapDirectory, vars, shared
  <2>2. /\ \A u \in Threads : sync_at'[u] \notin {"files", "directory"}
        /\ DOMAIN fams \subseteq DOMAIN heap
    BY <1>0, <2>1, IdleFilesKept DEF AloneInv
  <2> QED BY <2>1, <2>2, FlagsQuiet DEF FlagsInv
<1> QED BY <1>1, <1>2, <1>3, <1>4

(* Every step keeps the flags right when the store is opened over synced   *)
(* directories only.                                                       *)
LEMMA FlagsNext ==
  ASSUME OrderedInv, AloneInv, FlagsInv, SyncsExclude, setup.ordered,
         ~ setup.fsync_each_batch, setup.restarts = 0, [PowerNext]_<<vars, powerVars>>
  PROVE  FlagsInv'
<1> USE DEF OrderedInv
<1>0. sync_at \in [Threads -> {"no", "batch", "files", "directory"}]
  BY DEF PowerTypeOK
<1>1. ASSUME UNCHANGED <<fams, heap, possible, syncVars>> PROVE FlagsInv'
  BY <1>1 DEF FlagsInv, syncVars
<1>2. ASSUME NEW t \in Threads, Begin(t) PROVE FlagsInv'
  BY <1>1, <1>2 DEF Begin, WriteBatch, StartMaintenance, shared
<1>3. ASSUME NEW t \in Threads, FsyncBatch(t) PROVE FlagsInv'
  <2>1. /\ UNCHANGED <<fams, heap, synced, sync_cursor, synced_files>> /\ possible' = {heap}
        /\ sync_at[t] = "batch" /\ sync_at' = [sync_at EXCEPT ![t] = "no"]
    BY <1>3 DEF FsyncBatch, SyncHeapDirectory, vars, shared
  <2>2. \A u \in Threads : \A l \in {"files", "directory"} : sync_at'[u] = l <=> sync_at[u] = l
    BY <1>0, <2>1
  <2> QED BY <2>1, <2>2 DEF FlagsInv
<1>4. ASSUME NEW f \in DOMAIN heap, Unlink(f), RecordOperation,
             UNCHANGED <<syncVars, losses, promises>>
      PROVE  FlagsInv'
  <2>1. /\ f \notin DOMAIN fams /\ fams' = fams
        /\ heap' = [g \in DOMAIN heap \ {f} |-> heap[g]]
        /\ UNCHANGED <<synced, sync_at, sync_cursor, synced_files>>
    BY <1>4 DEF Unlink, syncVars
  <2>2. \A g \in synced \cap DOMAIN heap : g \in DOMAIN heap' /\ heap'[g] = heap[g]
    BY <2>1 DEF FlagsInv
  <2>3. \A g \in synced \cap DOMAIN heap :
          (\A d \in possible : g \in DOMAIN d /\ d[g] = heap[g]) =>
            \A d \in possible' : g \in DOMAIN d /\ d[g] = heap'[g]
    BY <1>4, <2>2, FlagRecorded
  <2> QED BY <2>1, <2>2, <2>3 DEF FlagsInv
<1>5. ~ Restart
  BY DEF Restart, StateInv, CoreInv, TypeOK
<1>6. CASE PowerLoss
  <2>1. PICK d \in possible : Reopens(d) /\ possible' = {d}
    BY <1>6, LossReopens
  <2>2. DOMAIN fams' = DOMAIN d /\ heap' = d
    BY <2>1, RecoverFams DEF Readable, Reopens
  <2>3. synced' = DOMAIN d /\ \A t \in Threads : sync_at'[t] = "no"
    BY <1>6, <2>2 DEF PowerLoss, RecoveredSynced, ForgetSyncs
  <2> QED BY <2>1, <2>2, <2>3, FlagsQuiet
<1>7. CASE UNCHANGED <<vars, powerVars>>
  BY <1>1, <1>7 DEF vars, shared, powerVars
<1> QED BY <1>1, <1>2, <1>3, <1>4, <1>5, <1>6, <1>7, FlagsStep, FlagsSync DEF PowerNext

(* When every open file is flagged, and every flag is right, all of what   *)
(* is committed survives a power failure, and so what is settled is held:  *)
(* sync_all may return without an fsync of the directory.                  *)
LEMMA HeldFlagged ==
  ASSUME StateInv, PastInv, \A d \in possible : Readable(d),
         \A f \in DOMAIN fams : \A d \in possible : f \in DOMAIN d /\ d[f] = heap[f],
         NEW v, Settled(v)
  PROVE  Held(v)
<1> SUFFICES ASSUME NEW d \in possible, NEW o \in ObjectIds
             PROVE  order[v[o]] <= order[VersionIn(d, o)]
  BY DEF Held
<1>1. CoreInv /\ CommittedOk(o) /\ Directory(d)
  BY DEF StateInv, RecoveryInv, CommitInv, Readable
<1>2. VersionIn(d, o) = latest[o]
  <2>1. CASE Unnamed(o)
    <3>1. FilesWith(d, o) = {}
      BY <2>1 DEF PastInv, IsLast, Unnamed
    <3> QED BY <1>1, <2>1, <3>1 DEF VersionIn, CommittedOk
  <2>2. CASE ~ Unnamed(o)
    <3>1. PICK g \in DOMAIN heap : IsLast(g, o)
      BY <1>1, <2>2, LastExists DEF IsLast
    <3>2. /\ g \in DOMAIN d /\ d[g] = heap[g] /\ o \in d[g].trailer
          /\ d[g].objs[o].val = latest[o]
      BY <1>1, <3>1 DEF CommittedOk, IsLast
    <3>3. FilesWith(d, o) # {}
      BY <3>2 DEF FilesWith
    <3>4. PICK f : /\ f = LastFileWith(d, o) /\ f \in FilesWith(d, o)
                   /\ Position(g) <= Position(f)
      BY <1>1, <3>2, <3>3, LastFileFacts DEF FilesWith
    <3>5. PICK h \in DOMAIN heap : IsLast(h, o) /\ Position(f) <= Position(h)
      BY <3>4 DEF PastInv
    <3>6. h = g
      BY <1>1, <3>1, <3>5, LastExists
    <3>7. f \in DOMAIN d /\ Position(f) \in Nat /\ Position(g) \in Nat
      BY <1>1, <3>2, <3>4, DirectoryTypes DEF FilesWith
    <3>8. f = g
      BY <1>1, <3>2, <3>4, <3>5, <3>6, <3>7 DEF Directory, Disjoint
    <3> QED BY <3>2, <3>3, <3>4, <3>8 DEF VersionIn
  <2> QED BY <2>1, <2>2
<1> QED BY <1>2 DEF Settled

(* sync_all returns without an fsync only when every file is flagged.      *)
LEMMA HeldReturned ==
  ASSUME StateInv, PowerTypeOK, AloneInv, PastInv, FlagsInv, \A d \in possible : Readable(d),
         NEW t \in Threads, SyncFiles(t), ~ synced_files[t], NEW v, Settled(v)
  PROVE  Held(v)
<1>1. sync_at[t] = "files" /\ ~ HasNextFam(sync_cursor[t]) /\ sync_cursor[t] \in Nat /\ TypeOK
  BY DEF SyncFiles, PowerTypeOK, StateInv, CoreInv
<1>2. \A f \in DOMAIN fams : f \in synced
  <2>1. \A f \in DOMAIN fams : f \in Nat /\ ~ (f < sync_cursor[t])
    BY <1>1, FamTypes, FamLocationFacts DEF HasNextFam
  <2>2. \A f \in DOMAIN fams : sync_cursor[t] <= f
    BY <1>1, <2>1
  <2> QED BY <1>1, <2>2 DEF FlagsInv
<1>3. \A u \in Threads : sync_at[u] \in {"files", "directory"} => ~ synced_files[u]
  BY <1>1 DEF AloneInv
<1>4. \A f \in DOMAIN fams : \A d \in possible : f \in DOMAIN d /\ d[f] = heap[f]
  BY <1>2, <1>3 DEF FlagsInv
<1> QED BY <1>4, HeldFlagged

(* Without fsync_each_batch every step keeps what sync_all promised.       *)
LEMMA SyncNext ==
  ASSUME OrderedInv, OrderedInv', setup.ordered, ~ setup.fsync_each_batch, SyncsExclude,
         setup.restarts = 0, SyncInv, [PowerNext]_<<vars, powerVars>>
  PROVE  SyncInv'
<1> USE DEF OrderedInv, SyncInv
<1>0. /\ Running \/ PowerLoss
      /\ promised \in [ObjectIds -> Nat] /\ \A o \in ObjectIds : Assigned(promised[o])
  BY PowerSteps DEF StateInv, CoreInv, PowerTypeOK
<1>1. AloneInv' /\ FlagsInv'
  BY AloneNext, FlagsNext
<1>2. CASE PowerLoss
  <2>1. PICK d \in possible : Reopens(d) /\ possible' = {d}
    BY <1>2, LossReopens
  <2>2. PICK v : v = promised
    OBVIOUS
  <2>3. Held(v)' /\ Settled(v)' /\ promised' = v
    BY <1>0, <1>2, <2>1, <2>2, HeldLoss DEF PowerLoss
  <2>4. PastInv'
    BY <2>1, PastLoss DEF Reopens
  <2>5. Held(promised)' /\ Settled(promised)'
    BY <2>3 DEF Held, Settled
  <2> QED BY <1>1, <2>4, <2>5
<1>3. CASE Running /\ ~ PowerLoss
  <2>0. PromisesChange /\ [Next]_vars
    BY <1>3, PromisesStep DEF Running
  <2>1. \A v : Settled(v) /\ Held(v) => Held(v)'
    BY <1>3, HeldStays
  <2>2. \A v : Settled(v) /\ SyncHeapDirectory /\ UNCHANGED vars => Held(v)'
    BY HeldSynced
  <2>3. \A v : Settled(v) => Settled(v)'
    BY <2>0, SettledStays
  <2>4. PICK v : v = promised'
    OBVIOUS
  <2>5. Settled(v)
    BY <2>0, <2>4, OrderAssigned, SettledFacts DEF StateInv, PromisesChange
  <2>6. Held(v)'
    <3>1. CASE promised' = promised
      BY <2>1, <2>4, <2>5, <3>1
    <3>2. CASE SyncHeapDirectory /\ UNCHANGED vars
      BY <2>2, <2>5, <3>2
    <3>3. ASSUME NEW t \in Threads, SyncFiles(t), ~ synced_files[t] PROVE Held(v)'
      BY <2>1, <2>5, <3>3, HeldReturned
    <3> QED BY <2>0, <3>1, <3>2, <3>3 DEF PromisesChange
  <2>7. PastInv'
    BY <1>3, PastNext
  <2>8. Held(promised)' /\ Settled(promised)'
    BY <2>3, <2>4, <2>5, <2>6 DEF Held, Settled
  <2> QED BY <1>1, <2>7, <2>8
<1> QED BY <1>0, <1>2, <1>3

(* Nothing was promised of an empty store.                                 *)
LEMMA DurableInit == PowerInit => DurableInv
<1> SUFFICES ASSUME PowerInit PROVE FsyncInv /\ SyncInv
  BY OrderedInit DEF DurableInv
<1>1. OrderedInv /\ VersionsAssigned
  BY OrderedInit, OrderAssigned DEF OrderedInv, StateInv
<1>2. /\ returned = Nothing /\ promised = Nothing /\ synced = {} /\ possible = {heap}
      /\ \A t \in Threads : sync_at[t] = "no"
      /\ DOMAIN heap = {}
  BY DEF PowerInit, Init
<1>3. Settled(Nothing)
  BY <1>1, SettledFacts
<1>4. Held(Nothing)
  <2>1. ASSUME NEW o \in ObjectIds PROVE VersionIn(heap, o) = 0 /\ Nothing[o] = 0
    BY <1>2 DEF VersionIn, FilesWith, Nothing
  <2>2. order[0] \in Nat
    BY <1>1 DEF VersionsAssigned
  <2> QED BY <1>2, <2>1, <2>2 DEF Held
<1>5. AloneInv /\ PastInv /\ FlagsInv
  BY <1>2 DEF AloneInv, PastInv, FlagsInv, FilesWith
<1> QED BY <1>2, <1>3, <1>4, <1>5 DEF FsyncInv, SyncInv

(* The invariants of the two ways to make batches durable, and that of the *)
(* directories, hold in every reachable state.                             *)
THEOREM DurableInduction ==
  ASSUME CallersExclude PROVE PowerSpec => []DurableInv
<1>1. DurableInv /\ [PowerNext]_<<vars, powerVars>> => DurableInv'
  <2> SUFFICES ASSUME DurableInv, [PowerNext]_<<vars, powerVars>>
               PROVE  DurableInv'
    OBVIOUS
  <2>1. setup' = setup
    BY DEF PowerNext, powerVars
  <2>2. setup.ordered => OrderedInv'
    BY OrderedNext DEF DurableInv
  <2>3. Durable /\ setup.fsync_each_batch => FsyncInv'
    BY <2>2, FsyncNext DEF DurableInv, Durable
  <2>4. Durable /\ ~ setup.fsync_each_batch => SyncInv'
    BY <2>2, SyncNext DEF DurableInv, Durable
  <2> QED BY <2>1, <2>2, <2>3, <2>4 DEF DurableInv, Durable
<1> QED BY <1>1, DurableInit, PTL DEF PowerSpec

(* "this method can be called at a desired interval to ensure that the     *)
(* written batches are durable on disk": once write_batch has returned     *)
(* with fsync_each_batch, or sync_all has, no power failure brings an      *)
(* object back to before that batch, whatever was rewritten, pruned and    *)
(* unlinked since.  With fsync_each_batch sync_all and other calls of      *)
(* write_batch may overlap, and the process may restart at any time.       *)
(* Without it callers must keep other calls from overlapping sync_all, and *)
(* power must not fail after a mere restart of the process (the run        *)
(* sync_restart shows what is lost otherwise).                             *)
THEOREM PromisesAlwaysKept ==
  ASSUME CallersExclude PROVE PowerSpec => [](Durable => PromisesKept)
<1>1. DurableInv => (Durable => PromisesKept)
  BY DEF DurableInv, FsyncInv, SyncInv, Held, PromisesKept
<1> QED BY <1>1, DurableInduction, PTL
=============================================================================
