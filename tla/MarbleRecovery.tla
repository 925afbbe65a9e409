--------------------------- MODULE MarbleRecovery ---------------------------
(***************************************************************************)
(* Proofs about versions and restarts: RecoversCommitted,                  *)
(* QuiescentAgreement and VersionsAdvance, for every set of threads, every *)
(* finite set of object ids, every configuration and every value of the    *)
(* bounds, when callers keep write_batch and maintenance apart.            *)
(*                                                                         *)
(* Recovery goes by the places of the files in LSN order, the running      *)
(* store by the raw locations, in which the bit of a new batch counts      *)
(* more.  The invariant says that the two agree: the table leads to the    *)
(* file with the highest place among those that name an object             *)
(* (TableInv).  That a rewritten file cannot be in the way needs the       *)
(* callers to exclude the two calls (PlacesInv); where they overlap the    *)
(* run named overlap has the counterexample.                               *)
(***************************************************************************)
EXTENDS MarbleVersions

USE DEF Null

(***************************************************************************)
(* The calls and the places of their files.                                *)
(***************************************************************************)
(* Whether the location of a file has the bit of a new batch.              *)
IsNew(f) == LsnOf(f) >= NewWriteBatchBit

(* A file holds versions of calls whose files have no higher place, and a  *)
(* file with the bit those of its own call.                                *)
Ordered(f) ==
  \A o \in DOMAIN ObjsOf(f) :
    /\ ObjsOf(f)[o].val \in 1 .. calls
    /\ order[ObjsOf(f)[o].val] <= Position(f)
    /\ IsNew(f) => order[ObjsOf(f)[o].val] = Position(f)

(* No file and no committed version is of that call.                       *)
Unwritten(c) ==
  /\ \A f \in Files : \A o \in DOMAIN ObjsOf(f) : ObjsOf(f)[o].val # c
  /\ \A o \in ObjectIds : latest[o] # c

(* The version a writer is about to give a place is nobody else's.         *)
OwnVersions(t) ==
  \A o \in DOMAIN batch[t] :
    /\ Unwritten(batch[t][o].val)
    /\ \A u \in Threads : u # t =>
         \A p \in DOMAIN batch[u] : batch[u][p].val # batch[t][o].val

OrderInv ==
  /\ order[0] = 0
  /\ \A f \in Files : Ordered(f)
  /\ \A o \in ObjectIds : latest[o] \in 0 .. calls
  /\ \A t \in Threads :
       /\ \A o \in DOMAIN batch[t] : batch[t][o].val \in 1 .. calls
       /\ t \notin sweeping /\ pc[t] = "insert" => OwnVersions(t)
       /\ t \notin sweeping /\ pc[t] \in Working => rest[t] = {}

(* A file of the directory keeps its contents, and a new one is the one    *)
(* its writer is about to install.                                         *)
LEMMA ContentsStay ==
  ASSUME CoreInv, AccountsInv, NEW t \in Threads,
         WriteBatch(t) \/ StartMaintenance(t) \/ Step(t), NEW g \in Files'
  PROVE  \/ g \in Files /\ ObjsOf(g)' = ObjsOf(g)
         \/ InsertPart(t) /\ g = base'[t] /\ g \notin Files
<1>c. TypeOK /\ FilesInv /\ HoldersInv
  BY DEF CoreInv
<1>1. HeapChange(t)
  BY HeapEffect
<1>2. /\ DOMAIN heap' \subseteq Files
      /\ \A h \in DOMAIN heap' : heap'[h].objs = ObjsOf(h)
  <2>1. CASE heap' = heap
    BY <1>c, <2>1 DEF FilesInv, Files
  <2>2. CASE heap' # heap
    <3>1. /\ Commit(t) /\ DOMAIN heap' = DOMAIN heap \cup {base[t]}
          /\ heap'[base[t]].objs = fams[base[t]].objs
          /\ \A h \in DOMAIN heap : h # base[t] => heap'[h] = heap[h]
      BY <1>1, <2>2 DEF HeapChange
    <3>2. base[t] \in DOMAIN fams
      BY <1>c, <3>1 DEF Commit, HoldersInv, Working
    <3> QED BY <1>c, <3>1, <3>2 DEF FilesInv, Files, ObjsOf
  <2> QED BY <2>1, <2>2
<1>3. CASE InsertPart(t)
  <2>1. PICK part, objs, f : Inserts(t, part, objs, f)
    BY <1>c, <1>3, InsertFacts
  <2>2. f \notin Files
    BY <1>c, <2>1, FilesBehind DEF Inserts
  <2>3. base'[t] = f /\ DOMAIN fams' = DOMAIN fams \cup {f}
    BY <1>c, <2>1 DEF Inserts, TypeOK
  <2>4. \A h \in DOMAIN fams : fams'[h] = fams[h]
    BY <2>1, <2>2 DEF Inserts, Files
  <2> QED BY <1>2, <1>3, <2>2, <2>3, <2>4 DEF Files, ObjsOf
<1>4. CASE ~ InsertPart(t)
  <2>1. /\ DOMAIN fams' \subseteq DOMAIN fams
        /\ \A h \in DOMAIN fams' : fams'[h].objs = fams[h].objs
    <3>1. FilesChange(t)
      BY FilesEffect
    <3> QED BY <1>4, <3>1 DEF FilesChange, SameFiles
  <2> QED BY <1>2, <2>1 DEF Files, ObjsOf
<1> QED BY <1>3, <1>4

(* Only InsertPart gives calls a place, only a rename commits them.        *)
LEMMA HistoryStays ==
  ASSUME NEW t \in Threads, WriteBatch(t) \/ StartMaintenance(t) \/ Step(t)
  PROVE  /\ InsertPart(t) \/ order' = order
         /\ Commit(t) \/ latest' = latest
         /\ WriteBatch(t) \/ calls' = calls
BY DEF Step, WriteBatch, StartMaintenance, InsertPart, Install, Abandon, Commit, Evacuate,
       Finalize, Unclaim, Scan, Claim, Rewrite, ReadFile, Release, Prune, Remove,
       history, bounds

(* Files that keep their contents keep their order.                        *)
LEMMA OrderedFrame ==
  ASSUME NEW f, Ordered(f), ObjsOf(f)' = ObjsOf(f), calls \in Nat, calls' \in Nat,
         calls <= calls',
         \A o \in DOMAIN ObjsOf(f) : order'[ObjsOf(f)[o].val] = order[ObjsOf(f)[o].val]
  PROVE  Ordered(f)'
BY DEF Ordered, IsNew, Position

(* The place that write_batch_inner gives the calls of a new batch.        *)
LEMMA InsertOrder ==
  ASSUME TypeOK, NEW t \in Threads, InsertPart(t)
  PROVE  /\ \A c \in 0 .. MaxCalls :
              order'[c] = IF gen[t] = 0 /\ \E o \in rest[t] : batch[t][o].val = c
                          THEN next_file_lsn ELSE order[c]
         /\ UNCHANGED <<batch, sweeping, latest, calls, gen, heap, location_table,
                        replaced, claims>>
         /\ pc' = [pc EXCEPT ![t] = "install"] /\ pc[t] = "insert"
         /\ gen[t] = 0 => rest'[t] = {}
<1>1. PICK part \in (SUBSET rest[t]) \ {{}} :
        /\ gen[t] = 0 => part = rest[t]
        /\ rest' = [rest EXCEPT ![t] = @ \ part]
        /\ order' = [c \in DOMAIN order |->
                       IF gen[t] = 0 /\ \E o \in part : batch[t][o].val = c
                       THEN next_file_lsn ELSE order[c]]
  BY DEF InsertPart
<1>2. DOMAIN order = 0 .. MaxCalls /\ rest \in [Threads -> SUBSET ObjectIds]
  BY DEF TypeOK
<1>3. \A c \in 0 .. MaxCalls :
        order'[c] = IF gen[t] = 0 /\ \E o \in rest[t] : batch[t][o].val = c
                    THEN next_file_lsn ELSE order[c]
  BY <1>1, <1>2
<1>4. gen[t] = 0 => rest'[t] = {}
  BY <1>1, <1>2
<1>5. /\ UNCHANGED <<batch, sweeping, latest, calls, gen, heap, location_table,
                     replaced, claims>>
      /\ pc' = [pc EXCEPT ![t] = "install"] /\ pc[t] = "insert"
  BY DEF InsertPart, Goto, maint, bounds
<1> QED BY <1>3, <1>4, <1>5

(* Writing a file keeps the order: a new batch takes the highest place for *)
(* itself, maintenance writes versions of files it has claimed.            *)
LEMMA OrderInsert ==
  ASSUME CoreInv, AccountsInv, BatchesInv, OrderInv, NEW t \in Threads, InsertPart(t)
  PROVE  OrderInv'
<1>c. TypeOK /\ FilesInv /\ HoldersInv
  BY DEF CoreInv
<1>s. WriteBatch(t) \/ StartMaintenance(t) \/ Step(t)
  BY DEF Step
<1>1. /\ \A c \in 0 .. MaxCalls :
           order'[c] = IF gen[t] = 0 /\ \E o \in rest[t] : batch[t][o].val = c
                       THEN next_file_lsn ELSE order[c]
      /\ UNCHANGED <<batch, sweeping, latest, calls>>
      /\ pc' = [pc EXCEPT ![t] = "install"] /\ pc[t] = "insert"
      /\ gen[t] = 0 => rest'[t] = {}
  BY <1>c, InsertOrder
<1>2. PICK part, objs, f : Inserts(t, part, objs, f)
  BY <1>c, InsertFacts
<1>3. /\ base'[t] = f /\ f \in DOMAIN fams' /\ fams'[f].objs = objs
      /\ DOMAIN objs = part /\ part \subseteq rest[t] /\ rest[t] \subseteq DOMAIN batch[t]
      /\ Position(f) = next_file_lsn /\ next_file_lsn \in Nat
      /\ LsnOf(f) = StampLsn(next_file_lsn, gen[t] # 0)
      /\ next_file_lsn < NewWriteBatchBit
      /\ \A o \in part : objs[o].val = batch[t][o].val
      /\ gen[t] = 0 => part = rest[t]
  BY <1>c, <1>2, BitAssumption DEF Inserts, TypeOK, FileMapTypeOK
<1>4. /\ calls \in 0 .. MaxCalls /\ MaxCalls \in Nat /\ calls \in Nat
      /\ DOMAIN pc = Threads /\ order \in [0 .. MaxCalls -> Nat]
  BY <1>c, BoundsAssumption DEF TypeOK
<1>5. gen[t] = 0 <=> t \notin sweeping
  BY <1>1 DEF BatchesInv, CallInv, CallOk, Writing
<1>6. ASSUME NEW c \in 0 .. calls, \A o \in DOMAIN batch[t] : gen[t] = 0 => batch[t][o].val # c
      PROVE  order'[c] = order[c]
  BY <1>1, <1>3, <1>4, <1>6
<1>7. ObjsOf(f)' = objs
  BY <1>3 DEF ObjsOf
<1>8. ASSUME NEW g \in Files' PROVE Ordered(g)'
  <2>1. CASE g \in Files /\ ObjsOf(g)' = ObjsOf(g)
    <3>1. Ordered(g)
      BY <2>1 DEF OrderInv
    <3>2. ASSUME NEW o \in DOMAIN ObjsOf(g)
          PROVE  order'[ObjsOf(g)[o].val] = order[ObjsOf(g)[o].val]
      <4>1. ObjsOf(g)[o].val \in 0 .. calls
        BY <3>1, <1>4 DEF Ordered
      <4>2. gen[t] = 0 => \A p \in DOMAIN batch[t] : batch[t][p].val # ObjsOf(g)[o].val
        BY <1>1, <1>5, <2>1 DEF OrderInv, OwnVersions, Unwritten
      <4> QED BY <1>6, <4>1, <4>2
    <3> QED BY <1>1, <1>4, <2>1, <3>1, <3>2, OrderedFrame
  <2>2. CASE g = f
    <3> SUFFICES ASSUME NEW o \in part
                 PROVE  /\ objs[o].val \in 1 .. calls
                        /\ order'[objs[o].val] <= Position(f)
                        /\ IsNew(f) => order'[objs[o].val] = Position(f)
      BY <1>1, <1>3, <1>7, <2>2 DEF Ordered, IsNew, Position
    <3>1. objs[o].val \in 1 .. calls /\ o \in DOMAIN batch[t]
      BY <1>3 DEF OrderInv
    <3>2. CASE gen[t] = 0
      <4>1. order'[objs[o].val] = next_file_lsn
        BY <1>1, <1>3, <1>4, <3>1, <3>2
      <4> QED BY <1>3, <3>1, <4>1
    <3>3. CASE gen[t] # 0
      <4>1. PICK h \in claims[t] : ItemFrom(t, o, h)
        BY <1>5, <3>1, <3>3 DEF BatchesInv, ItemsInv
      <4>2. /\ h \in DOMAIN fams /\ o \in DOMAIN fams[h].objs
            /\ fams[h].objs[o].val = objs[o].val
        BY <1>3, <4>1 DEF ItemFrom, OwnedBy
      <4>7. h \in Files /\ o \in DOMAIN ObjsOf(h) /\ ObjsOf(h)[o].val = objs[o].val
        BY <4>2 DEF Files, ObjsOf
      <4>3. order[objs[o].val] <= Position(h)
        BY <4>7 DEF OrderInv, Ordered
      <4>4. Position(h) < next_file_lsn /\ Position(h) \in Nat
        BY <1>c, <4>7, FilesBehind
      <4>5. order'[objs[o].val] = order[objs[o].val] /\ order[objs[o].val] \in Nat
        <5>1. objs[o].val \in 0 .. MaxCalls
          BY <1>4, <3>1
        <5> QED BY <1>1, <1>4, <3>3, <5>1
      <4>6. ~ IsNew(f)
        BY <1>3, <3>3, BitAssumption DEF IsNew, StampLsn
      <4> QED BY <1>3, <3>1, <4>3, <4>4, <4>5, <4>6
    <3> QED BY <3>2, <3>3
  <2> QED BY <1>s, <1>3, <2>1, <2>2, ContentsStay
<1>9. order'[0] = 0
  <2>1. \A o \in DOMAIN batch[t] : batch[t][o].val # 0
    BY <1>4 DEF OrderInv
  <2> QED BY <1>4, <1>6, <2>1 DEF OrderInv
<1>10. ASSUME NEW u \in Threads, u \notin sweeping, pc'[u] = "insert"
       PROVE  OwnVersions(u)'
  <2>1. u # t /\ pc[u] = "insert"
    BY <1>1, <1>4, <1>10
  <2>2. OwnVersions(u)
    BY <1>10, <2>1 DEF OrderInv
  <2>3. ASSUME NEW o \in DOMAIN batch[u] PROVE Unwritten(batch[u][o].val)'
    <3>1. ASSUME NEW g \in Files', NEW p \in DOMAIN ObjsOf(g)'
          PROVE  ObjsOf(g)'[p].val # batch[u][o].val
      <4>1. CASE g = f
        BY <1>3, <1>7, <2>1, <2>2, <3>1, <4>1 DEF OwnVersions
      <4>2. CASE g \in Files /\ ObjsOf(g)' = ObjsOf(g)
        BY <2>2, <3>1, <4>2 DEF OwnVersions, Unwritten
      <4> QED BY <1>s, <1>3, <4>1, <4>2, ContentsStay
    <3>2. \A p \in ObjectIds : latest'[p] # batch[u][o].val
      BY <1>1, <2>2 DEF OwnVersions, Unwritten
    <3> QED BY <1>1, <3>1, <3>2 DEF Unwritten
  <2> QED BY <1>1, <2>2, <2>3 DEF OwnVersions
<1>11. ASSUME NEW u \in Threads, u \notin sweeping, pc'[u] \in Working
       PROVE  rest'[u] = {}
  <2>1. CASE u = t
    BY <1>1, <1>5, <1>11, <2>1
  <2>2. CASE u # t
    BY <1>c, <1>s, <1>11, <2>2, ThreadsApart DEF OthersStay, OrderInv
  <2> QED BY <2>1, <2>2
<1>12. /\ \A u \in Threads : \A o \in DOMAIN batch'[u] : batch'[u][o].val \in 1 .. calls'
       /\ \A o \in ObjectIds : latest'[o] \in 0 .. calls'
  BY <1>1 DEF OrderInv
<1> QED BY <1>1, <1>8, <1>9, <1>10, <1>11, <1>12 DEF OrderInv

(* Where the versions of a batch come from.                                *)
VersionFrom(t, u, c) ==
  \/ \E p \in DOMAIN batch[u] : c = batch[u][p].val
  \/ u = t /\ \E g \in Files : \E p \in DOMAIN ObjsOf(g) : c = ObjsOf(g)[p].val
  \/ u = t /\ WriteBatch(t) /\ c = calls + 1

(* Of the threads that write new batches only one that begins a call can   *)
(* come to the point before its file is inserted.                          *)
LEMMA WritersStep ==
  ASSUME CoreInv, BatchesInv, OrderInv, NEW t \in Threads,
         WriteBatch(t) \/ StartMaintenance(t) \/ Step(t), ~ InsertPart(t),
         NEW u \in Threads
  PROVE  /\ \A o \in DOMAIN batch'[u] : VersionFrom(t, u, batch'[u][o].val)
         /\ u \notin sweeping' /\ pc'[u] = "insert" =>
              \/ u \notin sweeping /\ pc[u] = "insert" /\ batch'[u] = batch[u] /\ u # t
              \/ /\ u = t /\ WriteBatch(t)
                 /\ \A o \in DOMAIN batch'[u] : batch'[u][o].val = calls + 1
         /\ u \notin sweeping' /\ pc'[u] \in Working =>
              u \notin sweeping /\ pc[u] \in Working /\ rest'[u] = rest[u]
<1>c. TypeOK /\ FilesInv /\ HoldersInv /\ DOMAIN pc = Threads /\ DOMAIN batch = Threads
  BY DEF CoreInv, TypeOK
<1>p. CallOk(t) /\ (t \notin sweeping /\ pc[t] \in Working => rest[t] = {})
  BY DEF BatchesInv, CallInv, OrderInv
<1>1. CASE u # t
  BY <1>c, <1>1, ThreadsApart DEF OthersStay, VersionFrom
<1>2. CASE u = t
  <2>1. CASE WriteBatch(t)
    <3>1. /\ pc' = [pc EXCEPT ![t] = "insert"] /\ sweeping' = sweeping
          /\ \A o \in DOMAIN batch'[t] : batch'[t][o].val = calls + 1
      BY <1>c, <2>1 DEF WriteBatch, Goto
    <3> QED BY <1>2, <2>1, <3>1, <1>c DEF VersionFrom, Working
  <2>2. CASE ReadFile(t)
    <3>1. PICK f, items : Reads(t, f, items)
      BY <2>2, ReadFacts
    <3>2. f \in DOMAIN fams /\ batch'[t] = items
      BY <1>c, <3>1 DEF Reads, HoldersInv
    <3>3. f \in Files /\ ObjsOf(f) = fams[f].objs
      BY <3>2 DEF Files, ObjsOf
    <3>4. \A o \in DOMAIN items : VersionFrom(t, t, items[o].val)
      <4> SUFFICES ASSUME NEW o \in DOMAIN items PROVE VersionFrom(t, t, items[o].val)
        OBVIOUS
      <4>1. CASE o \in Survivors(f)
        <5>1. o \in DOMAIN fams[f].objs /\ items[o].val = fams[f].objs[o].val
          BY <3>1, <4>1 DEF Reads, Survivors
        <5> QED BY <3>3, <5>1 DEF VersionFrom
      <4>2. CASE o \notin Survivors(f)
        <5>1. o \in DOMAIN batch[t] /\ items[o] = batch[t][o]
          BY <3>1, <4>2 DEF Reads
        <5> QED BY <5>1 DEF VersionFrom
      <4> QED BY <4>1, <4>2
    <3>5. t \in sweeping /\ sweeping' = sweeping
      BY <1>p, <2>2 DEF ReadFile, CallOk, Writing, Working
    <3> QED BY <1>2, <3>2, <3>4, <3>5
  <2>3. CASE Abandon(t) \/ Unclaim(t)
    <3>1. /\ pc[t] \in Working /\ sweeping' = sweeping
          /\ pc' = [pc EXCEPT ![t] = IF rest[t] # {} THEN "insert"
                                     ELSE IF t \in sweeping THEN "rewrite" ELSE "idle"]
          /\ batch'[t] = batch[t] \/ batch'[t] = EmptyBatch
      BY <1>c, <2>3 DEF Abandon, Unclaim, PartDone, Goto, Working
    <3>2. DOMAIN EmptyBatch = {}
      BY DEF EmptyBatch
    <3>3. t \notin sweeping => pc'[t] = "idle"
      BY <1>c, <1>p, <3>1
    <3>4. pc'[t] \notin Working
      BY <1>c, <3>1 DEF Working
    <3> QED BY <1>2, <3>1, <3>2, <3>3, <3>4 DEF VersionFrom
  <2>4. CASE \/ (\E o \in ObjectIds : Install(t, o)) \/ Commit(t) \/ Evacuate(t)
             \/ Finalize(t)
    <3>1. /\ batch' = batch /\ sweeping' = sweeping /\ rest' = rest
          /\ pc[t] \in Working /\ pc'[t] # "insert"
      BY <1>c, <2>4 DEF Install, Commit, Evacuate, Finalize, Goto, Working
    <3> QED BY <1>2, <3>1 DEF VersionFrom
  <2>5. CASE StartMaintenance(t) \/ Scan(t) \/ Claim(t)
    <3>1. /\ batch' = batch /\ pc'[t] \in {"scan", "claim", "rewrite"}
      BY <1>c, <2>5 DEF StartMaintenance, Scan, Claim, Goto
    <3> QED BY <1>2, <3>1 DEF VersionFrom, Working
  <2>6. CASE Rewrite(t) \/ Release(t) \/ Prune(t) \/ Remove(t)
    <3>1. /\ batch' = batch
          /\ pc'[t] \in {"rewrite", "read", "release", "prune", "remove", "idle"}
      BY <1>c, <2>6 DEF Rewrite, Release, Prune, Remove, Goto
    <3> QED BY <1>2, <3>1 DEF VersionFrom, Working
  <2> QED BY <2>1, <2>2, <2>3, <2>4, <2>5, <2>6 DEF Step
<1> QED BY <1>1, <1>2

(* What a rename commits is a version of the file it renames.              *)
LEMMA LatestFrom ==
  ASSUME CoreInv, NEW t \in Threads, WriteBatch(t) \/ StartMaintenance(t) \/ Step(t),
         NEW o \in ObjectIds
  PROVE  \/ latest'[o] = latest[o]
         \/ \E g \in Files : \E p \in DOMAIN ObjsOf(g) : latest'[o] = ObjsOf(g)[p].val
<1>1. CASE ~ Commit(t)
  BY <1>1, HistoryStays
<1>2. CASE Commit(t)
  <2>1. base[t] \in DOMAIN fams
    BY <1>2 DEF CoreInv, HoldersInv, Commit, Working
  <2>2. \/ latest'[o] = latest[o]
        \/ o \in DOMAIN fams[base[t]].objs /\ latest'[o] = fams[base[t]].objs[o].val
    BY <1>2 DEF Commit, Rename, Trailer
  <2> QED BY <2>1, <2>2 DEF Files, ObjsOf
<1> QED BY <1>1, <1>2

(* The steps that insert no file keep the order.                           *)
LEMMA OrderQuiet ==
  ASSUME CoreInv, CoreInv', AccountsInv, BatchesInv, OrderInv, NEW t \in Threads,
         WriteBatch(t) \/ StartMaintenance(t) \/ Step(t), ~ InsertPart(t)
  PROVE  OrderInv'
<1>1. order' = order
  BY HistoryStays
<1>2. /\ calls \in Nat /\ calls' \in Nat /\ calls <= calls'
      /\ WriteBatch(t) => calls' = calls + 1
  <2>1. calls \in Nat
    BY BoundsAssumption DEF CoreInv, TypeOK
  <2> QED BY <2>1, HistoryStays DEF WriteBatch
<1>3. ASSUME NEW g \in Files' PROVE g \in Files /\ ObjsOf(g)' = ObjsOf(g)
  BY ContentsStay
<1>4. ASSUME NEW g \in Files' PROVE Ordered(g)'
  BY <1>1, <1>2, <1>3, OrderedFrame DEF OrderInv
<1>5. \A g \in Files : \A p \in DOMAIN ObjsOf(g) : ObjsOf(g)[p].val \in 1 .. calls
  BY DEF OrderInv, Ordered
<1>6. ASSUME NEW o \in ObjectIds PROVE latest'[o] \in 0 .. calls'
  BY <1>2, <1>5, LatestFrom DEF OrderInv
<1>7. ASSUME NEW u \in Threads, NEW o \in DOMAIN batch'[u]
      PROVE  batch'[u][o].val \in 1 .. calls'
  <2>1. VersionFrom(t, u, batch'[u][o].val)
    BY WritersStep
  <2> QED BY <1>2, <1>5, <2>1 DEF VersionFrom, OrderInv
<1>8. ASSUME NEW c, Unwritten(c) PROVE Unwritten(c)'
  BY <1>3, <1>8, LatestFrom DEF Unwritten
<1>9. ASSUME NEW u \in Threads, u \notin sweeping', pc'[u] = "insert"
      PROVE  OwnVersions(u)'
  <2>1. CASE u \notin sweeping /\ pc[u] = "insert" /\ batch'[u] = batch[u] /\ u # t
    <3>1. OwnVersions(u)
      BY <2>1 DEF OrderInv
    <3>2. ASSUME NEW o \in DOMAIN batch[u], NEW w \in Threads, w # u,
                 NEW p \in DOMAIN batch'[w]
          PROVE  batch'[w][p].val # batch[u][o].val
      <4>1. VersionFrom(t, w, batch'[w][p].val)
        BY WritersStep
      <4>2. batch[u][o].val \in 1 .. calls /\ Unwritten(batch[u][o].val)
        BY <3>1 DEF OrderInv, OwnVersions
      <4> QED BY <1>2, <3>1, <3>2, <4>1, <4>2 DEF VersionFrom, OwnVersions, Unwritten
    <3> QED BY <1>8, <2>1, <3>1, <3>2 DEF OwnVersions
  <2>2. CASE /\ u = t /\ WriteBatch(t)
             /\ \A o \in DOMAIN batch'[u] : batch'[u][o].val = calls + 1
    <3>1. latest' = latest
      BY <2>2 DEF WriteBatch, history
    <3>4. PICK c : c = calls + 1
      OBVIOUS
    <3>2. Unwritten(c)'
      BY <1>2, <1>3, <1>5, <3>1, <3>4 DEF Unwritten, OrderInv
    <3>3. ASSUME NEW w \in Threads, w # u, NEW p \in DOMAIN batch'[w]
          PROVE  batch'[w][p].val # calls + 1
      <4>1. VersionFrom(t, w, batch'[w][p].val)
        BY WritersStep
      <4> QED BY <1>2, <2>2, <3>3, <4>1 DEF VersionFrom, OrderInv
    <3> QED BY <2>2, <3>2, <3>3, <3>4 DEF OwnVersions
  <2> QED BY <1>9, <2>1, <2>2, WritersStep
<1>10. ASSUME NEW u \in Threads, u \notin sweeping', pc'[u] \in Working
       PROVE  rest'[u] = {}
  BY <1>10, WritersStep DEF OrderInv
<1> QED BY <1>1, <1>4, <1>6, <1>7, <1>9, <1>10 DEF OrderInv

(* Fewer files with the same contents, and no new versions.                *)
LEMMA OrderFrame ==
  ASSUME OrderInv, UNCHANGED <<order, latest, calls>>,
         \A g \in Files' : g \in Files /\ ObjsOf(g)' = ObjsOf(g),
         \/ UNCHANGED <<batch, sweeping, pc, rest>>
         \/ \A u \in Threads : DOMAIN batch'[u] = {} /\ pc'[u] = "idle"
  PROVE  OrderInv'
<1>1. ASSUME NEW g \in Files' PROVE Ordered(g)'
  <2>1. Ordered(g) /\ ObjsOf(g)' = ObjsOf(g)
    BY DEF OrderInv
  <2> QED BY <2>1 DEF Ordered, IsNew, Position
<1>2. ASSUME NEW c, Unwritten(c) PROVE Unwritten(c)'
  BY <1>2 DEF Unwritten
<1>3. /\ order'[0] = 0
      /\ \A o \in ObjectIds : latest'[o] \in 0 .. calls'
  BY DEF OrderInv
<1>4. ASSUME NEW u \in Threads
      PROVE  /\ \A o \in DOMAIN batch'[u] : batch'[u][o].val \in 1 .. calls'
             /\ u \notin sweeping' /\ pc'[u] = "insert" => OwnVersions(u)'
             /\ u \notin sweeping' /\ pc'[u] \in Working => rest'[u] = {}
  <2>1. CASE UNCHANGED <<batch, sweeping, pc, rest>>
    BY <1>2, <2>1 DEF OrderInv, OwnVersions
  <2>2. CASE \A w \in Threads : DOMAIN batch'[w] = {} /\ pc'[w] = "idle"
    BY <2>2 DEF Working
  <2> QED BY <2>1, <2>2
<1> QED BY <1>1, <1>3, <1>4 DEF OrderInv

(* Every step keeps the order of the calls.                                *)
LEMMA OrderNext ==
  ASSUME CoreInv, CoreInv', AccountsInv, BatchesInv, OrderInv, [Next]_vars
  PROVE  OrderInv'
<1>1. ASSUME NEW t \in Threads, WriteBatch(t) \/ StartMaintenance(t) \/ Step(t)
      PROVE  OrderInv'
  BY <1>1, OrderInsert, OrderQuiet
<1>2. ASSUME NEW f \in DOMAIN heap, Unlink(f) PROVE OrderInv'
  <2>1. UNCHANGED <<order, latest, calls, batch, sweeping, pc, rest, fams>>
    BY <1>2 DEF Unlink, history, bounds, local
  <2>2. DOMAIN heap' \subseteq DOMAIN heap /\ \A g \in DOMAIN heap' : heap'[g] = heap[g]
    BY <1>2 DEF Unlink
  <2>3. \A g \in Files' : g \in Files /\ ObjsOf(g)' = ObjsOf(g)
    BY <2>1, <2>2 DEF Files, ObjsOf
  <2> QED BY <2>1, <2>3, OrderFrame
<1>3. CASE UNCHANGED vars
  <2>1. UNCHANGED <<order, latest, calls, batch, sweeping, pc, rest, fams, heap>>
    BY <1>3 DEF vars, shared, history, bounds, local
  <2>2. \A g \in Files' : g \in Files /\ ObjsOf(g)' = ObjsOf(g)
    BY <2>1 DEF Files, ObjsOf
  <2> QED BY <2>1, <2>2, OrderFrame
<1>4. CASE CrashRecover \/ CloseAndReopen
  <2>1. PICK files : /\ Kept(files) /\ Recover(files) /\ ResetThreads /\ heap' = files
                     /\ UNCHANGED <<calls, order, latest>>
    BY <1>4, RestartFacts DEF CoreInv
  <2>2. /\ DOMAIN fams' = DOMAIN files
        /\ \A f \in DOMAIN files : fams'[f].objs = heap[f].objs
    BY <2>1, KeptDirectory, RecoverFams DEF CoreInv, Kept
  <2>3. \A f \in DOMAIN files : f \in DOMAIN heap /\ heap[f].objs = ObjsOf(f)
    BY <2>1 DEF Kept, CoreInv, FilesInv
  <2>4. \A g \in Files' : g \in Files /\ ObjsOf(g)' = ObjsOf(g)
    BY <2>1, <2>2, <2>3 DEF Files, ObjsOf
  <2>5. \A u \in Threads : DOMAIN batch'[u] = {} /\ pc'[u] = "idle"
    BY <2>1 DEF ResetThreads, EmptyBatch
  <2> QED BY <2>1, <2>4, <2>5, OrderFrame
<1> QED BY <1>1, <1>2, <1>3, <1>4 DEF Next

(* In every reachable state, callers excluding each other or not, a file   *)
(* with the bit of a new batch holds the versions of the one call whose    *)
(* place it has, and every other file versions of lower places.            *)
THEOREM OrderInduction == Spec => []OrderInv
<1>1. Init => OrderInv
  <2> SUFFICES ASSUME Init PROVE OrderInv
    OBVIOUS
  <2>1. /\ order = [c \in 0 .. MaxCalls |-> 0] /\ calls = 0
        /\ \A o \in ObjectIds : latest[o] = 0
        /\ DOMAIN fams = {} /\ DOMAIN heap = {}
        /\ \A t \in Threads : pc[t] = "idle" /\ DOMAIN batch[t] = {}
    BY DEF Init, EmptyBatch
  <2>2. order[0] = 0 /\ Files = {}
    BY <2>1, BoundsAssumption DEF Files
  <2> QED BY <2>1, <2>2 DEF OrderInv, Working
<1>2. CoreInv /\ CoreInv' /\ AccountsInv /\ BatchesInv /\ OrderInv /\ [Next]_vars => OrderInv'
  BY OrderNext
<1> QED BY <1>1, <1>2, CoreInduction, AccountsInduction, BatchesInduction, PTL DEF Spec

(***************************************************************************)
(* The places of the files that are being written.                         *)
(***************************************************************************)
(* Writers of new batches run only while no maintenance does, and their    *)
(* files come after every rewritten one.  A file is placed after those     *)
(* that its writer has claimed, and after those from which it has taken a  *)
(* location.                                                               *)
PlaceOk(t) ==
  /\ t \notin sweeping /\ pc[t] # "idle" => sweeping = {}
  /\ pc[t] \in Working /\ t \notin sweeping =>
       /\ IsNew(base[t])
       /\ \A g \in Files : ~ IsNew(g) => Position(g) < Position(base[t])
  /\ pc[t] \in Working => \A g \in claims[t] : Position(g) < Position(base[t])
  /\ \A r \in replaced[t] : \A g \in DOMAIN fams :
       OwnedBy(g, r[1], r[2]) => Position(g) < Position(base[t])

PlacesInv == \A t \in Threads : PlaceOk(t)

(* Raw locations of an object are ordered like the places of their files   *)
(* when both files have the bit of a new batch, and the one with the bit   *)
(* is higher when the other has none.                                      *)
LEMMA LocationsByPlace ==
  ASSUME CoreInv, NEW f \in DOMAIN fams, NEW h \in DOMAIN fams, f # h,
         NEW o \in DOMAIN fams[f].objs, o \in DOMAIN fams[h].objs, IsNew(f)
  PROVE  /\ ~ IsNew(h) => At(h, o) < At(f, o)
         /\ IsNew(h) => (At(h, o) < At(f, o) <=> Position(h) < Position(f))
         /\ Position(f) \in Nat /\ Position(h) \in Nat /\ Position(f) # Position(h)
<1>c. TypeOK /\ FilesInv
  BY DEF CoreInv
<1>1. ASSUME NEW g \in {f, h}
      PROVE  /\ g \in FamLocations /\ LsnOf(g) \in Nat /\ g \in Files
             /\ fams[g].objs[o].off \in Nat /\ fams[g].objs[o].off <= DataLen(fams[g].objs)
             /\ DataLen(fams[g].objs) \in Nat /\ Position(g) \in Nat
             /\ Position(g) + DataLen(fams[g].objs) < NewWriteBatchBit
             /\ At(g, o) = 2 * (LsnOf(g) + fams[g].objs[o].off)
                           + (IF fams[g].objs[o].del THEN 1 ELSE 0)
  <2>1. /\ g \in DOMAIN fams /\ o \in DOMAIN fams[g].objs /\ g \in Files
        /\ ObjsOf(g) = fams[g].objs
    BY DEF Files, ObjsOf
  <2>2. /\ g \in FamLocations /\ DOMAIN fams[g].objs \subseteq ObjectIds
        /\ fams[g].objs[o].off \in Nat /\ fams[g].objs[o].del \in BOOLEAN
    BY <1>c, <2>1, FamTypes
  <2>3. Placed(g, fams[g].objs)
    BY <1>c, <2>1 DEF FilesInv
  <2>4. LsnOf(g) \in Nat /\ Position(g) \in Nat
    BY <2>2, FamLocationFacts
  <2>5. DataLen(fams[g].objs) \in Nat
    BY <2>2, DataLenType
  <2>6. At(g, o) = 2 * (LsnOf(g) + fams[g].objs[o].off)
                   + (IF fams[g].objs[o].del THEN 1 ELSE 0)
    BY <2>2, LocationInFacts DEF At
  <2> QED BY <2>1, <2>2, <2>3, <2>4, <2>5, <2>6 DEF Placed
<1>2. /\ Disjoint(f, fams[f].objs, h) /\ Disjoint(h, fams[h].objs, f)
  BY <1>c, <1>1 DEF FilesInv, ObjsOf
<1>3. Position(f) # Position(h)
  BY <1>2 DEF Disjoint
<1>4. Position(f) = LsnOf(f) - NewWriteBatchBit /\ NewWriteBatchBit \in Nat
  BY <1>1, BitAssumption DEF IsNew, Position, MaskLsn
<1>5. IF IsNew(h) THEN Position(h) = LsnOf(h) - NewWriteBatchBit
                  ELSE Position(h) = LsnOf(h)
  BY <1>1 DEF IsNew, Position, MaskLsn
<1>6. ASSUME ~ IsNew(h) PROVE At(h, o) < At(f, o)
  <2>1. LsnOf(h) + fams[h].objs[o].off < LsnOf(f) + fams[f].objs[o].off
    BY <1>1, <1>4, <1>5, <1>6
  <2> QED BY <1>1, <2>1
<1>7. ASSUME IsNew(h) PROVE At(h, o) < At(f, o) <=> Position(h) < Position(f)
  <2>1. CASE Position(h) < Position(f)
    <3>1. LsnOf(h) + fams[h].objs[o].off < LsnOf(f) + fams[f].objs[o].off
      BY <1>1, <1>2, <1>4, <1>5, <1>7, <2>1 DEF Disjoint
    <3> QED BY <1>1, <2>1, <3>1
  <2>2. CASE Position(f) < Position(h)
    <3>1. LsnOf(f) + fams[f].objs[o].off < LsnOf(h) + fams[h].objs[o].off
      BY <1>1, <1>2, <1>4, <1>5, <1>7, <2>2 DEF Disjoint
    <3> QED BY <1>1, <2>2, <3>1
  <2> QED BY <1>1, <1>3, <2>1, <2>2
<1> QED BY <1>1, <1>3, <1>6, <1>7

(* The comparison in the table decides by the places of the files: a       *)
(* location is taken from a file with a lower place, and a new batch loses *)
(* to a file with a higher one.                                            *)
LEMMA InstallPlaces ==
  ASSUME CoreInv, AccountsInv, BatchesInv, PlacesInv, NEW t \in Threads,
         NEW o \in ObjectIds, Install(t, o),
         NEW h \in DOMAIN fams, OwnedBy(h, o, location_table[o])
  PROVE  /\ h # base[t] /\ Position(h) \in Nat /\ Position(base[t]) \in Nat
         /\ location_table'[o] # location_table[o] => Position(h) < Position(base[t])
         /\ location_table'[o] = location_table[o] /\ t \notin sweeping =>
              Position(base[t]) < Position(h)
<1>c. TypeOK /\ FilesInv /\ HoldersInv
  BY DEF CoreInv
<1>1. /\ base[t] \in DOMAIN fams /\ o \in DOMAIN fams[base[t]].objs
      /\ location_table'[o] # location_table[o] =>
           IF t \in sweeping THEN location_table[o] = batch[t][o].old
                             ELSE location_table[o] < At(base[t], o)
      /\ o \in DOMAIN batch[t]
  BY InstallFacts DEF OwnedBy
<1>2. pc[t] = "install" /\ o \in todo[t]
  BY DEF Install
<1>3. h # base[t]
  BY <1>2 DEF AccountsInv, LocationsInv, Pending, Referred, OwnedBy
<1>4. Position(h) \in Nat /\ Position(base[t]) \in Nat
  BY <1>c, <1>1, FilesBehind DEF Files
<1>5. ASSUME t \in sweeping, location_table'[o] # location_table[o]
      PROVE  Position(h) < Position(base[t])
  <2>1. PICK g \in claims[t] : ItemFrom(t, o, g)
    BY <1>1, <1>5 DEF BatchesInv, ItemsInv
  <2>2. OwnedBy(g, o, location_table[o])
    BY <1>1, <1>5, <2>1 DEF ItemFrom
  <2>3. g = h
    BY <2>2, CoreLocations DEF LocationsDistinct
  <2> QED BY <1>2, <2>3 DEF PlacesInv, PlaceOk, Working
<1>6. ASSUME t \notin sweeping
      PROVE  /\ location_table'[o] # location_table[o] => Position(h) < Position(base[t])
             /\ location_table'[o] = location_table[o] => Position(base[t]) < Position(h)
  <2>1. IsNew(base[t]) /\ \A g \in Files : ~ IsNew(g) => Position(g) < Position(base[t])
    BY <1>2, <1>6 DEF PlacesInv, PlaceOk, Working
  <2>2. /\ o \in DOMAIN fams[h].objs /\ location_table[o] = At(h, o) /\ h \in Files
    BY DEF OwnedBy, Files
  <2>3. /\ ~ IsNew(h) => At(h, o) < At(base[t], o)
        /\ IsNew(h) => (At(h, o) < At(base[t], o) <=> Position(h) < Position(base[t]))
        /\ Position(h) # Position(base[t])
    BY <1>1, <1>3, <2>1, <2>2, LocationsByPlace
  <2>4. gen[t] = 0
    BY <1>6 DEF BatchesInv, CallInv, CallOk
  <2>5. At(h, o) < At(base[t], o) => location_table'[o] = At(base[t], o)
    <3>1. location_table' = IF FetchMaxSucceeds(o, At(base[t], o))
                            THEN [location_table EXCEPT ![o] = At(base[t], o)]
                            ELSE location_table
      BY <2>4 DEF Install, FetchMax, At
    <3> QED BY <1>c, <2>2, <3>1 DEF FetchMaxSucceeds, TypeOK
  <2>6. At(base[t], o) # location_table[o]
    BY <1>2 DEF AccountsInv, LocationsInv, Pending, Referred
  <2>7. location_table'[o] # location_table[o] => At(h, o) < At(base[t], o)
    BY <1>1, <1>6, <2>2
  <2> QED BY <1>4, <2>1, <2>2, <2>3, <2>5, <2>6, <2>7
<1> QED BY <1>3, <1>4, <1>5, <1>6

(* Who is inside maintenance changes when a thread enters or leaves it.    *)
LEMMA SweepersStep ==
  ASSUME TypeOK, NEW t \in Threads, WriteBatch(t) \/ StartMaintenance(t) \/ Step(t)
  PROVE  \/ WriteBatch(t) /\ sweeping' = sweeping /\ MayWrite
         \/ StartMaintenance(t) /\ sweeping' = sweeping \cup {t} /\ MayMaintain
         \/ /\ Step(t) /\ pc[t] # "idle"
            /\ \/ sweeping' = sweeping
               \/ /\ sweeping' = sweeping \ {t} /\ pc'[t] = "idle"
                  /\ Remove(t) /\ claims[t] = {} /\ fams' = fams
<1>d. DOMAIN pc = Threads
  BY DEF TypeOK
<1>1. CASE WriteBatch(t)
  BY <1>1 DEF WriteBatch
<1>2. CASE StartMaintenance(t)
  BY <1>2 DEF StartMaintenance
<1>3. CASE Remove(t)
  BY <1>d, <1>3 DEF Remove, Step, Goto
<1>4. CASE \/ InsertPart(t) \/ (\E o \in ObjectIds : Install(t, o))
           \/ Abandon(t) \/ Commit(t) \/ Evacuate(t) \/ Finalize(t) \/ Unclaim(t)
  BY <1>4 DEF Step, InsertPart, Install, Abandon, Commit, Evacuate, Finalize, Unclaim
<1>5. CASE Scan(t) \/ Claim(t) \/ Rewrite(t) \/ ReadFile(t) \/ Release(t) \/ Prune(t)
  BY <1>5 DEF Step, Scan, Claim, Rewrite, ReadFile, Release, Prune
<1> QED BY <1>1, <1>2, <1>3, <1>4, <1>5 DEF Step

(* A thread keeps its file and its claims while it works on the file.      *)
LEMMA WorkStep ==
  ASSUME TypeOK, NEW t \in Threads, WriteBatch(t) \/ StartMaintenance(t) \/ Step(t),
         pc'[t] \in Working
  PROVE  /\ sweeping' = sweeping
         /\ \/ InsertPart(t)
            \/ pc[t] \in Working /\ base'[t] = base[t] /\ claims' = claims
<1>d. DOMAIN pc = Threads
  BY DEF TypeOK
<1>1. CASE WriteBatch(t) \/ StartMaintenance(t) \/ Abandon(t) \/ Scan(t) \/ Claim(t)
  BY <1>d, <1>1 DEF WriteBatch, StartMaintenance, Abandon, PartDone, Scan, Claim, Goto, Working
<1>2. CASE Rewrite(t) \/ ReadFile(t) \/ Release(t) \/ Prune(t) \/ Remove(t)
  BY <1>d, <1>2 DEF Rewrite, ReadFile, Release, Prune, Remove, Goto, Working
<1>3. CASE Unclaim(t)
  BY <1>d, <1>3 DEF Unclaim, PartDone, Goto, Working
<1>4. CASE InsertPart(t)
  BY <1>4 DEF InsertPart
<1>5. CASE (\E o \in ObjectIds : Install(t, o)) \/ Commit(t) \/ Evacuate(t) \/ Finalize(t)
  BY <1>5 DEF Install, Commit, Evacuate, Finalize, Working, inner, maint
<1> QED BY <1>1, <1>2, <1>3, <1>4, <1>5 DEF Step

(* Where the callers keep write_batch and maintenance apart, no thread     *)
(* writes a new batch while another is inside maintenance.                 *)
LEMMA ApartStep ==
  ASSUME CallersExclude, CoreInv, BatchesInv, PlacesInv, NEW t \in Threads,
         WriteBatch(t) \/ StartMaintenance(t) \/ Step(t),
         NEW u \in Threads, u \notin sweeping', pc'[u] # "idle"
  PROVE  sweeping' = {} /\ u \notin sweeping /\ (pc[u] # "idle" \/ WriteBatch(t))
<1>c. TypeOK /\ DOMAIN pc = Threads
  BY DEF CoreInv, TypeOK
<1>1. CASE WriteBatch(t) /\ sweeping' = sweeping /\ MayWrite
  BY <1>1 DEF MayWrite
<1>2. CASE StartMaintenance(t) /\ sweeping' = sweeping \cup {t} /\ MayMaintain
  <2>1. u # t /\ u \notin sweeping
    BY <1>2
  <2>2. pc'[u] = pc[u] /\ pc[u] = "idle"
    BY <1>c, <1>2, <2>1, ThreadsApart DEF OthersStay, MayMaintain
  <2> QED BY <2>2
<1>3. CASE Step(t) /\ pc[t] # "idle" /\ sweeping' = sweeping
  <2>1. pc[u] # "idle"
    BY <1>c, <1>3, ThreadsApart DEF OthersStay
  <2> QED BY <1>3, <2>1 DEF PlacesInv, PlaceOk
<1>4. CASE Step(t) /\ pc[t] # "idle" /\ sweeping' = sweeping \ {t} /\ pc'[t] = "idle"
  <2>1. u # t /\ pc'[u] = pc[u] /\ u \notin sweeping
    BY <1>c, <1>4, ThreadsApart DEF OthersStay
  <2> QED BY <1>4, <2>1 DEF PlacesInv, PlaceOk
<1> QED BY <1>c, <1>1, <1>2, <1>3, <1>4, SweepersStep

(* A file gets the highest place of all when it is inserted.               *)
LEMMA InsertPlace ==
  ASSUME CoreInv, NEW t \in Threads, InsertPart(t)
  PROVE  /\ \A g \in Files : Position(g) < Position(base'[t])
         /\ gen[t] = 0 => IsNew(base'[t])
<1>c. TypeOK /\ FilesInv
  BY DEF CoreInv
<1>1. PICK part, objs, f : Inserts(t, part, objs, f)
  BY <1>c, InsertFacts
<1>2. base'[t] = f
  BY <1>c, <1>1 DEF Inserts, TypeOK
<1>3. Position(f) = next_file_lsn /\ LsnOf(f) = StampLsn(next_file_lsn, gen[t] # 0)
  BY <1>1 DEF Inserts
<1>4. gen[t] = 0 => IsNew(f)
  BY <1>c, <1>3, BitAssumption DEF StampLsn, IsNew, TypeOK, FileMapTypeOK
<1> QED BY <1>c, <1>2, <1>3, <1>4, FilesBehind

(* Something that owns a location in use owns it after the step.           *)
LEMMA OwnerStays ==
  ASSUME CoreInv, CoreInv', AccountsInv, AccountsInv', NEW t \in Threads,
         WriteBatch(t) \/ StartMaintenance(t) \/ Step(t),
         NEW o \in ObjectIds, NEW l, Referred(o, l), NEW h, OwnedBy(h, o, l),
         NEW g, OwnedBy(g, o, l)'
  PROVE  g = h
<1>1. StaysOpen(h)
  BY ReferredStays
<1>2. OwnedBy(h, o, l)'
  BY <1>1 DEF StaysOpen, OwnedBy, At
<1> QED BY <1>2, CoreLocationsNext DEF LocationsDistinct

(* Every step of a thread keeps the places.                                *)
LEMMA PlacesStep ==
  ASSUME CallersExclude, CoreInv, CoreInv', AccountsInv, AccountsInv', BatchesInv,
         PlacesInv, NEW t \in Threads, WriteBatch(t) \/ StartMaintenance(t) \/ Step(t)
  PROVE  PlacesInv'
<1>c. TypeOK /\ FilesInv /\ HoldersInv
  BY DEF CoreInv
<1>o. OthersStay(t)
  BY <1>c, ThreadsApart
<1> SUFFICES ASSUME NEW u \in Threads PROVE PlaceOk(u)'
  BY DEF PlacesInv
<1>p. PlaceOk(u)
  BY DEF PlacesInv
<1>1. u \notin sweeping' /\ pc'[u] # "idle" => sweeping' = {}
  BY ApartStep
<1>w. ASSUME pc'[u] \in Working
      PROVE  \/ u = t /\ InsertPart(t) /\ sweeping' = sweeping
             \/ /\ pc[u] \in Working /\ base'[u] = base[u] /\ claims'[u] = claims[u]
                /\ u \in sweeping' <=> u \in sweeping
  BY <1>c, <1>o, <1>w, WorkStep DEF OthersStay
<1>2. ASSUME pc'[u] \in Working, u \notin sweeping'
      PROVE  /\ IsNew(base'[u])
             /\ \A g \in Files' : ~ IsNew(g) => Position(g) < Position(base'[u])
  <2>1. sweeping' = {}
    BY <1>1, <1>2 DEF Working
  <2>2. InsertPart(t) => gen[t] = 0 /\ IsNew(base'[t])
    <3>1. InsertPart(t) => pc[t] = "insert" /\ sweeping' = sweeping
      BY DEF InsertPart
    <3>2. InsertPart(t) => gen[t] = 0
      BY <2>1, <3>1 DEF BatchesInv, CallInv, CallOk
    <3> QED BY <3>2, InsertPlace
  <2>3. CASE u = t /\ InsertPart(t)
    BY <2>2, <2>3, InsertPlace, ContentsStay
  <2>4. CASE pc[u] \in Working /\ base'[u] = base[u] /\ u \notin sweeping
    BY <1>p, <2>2, <2>4, ContentsStay DEF PlaceOk
  <2> QED BY <1>2, <1>w, <2>3, <2>4
<1>3. ASSUME pc'[u] \in Working, NEW g \in claims'[u]
      PROVE  Position(g) < Position(base'[u])
  <2>1. CASE u = t /\ InsertPart(t)
    <3>1. g \in Files
      BY <1>c, <1>3, <2>1 DEF InsertPart, maint, HoldersInv, Files
    <3> QED BY <2>1, <3>1, InsertPlace
  <2>2. CASE pc[u] \in Working /\ base'[u] = base[u] /\ claims'[u] = claims[u]
    BY <1>p, <1>3, <2>2 DEF PlaceOk
  <2> QED BY <1>3, <1>w, <2>1, <2>2
<1>4. ASSUME NEW r \in replaced'[u], NEW g \in DOMAIN fams', OwnedBy(g, r[1], r[2])'
      PROVE  Position(g) < Position(base'[u])
  <2>1. pc'[u] \in Working
    BY <1>4 DEF AccountsInv, WorkInv, Working
  <2>2. CASE r \in replaced[u]
    <3>1. r[1] \in ObjectIds /\ Referred(r[1], r[2])
      <4>1. r \in ObjectIds \X Nat
        BY <1>c, <2>2 DEF TypeOK
      <4>2. r = <<r[1], r[2]>>
        BY <4>1
      <4> QED BY <2>2, <4>1, <4>2 DEF Referred
    <3>2. PICK h \in DOMAIN fams : OwnedBy(h, r[1], r[2])
      BY <2>2 DEF AccountsInv, LocationsInv, Backed
    <3>3. g = h
      BY <1>4, <3>1, <3>2, OwnerStays
    <3>4. ~ InsertPart(t) \/ u # t
      BY <2>2 DEF InsertPart, AccountsInv, WorkInv
    <3>5. base'[u] = base[u]
      BY <1>w, <2>1, <3>4
    <3> QED BY <1>p, <2>2, <3>2, <3>3, <3>5 DEF PlaceOk
  <2>3. CASE r \notin replaced[u]
    <3>1. u = t
      BY <1>o, <1>4, <2>3 DEF OthersStay
    <3>2. PICK o \in ObjectIds : Install(t, o)
      BY <1>4, <2>3, <3>1, ReplacedShrinks
    <3>3. r = <<o, location_table[o]>>
      BY <1>4, <2>3, <3>1, <3>2, InstallReplaces
    <3>4. r[1] = o /\ r[2] = location_table[o]
      BY <3>3
    <3>5. location_table'[o] # location_table[o]
      BY <1>4, <3>1, <3>4 DEF AccountsInv, LocationsInv
    <3>6. SameFiles
      BY <3>2, FilesStay
    <3>7. g \in DOMAIN fams /\ OwnedBy(g, o, location_table[o])
      BY <1>4, <3>4, <3>6 DEF SameFiles, OwnedBy, At
    <3>8. base'[t] = base[t]
      BY <3>2 DEF Install
    <3> QED BY <3>1, <3>2, <3>5, <3>7, <3>8, InstallPlaces
  <2> QED BY <2>2, <2>3
<1> QED BY <1>1, <1>2, <1>3, <1>4 DEF PlaceOk

(***************************************************************************)
(* The location table and the trailers.                                    *)
(***************************************************************************)
(* Ids that a thread has tried to install and that its file will name.     *)
Tried(t, o) == pc[t] = "install" /\ o \in Trailer(t) \ todo[t]

(* A file that names an object in its trailer, or will once it is renamed. *)
Named(f, o) ==
  \/ f \in DOMAIN heap /\ o \in heap[f].trailer
  \/ \E t \in Threads : base[t] = f /\ Tried(t, o)

(* The table leads to the file with the highest place of those that name   *)
(* an object.                                                              *)
TableInv ==
  \A o \in ObjectIds : \A g \in Files : Named(g, o) =>
    \E f \in DOMAIN fams :
      OwnedBy(f, o, location_table[o]) /\ Position(g) <= Position(f)

(* What one iteration of the installation does to its own lists.           *)
LEMMA InstallLists ==
  ASSUME TypeOK, NEW t \in Threads, NEW p \in ObjectIds, Install(t, p)
  PROVE  /\ UNCHANGED <<pc, base, gen, fams, heap, sweeping, claims>>
         /\ todo'[t] = todo[t] \ {p} /\ failed[t] \subseteq failed'[t]
         /\ \/ location_table'[p] = At(base[t], p)
            \/ location_table'[p] = location_table[p] /\ p \in failed'[t]
<1>1. /\ DOMAIN location_table = ObjectIds /\ DOMAIN todo = Threads
      /\ DOMAIN failed = Threads
  BY DEF TypeOK
<1>2. /\ UNCHANGED <<pc, base, gen, fams, heap, sweeping, claims>>
      /\ todo' = [todo EXCEPT ![t] = @ \ {p}]
  BY DEF Install, maint
<1>3. CASE gen[t] # 0
  BY <1>1, <1>2, <1>3 DEF Install, Cas, CasSucceeds, At
<1>4. CASE gen[t] = 0
  BY <1>1, <1>2, <1>4 DEF Install, FetchMax, FetchMaxSucceeds, At
<1> QED BY <1>3, <1>4

(* A file comes to name an object when the object is installed in it.      *)
LEMMA TriedStep ==
  ASSUME CoreInv, AccountsInv, BatchesInv, NEW t \in Threads,
         WriteBatch(t) \/ StartMaintenance(t) \/ Step(t),
         NEW u \in Threads, NEW o, Tried(u, o)'
  PROVE  /\ base'[u] = base[u] /\ base[u] \in DOMAIN fams /\ StaysOpen(base[u])
         /\ pc[u] = "install" /\ (u \in sweeping' <=> u \in sweeping)
         /\ \/ Tried(u, o)
            \/ /\ u = t /\ o \in ObjectIds /\ Install(t, o)
               /\ location_table'[o] = At(base[t], o) \/ t \notin sweeping
<1>c. TypeOK /\ FilesInv /\ HoldersInv
  BY DEF CoreInv
<1>1. CASE u # t
  <2>1. /\ pc'[u] = pc[u] /\ (u \in sweeping' <=> u \in sweeping) /\ gen'[u] = gen[u]
        /\ base'[u] = base[u] /\ todo'[u] = todo[u] /\ failed'[u] = failed[u]
    BY <1>c, <1>1, ThreadsApart DEF OthersStay
  <2>2. pc[u] = "install" /\ base[u] \in DOMAIN fams
    BY <1>c, <2>1 DEF Tried, HoldersInv, Working
  <2>3. StaysOpen(base[u])
    BY <1>1, <2>2, HeldStay
  <2>4. Tried(u, o)
    BY <2>1, <2>3 DEF Tried, Trailer, StaysOpen
  <2> QED BY <2>1, <2>2, <2>3, <2>4
<1>2. CASE u = t
  <2>1. pc'[t] = "install" /\ pc'[t] \in Working
    BY <1>2 DEF Tried, Working
  <2>2. ~ InsertPart(t)
    <3> SUFFICES ASSUME InsertPart(t) PROVE FALSE
      OBVIOUS
    <3>1. PICK part, objs, f : Inserts(t, part, objs, f)
      BY <1>c, InsertFacts
    <3>2. base'[t] = f /\ todo'[t] = part /\ fams'[f].objs = objs /\ DOMAIN objs = part
      BY <1>c, <3>1 DEF Inserts, TypeOK
    <3> QED BY <1>2, <3>2 DEF Tried, Trailer
  <2>3. PICK p \in ObjectIds : Install(t, p)
    <3>1. pc[t] \in Working
      BY <1>c, <2>1, <2>2, WorkStep
    <3>2. DOMAIN pc = Threads
      BY <1>c DEF TypeOK
    <3>3. ~ Abandon(t) /\ ~ Commit(t) /\ ~ Evacuate(t) /\ ~ Finalize(t) /\ ~ Unclaim(t)
      BY <2>1, <3>2 DEF Abandon, Commit, Evacuate, Finalize, Unclaim, PartDone, Goto
    <3>4. ~ WriteBatch(t) /\ ~ StartMaintenance(t) /\ ~ Scan(t) /\ ~ Claim(t) /\ ~ Rewrite(t)
          /\ ~ ReadFile(t) /\ ~ Release(t) /\ ~ Prune(t) /\ ~ Remove(t)
      BY <3>1 DEF WriteBatch, StartMaintenance, Scan, Claim, Rewrite, ReadFile, Release,
                  Prune, Remove, Working
    <3> QED BY <2>2, <3>3, <3>4 DEF Step
  <2>4. /\ UNCHANGED <<pc, base, gen, fams, sweeping>>
        /\ todo'[t] = todo[t] \ {p} /\ failed[t] \subseteq failed'[t]
        /\ \/ location_table'[p] = At(base[t], p)
           \/ location_table'[p] = location_table[p] /\ p \in failed'[t]
    BY <1>c, <2>3, InstallLists
  <2>5. pc[t] = "install" /\ base[t] \in DOMAIN fams /\ StaysOpen(base[t])
    BY <1>c, <2>1, <2>4 DEF HoldersInv, StaysOpen
  <2>6. /\ o \in DOMAIN fams[base[t]].objs /\ o \notin todo'[t]
        /\ gen[t] # 0 => o \notin failed'[t]
    BY <1>2, <2>4 DEF Tried, Trailer
  <2>7. CASE o # p
    BY <1>2, <2>4, <2>5, <2>6, <2>7 DEF Tried, Trailer
  <2>8. CASE o = p
    <3>1. gen[t] = 0 => t \notin sweeping
      BY <2>5 DEF BatchesInv, CallInv, CallOk, Writing, Working
    <3> QED BY <1>2, <2>3, <2>4, <2>5, <2>6, <2>8, <3>1
  <2> QED BY <2>7, <2>8
<1> QED BY <1>1, <1>2

(* The same for the files.                                                 *)
LEMMA NamedStep ==
  ASSUME CoreInv, AccountsInv, BatchesInv, NEW t \in Threads,
         WriteBatch(t) \/ StartMaintenance(t) \/ Step(t),
         NEW g, NEW o, Named(g, o)'
  PROVE  \/ Named(g, o)
         \/ /\ g = base[t] /\ o \in ObjectIds /\ Install(t, o)
            /\ location_table'[o] = At(base[t], o) \/ t \notin sweeping
<1>1. CASE g \in DOMAIN heap' /\ o \in heap'[g].trailer
  <2>1. HeapChange(t)
    BY HeapEffect
  <2>2. CASE heap' = heap
    BY <1>1, <2>2 DEF Named
  <2>3. CASE heap' # heap /\ g # base[t]
    BY <1>1, <2>1, <2>3 DEF HeapChange, Named
  <2>4. CASE heap' # heap /\ g = base[t]
    <3>1. Commit(t) /\ o \in Trailer(t)
      BY <1>1, <2>1, <2>4 DEF HeapChange
    <3>2. Tried(t, o)
      BY <3>1 DEF Commit, Tried
    <3> QED BY <2>4, <3>2 DEF Named
  <2> QED BY <2>2, <2>3, <2>4
<1>2. ASSUME NEW u \in Threads, base'[u] = g, Tried(u, o)'
      PROVE  \/ Named(g, o)
             \/ /\ g = base[t] /\ o \in ObjectIds /\ Install(t, o)
                /\ location_table'[o] = At(base[t], o) \/ t \notin sweeping
  BY <1>2, TriedStep DEF Named
<1> QED BY <1>1, <1>2 DEF Named

(* Every step of a thread keeps the table and the trailers in agreement.   *)
LEMMA TableStep ==
  ASSUME CoreInv, CoreInv', AccountsInv, AccountsInv', BatchesInv, KnownInv',
         PlacesInv, TableInv, NEW t \in Threads,
         WriteBatch(t) \/ StartMaintenance(t) \/ Step(t)
  PROVE  TableInv'
<1>c. TypeOK /\ FilesInv /\ HoldersInv
  BY DEF CoreInv
<1>b. PICK b : b = base[t]
  OBVIOUS
<1> SUFFICES ASSUME NEW o \in ObjectIds, NEW g \in Files', Named(g, o)'
             PROVE  \E f \in DOMAIN fams' : /\ OwnedBy(f, o, location_table[o])'
                                            /\ Position(g) <= Position(f)
  BY DEF TableInv, Position
<1>1. ASSUME NEW f \in DOMAIN fams, OwnedBy(f, o, location_table[o]),
             location_table'[o] = location_table[o]
      PROVE  f \in DOMAIN fams' /\ OwnedBy(f, o, location_table[o])'
  <2>1. PICK l : l = location_table[o]
    OBVIOUS
  <2>2. OwnedBy(f, o, l) /\ Referred(o, l)
    BY <1>1, <2>1 DEF Referred
  <2>3. StaysOpen(f)
    BY <2>2, ReferredStays
  <2> QED BY <1>1, <2>3 DEF StaysOpen, OwnedBy, At
<1>2. ASSUME location_table'[o] # location_table[o]
      PROVE  /\ Install(t, o) /\ b \in DOMAIN fams'
             /\ OwnedBy(b, o, location_table[o])'
  <2>1. PICK p \in ObjectIds : Install(t, p)
    BY <1>2, TableStays
  <2>2. p = o
    BY <1>2, <2>1, InstallFacts
  <2>3. OwnedBy(b, o, At(b, o)) /\ location_table'[o] = At(b, o)
    BY <1>b, <1>2, <2>1, <2>2, InstallFacts
  <2>4. fams' = fams
    BY <2>1 DEF Install
  <2> QED BY <2>1, <2>2, <2>3, <2>4 DEF OwnedBy, At
<1>3. CASE Named(g, o)
  <2>1. g \in Files
    BY <1>c, <1>3 DEF Named, Tried, Files, HoldersInv, Working
  <2>2. PICK f \in DOMAIN fams :
          OwnedBy(f, o, location_table[o]) /\ Position(g) <= Position(f)
    BY <1>3, <2>1 DEF TableInv
  <2>3. CASE location_table'[o] = location_table[o]
    BY <1>1, <2>2, <2>3
  <2>4. CASE location_table'[o] # location_table[o]
    <3>1. Position(f) < Position(base[t]) /\ Position(f) \in Nat /\ Position(base[t]) \in Nat
      BY <1>2, <2>2, <2>4, InstallPlaces
    <3>2. Position(g) \in Nat
      BY <1>c, <2>1, FilesBehind
    <3> QED BY <1>b, <1>2, <2>2, <2>4, <3>1, <3>2
  <2> QED BY <2>3, <2>4
<1>4. CASE /\ g = base[t] /\ Install(t, o)
           /\ location_table'[o] = At(base[t], o) \/ t \notin sweeping
  <2>1. base[t] \in DOMAIN fams /\ fams' = fams /\ pc[t] = "install"
    BY <1>4, InstallFacts DEF Install
  <2>2. Position(g) \in Nat
    BY <1>c, <1>4, <2>1, FilesBehind DEF Files
  <2>3. CASE location_table'[o] = At(base[t], o)
    <3>1. OwnedBy(b, o, location_table[o])'
      BY <1>b, <1>4, <2>1, <2>3, InstallFacts DEF OwnedBy, At
    <3> QED BY <1>b, <1>4, <2>1, <2>2, <3>1
  <2>4. CASE location_table'[o] # At(base[t], o)
    <3>1. location_table'[o] = location_table[o] /\ t \notin sweeping
      BY <1>4, <2>4, InstallFacts
    <3>2. location_table[o] # Null
      <4>1. /\ pc' = pc /\ base' = base /\ todo'[t] = todo[t] \ {o}
        BY <1>c, <1>4, InstallLists
      <4>2. o \in DOMAIN fams[base[t]].objs
        BY <1>4, InstallFacts DEF OwnedBy
      <4>3. pc'[t] = "install" /\ o \in DOMAIN fams'[base'[t]].objs \ todo'[t]
        BY <2>1, <4>1, <4>2
      <4> QED BY <3>1, <4>3 DEF KnownInv, InstallInv
    <3>3. PICK h \in DOMAIN fams : OwnedBy(h, o, location_table[o])
      BY <3>2 DEF AccountsInv, LocationsInv, Backed
    <3>4. Position(base[t]) < Position(h) /\ Position(h) \in Nat
      BY <1>4, <3>1, <3>3, InstallPlaces
    <3> QED BY <1>1, <1>4, <2>2, <3>1, <3>3, <3>4
  <2> QED BY <2>3, <2>4
<1> QED BY <1>3, <1>4, NamedStep

(***************************************************************************)
(* What recovery restores.                                                 *)
(***************************************************************************)
(* The renamed file with the highest place of those that name an object.   *)
IsLast(f, o) ==
  /\ f \in DOMAIN heap /\ o \in heap[f].trailer
  /\ \A g \in DOMAIN heap : o \in heap[g].trailer => Position(g) <= Position(f)

Unnamed(o) == \A f \in DOMAIN heap : o \notin heap[f].trailer

(* The last file has the version that was committed last, is open, and is  *)
(* in use while maintenance, which prunes files, is running.               *)
CommittedOk(o) ==
  /\ \A f \in DOMAIN heap : IsLast(f, o) =>
       /\ heap[f].objs[o].val = latest[o] /\ f \in DOMAIN fams
       /\ sweeping # {} => Referred(o, At(f, o))
  /\ Unnamed(o) => latest[o] = 0

(* While maintenance runs nothing is committed but what the table has, and *)
(* what it has installed stays installed until its file is renamed.        *)
SweepInv ==
  /\ \A t \in sweeping : \A o \in ObjectIds :
       Tried(t, o) => location_table[o] = At(base[t], o)
  /\ sweeping # {} => \A o \in ObjectIds : TableVersion(o) = latest[o]

(* Counts are decremented only after the file has been renamed.            *)
RenamedInv ==
  \A t \in Threads : pc[t] = "evacuate" =>
    base[t] \in DOMAIN heap /\ Trailer(t) \subseteq heap[base[t]].trailer

CommitInv == (\A o \in ObjectIds : CommittedOk(o)) /\ SweepInv /\ RenamedInv

(* Files have different places.                                            *)
LEMMA PlacesDiffer ==
  ASSUME CoreInv, NEW f \in Files, NEW g \in Files,
         Position(f) <= Position(g), Position(g) <= Position(f)
  PROVE  f = g
<1>1. Position(f) \in Nat /\ Position(g) \in Nat
  BY FilesBehind DEF CoreInv
<1>2. Position(f) = Position(g)
  BY <1>1
<1> QED BY <1>2 DEF CoreInv, FilesInv, Disjoint

(* Of the files that name an object one is the last, the one that recovery *)
(* takes.                                                                  *)
LEMMA LastExists ==
  ASSUME CoreInv, NEW o
  PROVE  /\ ~ Unnamed(o) => IsLast(LastFileWith(heap, o), o)
         /\ \A f, g : IsLast(f, o) /\ IsLast(g, o) => f = g
         /\ Unnamed(o) <=> FilesWith(heap, o) = {}
<1>1. Unnamed(o) <=> FilesWith(heap, o) = {}
  BY DEF Unnamed, FilesWith
<1>2. ASSUME ~ Unnamed(o) PROVE IsLast(LastFileWith(heap, o), o)
  <2>1. Kept(heap)
    BY DEF Kept
  <2>2. Directory(heap)
    BY <2>1, KeptDirectory DEF CoreInv
  <2> QED BY <1>1, <1>2, <2>2, LastFileFacts DEF FilesWith, IsLast
<1>3. ASSUME NEW f, NEW g, IsLast(f, o), IsLast(g, o) PROVE f = g
  BY <1>3, PlacesDiffer DEF IsLast, Files
<1> QED BY <1>1, <1>2, <1>3

(* With no file in the middle of an installation the table leads to the    *)
(* last file, and knows nothing that no file names.                        *)
LEMMA IdleOwner ==
  ASSUME CoreInv, AccountsInv, KnownInv, TableInv,
         \A t \in Threads : pc[t] # "install", NEW o \in ObjectIds
  PROVE  /\ \A f : IsLast(f, o) =>
              f \in DOMAIN fams /\ OwnedBy(f, o, location_table[o])
         /\ Unnamed(o) => location_table[o] = Null
<1>1. ASSUME NEW h, OwnedBy(h, o, location_table[o])
      PROVE  h \in DOMAIN heap /\ o \in heap[h].trailer /\ h \in DOMAIN fams
  <2>1. h \in DOMAIN fams /\ h \in DOMAIN heap
    BY <1>1 DEF CoreInv, HoldersInv, OwnedBy
  <2>2. Referred(o, At(h, o)) /\ o \in DOMAIN fams[h].objs
    BY <1>1 DEF OwnedBy, Referred
  <2> QED BY <2>1, <2>2 DEF KnownInv, TrailersInv
<1>2. ASSUME NEW f, IsLast(f, o) PROVE f \in DOMAIN fams /\ OwnedBy(f, o, location_table[o])
  <2>1. f \in Files /\ Named(f, o)
    BY <1>2 DEF IsLast, Files, Named
  <2>2. PICK h \in DOMAIN fams : OwnedBy(h, o, location_table[o]) /\ Position(f) <= Position(h)
    BY <2>1 DEF TableInv
  <2>3. Position(h) <= Position(f) /\ h \in Files
    BY <1>1, <1>2, <2>2 DEF IsLast, Files
  <2>4. h = f
    BY <2>1, <2>2, <2>3, PlacesDiffer
  <2> QED BY <2>2, <2>4
<1>3. Unnamed(o) => location_table[o] = Null
  BY <1>1 DEF AccountsInv, LocationsInv, Backed, Unnamed
<1> QED BY <1>2, <1>3

(* Once every call has returned, table and trailers agree on the version   *)
(* of every object.                                                        *)
LEMMA IdleAgreement ==
  ASSUME CoreInv, AccountsInv, KnownInv, TableInv
  PROVE  QuiescentAgreement
<1> SUFFICES ASSUME \A t \in Threads : pc[t] = "idle", NEW o \in ObjectIds
             PROVE  TableVersion(o) = RecoveredVersion(o)
  BY DEF QuiescentAgreement
<1>1. CASE Unnamed(o)
  BY <1>1, IdleOwner, LastExists DEF TableVersion, RecoveredVersion
<1>2. CASE ~ Unnamed(o)
  <2>1. PICK f : f = LastFileWith(heap, o)
    OBVIOUS
  <2>2. IsLast(f, o) /\ FilesWith(heap, o) # {}
    BY <1>2, <2>1, LastExists
  <2>3. f \in DOMAIN fams /\ OwnedBy(f, o, location_table[o])
    BY <2>2, IdleOwner
  <2>4. TableVersion(o) = fams[f].objs[o].val
    BY <2>3, CoreVersions DEF VersionsRead
  <2>5. heap[f].objs = fams[f].objs
    BY <2>2, <2>3 DEF IsLast, CoreInv, FilesInv, ObjsOf
  <2> QED BY <2>1, <2>2, <2>4, <2>5 DEF RecoveredVersion
<1> QED BY <1>1, <1>2

(* The last file decides what recovery restores.                           *)
LEMMA CommitRecovers == CoreInv /\ CommitInv => RecoversCommitted
<1> SUFFICES ASSUME CoreInv, CommitInv, NEW o \in ObjectIds
             PROVE  RecoveredVersion(o) = latest[o]
  BY DEF RecoversCommitted
<1>1. CASE Unnamed(o)
  BY <1>1, LastExists DEF CommitInv, CommittedOk, RecoveredVersion
<1>2. CASE ~ Unnamed(o)
  <2>1. PICK f : f = LastFileWith(heap, o)
    OBVIOUS
  <2>2. IsLast(f, o) /\ FilesWith(heap, o) # {}
    BY <1>2, <2>1, LastExists
  <2> QED BY <2>1, <2>2 DEF CommitInv, CommittedOk, RecoveredVersion, IsLast
<1> QED BY <1>1, <1>2

(* Where the callers exclude each other, only maintenance steps while      *)
(* maintenance runs.                                                       *)
LEMMA OnlySweepers ==
  ASSUME CoreInv, PlacesInv, NEW t \in Threads, Step(t), sweeping # {}
  PROVE  t \in sweeping
<1>1. pc[t] # "idle"
  BY DEF Step, InsertPart, Install, Abandon, Commit, Evacuate, Finalize, Unclaim, Scan,
         Claim, Rewrite, ReadFile, Release, Prune, Remove
<1> QED BY <1>1 DEF PlacesInv, PlaceOk

(* What maintenance has installed stays: the next to move the object would *)
(* be another maintenance, and that has read other files.                  *)
LEMMA SweptStay ==
  ASSUME CoreInv, AccountsInv, BatchesInv, PlacesInv, SweepInv,
         NEW t \in Threads, WriteBatch(t) \/ StartMaintenance(t) \/ Step(t),
         NEW u \in sweeping', NEW o \in ObjectIds, Tried(u, o)'
  PROVE  location_table'[o] = At(base[u], o)'
<1>c. TypeOK /\ FilesInv /\ HoldersInv /\ u \in Threads
  <2>1. TypeOK /\ FilesInv /\ HoldersInv
    BY DEF CoreInv
  <2>2. u \in Threads
    BY <2>1, SweepersStep DEF TypeOK
  <2> QED BY <2>1, <2>2
<1>1. /\ base'[u] = base[u] /\ base[u] \in DOMAIN fams /\ StaysOpen(base[u])
      /\ u \in sweeping
      /\ \/ Tried(u, o)
         \/ /\ u = t /\ o \in ObjectIds /\ Install(t, o)
            /\ location_table'[o] = At(base[t], o) \/ t \notin sweeping
  BY <1>c, TriedStep
<1>2. At(base[u], o)' = At(base[u], o)
  BY <1>1 DEF StaysOpen, At
<1>3. CASE u = t /\ location_table'[o] = At(base[t], o)
  BY <1>2, <1>3
<1>4. CASE Tried(u, o)
  <2>1. location_table[o] = At(base[u], o) /\ o \in DOMAIN fams[base[u]].objs
    BY <1>1, <1>4 DEF SweepInv, Tried, Trailer
  <2>2. OwnedBy(base[u], o, location_table[o])
    BY <1>1, <2>1 DEF OwnedBy
  <2>3. ASSUME location_table'[o] # location_table[o] PROVE FALSE
    <3>1. PICK p \in ObjectIds : Install(t, p)
      BY <2>3, TableStays
    <3>2. p = o
      BY <2>3, <3>1, InstallFacts
    <3>3. t \in sweeping
      BY <1>1, <3>1, OnlySweepers DEF Step
    <3>4. location_table[o] = batch[t][o].old /\ o \in DOMAIN batch[t]
      BY <2>3, <3>1, <3>2, <3>3, InstallFacts
    <3>5. PICK h \in claims[t] : ItemFrom(t, o, h)
      BY <3>3, <3>4 DEF BatchesInv, ItemsInv
    <3>6. OwnedBy(h, o, location_table[o])
      BY <3>4, <3>5 DEF ItemFrom
    <3>7. h = base[u]
      BY <2>2, <3>6, CoreLocations DEF LocationsDistinct
    <3> QED BY <1>c, <3>5, <3>7 DEF HoldersInv
  <2> QED BY <1>2, <2>1, <2>3
<1> QED BY <1>1, <1>3, <1>4

(* While maintenance runs the table stays with the committed versions.     *)
LEMMA SweepStep ==
  ASSUME CallersExclude, CoreInv, CoreInv', AccountsInv, AccountsInv', BatchesInv,
         KnownInv, PlacesInv, TableInv, CommitInv,
         NEW t \in Threads, WriteBatch(t) \/ StartMaintenance(t) \/ Step(t)
  PROVE  SweepInv'
<1>c. TypeOK
  BY DEF CoreInv
<1>1. ASSUME NEW u \in sweeping', NEW o \in ObjectIds, Tried(u, o)'
      PROVE  location_table'[o] = At(base[u], o)'
  BY <1>1, SweptStay DEF CommitInv
<1>2. ASSUME sweeping' # {}, NEW o \in ObjectIds PROVE TableVersion(o)' = latest'[o]
  <2>1. CASE Step(t) /\ sweeping # {}
    <3>1. t \in sweeping
      BY <2>1, OnlySweepers
    <3>2. TableVersion(o)' = TableVersion(o)
      BY <2>1, <3>1, MaintenanceStep
    <3>3. latest'[o] = latest[o]
      <4>1. Commit(t) => gen[t] # 0
        BY <3>1 DEF Commit, BatchesInv, CallInv, CallOk, Writing, Working
      <4>2. CASE Commit(t)
        BY <4>1, <4>2 DEF Commit, Rename
      <4> QED BY <4>2, HistoryStays
    <3> QED BY <2>1, <3>2, <3>3 DEF CommitInv, SweepInv
  <2>2. CASE StartMaintenance(t)
    <3>1. location_table' = location_table /\ latest' = latest
      BY <2>2 DEF StartMaintenance, shared, history
    <3>2. TableVersion(o)' = TableVersion(o)
      BY <3>1, VersionStays
    <3>3. CASE sweeping # {}
      BY <3>1, <3>2, <3>3 DEF CommitInv, SweepInv
    <3>4. CASE sweeping = {}
      <4>1. \A u \in Threads : pc[u] = "idle"
        BY <2>2, <3>4 DEF StartMaintenance, MayMaintain
      <4>2. TableVersion(o) = RecoveredVersion(o)
        BY <4>1, IdleAgreement DEF QuiescentAgreement
      <4>3. RecoveredVersion(o) = latest[o]
        BY CommitRecovers DEF RecoversCommitted
      <4> QED BY <3>1, <3>2, <4>2, <4>3
    <3> QED BY <3>3, <3>4
  <2> QED BY <1>c, <1>2, <2>1, <2>2, SweepersStep DEF MayWrite
<1> QED BY <1>1, <1>2 DEF SweepInv

(* A thread decrements counts of the files it has replaced after the       *)
(* rename of its own.                                                      *)
LEMMA RenamedStep ==
  ASSUME CoreInv, CoreInv', AccountsInv, BatchesInv, RenamedInv,
         NEW t \in Threads, WriteBatch(t) \/ StartMaintenance(t) \/ Step(t)
  PROVE  RenamedInv'
<1>c. TypeOK /\ FilesInv /\ HoldersInv /\ DOMAIN pc = Threads
  BY DEF CoreInv, TypeOK
<1>h. HeapChange(t)
  BY HeapEffect
<1> SUFFICES ASSUME NEW u \in Threads, pc'[u] = "evacuate"
             PROVE  base'[u] \in DOMAIN heap' /\ Trailer(u)' \subseteq heap'[base'[u]].trailer
  BY DEF RenamedInv
<1>1. CASE u # t
  <2>1. /\ pc[u] = "evacuate" /\ base'[u] = base[u] /\ gen'[u] = gen[u]
        /\ failed'[u] = failed[u]
    BY <1>c, <1>1, ThreadsApart DEF OthersStay
  <2>2. base[u] \in DOMAIN fams
    BY <1>c, <2>1 DEF HoldersInv, Working
  <2>3. StaysOpen(base[u])
    BY <1>1, <2>2, HeldStay
  <2>4. Trailer(u)' = Trailer(u)
    BY <2>1, <2>3 DEF Trailer, StaysOpen
  <2>5. base[u] \in DOMAIN heap /\ Trailer(u) \subseteq heap[base[u]].trailer
    BY <2>1 DEF RenamedInv
  <2>6. base[u] # base[t]
    BY <1>c, <1>1, <2>1 DEF HoldersInv, Working
  <2> QED BY <1>h, <2>1, <2>4, <2>5, <2>6 DEF HeapChange
<1>2. CASE u = t /\ Commit(t)
  <2>1. UNCHANGED <<fams, base, gen, failed>>
    BY <1>2 DEF Commit, inner
  <2>2. base[t] \in DOMAIN heap' /\ heap'[base[t]].trailer = Trailer(t)
    BY <1>2 DEF Commit, Rename
  <2>3. Trailer(t)' = Trailer(t)
    BY <2>1 DEF Trailer
  <2> QED BY <1>2, <2>1, <2>2, <2>3
<1>3. CASE u = t /\ Evacuate(t)
  <2>1. UNCHANGED <<heap, base, gen, failed>> /\ pc[t] = "evacuate" /\ SameFiles
    BY <1>3, FilesStay DEF Evacuate
  <2>2. base[t] \in DOMAIN fams
    BY <1>c, <2>1 DEF HoldersInv, Working
  <2>3. Trailer(t)' = Trailer(t)
    BY <2>1, <2>2 DEF Trailer, SameFiles
  <2> QED BY <1>3, <2>1, <2>3 DEF RenamedInv
<1>4. CASE u = t /\ ~ Commit(t) /\ ~ Evacuate(t)
  <2>1. ~ InsertPart(t) /\ \A p \in ObjectIds : ~ Install(t, p)
    BY <1>c, <1>4 DEF InsertPart, Install, Goto
  <2>2. ~ WriteBatch(t) /\ ~ StartMaintenance(t) /\ ~ Abandon(t) /\ ~ Finalize(t)
        /\ ~ Unclaim(t)
    BY <1>c, <1>4 DEF WriteBatch, StartMaintenance, Abandon, Finalize, Unclaim, PartDone, Goto
  <2>3. ~ Scan(t) /\ ~ Claim(t) /\ ~ Rewrite(t) /\ ~ ReadFile(t) /\ ~ Release(t)
        /\ ~ Prune(t) /\ ~ Remove(t)
    BY <1>c, <1>4 DEF Scan, Claim, Rewrite, ReadFile, Release, Prune, Remove, Goto
  <2> QED BY <2>1, <2>2, <2>3, <1>4 DEF Step
<1> QED BY <1>1, <1>2, <1>3, <1>4

(* Only decrement_evacuated_fams takes away replaced locations.            *)
LEMMA ReplacedKept ==
  ASSUME CoreInv, NEW t \in Threads, WriteBatch(t) \/ StartMaintenance(t) \/ Step(t),
         ~ Evacuate(t), NEW u \in Threads
  PROVE  replaced[u] \subseteq replaced'[u]
<1>c. TypeOK
  BY DEF CoreInv
<1>1. CASE u # t
  BY <1>c, <1>1, ThreadsApart DEF OthersStay
<1>2. CASE u = t /\ \E o \in ObjectIds : Install(t, o)
  BY <1>2, InstallReplaces
<1>3. CASE WriteBatch(t) \/ StartMaintenance(t) \/ InsertPart(t) \/ Abandon(t) \/ Commit(t)
           \/ Finalize(t) \/ Unclaim(t)
  BY <1>3 DEF WriteBatch, StartMaintenance, InsertPart, Abandon, Commit, Finalize, Unclaim, inner
<1>4. CASE Scan(t) \/ Claim(t) \/ Rewrite(t) \/ ReadFile(t) \/ Release(t) \/ Prune(t) \/ Remove(t)
  BY <1>4 DEF Scan, Claim, Rewrite, ReadFile, Release, Prune, Remove, inner
<1> QED BY <1>1, <1>2, <1>3, <1>4 DEF Step

(* The last file stays in use: a location is let go of only after a later  *)
(* file that names the object has been renamed.                            *)
LEMMA LastReferred ==
  ASSUME CoreInv, AccountsInv, BatchesInv, PlacesInv, RenamedInv,
         NEW t \in Threads, WriteBatch(t) \/ StartMaintenance(t) \/ Step(t),
         NEW o \in ObjectIds, NEW f \in DOMAIN fams, IsLast(f, o),
         NEW l, OwnedBy(f, o, l), Referred(o, l)
  PROVE  Referred(o, l)'
<1>c. TypeOK /\ FilesInv /\ HoldersInv
  BY DEF CoreInv
<1>1. CASE location_table[o] = l
  <2>1. l # Null
    BY CoreLocations DEF LocationsDistinct, OwnedBy
  <2>2. CASE location_table'[o] = location_table[o]
    BY <1>1, <2>2 DEF Referred
  <2>3. CASE location_table'[o] # location_table[o]
    <3>1. PICK p \in ObjectIds : Install(t, p)
      BY <2>3, TableStays
    <3>2. <<o, location_table[o]>> \in replaced'[t]
      BY <1>1, <2>1, <2>3, <3>1, InstallReplaces
    <3> QED BY <1>1, <3>2 DEF Referred
  <2> QED BY <2>2, <2>3
<1>2. ASSUME NEW u \in Threads, <<o, l>> \in replaced[u] PROVE Referred(o, l)'
  <2>1. CASE <<o, l>> \in replaced'[u]
    BY <2>1 DEF Referred
  <2>2. CASE <<o, l>> \notin replaced'[u]
    <3>1. Evacuate(t) /\ u = t
      BY <1>c, <1>2, <2>2, ReplacedKept, ThreadsApart DEF OthersStay
    <3>2. pc[t] = "evacuate"
      BY <3>1 DEF Evacuate
    <3>3. /\ o \in DOMAIN fams[base[t]].objs \ Pending(t) /\ base[t] \in Files
      <4>1. base[t] \in DOMAIN fams
        BY <1>c, <3>2 DEF HoldersInv, Working
      <4>2. PICK r \in replaced[t] : r = <<o, l>>
        BY <1>2, <3>1
      <4>3. r[1] = o
        BY <4>2
      <4> QED BY <4>1, <4>2, <4>3 DEF AccountsInv, WorkInv, Files
    <3>4. o \in Trailer(t)
      BY <3>3 DEF Trailer, Pending
    <3>5. base[t] \in DOMAIN heap /\ o \in heap[base[t]].trailer
      BY <3>2, <3>4 DEF RenamedInv
    <3>6. Position(base[t]) <= Position(f)
      BY <3>5 DEF IsLast
    <3>7. Position(f) < Position(base[t])
      <4>1. PICK r \in replaced[t] : r = <<o, l>>
        BY <1>2, <3>1
      <4>2. r[1] = o /\ r[2] = l
        BY <4>1
      <4> QED BY <4>1, <4>2 DEF PlacesInv, PlaceOk
    <3>8. Position(f) \in Nat /\ Position(base[t]) \in Nat
      BY <1>c, <3>3, FilesBehind DEF Files
    <3> QED BY <3>6, <3>7, <3>8
  <2> QED BY <2>1, <2>2
<1> QED BY <1>1, <1>2 DEF Referred

(* Steps other than a rename change neither the last files nor the         *)
(* committed versions, and take no last file away.                         *)
LEMMA CommittedQuiet ==
  ASSUME CallersExclude, CoreInv, CoreInv', AccountsInv, AccountsInv', BatchesInv,
         KnownInv, PlacesInv, TableInv, CommitInv,
         NEW t \in Threads, WriteBatch(t) \/ StartMaintenance(t) \/ Step(t),
         ~ Commit(t), NEW o \in ObjectIds
  PROVE  CommittedOk(o)'
<1>c. TypeOK /\ FilesInv /\ HoldersInv
  BY DEF CoreInv
<1>1. heap' = heap /\ latest' = latest
  BY HeapEffect, HistoryStays DEF HeapChange
<1>2. Unnamed(o)' => latest'[o] = 0
  BY <1>1 DEF Unnamed, CommitInv, CommittedOk
<1>3. ASSUME NEW f \in DOMAIN heap, IsLast(f, o)
      PROVE  /\ heap'[f].objs[o].val = latest'[o] /\ f \in DOMAIN fams'
             /\ sweeping' # {} => Referred(o, At(f, o))'
  <2>1. /\ heap[f].objs[o].val = latest[o] /\ f \in DOMAIN fams
        /\ sweeping # {} => Referred(o, At(f, o))
    BY <1>3 DEF CommitInv, CommittedOk
  <2>2. PICK l : l = At(f, o)
    OBVIOUS
  <2>3. OwnedBy(f, o, l)
    <3>1. o \in DOMAIN heap[f].objs /\ heap[f].objs = fams[f].objs
      BY <1>c, <1>3, <2>1, HeapTypes DEF IsLast, FilesInv, ObjsOf
    <3> QED BY <2>1, <2>2, <3>1 DEF OwnedBy
  <2>4. CASE Referred(o, l)
    <3>1. StaysOpen(f)
      BY <2>3, <2>4, ReferredStays
    <3>2. At(f, o)' = l
      BY <2>2, <3>1 DEF StaysOpen, At
    <3>3. Referred(o, l)'
      BY <1>3, <2>1, <2>3, <2>4, LastReferred DEF CommitInv
    <3>4. Referred(o, At(f, o))'
      BY <3>2, <3>3 DEF Referred
    <3> QED BY <1>1, <2>1, <3>1, <3>4 DEF StaysOpen
  <2>5. CASE ~ Referred(o, l)
    <3>1. sweeping = {}
      BY <2>1, <2>2, <2>5
    <3>2. ~ StartMaintenance(t)
      <4> SUFFICES ASSUME StartMaintenance(t) PROVE FALSE
        OBVIOUS
      <4>1. \A u \in Threads : pc[u] # "install"
        BY <3>1 DEF StartMaintenance, MayMaintain
      <4>2. OwnedBy(f, o, location_table[o])
        BY <1>3, <4>1, IdleOwner
      <4> QED BY <2>2, <2>5, <4>2 DEF OwnedBy, Referred
    <3>3. sweeping' = {}
      BY <1>c, <3>1, <3>2, SweepersStep
    <3>4. ~ Remove(t)
      BY <3>1 DEF Remove, BatchesInv, CallInv, CallOk, Writing, Working
    <3>5. f \in DOMAIN fams'
      <4>1. FilesChange(t)
        BY FilesEffect
      <4>2. Abandon(t) => base[t] # f
        BY <1>3 DEF Abandon, KnownInv, InstallInv
      <4> QED BY <2>1, <3>4, <4>1, <4>2 DEF FilesChange, SameFiles
    <3> QED BY <1>1, <2>1, <3>3, <3>5
  <2> QED BY <2>4, <2>5
<1>4. \A f \in DOMAIN heap' : IsLast(f, o)' => IsLast(f, o)
  BY <1>1 DEF IsLast, Position
<1> QED BY <1>1, <1>2, <1>3, <1>4 DEF CommittedOk

(* A rename by maintenance makes its file the last one for the objects it  *)
(* has moved, with the versions they had.                                  *)
LEMMA CommittedSweep ==
  ASSUME CoreInv, TableInv, CommitInv, NEW t \in sweeping, base[t] \in DOMAIN fams,
         NEW o \in ObjectIds, Tried(t, o)
  PROVE  /\ fams[base[t]].objs[o].val = latest[o] /\ Referred(o, At(base[t], o))
         /\ \A g \in DOMAIN heap : o \in heap[g].trailer => Position(g) <= Position(base[t])
<1>1. location_table[o] = At(base[t], o) /\ TableVersion(o) = latest[o]
  BY DEF CommitInv, SweepInv
<1>2. OwnedBy(base[t], o, location_table[o])
  BY <1>1 DEF OwnedBy, Tried, Trailer
<1>3. fams[base[t]].objs[o].val = latest[o]
  BY <1>1, <1>2, CoreVersions DEF VersionsRead
<1>4. ASSUME NEW g \in DOMAIN heap, o \in heap[g].trailer PROVE Position(g) <= Position(base[t])
  <2>1. PICK h \in DOMAIN fams : OwnedBy(h, o, location_table[o]) /\ Position(g) <= Position(h)
    BY <1>4 DEF TableInv, Named, Files
  <2>2. h = base[t]
    BY <1>2, <2>1, CoreLocations DEF LocationsDistinct
  <2> QED BY <2>1, <2>2
<1> QED BY <1>1, <1>3, <1>4 DEF Referred

(* A rename by a writer commits its version if its file is the last one,   *)
(* and leaves the committed version alone if it is not.                    *)
LEMMA CommittedNew ==
  ASSUME CoreInv, BatchesInv, PlacesInv, OrderInv, CommitInv, NEW t \in Threads,
         t \notin sweeping, Commit(t), NEW o \in ObjectIds, o \in Trailer(t)
  PROVE  /\ Unnamed(o) => latest'[o] = fams[base[t]].objs[o].val
         /\ \A f : IsLast(f, o) =>
              /\ Position(f) < Position(base[t]) => latest'[o] = fams[base[t]].objs[o].val
              /\ Position(base[t]) < Position(f) => latest'[o] = latest[o]
<1>c. TypeOK /\ FilesInv /\ HoldersInv
  BY DEF CoreInv
<1>1. pc[t] = "install" /\ base[t] \in DOMAIN fams /\ gen[t] = 0 /\ base[t] \in Files
  BY <1>c DEF Commit, HoldersInv, Working, BatchesInv, CallInv, CallOk, Files
<1>v. PICK v : v = fams[base[t]].objs[o].val
  OBVIOUS
<1>2. latest'[o] = IF order[latest[o]] < order[v] THEN v ELSE latest[o]
  BY <1>1, <1>v DEF Commit, Rename
<1>3. order[v] = Position(base[t])
  <2>1. IsNew(base[t])
    BY <1>1 DEF PlacesInv, PlaceOk, Working
  <2>2. o \in DOMAIN ObjsOf(base[t]) /\ ObjsOf(base[t])[o].val = v
    BY <1>1, <1>v DEF Trailer, ObjsOf
  <2> QED BY <1>1, <2>1, <2>2 DEF OrderInv, Ordered
<1>4. Position(base[t]) \in Nat /\ Position(base[t]) >= 1
  BY <1>c, <1>1, FilesBehind DEF FilesInv, Placed
<1>5. Unnamed(o) => latest'[o] = v
  BY <1>2, <1>3, <1>4 DEF CommitInv, CommittedOk, OrderInv
<1>6. ASSUME NEW f, IsLast(f, o)
      PROVE  /\ Position(f) < Position(base[t]) => latest'[o] = v
             /\ Position(base[t]) < Position(f) => latest'[o] = latest[o]
  <2>1. f \in DOMAIN heap /\ f \in Files /\ o \in heap[f].trailer /\ heap[f].objs = ObjsOf(f)
    BY <1>c, <1>6 DEF IsLast, Files, FilesInv
  <2>2. o \in DOMAIN ObjsOf(f) /\ ObjsOf(f)[o].val = latest[o]
    BY <1>c, <1>6, <2>1, HeapTypes DEF CommitInv, CommittedOk
  <2>3. /\ order[latest[o]] <= Position(f)
        /\ IsNew(f) => order[latest[o]] = Position(f)
    BY <2>1, <2>2 DEF OrderInv, Ordered
  <2>4. ~ IsNew(f) => Position(f) < Position(base[t])
    BY <1>1, <2>1 DEF PlacesInv, PlaceOk, Working
  <2>5. Position(f) \in Nat
    BY <1>c, <2>1, FilesBehind
  <2>6. order[latest[o]] \in Nat
    <3>1. latest[o] \in 0 .. MaxCalls /\ order \in [0 .. MaxCalls -> Nat]
      BY <1>c, BoundsAssumption DEF OrderInv, TypeOK
    <3> QED BY <3>1
  <2> QED BY <1>2, <1>3, <1>4, <2>3, <2>4, <2>5, <2>6
<1> QED BY <1>v, <1>5, <1>6

(* A rename keeps, for every object, the last file and the committed       *)
(* version together.                                                       *)
LEMMA CommittedRename ==
  ASSUME CoreInv, AccountsInv, BatchesInv, KnownInv, PlacesInv, OrderInv, TableInv,
         CommitInv, NEW t \in Threads, Commit(t), NEW o \in ObjectIds
  PROVE  CommittedOk(o)'
<1>c. TypeOK /\ FilesInv /\ HoldersInv
  BY DEF CoreInv
<1>b. PICK b : b = base[t]
  OBVIOUS
<1>1. /\ pc[t] = "install" /\ b \in DOMAIN fams /\ b \notin DOMAIN heap
      /\ todo[t] = {} /\ b \in Files
  BY <1>c, <1>b DEF Commit, HoldersInv, Working, KnownInv, InstallInv, Files
<1>2. /\ DOMAIN heap' = DOMAIN heap \cup {b}
      /\ heap'[b].objs = fams[b].objs /\ heap'[b].trailer = Trailer(t)
      /\ \A g \in DOMAIN heap : heap'[g] = heap[g]
      /\ UNCHANGED <<fams, location_table, replaced, sweeping>>
  BY <1>b, <1>1 DEF Commit, Rename, inner
<1>3. \A f \in DOMAIN fams : Referred(o, At(f, o)) => Referred(o, At(f, o))'
  BY <1>2 DEF Referred, At
<1>4. CASE o \notin Trailer(t)
  <2>1. latest'[o] = latest[o]
    BY <1>4 DEF Commit, Rename
  <2>2. Unnamed(o)' => Unnamed(o)
    BY <1>2 DEF Unnamed
  <2>3. \A f \in DOMAIN heap' : IsLast(f, o)' => f \in DOMAIN heap /\ IsLast(f, o)
    BY <1>2, <1>4 DEF IsLast, Position
  <2> QED BY <1>2, <1>3, <2>1, <2>2, <2>3 DEF CommitInv, CommittedOk
<1>5. CASE o \in Trailer(t)
  <2>1. Tried(t, o) /\ ~ Unnamed(o)'
    BY <1>1, <1>2, <1>5 DEF Tried, Unnamed
  <2>2. ASSUME NEW f \in DOMAIN heap', IsLast(f, o)'
        PROVE  /\ Position(b) <= Position(f)
               /\ f # b => f \in DOMAIN heap /\ IsLast(f, o)
               /\ f = b => \A g \in DOMAIN heap : o \in heap[g].trailer =>
                                                  Position(g) <= Position(b)
    BY <1>1, <1>2, <1>5, <2>2 DEF IsLast, Position
  <2>3. ASSUME t \in sweeping, NEW f \in DOMAIN heap', IsLast(f, o)'
        PROVE  /\ heap'[f].objs[o].val = latest'[o] /\ f \in DOMAIN fams'
               /\ sweeping' # {} => Referred(o, At(f, o))'
    <3>1. /\ fams[b].objs[o].val = latest[o] /\ Referred(o, At(b, o))
          /\ \A g \in DOMAIN heap : o \in heap[g].trailer => Position(g) <= Position(b)
      BY <1>b, <1>1, <2>1, <2>3, CommittedSweep
    <3>2. f = b
      <4> SUFFICES ASSUME f # b PROVE FALSE
        OBVIOUS
      <4>1. f \in DOMAIN heap /\ Position(f) <= Position(b) /\ Position(b) <= Position(f)
        BY <2>2, <2>3, <3>1 DEF IsLast
      <4> QED BY <1>1, <4>1, PlacesDiffer DEF Files
    <3>3. latest'[o] = latest[o]
      <4>1. gen[t] # 0
        BY <1>1, <2>3 DEF BatchesInv, CallInv, CallOk, Writing, Working
      <4> QED BY <4>1 DEF Commit, Rename
    <3> QED BY <1>1, <1>2, <1>3, <3>1, <3>2, <3>3
  <2>4. ASSUME t \notin sweeping, NEW f \in DOMAIN heap', IsLast(f, o)'
        PROVE  /\ heap'[f].objs[o].val = latest'[o] /\ f \in DOMAIN fams'
               /\ sweeping' # {} => Referred(o, At(f, o))'
    <3>1. sweeping' = {}
      BY <1>1, <1>2, <2>4 DEF PlacesInv, PlaceOk
    <3>2. CASE Unnamed(o)
      <4>1. f = b
        BY <2>2, <2>4, <3>2 DEF IsLast, Unnamed
      <4>2. latest'[o] = fams[b].objs[o].val
        BY <1>b, <1>5, <2>4, <3>2, CommittedNew
      <4> QED BY <1>1, <1>2, <3>1, <4>1, <4>2
    <3>3. CASE f # b
      <4>1. f \in DOMAIN heap /\ IsLast(f, o) /\ Position(b) <= Position(f) /\ f \in Files
        BY <2>2, <2>4, <3>3 DEF Files
      <4>2. Position(f) \in Nat /\ Position(b) \in Nat
        BY <1>c, <1>1, <4>1, FilesBehind
      <4>3. Position(b) < Position(f)
        BY <1>1, <3>3, <4>1, <4>2, PlacesDiffer
      <4>4. latest'[o] = latest[o]
        BY <1>b, <1>5, <2>4, <4>1, <4>3, CommittedNew
      <4> QED BY <1>2, <3>1, <4>1, <4>4 DEF CommitInv, CommittedOk
    <3>4. CASE f = b /\ ~ Unnamed(o)
      <4>1. PICK g : IsLast(g, o)
        BY <3>4, LastExists
      <4>2. g \in DOMAIN heap /\ g \in Files /\ Position(g) <= Position(b) /\ g # b
        BY <1>1, <2>2, <2>4, <3>4, <4>1 DEF IsLast, Files
      <4>3. Position(g) \in Nat /\ Position(b) \in Nat
        BY <1>c, <1>1, <4>2, FilesBehind
      <4>4. Position(g) < Position(b)
        BY <1>1, <4>2, <4>3, PlacesDiffer
      <4>5. latest'[o] = fams[b].objs[o].val
        BY <1>b, <1>5, <2>4, <4>1, <4>4, CommittedNew
      <4> QED BY <1>1, <1>2, <3>1, <3>4, <4>5
    <3> QED BY <3>2, <3>3, <3>4
  <2> QED BY <2>1, <2>3, <2>4 DEF CommittedOk
<1> QED BY <1>4, <1>5

(***************************************************************************)
(* Unlinked files and restarts.                                            *)
(***************************************************************************)
RecoveryInv == PlacesInv /\ TableInv /\ CommitInv

(* When files leave the directory and the last file of each object stays,  *)
(* the last files are those of before.                                     *)
LEMMA LastKept ==
  ASSUME CoreInv, NEW o, DOMAIN heap' \subseteq DOMAIN heap,
         \A g \in DOMAIN heap' : heap'[g] = heap[g],
         \A g : IsLast(g, o) => g \in DOMAIN heap'
  PROVE  /\ \A f : IsLast(f, o)' => IsLast(f, o)
         /\ Unnamed(o)' => Unnamed(o)
<1>1. ASSUME ~ Unnamed(o) PROVE \E g : IsLast(g, o) /\ IsLast(g, o)'
  <2>1. PICK g : IsLast(g, o)
    BY <1>1, LastExists
  <2> QED BY <2>1 DEF IsLast, Position
<1>2. Unnamed(o)' => Unnamed(o)
  BY <1>1 DEF Unnamed, IsLast
<1>3. ASSUME NEW f, IsLast(f, o)' PROVE IsLast(f, o)
  <2>1. f \in DOMAIN heap /\ o \in heap[f].trailer
    BY <1>3 DEF IsLast
  <2>2. PICK g : IsLast(g, o) /\ IsLast(g, o)'
    BY <1>1, <2>1 DEF Unnamed
  <2>3. Position(f) <= Position(g) /\ Position(g) <= Position(f) /\ g \in DOMAIN heap
    BY <1>3, <2>1, <2>2 DEF IsLast, Position
  <2>4. f = g
    BY <2>1, <2>3, PlacesDiffer DEF Files
  <2> QED BY <2>2, <2>4
<1> QED BY <1>2, <1>3

(* A file that is unlinked is not open, so it is nobody's last file.       *)
LEMMA RecoveryUnlink ==
  ASSUME CoreInv, RecoveryInv, UNCHANGED <<location_table, fams, local, history>>,
         DOMAIN heap' \subseteq DOMAIN heap, \A g \in DOMAIN heap' : heap'[g] = heap[g],
         \A g \in DOMAIN fams \cap DOMAIN heap : g \in DOMAIN heap'
  PROVE  RecoveryInv'
<1>1. UNCHANGED <<pc, sweeping, gen, base, todo, failed, replaced, claims, latest>>
  BY DEF local, inner, maint, history
<1>2. Files' \subseteq Files
  BY DEF Files
<1>3. PlacesInv'
  <2> SUFFICES ASSUME NEW t \in Threads PROVE PlaceOk(t)'
    BY DEF PlacesInv
  <2>1. PlaceOk(t)
    BY DEF RecoveryInv, PlacesInv
  <2> QED BY <1>1, <1>2, <2>1 DEF PlaceOk, IsNew, Position, OwnedBy, At
<1>4. TableInv'
  <2> SUFFICES ASSUME NEW o \in ObjectIds, NEW g \in Files', Named(g, o)'
               PROVE  \E f \in DOMAIN fams' : /\ OwnedBy(f, o, location_table[o])'
                                              /\ Position(g) <= Position(f)
    BY DEF TableInv, Position
  <2>1. Named(g, o) /\ g \in Files
    BY <1>1, <1>2 DEF Named, Tried, Trailer
  <2>2. PICK f \in DOMAIN fams : OwnedBy(f, o, location_table[o]) /\ Position(g) <= Position(f)
    BY <2>1 DEF RecoveryInv, TableInv
  <2> QED BY <2>2 DEF OwnedBy, At
<1>5. ASSUME NEW o \in ObjectIds PROVE CommittedOk(o)'
  <2>1. CommittedOk(o)
    BY DEF RecoveryInv, CommitInv
  <2>2. \A g : IsLast(g, o) => g \in DOMAIN heap'
    BY <2>1 DEF CommittedOk, IsLast
  <2>3. /\ \A f : IsLast(f, o)' => IsLast(f, o)
        /\ Unnamed(o)' => Unnamed(o)
    BY <2>2, LastKept
  <2>4. \A f : Referred(o, At(f, o)) => Referred(o, At(f, o))'
    BY <1>1 DEF Referred, At
  <2> QED BY <1>1, <2>1, <2>3, <2>4 DEF CommittedOk
<1>6. SweepInv'
  BY <1>1 DEF RecoveryInv, CommitInv, SweepInv, Tried, Trailer, At, TableVersion
<1>7. RenamedInv'
  <2>1. \A t \in Threads : pc[t] = "evacuate" => base[t] \in DOMAIN fams
    BY DEF CoreInv, HoldersInv, Working
  <2> QED BY <1>1, <2>1 DEF RecoveryInv, CommitInv, RenamedInv, Trailer
<1> QED BY <1>3, <1>4, <1>5, <1>6, <1>7 DEF RecoveryInv, CommitInv

(* Closing the store unlinks no last file: the table leads to it, so that  *)
(* its count is not 0.                                                     *)
LEMMA LastSurvives ==
  ASSUME CoreInv, AccountsInv, KnownInv, TableInv, CrashRecover \/ CloseAndReopen,
         NEW o \in ObjectIds, NEW g, IsLast(g, o)
  PROVE  g \in DOMAIN heap'
<1>1. CASE CrashRecover
  BY <1>1 DEF CrashRecover, IsLast
<1>2. CASE CloseAndReopen
  <2>1. \A t \in Threads : pc[t] # "install"
    BY <1>2 DEF CloseAndReopen
  <2>2. g \in DOMAIN fams /\ OwnedBy(g, o, location_table[o])
    BY <2>1, IdleOwner
  <2>3. o \in Accounted(g)
    BY <2>2 DEF Accounted, OwnedBy
  <2>4. fams[g].live = Cardinality(Accounted(g))
    BY <2>2 DEF AccountsInv, CountsInv, LiveObjectsExact
  <2>5. IsFiniteSet(Accounted(g))
    BY <2>2, AccountedFinite
  <2>6. fams[g].live # 0
    BY <2>3, <2>4, <2>5, FS_EmptySet
  <2> QED BY <1>2, <2>2, <2>6 DEF CloseAndReopen
<1> QED BY <1>1, <1>2

(* Opening a directory establishes the invariant of recovery when its last *)
(* files hold the versions that count as committed: the table leads to     *)
(* those files.                                                            *)
LEMMA RecoveryRecover ==
  ASSUME NEW files, Directory(files), Recover(files), ResetThreads, heap' = files,
         \A o \in ObjectIds :
           /\ \A f : IsLast(f, o)' => heap'[f].objs[o].val = latest'[o]
           /\ Unnamed(o)' => latest'[o] = 0
  PROVE  RecoveryInv'
<1>1. /\ DOMAIN fams' = DOMAIN files /\ sweeping' = {}
      /\ \A f \in DOMAIN files : fams'[f].objs = files[f].objs
      /\ \A o \in ObjectIds : location_table'[o] = RecoveredLocation(files, o)
      /\ \A t \in Threads : pc'[t] = "idle" /\ replaced'[t] = {}
  BY DEF Recover, ResetThreads
<1>2. PlacesInv'
  BY <1>1 DEF PlacesInv, PlaceOk, Working
<1>3. TableInv'
  <2> SUFFICES ASSUME NEW o \in ObjectIds, NEW g \in Files', Named(g, o)'
               PROVE  \E f \in DOMAIN fams' : /\ OwnedBy(f, o, location_table[o])'
                                              /\ Position(g) <= Position(f)
    BY DEF TableInv, Position
  <2>1. g \in FilesWith(files, o)
    BY <1>1 DEF Named, Tried, FilesWith
  <2>2. PICK f : f = LastFileWith(files, o)
    OBVIOUS
  <2>3. /\ location_table'[o] = LocationIn(f, files[f].objs, o)
        /\ f \in DOMAIN files /\ o \in DOMAIN files[f].objs
        /\ Position(g) <= Position(f)
    BY <1>1, <2>1, <2>2, RecoveredOwner, LastFileFacts
  <2>4. OwnedBy(f, o, location_table[o])'
    BY <1>1, <2>3 DEF OwnedBy, At
  <2> QED BY <1>1, <2>3, <2>4
<1>4. ASSUME NEW o \in ObjectIds PROVE CommittedOk(o)'
  BY <1>1 DEF CommittedOk
<1>5. SweepInv' /\ RenamedInv'
  BY <1>1 DEF SweepInv, RenamedInv
<1> QED BY <1>2, <1>3, <1>4, <1>5 DEF RecoveryInv, CommitInv

(* After a restart the last files are those of before.                     *)
LEMMA RecoveryRestart ==
  ASSUME CoreInv, AccountsInv, KnownInv, RecoveryInv, CrashRecover \/ CloseAndReopen
  PROVE  RecoveryInv'
<1>1. PICK files : /\ Kept(files) /\ Recover(files) /\ ResetThreads /\ heap' = files
                   /\ UNCHANGED <<calls, order, latest>>
  BY RestartFacts DEF CoreInv
<1>2. Directory(files)
  BY <1>1, KeptDirectory DEF CoreInv
<1>3. ASSUME NEW o \in ObjectIds
      PROVE  /\ \A f : IsLast(f, o)' => heap'[f].objs[o].val = latest'[o]
             /\ Unnamed(o)' => latest'[o] = 0
  <2>1. CommittedOk(o) /\ TableInv
    BY DEF RecoveryInv, CommitInv
  <2>2. \A g : IsLast(g, o) => g \in DOMAIN heap'
    BY <2>1, LastSurvives
  <2>3. DOMAIN heap' \subseteq DOMAIN heap /\ \A g \in DOMAIN heap' : heap'[g] = heap[g]
    BY <1>1 DEF Kept
  <2>4. /\ \A f : IsLast(f, o)' => IsLast(f, o)
        /\ Unnamed(o)' => Unnamed(o)
    BY <2>2, <2>3, LastKept
  <2> QED BY <1>1, <2>1, <2>3, <2>4 DEF CommittedOk, IsLast
<1> QED BY <1>1, <1>2, <1>3, RecoveryRecover

(***************************************************************************)
(* The induction.                                                          *)
(***************************************************************************)
(* An empty store has nothing to recover.                                  *)
LEMMA RecoveryInit == Init => RecoveryInv
<1> SUFFICES ASSUME Init PROVE RecoveryInv
  OBVIOUS
<1>1. /\ sweeping = {} /\ DOMAIN heap = {} /\ \A o \in ObjectIds : latest[o] = 0
      /\ \A t \in Threads : pc[t] = "idle" /\ replaced[t] = {}
  BY DEF Init
<1>2. PlacesInv
  BY <1>1 DEF PlacesInv, PlaceOk, Working
<1>3. TableInv
  BY <1>1 DEF TableInv, Named, Tried
<1>4. CommitInv
  BY <1>1 DEF CommitInv, CommittedOk, SweepInv, RenamedInv
<1> QED BY <1>2, <1>3, <1>4 DEF RecoveryInv

(* Every step preserves the invariant of recovery.                         *)
LEMMA RecoveryNext ==
  ASSUME CallersExclude, CoreInv, CoreInv', AccountsInv, AccountsInv', BatchesInv,
         KnownInv, KnownInv', OrderInv, RecoveryInv, [Next]_vars
  PROVE  RecoveryInv'
<1>0. PlacesInv /\ TableInv /\ CommitInv /\ RenamedInv
  BY DEF RecoveryInv, CommitInv
<1>1. ASSUME NEW t \in Threads, WriteBatch(t) \/ StartMaintenance(t) \/ Step(t)
      PROVE  RecoveryInv'
  <2>1. PlacesInv'
    BY <1>0, <1>1, PlacesStep
  <2>2. TableInv'
    BY <1>0, <1>1, TableStep
  <2>3. SweepInv'
    BY <1>0, <1>1, SweepStep
  <2>4. RenamedInv'
    BY <1>0, <1>1, RenamedStep
  <2>5. ASSUME NEW o \in ObjectIds PROVE CommittedOk(o)'
    BY <1>0, <1>1, CommittedQuiet, CommittedRename
  <2> QED BY <2>1, <2>2, <2>3, <2>4, <2>5 DEF RecoveryInv, CommitInv
<1>2. ASSUME NEW f \in DOMAIN heap, Unlink(f) PROVE RecoveryInv'
  <2>1. UNCHANGED <<location_table, fams, local, history>>
    BY <1>2 DEF Unlink
  <2>2. /\ DOMAIN heap' \subseteq DOMAIN heap /\ \A g \in DOMAIN heap' : heap'[g] = heap[g]
        /\ \A g \in DOMAIN fams \cap DOMAIN heap : g \in DOMAIN heap'
    BY <1>2 DEF Unlink
  <2> QED BY <2>1, <2>2, RecoveryUnlink
<1>3. CASE UNCHANGED vars
  <2>1. UNCHANGED <<location_table, fams, local, history, heap>>
    BY <1>3 DEF vars, shared
  <2> QED BY <2>1, RecoveryUnlink
<1>4. CASE CrashRecover \/ CloseAndReopen
  BY <1>4, RecoveryRestart
<1> QED BY <1>1, <1>2, <1>3, <1>4 DEF Next

(* Where the callers keep write_batch and maintenance apart, in every      *)
(* reachable state the table leads to the file with the highest place      *)
(* among those that name an object, and the last renamed file that names   *)
(* it holds the version that was committed last.                           *)
THEOREM RecoveryInduction == ASSUME CallersExclude PROVE Spec => []RecoveryInv
<1>1. /\ CoreInv /\ CoreInv' /\ AccountsInv /\ AccountsInv' /\ BatchesInv
      /\ KnownInv /\ KnownInv' /\ OrderInv /\ RecoveryInv /\ [Next]_vars
      => RecoveryInv'
  BY RecoveryNext
<1> QED BY <1>1, RecoveryInit, CoreInduction, AccountsInduction, BatchesInduction,
           KnownInduction, OrderInduction, PTL DEF Spec

(* "Upon crash, batches are recovered atomically": whenever the process    *)
(* dies, recovery restores for every object the last version, in LSN       *)
(* order, of the batches whose file was renamed, however the files were    *)
(* rewritten, pruned and unlinked before.                                  *)
THEOREM CommittedAlwaysRecovered ==
  ASSUME CallersExclude PROVE Spec => []RecoversCommitted
<1>1. CoreInv /\ RecoveryInv => RecoversCommitted
  BY CommitRecovers DEF RecoveryInv
<1> QED BY <1>1, CoreInduction, RecoveryInduction, PTL

(* Once every call has returned, what reads see is what a restart would    *)
(* bring back.                                                             *)
THEOREM QuiescentAlwaysAgrees ==
  ASSUME CallersExclude PROVE Spec => []QuiescentAgreement
<1>1. CoreInv /\ AccountsInv /\ KnownInv /\ RecoveryInv => QuiescentAgreement
  BY IdleAgreement DEF RecoveryInv
<1> QED BY <1>1, CoreInduction, AccountsInduction, KnownInduction, RecoveryInduction, PTL

(***************************************************************************)
(* Versions never go back.                                                 *)
(***************************************************************************)
(* The version the table has of an object is one of its file's, or none.   *)
LEMMA VersionPlace ==
  ASSUME CoreInv, AccountsInv, OrderInv, NEW o \in ObjectIds
  PROVE  /\ TableVersion(o) \in 0 .. MaxCalls /\ order[TableVersion(o)] \in Nat
         /\ TableVersion(o) # 0 =>
              \E f \in DOMAIN fams : /\ OwnedBy(f, o, location_table[o])
                                     /\ o \in DOMAIN ObjsOf(f) /\ f \in Files
                                     /\ TableVersion(o) = ObjsOf(f)[o].val
                                     /\ order[TableVersion(o)] <= Position(f)
         /\ location_table[o] = Null => TableVersion(o) = 0
<1>c. /\ calls \in 0 .. MaxCalls /\ order \in [0 .. MaxCalls -> Nat] /\ MaxCalls \in Nat
  BY BoundsAssumption DEF CoreInv, TypeOK
<1>1. location_table[o] = Null => TableVersion(o) = 0
  BY DEF TableVersion
<1>2. ASSUME location_table[o] # Null
      PROVE  \E f \in DOMAIN fams : /\ OwnedBy(f, o, location_table[o])
                                    /\ o \in DOMAIN ObjsOf(f) /\ f \in Files
                                    /\ TableVersion(o) = ObjsOf(f)[o].val
                                    /\ order[TableVersion(o)] <= Position(f)
                                    /\ TableVersion(o) \in 1 .. calls
  <2>1. PICK f \in DOMAIN fams : OwnedBy(f, o, location_table[o])
    BY <1>2 DEF AccountsInv, LocationsInv, Backed
  <2>2. TableVersion(o) = fams[f].objs[o].val
    BY <2>1, CoreVersions DEF VersionsRead
  <2>3. o \in DOMAIN ObjsOf(f) /\ f \in Files /\ TableVersion(o) = ObjsOf(f)[o].val
    BY <2>1, <2>2 DEF OwnedBy, ObjsOf, Files
  <2>4. Ordered(f)
    BY <2>3 DEF OrderInv
  <2> QED BY <2>1, <2>3, <2>4 DEF Ordered
<1>3. TableVersion(o) \in 0 .. MaxCalls
  BY <1>c, <1>1, <1>2
<1> QED BY <1>c, <1>1, <1>2, <1>3

(* A version keeps its place when other batches are written.               *)
LEMMA PlaceStays ==
  ASSUME CoreInv, AccountsInv, BatchesInv, OrderInv, NEW t \in Threads,
         WriteBatch(t) \/ StartMaintenance(t) \/ Step(t), NEW o \in ObjectIds
  PROVE  order'[TableVersion(o)] = order[TableVersion(o)]
<1>1. CASE ~ InsertPart(t)
  BY <1>1, HistoryStays
<1>2. CASE InsertPart(t)
  <2>c. TypeOK /\ rest[t] \subseteq DOMAIN batch[t]
    BY DEF CoreInv, TypeOK
  <2>1. PICK c \in 0 .. MaxCalls : c = TableVersion(o)
    BY VersionPlace
  <2>2. /\ order'[c] = IF gen[t] = 0 /\ \E p \in rest[t] : batch[t][p].val = c
                       THEN next_file_lsn ELSE order[c]
        /\ pc[t] = "insert"
    BY <1>2, <2>c, InsertOrder
  <2>3. ASSUME gen[t] = 0, NEW p \in rest[t] PROVE batch[t][p].val # c
    <3>1. t \notin sweeping
      BY <2>2, <2>3 DEF BatchesInv, CallInv, CallOk, Writing
    <3>2. OwnVersions(t) /\ batch[t][p].val \in 1 .. calls
      BY <2>c, <2>2, <3>1 DEF OrderInv
    <3>3. Unwritten(batch[t][p].val) /\ batch[t][p].val # 0
      BY <2>c, <3>2 DEF OwnVersions
    <3> QED BY <2>1, <3>3, VersionPlace DEF Unwritten
  <2> QED BY <2>1, <2>2, <2>3
<1> QED BY <1>1, <1>2

(* fetch_max of a new batch takes a location only from an earlier version. *)
LEMMA VersionAdvances ==
  ASSUME CoreInv, CoreInv', AccountsInv, BatchesInv, OrderInv, OrderInv', PlacesInv,
         NEW t \in Threads, t \notin sweeping, NEW o \in ObjectIds, Install(t, o),
         location_table'[o] # location_table[o]
  PROVE  order[TableVersion(o)] <= order'[TableVersion(o)']
<1>c. TypeOK /\ FilesInv /\ HoldersInv
  BY DEF CoreInv
<1>b. PICK b : b = base[t]
  OBVIOUS
<1>1. /\ fams' = fams /\ heap' = heap /\ base' = base /\ order' = order
      /\ pc[t] = "install" /\ b \in DOMAIN fams
  BY <1>b, InstallFacts DEF Install, history
<1>2. OwnedBy(b, o, At(b, o)) /\ location_table'[o] = At(b, o)
  BY <1>b, InstallFacts
<1>3. OwnedBy(b, o, location_table[o])'
  BY <1>1, <1>2 DEF OwnedBy, At
<1>4. TableVersion(o)' = fams[b].objs[o].val
  BY <1>1, <1>3, CoreVersionsNext DEF VersionsRead
<1>5. order'[TableVersion(o)'] = Position(b)
  <2>1. IsNew(b)
    BY <1>b, <1>1 DEF PlacesInv, PlaceOk, Working
  <2>2. b \in Files /\ o \in DOMAIN ObjsOf(b) /\ ObjsOf(b)[o].val = TableVersion(o)'
    BY <1>1, <1>2, <1>4 DEF OwnedBy, ObjsOf, Files
  <2> QED BY <1>1, <2>1, <2>2 DEF OrderInv, Ordered
<1>6. Position(b) \in Nat
  BY <1>c, <1>1, FilesBehind DEF Files
<1>7. CASE TableVersion(o) = 0
  BY <1>5, <1>6, <1>7 DEF OrderInv
<1>8. CASE TableVersion(o) # 0
  <2>1. PICK f \in DOMAIN fams : /\ OwnedBy(f, o, location_table[o])
                                 /\ order[TableVersion(o)] <= Position(f)
    BY <1>8, VersionPlace
  <2>2. Position(f) < Position(b) /\ Position(f) \in Nat
    BY <1>b, <2>1, InstallPlaces
  <2> QED BY <1>5, <1>6, <2>1, <2>2, VersionPlace
<1> QED BY <1>7, <1>8

(* No step of the running process takes an object back to an earlier       *)
(* version.                                                                *)
LEMMA VersionsNext ==
  ASSUME CoreInv, CoreInv', AccountsInv, AccountsInv', BatchesInv, OrderInv, OrderInv',
         RecoveryInv, [Next]_vars, crashes' = crashes, NEW o \in ObjectIds
  PROVE  order[TableVersion(o)] <= order'[TableVersion(o)']
<1>0. order[TableVersion(o)] \in Nat
  BY VersionPlace
<1>1. ASSUME NEW t \in Threads, WriteBatch(t) \/ StartMaintenance(t) \/ Step(t)
      PROVE  order[TableVersion(o)] <= order'[TableVersion(o)']
  <2>1. ASSUME TableVersion(o)' = TableVersion(o)
        PROVE  order[TableVersion(o)] <= order'[TableVersion(o)']
    BY <1>0, <1>1, <2>1, PlaceStays
  <2>2. CASE location_table'[o] = location_table[o]
    BY <1>1, <2>1, <2>2, VersionStays
  <2>3. CASE location_table'[o] # location_table[o]
    <3>1. PICK p \in ObjectIds : Install(t, p)
      BY <1>1, <2>3, TableStays
    <3>2. p = o
      BY <2>3, <3>1, InstallFacts
    <3>3. CASE t \in sweeping
      BY <2>1, <3>1, <3>3, MaintenanceStep DEF Step
    <3>4. CASE t \notin sweeping
      BY <2>3, <3>1, <3>2, <3>4, VersionAdvances DEF RecoveryInv
    <3> QED BY <3>3, <3>4
  <2> QED BY <2>2, <2>3
<1>2. ASSUME UNCHANGED <<location_table, fams, order>>
      PROVE  order[TableVersion(o)] <= order'[TableVersion(o)']
  <2>1. TableVersion(o)' = TableVersion(o)
    BY <1>2 DEF TableVersion
  <2> QED BY <1>0, <1>2, <2>1
<1>3. ASSUME NEW f \in DOMAIN heap, Unlink(f) PROVE UNCHANGED <<location_table, fams, order>>
  BY <1>3 DEF Unlink, history
<1>4. CASE UNCHANGED vars
  BY <1>2, <1>4 DEF vars, shared, history
<1>5. ~ CrashRecover /\ ~ CloseAndReopen
  BY BoundsAssumption DEF CrashRecover, CloseAndReopen, CoreInv, TypeOK
<1> QED BY <1>1, <1>2, <1>3, <1>4, <1>5 DEF Next

(* While the process runs, the version of an object never goes back in LSN *)
(* order: fetch_max lets later batches win although maintenance stores     *)
(* lower locations, and maintenance keeps the version.                     *)
THEOREM VersionsAlwaysAdvance == ASSUME CallersExclude PROVE Spec => VersionsAdvance
<1>1. /\ CoreInv /\ CoreInv' /\ AccountsInv /\ AccountsInv' /\ BatchesInv
      /\ OrderInv /\ OrderInv' /\ RecoveryInv /\ [Next]_vars
      => [crashes' = crashes =>
            \A o \in ObjectIds : order[TableVersion(o)] <= order'[TableVersion(o)']]_vars
  BY VersionsNext
<1> QED BY <1>1, CoreInduction, AccountsInduction, BatchesInduction, OrderInduction,
           RecoveryInduction, PTL DEF Spec, VersionsAdvance
=============================================================================
