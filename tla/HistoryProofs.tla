--------------------------- MODULE HistoryProofs ---------------------------
(***************************************************************************)
(* Proofs about the self-check of Marble: HistoryUnique and VerifyPasses,  *)
(* for every set of threads, every finite set of object ids, every         *)
(* configuration and every value of the bounds, with calls that overlap.   *)
(*                                                                         *)
(* The history never repeats because LSN ranges do not: what was marked    *)
(* lies below next_file_lsn, and a location still to be tried was never    *)
(* marked (MarksInv).  A rewritten file is left by everything because each *)
(* location into it is either replaced by the exchange of the maintenance  *)
(* that read it, or was replaced before that (RewrittenInv).               *)
(***************************************************************************)
EXTENDS MarbleHistory, MarbleVersions

USE DEF Null

(***************************************************************************)
(* Marble beside its history.                                              *)
(***************************************************************************)
(* A step with the history is a step of Marble or changes nothing of it.   *)
LEMMA HistoryStutters ==
  ASSUME [HistoryNext]_<<vars, debugVars>>
  PROVE  [Next]_vars
<1>1. CASE \E t \in Threads : WriteBatch(t) \/ StartMaintenance(t) \/ Step(t)
  BY <1>1 DEF Next
<1>2. CASE \E f \in DOMAIN heap : Unlink(f)
  BY <1>2 DEF Next
<1>3. CASE CrashRecover \/ CloseAndReopen
  BY <1>3 DEF Next
<1> QED BY <1>1, <1>2, <1>3 DEF HistoryNext

(* Marble with the self-check is Marble: the history and the search of the *)
(* table decide nothing.                                                   *)
LEMMA HistoryLeavesNoTrace == HistorySpec => Spec
<1>1. HistoryInit => Init
  BY DEF HistoryInit
<1>2. [HistoryNext]_<<vars, debugVars>> => [Next]_vars
  BY HistoryStutters
<1> QED BY <1>1, <1>2, PTL DEF HistorySpec, Spec

(***************************************************************************)
(* The marks.                                                              *)
(***************************************************************************)
(* What was marked lies in a range that is taken, what the table holds is  *)
(* added and not removed, and what is still to be tried was never marked.  *)
MarksInv ==
  /\ \A o, l : <<o, l>> \in adds \cup removes =>
       l \in Nat /\ MaskLsn(LsnOf(l)) < next_file_lsn
  /\ \A o \in ObjectIds : location_table[o] # Null =>
       <<o, location_table[o]>> \in adds \ removes
  /\ \A t \in Threads : \A o \in todo[t] :
       <<o, At(base[t], o)>> \notin adds \cup removes

(* What a step that installs the location of an object does.               *)
Installs(t, o) ==
  /\ Install(t, o) /\ location_table'[o] = At(base[t], o)
  /\ \A p \in ObjectIds : p # o => location_table'[p] = location_table[p]
  /\ \A p \in ObjectIds : Installed(t, p) <=> p = o
  /\ OldLocations(t, o) = {<<o, l>> : l \in {location_table[o]} \ {Null}}

(* Thread t marks nothing in a step that leaves the location table alone,  *)
(* and one pair of locations in a step that installs one.                  *)
LEMMA InstalledFacts ==
  ASSUME CoreInv, AccountsInv, BatchesInv, NEW t \in Threads,
         WriteBatch(t) \/ StartMaintenance(t) \/ Step(t)
  PROVE  \/ /\ \A o \in ObjectIds : ~ Installed(t, o)
            /\ location_table' = location_table
         \/ \E o \in ObjectIds : Installs(t, o)
<1>t. /\ DOMAIN todo = Threads /\ DOMAIN pc = Threads /\ DOMAIN failed = Threads
      /\ location_table \in [ObjectIds -> Nat] /\ todo[t] \subseteq ObjectIds
  BY DEF CoreInv, TypeOK
<1>1. ASSUME NEW o \in ObjectIds, Install(t, o)
      PROVE  /\ \A p \in ObjectIds : Installing(t, p) <=> p = o
             /\ failed'[t] \in {failed[t], failed[t] \cup {o}}
             /\ o \notin failed[t] /\ DOMAIN location_table' = ObjectIds
             /\ pc' = pc /\ pc[t] = "install" /\ o \in todo[t]
  <2>1. /\ pc[t] = "install" /\ pc' = pc /\ o \in todo[t] /\ todo'[t] = todo[t] \ {o}
        /\ failed'[t] \in {failed[t], failed[t] \cup {o}}
    BY <1>t, <1>1 DEF Install
  <2>2. o \notin failed[t]
    BY <2>1 DEF AccountsInv, WorkInv
  <2>3. \A p \in ObjectIds : Installing(t, p) <=> p = o
    BY <2>1 DEF Installing
  <2>4. DOMAIN location_table' = ObjectIds
    BY <1>t, <1>1 DEF Install, Cas, FetchMax
  <2> QED BY <2>1, <2>2, <2>3, <2>4
<1>2. CASE \E o \in ObjectIds : Install(t, o)
  <2>1. PICK o \in ObjectIds : Install(t, o)
    BY <1>2
  <2>2. /\ \A p \in ObjectIds : p # o => location_table'[p] = location_table[p]
        /\ \/ location_table'[o] = location_table[o] /\ failed' # failed
           \/ location_table'[o] = At(base[t], o) /\ failed' = failed
    BY <2>1, InstallFacts
  <2>3. CASE failed' # failed
    <3>1. failed'[t] = failed[t] \cup {o}
      BY <1>t, <2>1, <2>3 DEF Install
    <3>2. \A p \in ObjectIds : ~ Installed(t, p)
      BY <1>1, <2>1, <3>1 DEF Installed
    <3>3. location_table' = location_table
      BY <2>1, <2>3 DEF Install, Cas, FetchMax
    <3> QED BY <3>2, <3>3
  <2>4. CASE failed' = failed
    <3>1. location_table'[o] = At(base[t], o)
      BY <2>2, <2>4
    <3>2. \A p \in ObjectIds : Installed(t, p) <=> p = o
      BY <1>1, <2>1, <2>4 DEF Installed
    <3>3. gen[t] # 0 => location_table[o] = batch[t][o].old
      <4>1. failed[t] # failed[t] \cup {o}
        BY <1>1, <2>1
      <4> QED BY <1>t, <2>1, <2>4, <4>1 DEF Install, CasSucceeds
    <3>4. OldLocations(t, o) = {<<o, l>> : l \in {location_table[o]} \ {Null}}
      BY <3>3 DEF OldLocations
    <3> QED BY <2>1, <2>2, <3>1, <3>2, <3>4 DEF Installs
  <2> QED BY <2>3, <2>4
<1>3. CASE \A o \in ObjectIds : ~ Install(t, o)
  <2>1. location_table' = location_table
    BY <1>3, TableStays
  <2>2. ASSUME NEW o \in ObjectIds, Installed(t, o) PROVE FALSE
    <3>1. /\ pc[t] = "install" /\ pc'[t] = "install" /\ o \in todo[t]
          /\ todo'[t] = todo[t] \ {o}
      BY <2>2 DEF Installed, Installing
    <3>2. InsertPart(t)
      BY <1>3, <3>1, InstallOnly DEF CoreInv
    <3> QED BY <3>1, <3>2 DEF InsertPart
  <2> QED BY <2>1, <2>2
<1> QED BY <1>2, <1>3

(* An object that another thread still has to try has another location     *)
(* than the one being installed and the one being replaced.                *)
LEMMA TodoApart ==
  ASSUME CoreInv, AccountsInv, NEW t \in Threads, NEW o \in todo[t],
         NEW u \in Threads, NEW p \in todo[u], u # t \/ p # o
  PROVE  /\ <<p, At(base[u], p)>> # <<o, At(base[t], o)>>
         /\ \A q \in ObjectIds : <<p, At(base[u], p)>> # <<q, location_table[q]>>
<1>1. pc[t] = "install" /\ pc[u] = "install"
  BY DEF AccountsInv, WorkInv
<1>2. /\ base[t] # 0 /\ base[u] # 0 /\ base[t] \in DOMAIN fams /\ base[u] \in DOMAIN fams
      /\ o \in DOMAIN fams[base[t]].objs /\ p \in DOMAIN fams[base[u]].objs
  BY <1>1 DEF CoreInv, HoldersInv, Working
<1>3. u # t => base[u] # base[t]
  BY <1>2 DEF CoreInv, HoldersInv
<1>4. ASSUME p = o, At(base[u], p) = At(base[t], o) PROVE FALSE
  <2>1. OwnedBy(base[t], o, At(base[t], o)) /\ OwnedBy(base[u], o, At(base[t], o))
    BY <1>2, <1>4 DEF OwnedBy
  <2> QED BY <1>3, <1>4, <2>1, OwnerUnique DEF CoreInv
<1>5. ~ Referred(p, At(base[u], p))
  BY DEF AccountsInv, LocationsInv, Pending
<1> QED BY <1>4, <1>5 DEF Referred

(* A file that is being installed has its location of every object still   *)
(* to be tried, before and after a step that leaves it to be tried.        *)
LEMMA TodoStays ==
  ASSUME CoreInv, CoreInv', AccountsInv, AccountsInv', NEW t \in Threads,
         WriteBatch(t) \/ StartMaintenance(t) \/ Step(t), ~ InsertPart(t),
         NEW u \in Threads, NEW p \in todo'[u]
  PROVE  p \in todo[u] /\ At(base[u], p)' = At(base[u], p)
<1>t. DOMAIN todo = Threads
  BY DEF CoreInv, TypeOK
<1>1. pc'[u] = "install"
  BY DEF AccountsInv, WorkInv
<1>2. /\ p \in todo[u] /\ base'[u] = base[u] /\ pc[u] = "install"
      /\ u = t => ~ Abandon(t) /\ ~ Remove(t)
  <2>1. CASE u # t
    BY <1>1, <2>1, ThreadsApart DEF CoreInv, OthersStay
  <2>2. CASE u = t
    <3>1. PICK o \in ObjectIds : Install(t, o)
      BY <1>1, <2>2, InstallOnly DEF CoreInv
    <3>2. /\ pc[t] = "install" /\ base' = base /\ todo'[t] = todo[t] \ {o} /\ todo[t] # {}
      BY <1>t, <3>1 DEF Install
    <3> QED BY <2>2, <3>2 DEF Abandon, Remove
  <2> QED BY <2>1, <2>2
<1>3. base[u] \in DOMAIN fams
  BY <1>2 DEF CoreInv, HoldersInv, Working
<1>4. StaysOpen(base[u])
  BY <1>2, <1>3, HeldStay
<1> QED BY <1>2, <1>4 DEF StaysOpen, At

(* A step of a thread and its marks preserve the invariant of the marks.   *)
LEMMA MarksThread ==
  ASSUME CoreInv, CoreInv', AccountsInv, AccountsInv', BatchesInv, MarksInv,
         NEW t \in Threads, WriteBatch(t) \/ StartMaintenance(t) \/ Step(t),
         MarkInstalled(t)
  PROVE  MarksInv'
<1>t. /\ next_file_lsn \in Nat /\ next_file_lsn' \in Nat /\ next_file_lsn <= next_file_lsn'
      /\ DOMAIN todo = Threads /\ DOMAIN base = Threads
  BY LsnGrows DEF CoreInv, TypeOK, FileMapTypeOK
<1>m. ASSUME NEW o, NEW l, <<o, l>> \in adds \cup removes
      PROVE  l \in Nat /\ MaskLsn(LsnOf(l)) < next_file_lsn /\ MaskLsn(LsnOf(l)) \in Int
  BY <1>m, BitAssumption DEF MarksInv, MaskLsn, LsnOf
<1>1. CASE /\ \A o \in ObjectIds : ~ Installed(t, o)
           /\ location_table' = location_table
  <2>1. adds' = adds /\ removes' = removes
    BY <1>1 DEF MarkInstalled
  <2>2. ASSUME NEW o, NEW l, <<o, l>> \in adds' \cup removes'
        PROVE  l \in Nat /\ MaskLsn(LsnOf(l)) < next_file_lsn'
    BY <1>t, <1>m, <2>1, <2>2
  <2>3. ASSUME NEW u \in Threads, NEW p \in todo'[u]
        PROVE  <<p, At(base[u], p)'>> \notin adds' \cup removes'
    <3>1. CASE ~ InsertPart(t)
      BY <2>1, <2>3, <3>1, TodoStays DEF MarksInv
    <3>2. CASE InsertPart(t) /\ u = t
      <4>1. pc'[t] = "install" /\ p \in DOMAIN fams'[base'[t]].objs /\ base'[t] \in DOMAIN fams'
        BY <2>3, <3>2 DEF CoreInv, HoldersInv, AccountsInv, WorkInv, Working
      <4>2. OwnedBy(base[t], p, At(base[t], p))'
        BY <4>1 DEF OwnedBy
      <4>3. At(base[t], p)' \in Nat /\ Position(base[t])' <= MaskLsn(LsnOf(At(base[t], p)))'
        BY <4>2, CoreBelowNext DEF FilesBelow
      <4>4. Position(base'[t]) = next_file_lsn
        BY <3>2, LsnGrows
      <4> QED BY <1>t, <1>m, <2>1, <3>2, <4>3, <4>4 DEF Position
    <3>3. CASE InsertPart(t) /\ u # t
      <4>1. todo'[u] = todo[u] /\ base'[u] = base[u]
        BY <3>3, ThreadsApart DEF CoreInv, OthersStay
      <4>2. base[u] \in DOMAIN fams
        BY <2>3, <4>1 DEF CoreInv, HoldersInv, AccountsInv, WorkInv, Working
      <4>3. StaysOpen(base[u])
        BY <3>3, <4>2, HeldStay
      <4>4. At(base[u], p)' = At(base[u], p)
        BY <4>1, <4>3 DEF StaysOpen, At
      <4> QED BY <2>1, <2>3, <4>1, <4>4 DEF MarksInv
    <3> QED BY <3>1, <3>2, <3>3
  <2>4. \A o \in ObjectIds : location_table'[o] # Null =>
          <<o, location_table'[o]>> \in adds' \ removes'
    BY <1>1, <2>1 DEF MarksInv
  <2> QED BY <2>2, <2>3, <2>4 DEF MarksInv
<1>2. CASE \E o \in ObjectIds : Installs(t, o)
  <2>1. PICK o \in ObjectIds : Installs(t, o)
    BY <1>2
  <2>2. PICK l : l = At(base[t], o)
    OBVIOUS
  <2>3. /\ Install(t, o) /\ location_table'[o] = l
        /\ \A p \in ObjectIds : p # o => location_table'[p] = location_table[p]
        /\ {p \in ObjectIds : Installed(t, p)} = {o}
        /\ OldLocations(t, o) = {<<o, k>> : k \in {location_table[o]} \ {Null}}
    BY <2>1, <2>2 DEF Installs
  <2>4. adds' = adds \cup {<<o, l>>}
    BY <2>2, <2>3 DEF MarkInstalled, NewLocation, At
  <2>5. removes' = removes \cup {<<o, k>> : k \in {location_table[o]} \ {Null}}
    BY <2>3 DEF MarkInstalled
  <2>6. o \in todo[t] /\ todo'[t] = todo[t] \ {o} /\ ~ InsertPart(t) /\ pc[t] = "install"
    BY <1>t, <2>3 DEF Install, InsertPart
  <2>7. OwnedBy(base[t], o, l)
    BY <2>2, <2>3, InstallFacts
  <2>8. l \in Nat /\ MaskLsn(LsnOf(l)) < next_file_lsn
    BY <2>7, OwnedLsn
  <2>9. location_table[o] # l
    BY <2>2, <2>6 DEF AccountsInv, LocationsInv, Pending, Referred
  <2>10. <<o, l>> \notin adds \cup removes
    BY <2>2, <2>6 DEF MarksInv
  <2>11. location_table[o] # Null => <<o, location_table[o]>> \in adds \ removes
    BY DEF MarksInv
  <2>12. ASSUME NEW p, NEW k, <<p, k>> \in adds' \cup removes'
         PROVE  k \in Nat /\ MaskLsn(LsnOf(k)) < next_file_lsn'
    <3>1. CASE <<p, k>> \in adds \cup removes
      BY <1>t, <1>m, <3>1
    <3>2. CASE <<p, k>> = <<o, l>>
      <4>1. k = l /\ MaskLsn(LsnOf(l)) \in Int
        BY <2>8, <3>2, BitAssumption DEF MaskLsn, LsnOf
      <4> QED BY <1>t, <2>8, <4>1
    <3>3. CASE <<p, k>> \in {<<o, j>> : j \in {location_table[o]} \ {Null}}
      BY <1>t, <1>m, <2>11, <3>3
    <3> QED BY <2>4, <2>5, <2>12, <3>1, <3>2, <3>3
  <2>13. ASSUME NEW p \in ObjectIds, location_table'[p] # Null
         PROVE  <<p, location_table'[p]>> \in adds' \ removes'
    <3>1. CASE p = o
      BY <2>3, <2>4, <2>5, <2>9, <2>10, <3>1
    <3>2. CASE p # o
      <4>1. <<p, location_table[p]>> \in adds \ removes /\ location_table'[p] = location_table[p]
        BY <2>3, <2>13, <3>2 DEF MarksInv
      <4> QED BY <2>4, <2>5, <3>2, <4>1
    <3> QED BY <3>1, <3>2
  <2>14. ASSUME NEW u \in Threads, NEW p \in todo'[u]
         PROVE  <<p, At(base[u], p)'>> \notin adds' \cup removes'
    <3>1. p \in todo[u] /\ At(base[u], p)' = At(base[u], p)
      BY <2>6, <2>14, TodoStays
    <3>2. u # t \/ p # o
      BY <2>6, <2>14
    <3>3. /\ <<p, At(base[u], p)>> # <<o, l>>
          /\ <<p, At(base[u], p)>> # <<o, location_table[o]>>
      BY <2>2, <2>6, <3>1, <3>2, TodoApart
    <3>4. <<p, At(base[u], p)>> \notin adds \cup removes
      BY <3>1 DEF MarksInv
    <3> QED BY <2>4, <2>5, <3>1, <3>3, <3>4
  <2> QED BY <2>12, <2>13, <2>14 DEF MarksInv
<1> QED BY <1>1, <1>2, InstalledFacts

(* Recovery starts the history anew, from the table it has built.          *)
LEMMA MarksRestart ==
  ASSUME CoreInv', AccountsInv', CrashRecover \/ CloseAndReopen,
         adds' = {<<o, location_table'[o]>> :
                    o \in {p \in ObjectIds : location_table'[p] # Null}},
         removes' = {}
  PROVE  MarksInv'
<1>1. ASSUME NEW o, NEW l, <<o, l>> \in adds' \cup removes'
      PROVE  l \in Nat /\ MaskLsn(LsnOf(l)) < next_file_lsn'
  <2>1. o \in ObjectIds /\ l = location_table'[o] /\ l # Null
    BY <1>1
  <2>2. Backed(o, location_table[o])'
    BY <2>1 DEF AccountsInv, LocationsInv
  <2>3. PICK f : OwnedBy(f, o, location_table[o])'
    BY <2>2 DEF Backed
  <2> QED BY <2>1, <2>3, CoreBelowNext DEF FilesBelow
<1>2. \A o \in ObjectIds : location_table'[o] # Null =>
        <<o, location_table'[o]>> \in adds' \ removes'
  OBVIOUS
<1>3. \A t \in Threads : todo'[t] = {}
  BY DEF CrashRecover, CloseAndReopen, ResetThreads
<1> QED BY <1>1, <1>2, <1>3 DEF MarksInv

(* Every step preserves the invariant of the marks.                        *)
LEMMA MarksNext ==
  ASSUME CoreInv, CoreInv', AccountsInv, AccountsInv', BatchesInv, MarksInv,
         [HistoryNext]_<<vars, debugVars>>
  PROVE  MarksInv'
<1>1. CASE \E t \in Threads : /\ WriteBatch(t) \/ StartMaintenance(t) \/ Step(t)
                              /\ MarkInstalled(t)
  BY <1>1, MarksThread
<1>2. CASE /\ CrashRecover \/ CloseAndReopen
           /\ adds' = {<<o, location_table'[o]>> :
                         o \in {p \in ObjectIds : location_table'[p] # Null}}
           /\ removes' = {}
  BY <1>2, MarksRestart
<1>3. CASE (\E f \in DOMAIN heap : Unlink(f)) /\ UNCHANGED debugVars
  <2>1. UNCHANGED <<location_table, fams, next_file_lsn, base, todo, adds, removes>>
    BY <1>3 DEF Unlink, local, inner, debugVars
  <2> QED BY <2>1 DEF MarksInv, At
<1>4. CASE UNCHANGED <<vars, debugVars>>
  <2>1. UNCHANGED <<location_table, fams, next_file_lsn, base, todo, adds, removes>>
    BY <1>4 DEF vars, shared, local, inner, debugVars
  <2> QED BY <2>1 DEF MarksInv, At
<1> QED BY <1>1, <1>2, <1>3, <1>4 DEF HistoryNext

(* In every reachable state what is marked lies behind the LSN counter,    *)
(* and the table holds what was added and not removed.                     *)
THEOREM MarksInduction == HistorySpec => []MarksInv
<1>1. HistoryInit => MarksInv
  BY DEF HistoryInit, Init, EmptyTable, MarksInv
<1>2. /\ CoreInv /\ CoreInv' /\ AccountsInv /\ AccountsInv' /\ BatchesInv /\ MarksInv
      /\ [HistoryNext]_<<vars, debugVars>>
      => MarksInv'
  BY MarksNext
<1> QED BY <1>1, <1>2, HistoryLeavesNoTrace, CoreInduction, AccountsInduction,
           BatchesInduction, PTL DEF HistorySpec

(* A thread installs nothing in the step of another, in a restart or when  *)
(* a file is unlinked.                                                     *)
LEMMA InstalledBy ==
  ASSUME CoreInv, HistoryNext, NEW t \in Threads, NEW o \in ObjectIds, Installed(t, o)
  PROVE  WriteBatch(t) \/ StartMaintenance(t) \/ Step(t)
<1>1. o \in todo[t] /\ todo'[t] = todo[t] \ {o} /\ pc'[t] = "install"
  BY DEF Installed, Installing
<1>2. ASSUME NEW u \in Threads, u # t, WriteBatch(u) \/ StartMaintenance(u) \/ Step(u)
      PROVE  FALSE
  <2>1. todo'[t] = todo[t]
    BY <1>2, ThreadsApart DEF CoreInv, OthersStay
  <2> QED BY <1>1, <2>1
<1>3. ASSUME NEW f \in DOMAIN heap, Unlink(f) PROVE FALSE
  <2>1. todo' = todo
    BY <1>3 DEF Unlink, local, inner
  <2> QED BY <1>1, <2>1
<1>4. ASSUME CrashRecover \/ CloseAndReopen PROVE FALSE
  <2>1. pc'[t] = "idle"
    BY <1>4 DEF CrashRecover, CloseAndReopen, ResetThreads
  <2> QED BY <1>1, <2>1
<1> QED BY <1>2, <1>3, <1>4 DEF HistoryNext

(* The assertions of DebugHistory never fail: no location is installed for *)
(* an object twice or after it was replaced, none is replaced twice, and   *)
(* what is replaced was installed, whatever batches, maintenances and      *)
(* restarts came before.                                                   *)
THEOREM HistoryAlwaysUnique == HistorySpec => HistoryUnique
<1> DEFINE Unique == \A t \in Threads, o \in ObjectIds : Installed(t, o) =>
                       /\ NewLocation(t, o) \notin adds \cup removes
                       /\ OldLocations(t, o) \subseteq adds \ removes
<1>1. ASSUME CoreInv, AccountsInv, BatchesInv, MarksInv, HistoryNext PROVE Unique
  <2> SUFFICES ASSUME NEW t \in Threads, NEW o \in ObjectIds, Installed(t, o)
               PROVE  /\ NewLocation(t, o) \notin adds \cup removes
                      /\ OldLocations(t, o) \subseteq adds \ removes
    OBVIOUS
  <2>1. WriteBatch(t) \/ StartMaintenance(t) \/ Step(t)
    BY <1>1, InstalledBy
  <2>2. Installs(t, o)
    BY <1>1, <2>1, InstalledFacts DEF Installs
  <2>3. o \in todo[t] /\ OldLocations(t, o) = {<<o, l>> : l \in {location_table[o]} \ {Null}}
    BY <2>2 DEF Installs, Installed, Installing
  <2>4. NewLocation(t, o) = <<o, At(base[t], o)>>
    BY DEF NewLocation, At
  <2>5. NewLocation(t, o) \notin adds \cup removes
    BY <1>1, <2>3, <2>4 DEF MarksInv
  <2>6. OldLocations(t, o) \subseteq adds \ removes
    BY <1>1, <2>3 DEF MarksInv
  <2> QED BY <2>5, <2>6
<1>2. /\ CoreInv /\ AccountsInv /\ BatchesInv /\ MarksInv
      /\ [HistoryNext]_<<vars, debugVars>>
      => [Unique]_<<vars, debugVars>>
  BY <1>1
<1> QED BY <1>2, HistoryLeavesNoTrace, CoreInduction, AccountsInduction,
           BatchesInduction, MarksInduction, PTL DEF HistorySpec, HistoryUnique

(***************************************************************************)
(* Empty files.                                                            *)
(***************************************************************************)
(* A location between the beginning and the end of the data of a file      *)
(* belongs to the file: a state predicate, which can be primed.            *)
VacantFiles ==
  \A f \in DOMAIN fams :
    (\A o \in ObjectIds : ~ OwnedBy(f, o, location_table[o])) => Uninhabited(f)

(* The placement of the files and the owners of the locations imply it.    *)
LEMMA CoreVacant == CoreInv /\ AccountsInv => VacantFiles
<1> SUFFICES ASSUME CoreInv, AccountsInv, NEW f \in DOMAIN fams,
                    \A o \in ObjectIds : ~ OwnedBy(f, o, location_table[o]),
                    NEW o \in ObjectIds,
                    location_table[o] \in f .. NewFam(LsnOf(f) + DataLen(fams[f].objs)) - 1
             PROVE  FALSE
  BY DEF VacantFiles, Uninhabited
<1>1. PICK l : l = location_table[o]
  OBVIOUS
<1>2. /\ f \in FamLocations /\ DOMAIN fams[f].objs \subseteq ObjectIds /\ f \in Files
  BY FamTypes DEF CoreInv, Files
<1>3. PICK n \in Nat, d \in Nat : n = LsnOf(f) /\ d = DataLen(fams[f].objs) /\ f = 2 * n
  BY <1>2, FamLocationFacts, DataLenType
<1>4. /\ Position(f) >= 1 /\ Position(f) + d < NewWriteBatchBit /\ n < 2 * NewWriteBatchBit
      /\ Position(f) = IF n >= NewWriteBatchBit THEN n - NewWriteBatchBit ELSE n
  BY <1>2, <1>3 DEF CoreInv, FilesInv, Placed, ObjsOf, Position, MaskLsn
<1>5. l \in Nat /\ f <= l /\ l <= 2 * (n + d) - 1
  <2>1. NewFam(n + d) = 2 * (n + d)
    BY DEF NewFam, ShiftLocation
  <2>2. l \in Nat
    BY <1>1 DEF CoreInv, TypeOK
  <2> QED BY <1>1, <1>3, <2>1, <2>2
<1>6. l # Null
  BY <1>3, <1>4, <1>5, BitAssumption
<1>7. PICK g : OwnedBy(g, o, l)
  BY <1>1, <1>6 DEF AccountsInv, LocationsInv, Backed
<1>8. g \in DOMAIN fams /\ g # f
  BY <1>1, <1>7 DEF OwnedBy
<1>9. f <= g /\ g <= l
  <2>1. HasFamFor(fams, l) /\ FamFor(fams, l) = g
    BY <1>7, OwnerIsFamFor DEF CoreInv
  <2>2. \E h \in DOMAIN fams : h <= l /\ \A k \in DOMAIN fams : k <= l => k <= h
    <3>1. \A k \in {h \in DOMAIN fams : h <= l} : k \in Nat /\ k <= l
      BY FamTypes DEF CoreInv, FamLocations
    <3>2. {h \in DOMAIN fams : h <= l} # {}
      BY <1>5
    <3>3. PICK h \in {h \in DOMAIN fams : h <= l} :
            \A k \in {j \in DOMAIN fams : j <= l} : k <= h
      BY <1>5, <3>1, <3>2, BoundedHasMax
    <3> QED BY <3>3
  <2>3. g <= l /\ \A k \in DOMAIN fams : k <= l => k <= g
    BY <2>1, <2>2 DEF FamFor
  <2> QED BY <1>5, <2>3
<1>10. g \in FamLocations /\ g \in Files
  BY <1>8, FamTypes DEF CoreInv, Files
<1>11. PICK m \in Nat : m = LsnOf(g) /\ g = 2 * m
  BY <1>10, FamLocationFacts
<1>12. /\ Position(g) = IF m >= NewWriteBatchBit THEN m - NewWriteBatchBit ELSE m
  BY <1>11 DEF Position, MaskLsn
<1>13. Position(f) < Position(g) => Position(f) + d < Position(g)
  BY <1>2, <1>3, <1>10 DEF CoreInv, FilesInv, Disjoint, ObjsOf
<1>14. n < m /\ m < n + d
  BY <1>3, <1>5, <1>8, <1>9, <1>11
<1> QED BY <1>4, <1>12, <1>13, <1>14, BitAssumption

(* The same of the state after a step.                                     *)
LEMMA CoreVacantNext == CoreInv' /\ AccountsInv' => VacantFiles'
BY CoreVacant, PTL

(* What prune_empty_files has claimed is not in the table.                 *)
LEMMA ClaimedVacant ==
  ASSUME CoreInv, AccountsInv, NEW t \in Threads, pc[t] = "remove", NEW f \in claims[t]
  PROVE  Uninhabited(f)
<1>1. f \in DOMAIN fams /\ fams[f].live = 0
  BY DEF CoreInv, HoldersInv, AccountsInv, CountsInv
<1>2. Accounted(f) = {}
  <2>1. Cardinality(Accounted(f)) = 0
    BY <1>1 DEF AccountsInv, CountsInv, LiveObjectsExact
  <2>2. IsFiniteSet(Accounted(f))
    BY <1>1, AccountedFinite DEF CoreInv
  <2> QED BY <2>1, <2>2, FS_EmptySet
<1>3. ASSUME NEW o \in ObjectIds, OwnedBy(f, o, location_table[o]) PROVE FALSE
  BY <1>1, <1>2, <1>3, AccountedFacts DEF OwnedBy, Referred
<1> QED BY <1>1, <1>3, CoreVacant DEF VacantFiles

(***************************************************************************)
(* Rewritten files.                                                        *)
(***************************************************************************)
(* Maintenance has read the location that the table still holds for an     *)
(* object, and has not yet tried to replace it.                            *)
Carried(t, o) ==
  /\ o \in DOMAIN batch[t] /\ batch[t][o].old = location_table[o]
  /\ pc[t] # "read" => o \in rest[t] \cup todo[t]

(* The files of a group stay claimed while the group is rewritten, and     *)
(* what the table still holds in one that was read is carried.             *)
RewrittenInv ==
  \A t \in Threads :
    /\ rewritten[t] \subseteq claims[t]
    /\ rewritten[t] # {} => t \in sweeping /\ pc[t] \in Writing \cup {"read"}
    /\ \A f \in rewritten[t] \ reading[t] : \A o \in ObjectIds :
         OwnedBy(f, o, location_table[o]) => Carried(t, o)

(* A thread changes the files that another is reading as little as the     *)
(* rest of its variables.                                                  *)
LEMMA ReadingApart ==
  ASSUME TypeOK, NEW t \in Threads, WriteBatch(t) \/ StartMaintenance(t) \/ Step(t),
         NEW u \in Threads, u # t \/ (~ Rewrite(t) /\ ~ ReadFile(t))
  PROVE  reading'[u] = reading[u]
<1>t. DOMAIN reading = Threads
  BY DEF TypeOK
<1>1. CASE WriteBatch(t) \/ StartMaintenance(t) \/ InsertPart(t)
  BY <1>1 DEF WriteBatch, StartMaintenance, InsertPart, maint
<1>2. CASE \E o \in ObjectIds : Install(t, o)
  BY <1>2 DEF Install, maint
<1>3. CASE Abandon(t) \/ Commit(t) \/ Evacuate(t) \/ Finalize(t) \/ Unclaim(t)
  BY <1>3 DEF Abandon, Commit, Evacuate, Finalize, Unclaim, maint
<1>4. CASE Scan(t) \/ Claim(t) \/ Release(t) \/ Prune(t) \/ Remove(t)
  BY <1>4 DEF Scan, Claim, Release, Prune, Remove
<1>5. CASE Rewrite(t)
  BY <1>t, <1>5 DEF Rewrite
<1>6. CASE ReadFile(t)
  BY <1>t, <1>6 DEF ReadFile
<1> QED BY <1>1, <1>2, <1>3, <1>4, <1>5, <1>6 DEF Step

(* A claimed file gains no location in a step: only the file that is being *)
(* written does.                                                           *)
LEMMA ClaimedGainsNone ==
  ASSUME CoreInv, AccountsInv, BatchesInv, NEW t \in Threads,
         WriteBatch(t) \/ StartMaintenance(t) \/ Step(t),
         NEW u \in Threads, NEW f \in claims[u], StaysOpen(f),
         NEW o \in ObjectIds, OwnedBy(f, o, location_table[o])'
  PROVE  location_table'[o] = location_table[o] /\ OwnedBy(f, o, location_table[o])
<1>1. /\ f \in DOMAIN fams /\ fams'[f].objs = fams[f].objs /\ base[t] # f
  BY DEF CoreInv, HoldersInv, StaysOpen
<1>2. o \in DOMAIN fams[f].objs /\ location_table'[o] = At(f, o)
  BY <1>1 DEF OwnedBy, At
<1>3. ASSUME location_table'[o] # location_table[o] PROVE FALSE
  <2>1. PICK p \in ObjectIds : Install(t, p)
    BY <1>3, TableStays
  <2>2. p = o /\ location_table'[o] = At(base[t], o) /\ OwnedBy(base[t], o, At(base[t], o))
    BY <1>3, <2>1, InstallFacts
  <2>3. OwnedBy(f, o, At(base[t], o))
    BY <1>1, <1>2, <2>2 DEF OwnedBy
  <2> QED BY <1>1, <2>2, <2>3, OwnerUnique DEF CoreInv
<1> QED BY <1>1, <1>2, <1>3 DEF OwnedBy

(* The file of a group stays open until maintenance releases its claims.   *)
LEMMA RewrittenStays ==
  ASSUME CoreInv, AccountsInv, RewrittenInv, NEW t \in Threads,
         WriteBatch(t) \/ StartMaintenance(t) \/ Step(t),
         NEW u \in Threads, NEW f \in rewritten[u]
  PROVE  f \in claims[u] /\ f \in DOMAIN fams /\ StaysOpen(f) /\ f \in claims'[u]
<1>1. f \in claims[u] /\ u \in sweeping /\ pc[u] \in Writing \cup {"read"}
  BY DEF RewrittenInv
<1>2. f \in DOMAIN fams
  BY <1>1 DEF CoreInv, HoldersInv
<1>3. u = t => ~ Remove(t)
  BY <1>1 DEF Remove, Writing, Working
<1>4. StaysOpen(f)
  BY <1>1, <1>2, <1>3, HeldStay
<1>5. CASE u # t
  BY <1>1, <1>2, <1>4, <1>5, ThreadsApart DEF CoreInv, OthersStay
<1>6. CASE u = t
  <2>1. claims' = claims
    <3>0. pc[t] \in {"insert", "install", "evacuate", "unclaim", "read"}
      BY <1>1, <1>6 DEF Writing, Working
    <3>1. CASE WriteBatch(t) \/ StartMaintenance(t) \/ InsertPart(t)
      BY <3>1 DEF WriteBatch, StartMaintenance, InsertPart, maint
    <3>2. CASE \E o \in ObjectIds : Install(t, o)
      BY <3>2 DEF Install, maint
    <3>3. CASE Abandon(t) \/ Commit(t) \/ Evacuate(t) \/ Finalize(t) \/ Unclaim(t)
      BY <3>3 DEF Abandon, Commit, Evacuate, Finalize, Unclaim, maint
    <3>4. CASE Scan(t) \/ Rewrite(t) \/ ReadFile(t)
      BY <3>4 DEF Scan, Rewrite, ReadFile
    <3>5. CASE Claim(t) \/ Release(t) \/ Prune(t) \/ Remove(t)
      BY <3>0, <3>5 DEF Claim, Release, Prune, Remove
    <3> QED BY <3>1, <3>2, <3>3, <3>4, <3>5 DEF Step
  <2> QED BY <1>1, <1>2, <1>4, <2>1
<1> QED BY <1>5, <1>6

(* What the table still holds in a file of a group, once it was read, is   *)
(* carried to the end of the rewrite: a compare_exchange that fails found  *)
(* another location in the table.                                          *)
LEMMA CarriedStep ==
  ASSUME CoreInv, CoreInv', AccountsInv, AccountsInv', BatchesInv, RewrittenInv,
         NEW t \in Threads, WriteBatch(t) \/ StartMaintenance(t) \/ Step(t),
         NEW u \in Threads, NEW f \in rewritten[u], f \notin reading'[u],
         NEW o \in ObjectIds, OwnedBy(f, o, location_table[o])'
  PROVE  Carried(u, o)'
<1>t. /\ DOMAIN batch = Threads /\ DOMAIN rest = Threads /\ DOMAIN todo = Threads
      /\ DOMAIN pc = Threads /\ DOMAIN reading = Threads
  BY DEF CoreInv, TypeOK
<1>0. /\ f \in claims[u] /\ f \in DOMAIN fams /\ u \in sweeping
      /\ pc[u] \in {"insert", "install", "evacuate", "unclaim", "read"}
  BY RewrittenStays DEF RewrittenInv, Writing, Working
<1>1. location_table'[o] = location_table[o] /\ OwnedBy(f, o, location_table[o])
  BY <1>0, RewrittenStays, ClaimedGainsNone
<1>2. f \notin reading[u] => Carried(u, o)
  BY <1>1 DEF RewrittenInv
<1>3. CASE u # t
  <2>1. /\ pc'[u] = pc[u] /\ batch'[u] = batch[u] /\ rest'[u] = rest[u]
        /\ todo'[u] = todo[u] /\ reading'[u] = reading[u]
    BY <1>3, ThreadsApart, ReadingApart DEF CoreInv, OthersStay
  <2> QED BY <1>1, <1>2, <2>1 DEF Carried
<1>4. CASE u = t /\ ReadFile(t)
  <2>1. PICK g, items :
          /\ g \in reading[t]
          /\ items = [p \in DOMAIN batch[t] \cup Survivors(g) |->
                        IF p \in Survivors(g)
                        THEN [del |-> fams[g].objs[p].del,
                              val |-> fams[g].objs[p].val,
                              old |-> location_table[p]]
                        ELSE batch[t][p]]
          /\ batch' = [batch EXCEPT ![t] = items]
          /\ reading' = [reading EXCEPT ![t] = @ \ {g}]
          /\ rest' = IF reading[t] = {g} THEN [rest EXCEPT ![t] = DOMAIN items] ELSE rest
          /\ Goto(t, IF reading[t] # {g} THEN "read"
                     ELSE IF DOMAIN items # {} THEN "insert" ELSE "rewrite")
    BY <1>4 DEF ReadFile
  <2>2. /\ batch'[t] = items /\ reading'[t] = reading[t] \ {g} /\ pc[t] = "read"
        /\ pc'[t] # "read" => rest'[t] = DOMAIN items
    BY <1>t, <1>4, <2>1 DEF ReadFile, Goto
  <2>3. o \in DOMAIN items /\ items[o].old = location_table[o]
    <3>1. CASE o \in Survivors(g)
      BY <2>1, <3>1
    <3>2. CASE o \notin Survivors(g)
      <4>1. f # g
        BY <1>1, <3>2 DEF Survivors, OwnedBy, At
      <4>2. Carried(t, o)
        BY <1>2, <1>4, <2>2, <4>1
      <4> QED BY <2>1, <3>2, <4>2 DEF Carried
    <3> QED BY <3>1, <3>2
  <2> QED BY <1>1, <1>4, <2>2, <2>3 DEF Carried
<1>5. CASE u = t /\ ~ ReadFile(t)
  <2>1. ~ Rewrite(t) /\ pc[t] # "read"
    <3>1. ~ Rewrite(t)
      BY <1>0, <1>5 DEF Rewrite
    <3>2. ASSUME pc[t] = "read" PROVE FALSE
      <4>1. ~ WriteBatch(t) /\ ~ StartMaintenance(t) /\ ~ InsertPart(t)
            /\ ~ Abandon(t) /\ ~ Commit(t) /\ ~ Evacuate(t) /\ ~ Finalize(t)
        BY <3>2 DEF WriteBatch, StartMaintenance, InsertPart, Abandon, Commit, Evacuate, Finalize
      <4>2. ~ Unclaim(t) /\ ~ Scan(t) /\ ~ Claim(t) /\ ~ Release(t) /\ ~ Prune(t) /\ ~ Remove(t)
        BY <3>2 DEF Unclaim, Scan, Claim, Release, Prune, Remove
      <4>3. \A p \in ObjectIds : ~ Install(t, p)
        BY <3>2 DEF Install
      <4> QED BY <1>5, <3>1, <4>1, <4>2, <4>3 DEF Step
    <3> QED BY <3>1, <3>2
  <2>2. f \notin reading[t]
    BY <1>5, <2>1, ReadingApart DEF CoreInv
  <2>3. /\ o \in DOMAIN batch[t] /\ batch[t][o].old = location_table[o]
        /\ o \in rest[t] \cup todo[t]
    BY <1>2, <1>5, <2>1, <2>2 DEF Carried
  <2>4. ASSUME batch'[t] = batch[t], o \in rest'[t] \cup todo'[t] PROVE Carried(u, o)'
    BY <1>1, <1>5, <2>3, <2>4 DEF Carried
  <2>5. CASE InsertPart(t)
    <3>1. batch' = batch /\ rest[t] \subseteq rest'[t] \cup todo'[t] /\ todo[t] = {}
      <4>1. todo[t] = {} /\ batch' = batch
        BY <2>5 DEF InsertPart, AccountsInv, WorkInv
      <4>2. PICK part \in SUBSET rest[t] : /\ todo' = [todo EXCEPT ![t] = part]
                                           /\ rest' = [rest EXCEPT ![t] = @ \ part]
        BY <2>5 DEF InsertPart
      <4> QED BY <1>t, <4>1, <4>2
    <3> QED BY <2>3, <2>4, <3>1
  <2>6. CASE \E p \in ObjectIds : Install(t, p)
    <3>1. PICK p \in ObjectIds : Install(t, p)
      BY <2>6
    <3>2. batch' = batch /\ rest' = rest /\ todo'[t] = todo[t] \ {p}
      BY <1>t, <3>1 DEF Install
    <3>3. ASSUME p = o PROVE FALSE
      <4>1. gen[t] # 0
        BY <1>0, <1>5, <3>1 DEF BatchesInv, CallInv, CallOk, Install, Writing, Working
      <4>2. location_table'[o] = LocationIn(base[t], fams[base[t]].objs, o)
        <5>1. location_table \in [ObjectIds -> Nat]
          BY DEF CoreInv, TypeOK
        <5> QED BY <2>3, <3>1, <3>3, <4>1, <5>1 DEF Install, Cas, CasSucceeds
      <4>3. OwnedBy(base[t], o, location_table[o])
        BY <1>1, <3>1, <3>3, <4>2, InstallFacts DEF At
      <4>4. base[t] = f
        BY <1>1, <4>3, OwnerUnique DEF CoreInv
      <4> QED BY <1>0, <4>4 DEF CoreInv, HoldersInv
    <3> QED BY <2>3, <2>4, <3>2, <3>3
  <2>7. CASE Commit(t) \/ Evacuate(t) \/ Finalize(t)
    <3>1. batch' = batch /\ rest' = rest /\ todo' = todo
      BY <2>7 DEF Commit, Evacuate, Finalize, inner
    <3> QED BY <2>3, <2>4, <3>1
  <2>8. CASE Abandon(t) \/ Unclaim(t)
    <3>1. todo[t] = {} /\ rest' = rest /\ PartDone(t)
      BY <2>8 DEF Abandon, Unclaim, AccountsInv, WorkInv
    <3>2. rest[t] # {} /\ batch' = batch
      BY <2>3, <3>1 DEF PartDone
    <3> QED BY <2>3, <2>4, <3>1, <3>2
  <2>9. CASE WriteBatch(t) \/ StartMaintenance(t) \/ Scan(t) \/ Claim(t)
    BY <1>0, <1>5, <2>9 DEF WriteBatch, StartMaintenance, Scan, Claim
  <2>10. CASE Release(t) \/ Prune(t) \/ Remove(t)
    BY <1>0, <1>5, <2>10 DEF Release, Prune, Remove
  <2> QED BY <1>5, <2>1, <2>5, <2>6, <2>7, <2>8, <2>9, <2>10 DEF Step
<1> QED BY <1>3, <1>4, <1>5

(* The history of one thread is changed by its own steps only, which       *)
(* collect the files of a group and forget them.                           *)
LEMMA CollectedFacts ==
  ASSUME CoreInv, DOMAIN rewritten = Threads, NEW t \in Threads,
         WriteBatch(t) \/ StartMaintenance(t) \/ Step(t), CollectRewritten(t),
         NEW u \in Threads
  PROVE  /\ DOMAIN rewritten' = Threads
         /\ u # t => rewritten'[u] = rewritten[u]
         /\ rewritten'[u] \in {{}, rewritten[u], reading'[u]}
         /\ u = t => rewritten'[u] = IF GroupBegins(t) THEN reading'[t]
                                     ELSE IF GroupEnds(t) THEN {} ELSE rewritten[t]
BY DEF CollectRewritten

(* Where a thread goes from inside a group: on in the group, or to its     *)
(* end.                                                                    *)
LEMMA GroupStep ==
  ASSUME CoreInv, BatchesInv, NEW t \in Threads,
         WriteBatch(t) \/ StartMaintenance(t) \/ Step(t),
         t \in sweeping, pc[t] \in Writing \cup {"read"}
  PROVE  t \in sweeping' /\ pc'[t] \in Writing \cup {"read", "rewrite"}
<1>t. DOMAIN pc = Threads
  BY DEF CoreInv, TypeOK
<1>0. pc[t] \in {"insert", "install", "evacuate", "unclaim", "read"}
  BY DEF Writing, Working
<1>1. CASE WriteBatch(t) \/ StartMaintenance(t) \/ Scan(t) \/ Claim(t) \/ Rewrite(t)
  BY <1>0, <1>1 DEF WriteBatch, StartMaintenance, Scan, Claim, Rewrite
<1>2. CASE Release(t) \/ Prune(t) \/ Remove(t)
  BY <1>0, <1>2 DEF Release, Prune, Remove
<1>3. CASE InsertPart(t)
  BY <1>t, <1>3 DEF InsertPart, Goto, Writing, Working
<1>4. CASE \E o \in ObjectIds : Install(t, o)
  BY <1>t, <1>4 DEF Install, Writing, Working
<1>5. CASE Commit(t) \/ Evacuate(t) \/ Finalize(t)
  BY <1>t, <1>5 DEF Commit, Evacuate, Finalize, Goto, Writing, Working
<1>6. CASE Abandon(t) \/ Unclaim(t)
  BY <1>t, <1>6 DEF Abandon, Unclaim, PartDone, Goto, Writing, Working
<1>7. CASE ReadFile(t)
  BY <1>t, <1>7 DEF ReadFile, Goto, Writing, Working
<1> QED BY <1>1, <1>2, <1>3, <1>4, <1>5, <1>6, <1>7 DEF Step

(* A group begins with a call of maintenance that reads all of its files.  *)
LEMMA GroupBegun ==
  ASSUME CoreInv, CoreInv', BatchesInv, NEW t \in Threads,
         WriteBatch(t) \/ StartMaintenance(t) \/ Step(t), GroupBegins(t)
  PROVE  t \in sweeping' /\ pc'[t] = "read" /\ reading'[t] \subseteq claims'[t]
<1>1. pc[t] = "rewrite" /\ pc'[t] = "read"
  BY DEF GroupBegins
<1>2. t \in sweeping
  BY <1>1 DEF BatchesInv, CallInv, CallOk, Writing, Working
<1>3. ~ Remove(t)
  BY <1>1 DEF Remove
<1>4. sweeping' = sweeping
  <2>1. CASE WriteBatch(t) \/ StartMaintenance(t) \/ InsertPart(t)
    BY <1>1, <2>1 DEF WriteBatch, StartMaintenance, InsertPart
  <2>2. CASE \E o \in ObjectIds : Install(t, o)
    BY <2>2 DEF Install
  <2>3. CASE Abandon(t) \/ Commit(t) \/ Evacuate(t) \/ Finalize(t) \/ Unclaim(t)
    BY <2>3 DEF Abandon, Commit, Evacuate, Finalize, Unclaim
  <2>4. CASE Scan(t) \/ Claim(t) \/ Rewrite(t) \/ ReadFile(t)
    BY <2>4 DEF Scan, Claim, Rewrite, ReadFile
  <2>5. CASE Release(t) \/ Prune(t)
    BY <2>5 DEF Release, Prune
  <2> QED BY <1>3, <2>1, <2>2, <2>3, <2>4, <2>5 DEF Step
<1>5. reading'[t] \subseteq claims'[t]
  BY DEF CoreInv, HoldersInv
<1> QED BY <1>1, <1>2, <1>4, <1>5

(* A step of a thread and what it collects preserve the invariant of the   *)
(* rewritten files.                                                        *)
LEMMA RewrittenThread ==
  ASSUME CoreInv, CoreInv', AccountsInv, AccountsInv', BatchesInv, RewrittenInv,
         DOMAIN rewritten = Threads, NEW t \in Threads,
         WriteBatch(t) \/ StartMaintenance(t) \/ Step(t), CollectRewritten(t)
  PROVE  RewrittenInv'
<1> SUFFICES ASSUME NEW u \in Threads
             PROVE  /\ rewritten'[u] \subseteq claims'[u]
                    /\ rewritten'[u] # {} =>
                         u \in sweeping' /\ pc'[u] \in Writing \cup {"read"}
                    /\ \A f \in rewritten'[u] \ reading'[u] : \A o \in ObjectIds :
                         OwnedBy(f, o, location_table[o])' => Carried(u, o)'
  BY DEF RewrittenInv
<1>1. CASE rewritten'[u] = {}
  BY <1>1
<1>2. CASE u = t /\ GroupBegins(t)
  <2>1. rewritten'[t] = reading'[t]
    BY <1>2, CollectedFacts
  <2> QED BY <1>2, <2>1, GroupBegun
<1>3. CASE rewritten'[u] = rewritten[u] /\ rewritten[u] # {} /\ (u = t => ~ GroupEnds(t))
  <2>1. rewritten[u] \subseteq claims'[u]
    BY RewrittenStays
  <2>2. u \in sweeping /\ pc[u] \in Writing \cup {"read"}
    BY <1>3 DEF RewrittenInv
  <2>3. u \in sweeping' /\ pc'[u] \in Writing \cup {"read"}
    <3>1. CASE u # t
      BY <2>2, <3>1, ThreadsApart DEF CoreInv, OthersStay
    <3>2. CASE u = t
      <4>1. u \in sweeping' /\ pc'[u] \in Writing \cup {"read", "rewrite"}
        BY <2>2, <3>2, GroupStep
      <4>2. pc'[u] # "rewrite"
        BY <1>3, <2>2, <3>2 DEF GroupEnds, Writing, Working
      <4> QED BY <4>1, <4>2
    <3> QED BY <3>1, <3>2
  <2>4. \A f \in rewritten[u] \ reading'[u] : \A o \in ObjectIds :
          OwnedBy(f, o, location_table[o])' => Carried(u, o)'
    BY CarriedStep
  <2> QED BY <1>3, <2>1, <2>3, <2>4
<1> QED BY <1>1, <1>2, <1>3, CollectedFacts

(* Every step preserves the invariant of the rewritten files.              *)
LEMMA RewrittenNext ==
  ASSUME CoreInv, CoreInv', AccountsInv, AccountsInv', BatchesInv,
         RewrittenInv, DOMAIN rewritten = Threads, [HistoryNext]_<<vars, debugVars>>
  PROVE  RewrittenInv' /\ DOMAIN rewritten' = Threads
<1>1. CASE \E t \in Threads : /\ WriteBatch(t) \/ StartMaintenance(t) \/ Step(t)
                              /\ CollectRewritten(t)
  BY <1>1, RewrittenThread, CollectedFacts
<1>2. CASE rewritten' = NothingRewritten
  BY <1>2 DEF NothingRewritten, RewrittenInv
<1>3. CASE ((\E f \in DOMAIN heap : Unlink(f)) \/ UNCHANGED vars) /\ UNCHANGED debugVars
  <2>1. UNCHANGED <<location_table, fams, pc, sweeping, batch, rest, todo, claims, reading,
                    rewritten>>
    BY <1>3 DEF Unlink, vars, shared, local, inner, maint, debugVars
  <2>2. \A f, o : OwnedBy(f, o, location_table[o])' <=> OwnedBy(f, o, location_table[o])
    BY <2>1 DEF OwnedBy, At
  <2>3. \A t, o : Carried(t, o)' <=> Carried(t, o)
    BY <2>1 DEF Carried
  <2> QED BY <2>1, <2>2, <2>3 DEF RewrittenInv
<1> QED BY <1>1, <1>2, <1>3 DEF HistoryNext

(* In every reachable state the table refers to a file that was read for a *)
(* rewrite only where the rewrite has yet to try its exchange.             *)
THEOREM RewrittenInduction == HistorySpec => []RewrittenInv
<1> DEFINE Inv == RewrittenInv /\ DOMAIN rewritten = Threads
<1>1. HistoryInit => Inv
  BY DEF HistoryInit, NothingRewritten, RewrittenInv
<1>2. /\ CoreInv /\ CoreInv' /\ AccountsInv /\ AccountsInv' /\ BatchesInv /\ Inv
      /\ [HistoryNext]_<<vars, debugVars>>
      => Inv'
  BY RewrittenNext
<1> QED BY <1>1, <1>2, HistoryLeavesNoTrace, CoreInduction, AccountsInduction,
           BatchesInduction, PTL DEF HistorySpec

(* When a group ends nothing is carried any more, so nothing in the table  *)
(* leads to its files.                                                     *)
LEMMA GroupVacant ==
  ASSUME CoreInv, CoreInv', AccountsInv, AccountsInv', BatchesInv, BatchesInv',
         RewrittenInv, NEW t \in Threads,
         WriteBatch(t) \/ StartMaintenance(t) \/ Step(t),
         GroupEnds(t), NEW f \in rewritten[t]
  PROVE  Uninhabited(f)'
<1>1. f \in DOMAIN fams'
  BY RewrittenStays DEF StaysOpen
<1>2. f \notin reading'[t] /\ DOMAIN batch'[t] = {}
  BY DEF GroupEnds, CoreInv, HoldersInv, BatchesInv, CallInv, CallOk, Writing, Working
<1>3. ASSUME NEW o \in ObjectIds, OwnedBy(f, o, location_table[o])' PROVE FALSE
  <2>1. Carried(t, o)'
    BY <1>2, <1>3, CarriedStep
  <2> QED BY <1>2, <2>1 DEF Carried
<1> QED BY <1>1, <1>3, CoreVacantNext DEF VacantFiles

(* verify_file_uninhabited never fails: when a group of files is rewritten *)
(* no location of the table is left in any of them, whoever overwrote what *)
(* meanwhile, and none is in a file that prune_empty_files removes.        *)
THEOREM VerifyAlwaysPasses == HistorySpec => VerifyPasses
<1> DEFINE Verified ==
      \A t \in Threads :
        /\ GroupEnds(t) => \A f \in rewritten[t] : Uninhabited(f)'
        /\ pc[t] = "remove" => \A f \in claims[t] : Uninhabited(f)
<1>1. ASSUME CoreInv, CoreInv', AccountsInv, AccountsInv', BatchesInv, BatchesInv',
             RewrittenInv, HistoryNext
      PROVE  Verified
  <2> SUFFICES ASSUME NEW t \in Threads, GroupEnds(t), NEW f \in rewritten[t]
               PROVE  Uninhabited(f)'
    BY <1>1, ClaimedVacant
  <2>1. pc'[t] # pc[t] /\ pc'[t] = "rewrite"
    BY DEF GroupEnds
  <2>2. CASE \E u \in Threads : WriteBatch(u) \/ StartMaintenance(u) \/ Step(u)
    <3>1. PICK u \in Threads : WriteBatch(u) \/ StartMaintenance(u) \/ Step(u)
      BY <2>2
    <3>2. u = t
      BY <1>1, <2>1, <3>1, ThreadsApart DEF CoreInv, OthersStay
    <3> QED BY <1>1, <3>1, <3>2, GroupVacant
  <2>3. CASE \E g \in DOMAIN heap : Unlink(g)
    BY <2>1, <2>3 DEF Unlink, local
  <2>4. CASE CrashRecover \/ CloseAndReopen
    BY <2>1, <2>4 DEF CrashRecover, CloseAndReopen, ResetThreads
  <2> QED BY <1>1, <2>2, <2>3, <2>4 DEF HistoryNext
<1>2. /\ CoreInv /\ CoreInv' /\ AccountsInv /\ AccountsInv' /\ BatchesInv /\ BatchesInv'
      /\ RewrittenInv /\ [HistoryNext]_<<vars, debugVars>>
      => [Verified]_<<vars, debugVars>>
  BY <1>1
<1> QED BY <1>2, HistoryLeavesNoTrace, CoreInduction, AccountsInduction,
           BatchesInduction, RewrittenInduction, PTL DEF HistorySpec, VerifyPasses
=============================================================================
