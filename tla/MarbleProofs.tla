---------------------------- MODULE MarbleProofs ----------------------------
(***************************************************************************)
(* Proofs about Marble: for every set of threads, every finite set of      *)
(* object ids, every configuration and every value of the bounds.          *)
(*                                                                         *)
(* The inductive invariant CoreInv has three parts: the types, where the   *)
(* files lie (FilesInv) and who holds which claim (HoldersInv).  For each  *)
(* action one lemma shows that it preserves each part it can disturb.      *)
(***************************************************************************)
EXTENDS Marble, TLAPS, FiniteSetTheorems, WellFoundedInduction

(***************************************************************************)
(* The inductive invariant.                                                *)
(***************************************************************************)
(* Where a file lies: below the bit when masked, behind next_file_lsn, all *)
(* of its offsets in its data section.                                     *)
Placed(f, objs) ==
  /\ Position(f) >= 1
  /\ LsnOf(f) < 2 * NewWriteBatchBit
  /\ Position(f) + DataLen(objs) < NewWriteBatchBit
  /\ Position(f) + DataLen(objs) < next_file_lsn
  /\ \A o \in DOMAIN objs : objs[o].off <= DataLen(objs)

Disjoint(f, fobjs, g) ==
  /\ Position(f) < Position(g) => Position(f) + DataLen(fobjs) < Position(g)
  /\ Position(f) = Position(g) => f = g

FilesInv ==
  /\ next_file_lsn >= 1
  /\ \A f \in Files : Placed(f, ObjsOf(f))
  /\ \A f, g \in Files : Disjoint(f, ObjsOf(f), g)
  /\ \A f \in DOMAIN heap : heap[f].objs = ObjsOf(f)

(* Who works on which file.                                                *)
Working == {"install", "evacuate", "unclaim"}

HoldersInv ==
  /\ \A t \in Threads :
       /\ pc[t] \in Working <=> base[t] # 0
       /\ base[t] # 0 => base[t] \in DOMAIN fams /\ fams[base[t]].claim
       /\ pc[t] = "install" => todo[t] \subseteq DOMAIN fams[base[t]].objs
       /\ \A f \in claims[t] : f \in DOMAIN fams /\ fams[f].claim
       /\ queue[t] \subseteq claims[t] /\ reading[t] \subseteq claims[t]
       /\ pc[t] # "read" => reading[t] = {}
       /\ pc[t] \in {"release", "prune", "remove"} => queue[t] = {}
  /\ \A t, u \in Threads :
       /\ base[t] \notin claims[u]
       /\ t # u => /\ base[t] # 0 => base[t] # base[u]
                   /\ claims[t] \cap claims[u] = {}
  /\ \A f \in DOMAIN fams :
       /\ fams[f].claim => \E t \in Threads : f \in claims[t] \/ base[t] = f
       /\ f \in DOMAIN heap \/ \E t \in Threads : base[t] = f /\ pc[t] = "install"

(* A file of the map holds an object, at a location.                       *)
OwnedBy(f, o, location) ==
  f \in DOMAIN fams /\ o \in DOMAIN fams[f].objs /\ location = At(f, o)

(***************************************************************************)
(* Lemmas about the operators.                                             *)
(***************************************************************************)
USE DEF Null

(* The library's well-foundedness of < on Nat, as a set of pairs.          *)
LEMMA NatWellFounded == IsWellFoundedOn({ss \in Nat \X Nat : ss[1] < ss[2]}, Nat)
BY NatLessThanWellFounded, Zenon DEF OpToRel

(* A bounded set of natural numbers has a greatest element.                *)
LEMMA BoundedHasMax ==
  ASSUME NEW S, S \subseteq Nat, S # {}, NEW n \in Nat, \A x \in S : x <= n
  PROVE  \E m \in S : \A x \in S : x <= m
<1> DEFINE T == {k \in Nat : \E x \in S : k = n - x}
           R == {ss \in Nat \X Nat : ss[1] < ss[2]}
<1>1. T \subseteq Nat /\ T # {}
  <2>1. PICK x \in S : TRUE
    OBVIOUS
  <2>2. n - x \in T
    OBVIOUS
  <2> QED BY <2>2
<1>2. PICK k \in T : \A y \in T : ~ (<<y, k>> \in R)
  <2> HIDE DEF T, R
  <2>1. IsWellFoundedOn(R, Nat)
    BY NatWellFounded DEF R
  <2> QED BY <1>1, <2>1, WFMin
<1>3. PICK m \in S : k = n - m
  OBVIOUS
<1>4. ASSUME NEW x \in S PROVE x <= m
  <2>1. n - x \in T
    OBVIOUS
  <2>2. ~ (<<n - x, k>> \in R)
    BY <2>1, <1>2
  <2>3. ~ (n - x < k)
    BY <2>2, <2>1, <1>1
  <2> QED BY <2>3, <1>3
<1> QED BY <1>4

(* Files begin at even locations.                                          *)
LEMMA FamLocationFacts ==
  ASSUME NEW f \in FamLocations
  PROVE  /\ f \in Nat /\ LsnOf(f) \in Nat /\ f = 2 * LsnOf(f)
         /\ Position(f) \in Nat
BY BitAssumption DEF FamLocations, IsDelete, LsnOf, Position, MaskLsn

(* NewFam doubles the LSN, and LsnOf halves it again.                      *)
LEMMA NewFamFacts ==
  ASSUME NEW n \in Nat
  PROVE  NewFam(n) \in FamLocations /\ LsnOf(NewFam(n)) = n
BY DEF NewFam, ShiftLocation, FamLocations, IsDelete, LsnOf

(* A stamped LSN keeps its place in allocation order.                      *)
LEMMA StampFacts ==
  ASSUME NEW n \in Nat, n < NewWriteBatchBit, NEW g
  PROVE  LET f == NewFam(StampLsn(n, g # 0))
         IN  /\ f \in FamLocations
             /\ Position(f) = n
             /\ LsnOf(f) < 2 * NewWriteBatchBit
<1>1. /\ StampLsn(n, g # 0) \in Nat /\ StampLsn(n, g # 0) < 2 * NewWriteBatchBit
      /\ MaskLsn(StampLsn(n, g # 0)) = n
  BY BitAssumption DEF StampLsn, MaskLsn
<1> QED BY <1>1, NewFamFacts DEF Position

(* The length of a file's data is a number, with one bound for all files.  *)
LEMMA DataLenType ==
  ASSUME NEW objs, DOMAIN objs \subseteq ObjectIds
  PROVE  DataLen(objs) \in Nat /\ DataLen(objs) <= Cardinality(ObjectIds)
BY FiniteObjectIds, FS_Subset, FS_CardinalityType DEF DataLen

(* Locations inside a file, as numbers.                                    *)
LEMMA LocationInFacts ==
  ASSUME NEW f \in FamLocations, NEW objs, NEW o,
         objs[o].off \in Nat, objs[o].del \in BOOLEAN
  PROVE  LocationIn(f, objs, o) =
           2 * (LsnOf(f) + objs[o].off) + (IF objs[o].del THEN 1 ELSE 0)
<1>1. LsnOf(f) \in Nat
  BY FamLocationFacts
<1>2. /\ LsnOf(ShiftLocation(objs[o].off, objs[o].del)) = objs[o].off
      /\ IsDelete(ShiftLocation(objs[o].off, objs[o].del)) <=> objs[o].del
  BY DEF LsnOf, IsDelete, ShiftLocation
<1> QED BY <1>1, <1>2 DEF LocationIn, ToAbsolute, ShiftLocation

(* The range query for a location of a file finds that file, because no    *)
(* other file begins inside the range of the file, and the new batch bit   *)
(* keeps the two kinds of files apart.                                     *)
LEMMA FamForOwner ==
  ASSUME NEW files, DOMAIN files \subseteq FamLocations,
         NEW f \in DOMAIN files, NEW objs, NEW o \in DOMAIN objs,
         DOMAIN objs \subseteq ObjectIds,
         objs[o].off \in Nat, objs[o].del \in BOOLEAN,
         objs[o].off <= DataLen(objs),
         Position(f) + DataLen(objs) < NewWriteBatchBit,
         \A g \in DOMAIN files : Disjoint(f, objs, g)
  PROVE  /\ HasFamFor(files, LocationIn(f, objs, o))
         /\ FamFor(files, LocationIn(f, objs, o)) = f
<1> DEFINE l == LocationIn(f, objs, o)
<1>1. DataLen(objs) \in Nat
  BY DataLenType
<1>2. /\ LsnOf(f) \in Nat /\ f = 2 * LsnOf(f) /\ f \in Nat
      /\ l = 2 * (LsnOf(f) + objs[o].off) + (IF objs[o].del THEN 1 ELSE 0)
      /\ l \in Nat
  BY FamLocationFacts, LocationInFacts
<1>3. f <= l
  BY <1>2
<1>4. ASSUME NEW g \in DOMAIN files, g <= l PROVE g <= f
  <2>1. /\ LsnOf(g) \in Nat /\ g = 2 * LsnOf(g) /\ g \in Nat
        /\ Position(g) \in Nat /\ Position(f) \in Nat
    BY FamLocationFacts
  <2>2. LsnOf(g) <= LsnOf(f) + DataLen(objs)
    BY <1>1, <1>2, <1>4, <2>1
  <2>3. SUFFICES ASSUME LsnOf(f) < LsnOf(g) PROVE FALSE
    BY <1>2, <2>1
  <2>4. /\ Position(f) = IF LsnOf(f) >= NewWriteBatchBit
                         THEN LsnOf(f) - NewWriteBatchBit ELSE LsnOf(f)
        /\ Position(g) = IF LsnOf(g) >= NewWriteBatchBit
                         THEN LsnOf(g) - NewWriteBatchBit ELSE LsnOf(g)
    BY DEF Position, MaskLsn
  <2>5. Position(f) < Position(g) => Position(f) + DataLen(objs) < Position(g)
    BY DEF Disjoint
  <2> QED BY BitAssumption, <1>1, <1>2, <2>1, <2>2, <2>3, <2>4, <2>5
<1>5. HasFamFor(files, l)
  BY <1>3 DEF HasFamFor
<1>6. FamFor(files, l) = f
  <2>1. \A g \in DOMAIN files : g \in Nat
    BY FamLocationFacts
  <2> HIDE DEF l
  <2> QED BY <1>2, <1>3, <1>4, <2>1 DEF FamFor
<1> QED BY <1>5, <1>6

(* What the type invariant says of the files.                              *)
LEMMA FamTypes ==
  ASSUME TypeOK, NEW f \in DOMAIN fams
  PROVE  /\ f \in FamLocations
         /\ DOMAIN fams[f].objs \subseteq ObjectIds
         /\ fams[f] \in Fam(DOMAIN fams[f].objs)
         /\ \A o \in DOMAIN fams[f].objs :
              /\ fams[f].objs[o].off \in Nat
              /\ fams[f].objs[o].del \in BOOLEAN
              /\ fams[f].objs[o].val \in Nat
              /\ At(f, o) \in Nat
         /\ fams[f].live \in Int
         /\ fams[f].generation \in 0 .. MAX_GENERATION
<1>1. /\ f \in FamLocations
      /\ DOMAIN fams[f].objs \subseteq ObjectIds
      /\ fams[f] \in Fam(DOMAIN fams[f].objs)
  BY DEF TypeOK, FileMapTypeOK
<1>2. /\ fams[f].live \in Int
      /\ fams[f].generation \in 0 .. MAX_GENERATION
      /\ fams[f].objs \in [DOMAIN fams[f].objs -> Entry]
  BY <1>1 DEF Fam
<1>3. ASSUME NEW o \in DOMAIN fams[f].objs
      PROVE  /\ fams[f].objs[o].off \in Nat
             /\ fams[f].objs[o].del \in BOOLEAN
             /\ fams[f].objs[o].val \in Nat
  BY <1>2 DEF Entry
<1>4. ASSUME NEW o \in DOMAIN fams[f].objs PROVE At(f, o) \in Nat
  BY <1>1, <1>3, LocationInFacts, FamLocationFacts DEF At
<1> QED BY <1>1, <1>2, <1>3, <1>4

(* What the type invariant says of the renamed files.                      *)
LEMMA HeapTypes ==
  ASSUME TypeOK, NEW f \in DOMAIN heap
  PROVE  /\ f \in FamLocations
         /\ DOMAIN heap[f].objs \subseteq ObjectIds
         /\ heap[f] \in HeapFile(DOMAIN heap[f].objs)
         /\ heap[f].trailer \subseteq DOMAIN heap[f].objs
         /\ heap[f].objs \in [DOMAIN heap[f].objs -> Entry]
         /\ heap[f].generation \in 0 .. MAX_GENERATION
         /\ \A o \in DOMAIN heap[f].objs :
              /\ heap[f].objs[o].off \in Nat
              /\ heap[f].objs[o].del \in BOOLEAN
<1>1. /\ f \in FamLocations
      /\ DOMAIN heap[f].objs \subseteq ObjectIds
      /\ heap[f] \in HeapFile(DOMAIN heap[f].objs)
  BY DEF TypeOK
<1>2. /\ heap[f].trailer \subseteq DOMAIN heap[f].objs
      /\ heap[f].objs \in [DOMAIN heap[f].objs -> Entry]
      /\ heap[f].generation \in 0 .. MAX_GENERATION
  BY <1>1 DEF HeapFile
<1> QED BY <1>1, <1>2 DEF Entry

(* A location of a file of the map leads to that file and to no other.     *)
LEMMA OwnerIsFamFor ==
  ASSUME TypeOK, FilesInv, NEW f, NEW o, NEW l, OwnedBy(f, o, l)
  PROVE  HasFamFor(fams, l) /\ FamFor(fams, l) = f
<1>1. f \in DOMAIN fams /\ o \in DOMAIN fams[f].objs /\ l = At(f, o)
  BY DEF OwnedBy
<1>2. \A g \in DOMAIN fams : Disjoint(f, fams[f].objs, g)
  BY <1>1 DEF FilesInv, Files, ObjsOf
<1>3. Placed(f, fams[f].objs)
  BY <1>1 DEF FilesInv, Files, ObjsOf
<1>4. DOMAIN fams \subseteq FamLocations
  BY DEF TypeOK, FileMapTypeOK
<1> QED BY <1>1, <1>2, <1>3, <1>4, FamForOwner, FamTypes DEF Placed, At

(* Two files never hold an object at the same location.                    *)
LEMMA OwnerUnique ==
  ASSUME TypeOK, FilesInv, NEW f, NEW g, NEW o, NEW l,
         OwnedBy(f, o, l), OwnedBy(g, o, l)
  PROVE  f = g
BY OwnerIsFamFor

(***************************************************************************)
(* Every step preserves the type invariant.                                *)
(***************************************************************************)
(* An empty store is well typed.                                           *)
LEMMA InitType == Init => TypeOK
BY BoundsAssumption, ObjectIdsAssumption, BitAssumption
DEF Init, TypeOK, FileMapTypeOK, EmptyTable, EmptyBatch, PCs, MAX_GENERATION, Top

(* The next file of an iteration is the last one below the cursor.         *)
LEMMA NextFamType ==
  ASSUME TypeOK, NEW c \in Nat, HasNextFam(c)
  PROVE  /\ NextFam(c) \in DOMAIN fams /\ NextFam(c) < c
         /\ \A g \in DOMAIN fams : g < c => g <= NextFam(c)
<1> DEFINE S == {f \in DOMAIN fams : f < c}
<1>1. DOMAIN fams \subseteq Nat
  BY FamTypes, FamLocationFacts
<1>2. S \subseteq Nat /\ S # {} /\ \A x \in S : x <= c
  BY <1>1 DEF HasNextFam
<1>3. PICK m \in S : \A x \in S : x <= m
  <2> HIDE DEF S
  <2> QED BY <1>2, BoundedHasMax
<1>4. m \in DOMAIN fams /\ m < c /\ \A g \in DOMAIN fams : g < c => g <= m
  BY <1>3
<1> QED BY <1>4 DEF NextFam

(* A call of write_batch records a well-typed batch.                       *)
LEMMA TypeWriteBatch ==
  ASSUME TypeOK, NEW t \in Threads, WriteBatch(t)
  PROVE  TypeOK'
<1>1. PICK ids \in SUBSET ObjectIds : \E deleted \in SUBSET ids :
        /\ batch' = [batch EXCEPT ![t] =
                       [o \in ids |-> [del |-> o \in deleted,
                                       val |-> calls + 1, old |-> Null]]]
        /\ rest' = [rest EXCEPT ![t] = ids]
  BY DEF WriteBatch
<1>2. /\ DOMAIN batch' = Threads
      /\ rest' \in [Threads -> SUBSET ObjectIds]
      /\ \A u \in Threads : u # t => batch'[u] = batch[u] /\ rest'[u] = rest[u]
      /\ DOMAIN batch'[t] = ids /\ rest'[t] = ids
  BY <1>1 DEF TypeOK
<1>3. batch'[t] \in [ids -> Item]
  BY <1>1, BoundsAssumption DEF TypeOK, Item
<1>4. \A u \in Threads : /\ DOMAIN batch'[u] \subseteq ObjectIds
                         /\ batch'[u] \in [DOMAIN batch'[u] -> Item]
                         /\ rest'[u] \subseteq DOMAIN batch'[u]
  BY <1>2, <1>3 DEF TypeOK
<1>5. /\ calls' \in 0 .. MaxCalls
      /\ pc' \in [Threads -> PCs]
      /\ gen' \in [Threads -> 0 .. MAX_GENERATION]
  BY BoundsAssumption DEF TypeOK, WriteBatch, Goto, PCs, MAX_GENERATION
<1>6. UNCHANGED <<location_table, fams, next_file_lsn, heap, sweeping, base, todo,
                  failed, replaced, claims, queue, reading, cursor, fam_len,
                  sweeps, crashes, order, latest>>
  BY DEF WriteBatch, shared, inner, maint, history
<1> QED BY <1>2, <1>4, <1>5, <1>6 DEF TypeOK, FileMapTypeOK

(* compare_exchange and fetch_max store a location of the file being       *)
(* written.                                                                *)
LEMMA TypeInstall ==
  ASSUME TypeOK, HoldersInv, NEW t \in Threads, NEW o \in ObjectIds, Install(t, o)
  PROVE  TypeOK'
<1>1. base[t] \in DOMAIN fams /\ o \in DOMAIN fams[base[t]].objs
  BY DEF HoldersInv, Working, Install
<1>2. LocationIn(base[t], fams[base[t]].objs, o) \in Nat
  BY <1>1, FamTypes DEF At
<1>3. location_table' \in [ObjectIds -> Nat]
  BY <1>2 DEF TypeOK, Install, Cas, FetchMax
<1>4. replaced' \in [Threads -> SUBSET (ObjectIds \X Nat)]
  BY DEF TypeOK, Install
<1>5. todo' \in [Threads -> SUBSET ObjectIds] /\ failed' \in [Threads -> SUBSET ObjectIds]
  BY DEF TypeOK, Install
<1> QED BY <1>3, <1>4, <1>5
  DEF TypeOK, FileMapTypeOK, Install, maint, bounds, history

(* The renamed file has the contents of the open one.                      *)
LEMMA TypeCommit ==
  ASSUME TypeOK, HoldersInv, NEW t \in Threads, Commit(t)
  PROVE  TypeOK'
<1>1. base[t] \in DOMAIN fams
  BY DEF HoldersInv, Working, Commit
<1> DEFINE F == fams[base[t]]
<1>2. /\ base[t] \in FamLocations /\ DOMAIN F.objs \subseteq ObjectIds
      /\ F.objs \in [DOMAIN F.objs -> Entry] /\ F.generation \in 0 .. MAX_GENERATION
      /\ Trailer(t) \subseteq DOMAIN F.objs
  BY <1>1, FamTypes DEF Fam, Trailer
<1>3. DOMAIN heap' \subseteq FamLocations
  BY <1>2 DEF TypeOK, Commit, Rename
<1>4. ASSUME NEW f \in DOMAIN heap'
      PROVE  /\ DOMAIN heap'[f].objs \subseteq ObjectIds
             /\ heap'[f] \in HeapFile(DOMAIN heap'[f].objs)
  <2>1. CASE f = base[t]
    BY <1>2, <2>1 DEF Commit, Rename, HeapFile
  <2>2. CASE f # base[t]
    BY <2>2 DEF TypeOK, Commit, Rename
  <2> QED BY <2>1, <2>2
<1>5. latest' \in [ObjectIds -> Nat]
  BY <1>1, <1>2, FamTypes DEF TypeOK, Commit, Rename
<1>6. pc' \in [Threads -> PCs]
  BY DEF TypeOK, Commit, Goto, PCs
<1> QED BY <1>3, <1>4, <1>5, <1>6
  DEF TypeOK, FileMapTypeOK, Commit, inner, maint, bounds

(* The updates of the file map.                                            *)
FamsType(files) ==
  /\ DOMAIN files \subseteq FamLocations
  /\ \A f \in DOMAIN files : /\ DOMAIN files[f].objs \subseteq ObjectIds
                             /\ files[f] \in Fam(DOMAIN files[f].objs)

(* Setting or resetting a claim keeps the types and every other field.     *)
LEMMA ClaimUpdate ==
  ASSUME FamsType(fams), NEW f, ReleaseClaim(f) \/ TakeClaim(f)
  PROVE  /\ FamsType(fams')
         /\ DOMAIN fams' = DOMAIN fams
         /\ \A g \in DOMAIN fams :
              /\ fams'[g].objs = fams[g].objs /\ fams'[g].live = fams[g].live
              /\ fams'[g].size = fams[g].size
              /\ g # f => fams'[g] = fams[g]
         /\ f \in DOMAIN fams /\ ReleaseClaim(f) => fams'[f].claim = FALSE
         /\ f \in DOMAIN fams /\ TakeClaim(f) => fams'[f].claim = TRUE
<1>1. ASSUME NEW b \in BOOLEAN, fams' = [fams EXCEPT ![f].claim = b]
      PROVE  /\ FamsType(fams')
             /\ DOMAIN fams' = DOMAIN fams
             /\ \A g \in DOMAIN fams :
                  /\ fams'[g].objs = fams[g].objs /\ fams'[g].live = fams[g].live
                  /\ fams'[g].size = fams[g].size
                  /\ g # f => fams'[g] = fams[g]
             /\ f \in DOMAIN fams => fams'[f].claim = b
  <2>1. DOMAIN fams' = DOMAIN fams
    BY <1>1
  <2>2. ASSUME NEW g \in DOMAIN fams
        PROVE  /\ DOMAIN fams'[g].objs \subseteq ObjectIds
               /\ fams'[g] \in Fam(DOMAIN fams'[g].objs)
               /\ fams'[g].objs = fams[g].objs /\ fams'[g].live = fams[g].live
               /\ fams'[g].size = fams[g].size
               /\ g # f => fams'[g] = fams[g]
               /\ g = f => fams'[g].claim = b
    BY <1>1 DEF FamsType, Fam
  <2> QED BY <2>1, <2>2 DEF FamsType
<1>2. ReleaseClaim(f) => fams' = [fams EXCEPT ![f].claim = FALSE]
  BY DEF ReleaseClaim
<1>3. TakeClaim(f) => fams' = [fams EXCEPT ![f].claim = TRUE]
  BY DEF TakeClaim
<1> QED BY <1>1, <1>2, <1>3

(* Subtracting from a live count keeps the types and every other field.    *)
LEMMA LiveUpdate ==
  ASSUME FamsType(fams), NEW f, NEW n \in Int,
         fams' = [fams EXCEPT ![f].live = @ - n]
  PROVE  /\ FamsType(fams')
         /\ DOMAIN fams' = DOMAIN fams
         /\ \A g \in DOMAIN fams :
              /\ fams'[g].objs = fams[g].objs /\ fams'[g].claim = fams[g].claim
              /\ fams'[g].size = fams[g].size
              /\ g # f => fams'[g] = fams[g]
         /\ f \in DOMAIN fams => fams'[f].live = fams[f].live - n
<1>1. DOMAIN fams' = DOMAIN fams
  OBVIOUS
<1>2. ASSUME NEW g \in DOMAIN fams
      PROVE  /\ DOMAIN fams'[g].objs \subseteq ObjectIds
             /\ fams'[g] \in Fam(DOMAIN fams'[g].objs)
             /\ fams'[g].objs = fams[g].objs /\ fams'[g].claim = fams[g].claim
             /\ fams'[g].size = fams[g].size
             /\ g # f => fams'[g] = fams[g]
             /\ g = f => fams'[g].live = fams[g].live - n
  BY DEF FamsType, Fam
<1> QED BY <1>1, <1>2 DEF FamsType

(* Installing the size with a new live count keeps the types and the other *)
(* fields.                                                                 *)
LEMMA FinalizeUpdate ==
  ASSUME FamsType(fams), NEW f, NEW n \in Int, NEW s \in Nat,
         fams' = [fams EXCEPT ![f].size = s, ![f].live = @ - n]
  PROVE  /\ FamsType(fams')
         /\ DOMAIN fams' = DOMAIN fams
         /\ \A g \in DOMAIN fams :
              /\ fams'[g].objs = fams[g].objs /\ fams'[g].claim = fams[g].claim
              /\ g # f => fams'[g] = fams[g]
         /\ f \in DOMAIN fams => fams'[f].live = fams[f].live - n
<1>1. DOMAIN fams' = DOMAIN fams
  OBVIOUS
<1>2. ASSUME NEW g \in DOMAIN fams
      PROVE  /\ DOMAIN fams'[g].objs \subseteq ObjectIds
             /\ fams'[g] \in Fam(DOMAIN fams'[g].objs)
             /\ fams'[g].objs = fams[g].objs /\ fams'[g].claim = fams[g].claim
             /\ g # f => fams'[g] = fams[g]
             /\ g = f => fams'[g].live = fams[g].live - n
  BY DEF FamsType, Fam
<1> QED BY <1>1, <1>2 DEF FamsType

(* Taking a file out of the map leaves the others as they are.             *)
LEMMA RemoveUpdate ==
  ASSUME FamsType(fams), NEW f, RemoveFam(f)
  PROVE  /\ FamsType(fams')
         /\ DOMAIN fams' = DOMAIN fams \ {f}
         /\ \A g \in DOMAIN fams' : fams'[g] = fams[g]
BY DEF FamsType, RemoveFam

(* The file map of a well-typed state is well typed.                       *)
LEMMA TypeFams == TypeOK => FamsType(fams)
BY DEF TypeOK, FileMapTypeOK, FamsType

(* What is written for a part of a batch: well-typed entries, at offsets   *)
(* inside the data.                                                        *)
LEMMA ContentsType ==
  ASSUME TypeOK, NEW t \in Threads, NEW part \in SUBSET rest[t]
  PROVE  LET objs == Contents(batch[t], part)
         IN  /\ DOMAIN objs = part /\ part \subseteq ObjectIds
             /\ objs \in [part -> Entry]
             /\ \A o \in part : objs[o].off <= DataLen(objs)
<1> DEFINE objs == Contents(batch[t], part)
           data == {o \in part : ~ objs[o].del}
<1>1. DOMAIN objs = part /\ part \subseteq ObjectIds
  BY DEF Contents, TypeOK
<1>2. IsFiniteSet(data) /\ Cardinality(data) \in Nat
  BY <1>1, FiniteObjectIds, FS_Subset, FS_CardinalityType
<1>3. ASSUME NEW o \in part
      PROVE  /\ objs[o] \in Entry
             /\ objs[o].off <= Cardinality(data)
  <2> DEFINE before == {p \in part : p < o /\ ~ batch[t][p].del}
  <2>1. batch[t][o] \in Item
    BY DEF TypeOK
  <2>2. before \in SUBSET data
    BY DEF Contents
  <2>3. Cardinality(before) \in Nat /\ Cardinality(before) <= Cardinality(data)
    <3> HIDE DEF before, data
    <3> QED BY <1>2, <2>2, FS_Subset, FS_CardinalityType
  <2>4. /\ objs[o] = [off |-> IF batch[t][o].del THEN 0 ELSE Cardinality(before),
                      del |-> batch[t][o].del, val |-> batch[t][o].val]
    BY DEF Contents
  <2> HIDE DEF before, data, objs
  <2> QED BY <1>2, <2>1, <2>3, <2>4 DEF Item, Entry
<1>4. DataLen(objs) = Cardinality(data)
  BY <1>1 DEF DataLen
<1>5. objs \in [part -> Entry]
  BY <1>3 DEF Contents
<1> QED BY <1>1, <1>3, <1>4, <1>5

(* Dividing the proof that a step keeps the types: the file map and the    *)
(* thread's own variables.                                                 *)
LEMMA TypeInsertPart ==
  ASSUME TypeOK, FilesInv, NEW t \in Threads, InsertPart(t)
  PROVE  TypeOK'
<1>1. PICK part \in (SUBSET rest[t]) \ {{}} :
        LET objs == Contents(batch[t], part)
            f == NewFam(StampLsn(next_file_lsn, gen[t] # 0))
        IN  /\ next_file_lsn + DataLen(objs) + 1 <= NewWriteBatchBit
            /\ InsertFam(f, objs, gen[t])
            /\ base' = [base EXCEPT ![t] = f]
            /\ todo' = [todo EXCEPT ![t] = part]
            /\ rest' = [rest EXCEPT ![t] = @ \ part]
            /\ order' = [c \in DOMAIN order |->
                           IF gen[t] = 0 /\ \E o \in part : batch[t][o].val = c
                           THEN next_file_lsn ELSE order[c]]
  BY DEF InsertPart
<1> DEFINE objs == Contents(batch[t], part)
           f == NewFam(StampLsn(next_file_lsn, gen[t] # 0))
<1>2. /\ DOMAIN objs = part /\ part \subseteq ObjectIds /\ objs \in [part -> Entry]
      /\ DataLen(objs) \in Nat /\ Cardinality(part) \in Nat
  BY ContentsType, DataLenType, FiniteObjectIds, FS_Subset, FS_CardinalityType
<1>3. f \in FamLocations /\ f \in Nat
  <2>1. next_file_lsn \in Nat /\ next_file_lsn < NewWriteBatchBit
    BY <1>1, <1>2, BitAssumption DEF TypeOK, FileMapTypeOK
  <2>2. f \in FamLocations
    BY <2>1, StampFacts
  <2> HIDE DEF f
  <2> QED BY <2>2, FamLocationFacts
<1> HIDE DEF objs, f
<1>4. FileMapTypeOK'
  <2>1. next_file_lsn' \in Nat
    BY <1>1, <1>2 DEF InsertFam, TypeOK, FileMapTypeOK, objs
  <2>2. DOMAIN fams' = DOMAIN fams \cup {f}
    BY <1>1 DEF InsertFam, f
  <2>3. /\ fams'[f] = [objs |-> objs, live |-> Cardinality(DOMAIN objs),
                       generation |-> gen[t], claim |-> TRUE, size |-> 0]
        /\ \A g \in DOMAIN fams : g # f => fams'[g] = fams[g]
    BY <1>1 DEF InsertFam, f, objs
  <2>4. gen[t] \in 0 .. MAX_GENERATION
    BY DEF TypeOK
  <2>5. fams'[f] \in Fam(part) /\ DOMAIN fams'[f].objs = part
    BY <1>2, <2>3, <2>4 DEF Fam
  <2> QED BY <1>2, <1>3, <2>1, <2>2, <2>3, <2>5 DEF TypeOK, FileMapTypeOK
<1>5. /\ base' \in [Threads -> Nat] /\ todo' \in [Threads -> SUBSET ObjectIds]
      /\ rest' \in [Threads -> SUBSET ObjectIds]
      /\ \A u \in Threads : rest'[u] \subseteq DOMAIN batch[u]
      /\ pc' \in [Threads -> PCs]
  BY <1>1, <1>2, <1>3 DEF TypeOK, InsertPart, Goto, PCs, f
<1>6. order' \in [0 .. MaxCalls -> Nat]
  BY <1>1 DEF TypeOK, FileMapTypeOK
<1> QED BY <1>4, <1>5, <1>6
  DEF TypeOK, InsertPart, maint, bounds

(* Dropping a file of which nothing was installed keeps the types.         *)
LEMMA TypeAbandon ==
  ASSUME TypeOK, NEW t \in Threads, Abandon(t)
  PROVE  TypeOK'
<1>1. FileMapTypeOK'
  BY DEF TypeOK, FileMapTypeOK, Abandon, RemoveFam
<1> QED BY <1>1
  DEF TypeOK, Abandon, PartDone, Goto, PCs, EmptyBatch, maint, bounds, history

(* Decrementing a live count keeps the types.                              *)
LEMMA TypeEvacuate ==
  ASSUME TypeOK, NEW t \in Threads, Evacuate(t)
  PROVE  TypeOK'
<1>1. PICK f : fams' = [fams EXCEPT ![f].live = @ - 1]
  BY DEF Evacuate, DecrementFam
<1>2. FamsType(fams')
  <2> DEFINE n == 1
  <2>1. n \in Int /\ fams' = [fams EXCEPT ![f].live = @ - n]
    BY <1>1
  <2> HIDE DEF n
  <2> QED BY <2>1, TypeFams, LiveUpdate
<1>3. FileMapTypeOK'
  BY <1>2 DEF FamsType, TypeOK, FileMapTypeOK, Evacuate
<1>4. replaced' \in [Threads -> SUBSET (ObjectIds \X Nat)]
  BY DEF TypeOK, Evacuate
<1>5. UNCHANGED <<location_table, heap, pc, sweeping, gen, batch, rest, base, todo,
                  failed, claims, queue, reading, cursor, fam_len, calls, sweeps,
                  crashes, order, latest>>
  BY DEF Evacuate, maint, bounds, history
<1> QED BY <1>3, <1>4, <1>5 DEF TypeOK

(* The size of a file is a positive number.                                *)
LEMMA FileSizeType ==
  ASSUME NEW objs, NEW trailer,
         DOMAIN objs \subseteq ObjectIds, trailer \subseteq DOMAIN objs
  PROVE  /\ FileSize(objs, trailer) \in Nat
         /\ DataLen(objs) \in Nat
         /\ DataLen(objs) < FileSize(objs, trailer)
         /\ FileSize(objs, trailer) <= 2 * Cardinality(ObjectIds) + 1
<1>1. DataLen(objs) \in Nat /\ DataLen(objs) <= Cardinality(ObjectIds)
  BY DataLenType
<1>2. /\ Cardinality(trailer) \in Nat
      /\ Cardinality(trailer) <= Cardinality(ObjectIds)
      /\ Cardinality(ObjectIds) \in Nat
  BY FiniteObjectIds, FS_Subset, FS_CardinalityType
<1> QED BY <1>1, <1>2 DEF FileSize

(* finalize_fam leaves the contents and the claims of all files alone.     *)
LEMMA FinalizeFields ==
  ASSUME TypeOK, HoldersInv, FilesInv, NEW t \in Threads, Finalize(t)
  PROVE  /\ FamsType(fams')
         /\ DOMAIN fams' = DOMAIN fams
         /\ \A g \in DOMAIN fams :
              /\ fams'[g].objs = fams[g].objs /\ fams'[g].claim = fams[g].claim
              /\ g # base[t] => fams'[g] = fams[g]
         /\ base[t] \in DOMAIN fams
         /\ fams'[base[t]].live = fams[base[t]].live - Cardinality(failed[t])
<1> DEFINE size == FileSize(fams[base[t]].objs, heap[base[t]].trailer)
           sub == Cardinality(failed[t])
<1>1. base[t] \in DOMAIN fams /\ base[t] \in DOMAIN heap
  BY DEF HoldersInv, Working, Finalize
<1>2. size \in Nat
  BY <1>1, FamTypes, HeapTypes, FileSizeType DEF FilesInv, ObjsOf
<1>3. sub \in Int
  BY FiniteObjectIds, FS_Subset, FS_CardinalityType DEF TypeOK
<1>4. fams' = [fams EXCEPT ![base[t]].size = size, ![base[t]].live = @ - sub]
  BY DEF Finalize, FinalizeFam
<1> HIDE DEF size, sub
<1>5. /\ FamsType(fams')
      /\ DOMAIN fams' = DOMAIN fams
      /\ \A g \in DOMAIN fams :
           /\ fams'[g].objs = fams[g].objs /\ fams'[g].claim = fams[g].claim
           /\ g # base[t] => fams'[g] = fams[g]
      /\ base[t] \in DOMAIN fams => fams'[base[t]].live = fams[base[t]].live - sub
  BY <1>2, <1>3, <1>4, TypeFams, FinalizeUpdate
<1> QED BY <1>1, <1>5 DEF sub

(* finalize_fam keeps the types.                                           *)
LEMMA TypeFinalize ==
  ASSUME TypeOK, HoldersInv, FilesInv, NEW t \in Threads, Finalize(t)
  PROVE  TypeOK'
<1>1. FileMapTypeOK'
  BY FinalizeFields DEF FamsType, TypeOK, FileMapTypeOK, Finalize
<1> QED BY <1>1
  DEF TypeOK, Finalize, Goto, PCs, maint, bounds, history

(* Releasing the writer's claim keeps the types.                           *)
LEMMA TypeUnclaim ==
  ASSUME TypeOK, NEW t \in Threads, Unclaim(t)
  PROVE  TypeOK'
<1>1. FileMapTypeOK'
  BY TypeFams, ClaimUpdate DEF FamsType, TypeOK, FileMapTypeOK, Unclaim
<1> QED BY <1>1
  DEF TypeOK, Unclaim, PartDone, Goto, PCs, EmptyBatch, maint, bounds, history

(* The number of open files is a natural number: there are finitely many.  *)
LEMMA TypeStartMaintenance ==
  ASSUME TypeOK, FilesInv, NEW t \in Threads, StartMaintenance(t)
  PROVE  TypeOK'
<1>1. Cardinality(DOMAIN fams) \in Nat
  <2>1. DOMAIN fams \subseteq Nat
    BY FamTypes, FamLocationFacts
  <2>2. ASSUME NEW f \in DOMAIN fams PROVE f <= 4 * NewWriteBatchBit
    <3>1. LsnOf(f) < 2 * NewWriteBatchBit /\ LsnOf(f) \in Nat /\ f = 2 * LsnOf(f)
      BY FamTypes, FamLocationFacts DEF FilesInv, Files, Placed
    <3> QED BY <3>1, BitAssumption
  <2>3. IsFiniteSet(DOMAIN fams)
    <3> DEFINE n == 4 * NewWriteBatchBit
    <3>1. n \in Nat
      BY BitAssumption
    <3> HIDE DEF n
    <3>2. \A f \in DOMAIN fams : f <= n
      BY <2>2 DEF n
    <3> QED BY <2>1, <3>1, <3>2, FS_BoundedSetOfNaturals
  <2> QED BY <2>3, FS_CardinalityType
<1>2. Top \in 0 .. Top
  BY BitAssumption DEF Top
<1>3. /\ sweeps' \in 0 .. MaxSweeps /\ sweeping' \in SUBSET Threads
      /\ pc' \in [Threads -> PCs]
  BY BoundsAssumption DEF TypeOK, StartMaintenance, Goto, PCs
<1>4. /\ fam_len' \in [Threads -> Nat]
      /\ cursor' \in [Threads -> 0 .. Top]
  BY <1>1, <1>2 DEF TypeOK, StartMaintenance
<1>5. UNCHANGED <<location_table, fams, next_file_lsn, heap, gen, batch, rest, base,
                  todo, failed, replaced, claims, queue, reading, calls, crashes,
                  order, latest>>
  BY DEF StartMaintenance, shared, inner, history
<1> QED BY <1>3, <1>4, <1>5 DEF TypeOK, FileMapTypeOK

(* The cursor of files_to_defrag stays between 0 and Top.                  *)
LEMMA TypeScan ==
  ASSUME TypeOK, NEW t \in Threads, Scan(t)
  PROVE  TypeOK'
<1>1. cursor' \in [Threads -> 0 .. Top]
  <2>1. cursor[t] \in Nat /\ cursor[t] <= Top /\ Top \in Nat
    BY BitAssumption DEF TypeOK, Top
  <2>2. CASE HasNextFam(cursor[t])
    <3>1. NextFam(cursor[t]) \in Nat /\ NextFam(cursor[t]) < cursor[t]
      BY <2>1, <2>2, NextFamType, FamTypes, FamLocationFacts
    <3>2. NextFam(cursor[t]) \in 0 .. Top
      BY <2>1, <3>1
    <3>3. cursor' = [cursor EXCEPT ![t] = NextFam(cursor[t])]
      BY <2>2 DEF Scan
    <3> QED BY <3>2, <3>3 DEF TypeOK
  <2>3. CASE ~ HasNextFam(cursor[t])
    <3>1. cursor' = [cursor EXCEPT ![t] = Top]
      BY <2>3 DEF Scan
    <3> QED BY <2>1, <3>1 DEF TypeOK
  <2> QED BY <2>2, <2>3
<1>2. pc' \in [Threads -> PCs]
  <2>1. \E label \in PCs : pc' = [pc EXCEPT ![t] = label]
    BY DEF Scan, Goto, PCs
  <2> QED BY <2>1 DEF TypeOK
<1> QED BY <1>1, <1>2
  DEF TypeOK, FileMapTypeOK, Scan, shared, inner, bounds, history

(* The swap of rewrite_claim keeps the types.                              *)
LEMMA TypeClaim ==
  ASSUME TypeOK, NEW t \in Threads, Claim(t)
  PROVE  TypeOK'
<1>1. FileMapTypeOK'
  BY TypeFams, ClaimUpdate DEF FamsType, TypeOK, FileMapTypeOK, Claim
<1>2. /\ claims' \in [Threads -> SUBSET FamLocations]
      /\ queue' \in [Threads -> SUBSET FamLocations]
  BY DEF TypeOK, FileMapTypeOK, Claim
<1> QED BY <1>1, <1>2
  DEF TypeOK, Claim, Goto, PCs, inner, bounds, history

(* The generation that objects move to is at most MAX_GENERATION.          *)
LEMMA TypeRewrite ==
  ASSUME TypeOK, HoldersInv, NEW t \in Threads, Rewrite(t)
  PROVE  TypeOK'
<1>1. ASSUME NEW f \in queue[t] PROVE NextGeneration(f) \in 0 .. MAX_GENERATION
  BY FamTypes DEF HoldersInv, NextGeneration, MAX_GENERATION
<1>2. /\ gen' \in [Threads -> 0 .. MAX_GENERATION]
      /\ queue' \in [Threads -> SUBSET FamLocations]
      /\ reading' \in [Threads -> SUBSET FamLocations]
      /\ pc' \in [Threads -> PCs]
  <2>1. CASE queue[t] = {} /\ Goto(t, "release") /\ UNCHANGED <<gen, queue, reading>>
    BY <2>1 DEF TypeOK, Goto, PCs
  <2>2. ASSUME NEW g \in {NextGeneration(f) : f \in queue[t]}, NEW group,
               group \subseteq queue[t],
               queue' = [queue EXCEPT ![t] = @ \ group],
               reading' = reading \/ reading' = [reading EXCEPT ![t] = group],
               gen' = gen \/ gen' = [gen EXCEPT ![t] = g],
               Goto(t, "rewrite") \/ Goto(t, "read")
        PROVE  /\ gen' \in [Threads -> 0 .. MAX_GENERATION]
               /\ queue' \in [Threads -> SUBSET FamLocations]
               /\ reading' \in [Threads -> SUBSET FamLocations]
               /\ pc' \in [Threads -> PCs]
    <3>1. g \in 0 .. MAX_GENERATION
      BY <1>1
    <3>2. gen' \in [Threads -> 0 .. MAX_GENERATION]
      <4>1. gen \in [Threads -> 0 .. MAX_GENERATION]
        BY DEF TypeOK
      <4> QED BY <2>2, <3>1, <4>1
    <3>3. queue' \in [Threads -> SUBSET FamLocations]
      BY <2>2 DEF TypeOK
    <3>4. reading' \in [Threads -> SUBSET FamLocations]
      <4>1. group \in SUBSET FamLocations
        BY <2>2 DEF TypeOK
      <4>2. CASE reading' = [reading EXCEPT ![t] = group]
        BY <4>1, <4>2 DEF TypeOK
      <4> QED BY <2>2, <4>2 DEF TypeOK
    <3>5. pc' \in [Threads -> PCs]
      BY <2>2 DEF TypeOK, Goto, PCs
    <3> QED BY <3>2, <3>3, <3>4, <3>5
  <2>3. CASE ~ (queue[t] = {} /\ Goto(t, "release") /\ UNCHANGED <<gen, queue, reading>>)
    <3>1. PICK g \in {NextGeneration(f) : f \in queue[t]} :
            LET group == {f \in queue[t] : NextGeneration(f) = g}
                skip == Cardinality(group) < MinCompactionFiles
            IN  /\ queue' = [queue EXCEPT ![t] = @ \ group]
                /\ reading' = IF skip THEN reading
                              ELSE [reading EXCEPT ![t] = group]
                /\ gen' = IF skip THEN gen ELSE [gen EXCEPT ![t] = g]
                /\ Goto(t, IF skip THEN "rewrite" ELSE "read")
      BY <2>3 DEF Rewrite
    <3> DEFINE group == {f \in queue[t] : NextGeneration(f) = g}
    <3>2. group \subseteq queue[t]
      OBVIOUS
    <3>3. /\ queue' = [queue EXCEPT ![t] = @ \ group]
          /\ reading' = reading \/ reading' = [reading EXCEPT ![t] = group]
          /\ gen' = gen \/ gen' = [gen EXCEPT ![t] = g]
          /\ Goto(t, "rewrite") \/ Goto(t, "read")
      BY <3>1
    <3> HIDE DEF group
    <3> QED BY <2>2, <3>2, <3>3
  <2> QED BY <2>1, <2>3
<1> QED BY <1>2
  DEF TypeOK, FileMapTypeOK, Rewrite, shared, inner, bounds, history

(* What survives of a file joins the batch with its types.                 *)
LEMMA TypeReadFile ==
  ASSUME TypeOK, HoldersInv, NEW t \in Threads, ReadFile(t)
  PROVE  TypeOK'
<1>1. PICK f \in reading[t] :
        LET items == [o \in DOMAIN batch[t] \cup Survivors(f) |->
                        IF o \in Survivors(f)
                        THEN [del |-> fams[f].objs[o].del,
                              val |-> fams[f].objs[o].val,
                              old |-> location_table[o]]
                        ELSE batch[t][o]]
            last == reading[t] = {f}
        IN  /\ batch' = [batch EXCEPT ![t] = items]
            /\ reading' = [reading EXCEPT ![t] = @ \ {f}]
            /\ rest' = IF last THEN [rest EXCEPT ![t] = DOMAIN items] ELSE rest
            /\ Goto(t, IF ~ last THEN "read"
                       ELSE IF DOMAIN items # {} THEN "insert" ELSE "rewrite")
  BY DEF ReadFile
<1> DEFINE items == [o \in DOMAIN batch[t] \cup Survivors(f) |->
                       IF o \in Survivors(f)
                       THEN [del |-> fams[f].objs[o].del,
                             val |-> fams[f].objs[o].val,
                             old |-> location_table[o]]
                       ELSE batch[t][o]]
<1>2. f \in DOMAIN fams
  BY DEF HoldersInv
<1>3. DOMAIN items = DOMAIN batch[t] \cup Survivors(f)
  OBVIOUS
<1>4. Survivors(f) \subseteq DOMAIN fams[f].objs /\ DOMAIN items \subseteq ObjectIds
  BY <1>2, FamTypes DEF Survivors, TypeOK
<1>5. ASSUME NEW o \in DOMAIN items PROVE items[o] \in Item
  <2>1. CASE o \in Survivors(f)
    <3>1. /\ fams[f].objs[o].del \in BOOLEAN /\ fams[f].objs[o].val \in Nat
          /\ location_table[o] \in Nat
      BY <1>2, <1>4, <2>1, FamTypes DEF TypeOK
    <3>2. items[o] = [del |-> fams[f].objs[o].del, val |-> fams[f].objs[o].val,
                      old |-> location_table[o]]
      BY <2>1
    <3> HIDE DEF items
    <3> QED BY <3>1, <3>2 DEF Item
  <2>2. CASE o \notin Survivors(f)
    BY <2>2 DEF TypeOK
  <2> QED BY <2>1, <2>2
<1>6. items \in [DOMAIN items -> Item]
  BY <1>5
<1>7. /\ DOMAIN batch' = Threads
      /\ batch'[t] = items /\ \A u \in Threads : u # t => batch'[u] = batch[u]
  BY <1>1 DEF TypeOK
<1> HIDE DEF items
<1>8. \A u \in Threads : /\ DOMAIN batch'[u] \subseteq ObjectIds
                         /\ batch'[u] \in [DOMAIN batch'[u] -> Item]
  BY <1>4, <1>6, <1>7 DEF TypeOK
<1>9. /\ rest' \in [Threads -> SUBSET ObjectIds]
      /\ \A u \in Threads : rest'[u] \subseteq DOMAIN batch'[u]
  BY <1>1, <1>3, <1>4, <1>7 DEF TypeOK, items
<1>10. reading' \in [Threads -> SUBSET FamLocations] /\ pc' \in [Threads -> PCs]
  BY <1>1 DEF TypeOK, Goto, PCs
<1> QED BY <1>7, <1>8, <1>9, <1>10
  DEF TypeOK, FileMapTypeOK, ReadFile, shared, inner, bounds, history

(* Releasing the claims of maintenance keeps the types.                    *)
LEMMA TypeRelease ==
  ASSUME TypeOK, NEW t \in Threads, Release(t)
  PROVE  TypeOK'
<1>1. FileMapTypeOK'
  BY TypeFams, ClaimUpdate DEF FamsType, TypeOK, FileMapTypeOK, Release
<1>2. claims' \in [Threads -> SUBSET FamLocations]
  <2>1. claims' = claims \/ \E f : claims' = [claims EXCEPT ![t] = @ \ {f}]
    BY DEF Release
  <2>2. ASSUME NEW f, claims' = [claims EXCEPT ![t] = @ \ {f}]
        PROVE  claims' \in [Threads -> SUBSET FamLocations]
    BY <2>2 DEF TypeOK
  <2> QED BY <2>1, <2>2 DEF TypeOK
<1>3. pc' \in [Threads -> PCs]
  BY DEF TypeOK, Release, Goto, PCs
<1> QED BY <1>1, <1>2, <1>3
  DEF TypeOK, Release, inner, bounds, history

(* The first loop of prune_empty_files keeps the types.                    *)
LEMMA TypePrune ==
  ASSUME TypeOK, NEW t \in Threads, Prune(t)
  PROVE  TypeOK'
<1>1. FileMapTypeOK'
  BY TypeFams, ClaimUpdate DEF FamsType, TypeOK, FileMapTypeOK, Prune
<1>2. cursor[t] \in Nat /\ cursor[t] <= Top /\ Top \in Nat
  BY BitAssumption DEF TypeOK, Top
<1>3. CASE HasNextFam(cursor[t])
  <2>1. /\ NextFam(cursor[t]) \in Nat /\ NextFam(cursor[t]) < cursor[t]
        /\ NextFam(cursor[t]) \in FamLocations
    BY <1>2, <1>3, NextFamType, FamTypes, FamLocationFacts
  <2>2. NextFam(cursor[t]) \in 0 .. Top
    BY <1>2, <2>1
  <2>3. cursor' \in [Threads -> 0 .. Top] /\ claims' \in [Threads -> SUBSET FamLocations]
    <3>1. /\ cursor' = [cursor EXCEPT ![t] = NextFam(cursor[t])] /\ pc' = pc
          /\ \/ claims' = claims
             \/ claims' = [claims EXCEPT ![t] = @ \cup {NextFam(cursor[t])}]
      BY <1>3 DEF Prune
    <3>2. claims[t] \cup {NextFam(cursor[t])} \in SUBSET FamLocations
      BY <2>1 DEF TypeOK
    <3>3. claims' \in [Threads -> SUBSET FamLocations]
      <4>1. CASE claims' = [claims EXCEPT ![t] = @ \cup {NextFam(cursor[t])}]
        BY <3>2, <4>1 DEF TypeOK
      <4> QED BY <3>1, <4>1 DEF TypeOK
    <3> QED BY <2>2, <3>1, <3>3 DEF TypeOK
  <2>4. pc' = pc
    BY <1>3 DEF Prune
  <2> QED BY <1>1, <2>3, <2>4
    DEF TypeOK, Prune, inner, bounds, history
<1>4. CASE ~ HasNextFam(cursor[t])
  <2>1. /\ cursor' = [cursor EXCEPT ![t] = 0] /\ claims' = claims
        /\ pc' = [pc EXCEPT ![t] = "remove"]
    BY <1>4 DEF Prune, Goto
  <2>2. cursor' \in [Threads -> 0 .. Top] /\ pc' \in [Threads -> PCs]
    BY <1>2, <2>1 DEF TypeOK, PCs
  <2> QED BY <1>1, <2>1, <2>2 DEF TypeOK, Prune, inner, bounds, history
<1> QED BY <1>3, <1>4

(* The second loop of prune_empty_files keeps the types.                   *)
LEMMA TypeRemove ==
  ASSUME TypeOK, NEW t \in Threads, Remove(t)
  PROVE  TypeOK'
<1>1. FileMapTypeOK'
  <2>1. fams' = fams \/ \E f : RemoveFam(f)
    BY DEF Remove
  <2>2. FamsType(fams')
    BY <2>1, TypeFams, RemoveUpdate
  <2> QED BY <2>2 DEF FamsType, TypeOK, FileMapTypeOK, Remove
<1>2. /\ claims' \in [Threads -> SUBSET FamLocations] /\ pc' \in [Threads -> PCs]
      /\ sweeping' \in SUBSET Threads /\ fam_len' \in [Threads -> Nat]
      /\ gen' \in [Threads -> 0 .. MAX_GENERATION]
  <2>1. ASSUME NEW f, claims' = [claims EXCEPT ![t] = @ \ {f}],
               UNCHANGED <<pc, sweeping, fam_len, gen>>
        PROVE  /\ claims' \in [Threads -> SUBSET FamLocations] /\ pc' \in [Threads -> PCs]
               /\ sweeping' \in SUBSET Threads /\ fam_len' \in [Threads -> Nat]
               /\ gen' \in [Threads -> 0 .. MAX_GENERATION]
    BY <2>1 DEF TypeOK
  <2>2. ASSUME claims' = claims, Goto(t, "idle"), sweeping' = sweeping \ {t},
               fam_len' = [fam_len EXCEPT ![t] = 0], gen' = [gen EXCEPT ![t] = 0]
        PROVE  /\ claims' \in [Threads -> SUBSET FamLocations] /\ pc' \in [Threads -> PCs]
               /\ sweeping' \in SUBSET Threads /\ fam_len' \in [Threads -> Nat]
               /\ gen' \in [Threads -> 0 .. MAX_GENERATION]
    BY <2>2 DEF TypeOK, Goto, PCs, MAX_GENERATION
  <2> QED BY <2>1, <2>2 DEF Remove
<1> QED BY <1>1, <1>2
  DEF TypeOK, Remove, inner, bounds, history

(* Unlinking a file keeps the types.                                       *)
LEMMA TypeUnlink ==
  ASSUME TypeOK, NEW f \in DOMAIN heap, Unlink(f)
  PROVE  TypeOK'
BY DEF TypeOK, FileMapTypeOK, Unlink, local, inner, maint, bounds, history

(***************************************************************************)
(* Recovery.                                                               *)
(***************************************************************************)
(* The renamed files that recovery finds, or that closing the store leaves.*)
Kept(files) ==
  /\ DOMAIN files \subseteq DOMAIN heap
  /\ \A f \in DOMAIN files : files[f] = heap[f]

(* What recovery needs of the files it finds, wherever the store stood     *)
(* when they were left: their types, and that their ranges are apart.      *)
Directory(files) ==
  /\ DOMAIN files \subseteq FamLocations
  /\ \A f \in DOMAIN files :
       /\ DOMAIN files[f].objs \subseteq ObjectIds
       /\ files[f] \in HeapFile(DOMAIN files[f].objs)
       /\ Position(f) >= 1 /\ LsnOf(f) < 2 * NewWriteBatchBit
       /\ Position(f) + DataLen(files[f].objs) < NewWriteBatchBit
       /\ \A o \in DOMAIN files[f].objs : files[f].objs[o].off <= DataLen(files[f].objs)
       /\ \A g \in DOMAIN files : Disjoint(f, files[f].objs, g)

(* The renamed files are such a directory.                                 *)
LEMMA KeptDirectory ==
  ASSUME TypeOK, FilesInv, NEW files, Kept(files)
  PROVE  Directory(files)
<1>1. ASSUME NEW f \in DOMAIN files
      PROVE  f \in DOMAIN heap /\ files[f] = heap[f] /\ heap[f].objs = ObjsOf(f) /\ f \in Files
  BY DEF Kept, FilesInv, Files
<1>2. ASSUME NEW f \in DOMAIN files
      PROVE  /\ f \in FamLocations /\ DOMAIN files[f].objs \subseteq ObjectIds
             /\ files[f] \in HeapFile(DOMAIN files[f].objs)
  BY <1>1, HeapTypes
<1>3. ASSUME NEW f \in DOMAIN files
      PROVE  /\ Placed(f, files[f].objs)
             /\ \A g \in DOMAIN files : Disjoint(f, files[f].objs, g)
  BY <1>1 DEF FilesInv
<1> QED BY <1>2, <1>3 DEF Directory, Placed

(* What it says of one file.                                               *)
LEMMA DirectoryTypes ==
  ASSUME NEW files, Directory(files), NEW f \in DOMAIN files
  PROVE  /\ f \in FamLocations /\ DOMAIN files[f].objs \subseteq ObjectIds
         /\ files[f].trailer \subseteq DOMAIN files[f].objs
         /\ files[f].objs \in [DOMAIN files[f].objs -> Entry]
         /\ files[f].generation \in 0 .. MAX_GENERATION
         /\ \A o \in DOMAIN files[f].objs :
              /\ files[f].objs[o].off \in Nat /\ files[f].objs[o].del \in BOOLEAN
              /\ files[f].objs[o].val \in Nat
         /\ Position(f) \in Nat /\ DataLen(files[f].objs) \in Nat
         /\ Position(f) <= NewWriteBatchBit
<1>1. /\ f \in FamLocations /\ DOMAIN files[f].objs \subseteq ObjectIds
      /\ files[f] \in HeapFile(DOMAIN files[f].objs)
      /\ Position(f) + DataLen(files[f].objs) < NewWriteBatchBit
  BY DEF Directory
<1>2. /\ files[f].trailer \subseteq DOMAIN files[f].objs
      /\ files[f].objs \in [DOMAIN files[f].objs -> Entry]
      /\ files[f].generation \in 0 .. MAX_GENERATION
  BY <1>1 DEF HeapFile
<1>3. Position(f) \in Nat /\ DataLen(files[f].objs) \in Nat
  BY <1>1, FamLocationFacts, DataLenType
<1>4. Position(f) <= NewWriteBatchBit
  BY <1>1, <1>3, BitAssumption
<1> QED BY <1>1, <1>2, <1>3, <1>4 DEF Entry

(* Max of a bounded, non-empty set of naturals is its greatest element.    *)
LEMMA MaxFacts ==
  ASSUME NEW S, S \subseteq Nat, NEW n \in Nat, \A x \in S : x <= n
  PROVE  /\ Max({0} \cup S) \in Nat
         /\ \A x \in S : x <= Max({0} \cup S)
<1> DEFINE T == {0} \cup S
<1>1. T \subseteq Nat /\ T # {} /\ \A x \in T : x <= n
  OBVIOUS
<1> HIDE DEF T
<1>2. PICK m \in T : \A x \in T : x <= m
  BY <1>1, BoundedHasMax
<1>3. m \in T /\ \A y \in T : m >= y
  BY <1>1, <1>2
<1>4. Max(T) \in T /\ \A y \in T : Max(T) >= y
  BY <1>3 DEF Max
<1> QED BY <1>1, <1>4 DEF T

(* Among the files with an entry for an object one is last in masked LSN   *)
(* order.                                                                  *)
LEMMA LastFileFacts ==
  ASSUME NEW files, Directory(files), NEW o, FilesWith(files, o) # {}
  PROVE  LET f == LastFileWith(files, o)
         IN  /\ f \in DOMAIN files /\ o \in files[f].trailer
             /\ \A g \in FilesWith(files, o) : Position(g) <= Position(f)
<1> DEFINE W == FilesWith(files, o)
           S == {Position(f) : f \in W}
<1>1. S \subseteq Nat /\ S # {} /\ \A x \in S : x <= NewWriteBatchBit
  <2>1. ASSUME NEW f \in W
        PROVE  Position(f) \in Nat /\ Position(f) <= NewWriteBatchBit
    BY DirectoryTypes DEF FilesWith
  <2> QED BY <2>1
<1>2. PICK m \in S : \A x \in S : x <= m
  <2> HIDE DEF S
  <2> QED BY <1>1, BoundedHasMax, BitAssumption
<1>3. PICK f \in W : \A g \in W : Position(g) <= Position(f)
  BY <1>2
<1> QED BY <1>3 DEF LastFileWith, FilesWith

(* Recovery stores natural numbers in the location table.                  *)
LEMMA RecoveredType ==
  ASSUME NEW files, Directory(files), NEW o \in ObjectIds
  PROVE  RecoveredLocation(files, o) \in Nat
<1>1. CASE FilesWith(files, o) = {}
  BY <1>1 DEF RecoveredLocation
<1>2. CASE FilesWith(files, o) # {}
  <2> DEFINE f == LastFileWith(files, o)
  <2>1. f \in DOMAIN files /\ o \in files[f].trailer
    BY <1>2, LastFileFacts
  <2> HIDE DEF f
  <2>2. /\ f \in FamLocations
        /\ files[f].objs[o].off \in Nat /\ files[f].objs[o].del \in BOOLEAN
    BY <2>1, DirectoryTypes
  <2>3. LocationIn(f, files[f].objs, o) \in Nat
    BY <2>2, LocationInFacts, FamLocationFacts
  <2> QED BY <1>2, <2>3 DEF RecoveredLocation, f
<1> QED BY <1>1, <1>2

(* Recovery opens the files it finds, with their contents, unclaimed.      *)
LEMMA RecoverFams ==
  ASSUME NEW files, Directory(files), Recover(files)
  PROVE  /\ DOMAIN fams' = DOMAIN files
         /\ FamsType(fams')
         /\ \A f \in DOMAIN files : /\ fams'[f].objs = files[f].objs
                                    /\ fams'[f].claim = FALSE
<1>1. DOMAIN fams' = DOMAIN files
  BY DEF Recover
<1>2. ASSUME NEW f \in DOMAIN files
      PROVE  /\ f \in FamLocations
             /\ DOMAIN fams'[f].objs \subseteq ObjectIds
             /\ fams'[f] \in Fam(DOMAIN fams'[f].objs)
             /\ fams'[f].objs = files[f].objs /\ fams'[f].claim = FALSE
  <2> DEFINE L == {o \in ObjectIds :
                     /\ RecoveredLocation(files, o) # Null
                     /\ FamFor(files, RecoveredLocation(files, o)) = f}
  <2>1. Cardinality(L) \in Nat
    <3>1. L \subseteq ObjectIds
      OBVIOUS
    <3> HIDE DEF L
    <3> QED BY <3>1, FiniteObjectIds, FS_Subset, FS_CardinalityType
  <2>2. fams'[f] = [objs |-> files[f].objs, generation |-> files[f].generation,
                    live |-> Cardinality(L), claim |-> FALSE,
                    size |-> SizeOf(files, f)]
    BY DEF Recover
  <2> HIDE DEF L
  <2>3. /\ f \in FamLocations /\ DOMAIN files[f].objs \subseteq ObjectIds
        /\ files[f].objs \in [DOMAIN files[f].objs -> Entry]
        /\ files[f].trailer \subseteq DOMAIN files[f].objs
        /\ files[f].generation \in 0 .. MAX_GENERATION
    BY DirectoryTypes
  <2>4. SizeOf(files, f) \in Nat
    BY <2>3, FileSizeType DEF SizeOf
  <2> QED BY <2>1, <2>2, <2>3, <2>4 DEF Fam
<1> QED BY <1>1, <1>2 DEF FamsType

(* LSNs continue past every file that is kept.                             *)
LEMMA RecoverLsn ==
  ASSUME NEW files, Directory(files), Recover(files)
  PROVE  /\ next_file_lsn' \in Nat /\ next_file_lsn' >= 1
         /\ \A f \in DOMAIN files :
              Position(f) + DataLen(files[f].objs) < next_file_lsn'
<1> DEFINE P == {Position(f) : f \in DOMAIN files}
           Z == {SizeOf(files, f) : f \in DOMAIN files}
           n == 2 * Cardinality(ObjectIds) + 1
<1>1. ASSUME NEW f \in DOMAIN files
      PROVE  /\ Position(f) \in Nat /\ Position(f) <= NewWriteBatchBit
             /\ SizeOf(files, f) \in Nat /\ SizeOf(files, f) <= n
             /\ DataLen(files[f].objs) \in Nat
             /\ DataLen(files[f].objs) < SizeOf(files, f)
  <2>1. /\ DOMAIN files[f].objs \subseteq ObjectIds
        /\ files[f].trailer \subseteq DOMAIN files[f].objs
        /\ Position(f) \in Nat /\ Position(f) <= NewWriteBatchBit
    BY DirectoryTypes
  <2>2. /\ SizeOf(files, f) \in Nat /\ SizeOf(files, f) <= n
        /\ DataLen(files[f].objs) \in Nat
        /\ DataLen(files[f].objs) < SizeOf(files, f)
    BY <2>1, FileSizeType DEF SizeOf
  <2> QED BY <2>1, <2>2
<1>2. n \in Nat
  BY FiniteObjectIds, FS_CardinalityType
<1>3. P \subseteq Nat /\ \A x \in P : x <= NewWriteBatchBit
  BY <1>1
<1>4. Z \subseteq Nat /\ \A x \in Z : x <= n
  BY <1>1
<1> DEFINE a == Max({0} \cup P)
           z == Max({0} \cup Z)
<1>5. next_file_lsn' = a + z + 1
  BY DEF Recover, RecoveredLsn
<1>6. \A f \in DOMAIN files : Position(f) \in P /\ SizeOf(files, f) \in Z
  OBVIOUS
<1> HIDE DEF P, Z, n
<1>7. a \in Nat /\ \A x \in P : x <= a
  BY <1>3, MaxFacts, BitAssumption
<1>8. z \in Nat /\ \A x \in Z : x <= z
  BY <1>2, <1>4, MaxFacts
<1> HIDE DEF a, z
<1>9. ASSUME NEW f \in DOMAIN files
      PROVE  Position(f) + DataLen(files[f].objs) < next_file_lsn'
  <2>1. Position(f) <= a /\ SizeOf(files, f) <= z
    BY <1>6, <1>7, <1>8
  <2> QED BY <1>1, <1>5, <1>7, <1>8, <2>1
<1> QED BY <1>5, <1>7, <1>8, <1>9

(* Threads that have not begun a call are well typed.                      *)
LEMMA ResetType ==
  ASSUME TypeOK, ResetThreads,
         location_table' \in [ObjectIds -> Nat], FamsType(fams'),
         next_file_lsn' \in Nat, crashes' \in 0 .. MaxCrashes, DOMAIN heap' \subseteq FamLocations,
         \A f \in DOMAIN heap' : /\ DOMAIN heap'[f].objs \subseteq ObjectIds
                                 /\ heap'[f] \in HeapFile(DOMAIN heap'[f].objs),
         latest' \in [ObjectIds -> Nat], UNCHANGED <<calls, sweeps, order>>
  PROVE  TypeOK'
<1>1. FileMapTypeOK'
  BY DEF FileMapTypeOK, FamsType
<1>2. 0 \in 0 .. Top
  BY BitAssumption DEF Top
<1> QED BY <1>1, <1>2 DEF TypeOK, ResetThreads, EmptyBatch, PCs, MAX_GENERATION

(* Recovery rebuilds a well-typed store.                                   *)
LEMMA TypeRestart ==
  ASSUME TypeOK, NEW files, Directory(files), Recover(files), ResetThreads,
         crashes' \in 0 .. MaxCrashes, heap' = files,
         latest' \in [ObjectIds -> Nat], UNCHANGED <<calls, sweeps, order>>
  PROVE  TypeOK'
<1>1. location_table' \in [ObjectIds -> Nat]
  BY RecoveredType DEF Recover
<1>2. FamsType(fams') /\ next_file_lsn' \in Nat
  BY RecoverFams, RecoverLsn
<1>3. /\ DOMAIN heap' \subseteq FamLocations
      /\ \A f \in DOMAIN heap' : /\ DOMAIN heap'[f].objs \subseteq ObjectIds
                                 /\ heap'[f] \in HeapFile(DOMAIN heap'[f].objs)
  BY DEF Directory
<1> QED BY <1>1, <1>2, <1>3, ResetType

(***************************************************************************)
(* Where the files lie.                                                    *)
(***************************************************************************)
(* A step that adds no file.                                               *)
LEMMA FilesFrame ==
  ASSUME FilesInv, next_file_lsn' = next_file_lsn,
         Files' \subseteq Files, \A f \in Files' : ObjsOf(f)' = ObjsOf(f),
         \A f \in DOMAIN heap' : heap'[f].objs = ObjsOf(f)
  PROVE  FilesInv'
<1>1. \A f \in Files' : Placed(f, ObjsOf(f))'
  BY DEF FilesInv, Placed
<1>2. \A f, g \in Files' : Disjoint(f, ObjsOf(f), g)'
  BY DEF FilesInv, Disjoint
<1>3. \A f \in DOMAIN heap' : heap'[f].objs = ObjsOf(f)'
  BY DEF Files
<1> QED BY <1>1, <1>2, <1>3 DEF FilesInv

(* A step that changes fields of files in the map, or drops a file of it.  *)
LEMMA FilesUpdate ==
  ASSUME FilesInv, next_file_lsn' = next_file_lsn, heap' = heap,
         DOMAIN fams' \subseteq DOMAIN fams,
         \A f \in DOMAIN fams' : fams'[f].objs = fams[f].objs
  PROVE  FilesInv'
<1>1. Files' \subseteq Files
  BY DEF Files
<1>2. ASSUME NEW f \in Files' PROVE ObjsOf(f)' = ObjsOf(f)
  BY DEF Files, ObjsOf, FilesInv
<1>3. \A f \in DOMAIN heap' : heap'[f].objs = ObjsOf(f)
  BY DEF FilesInv
<1> QED BY <1>1, <1>2, <1>3, FilesFrame

(* Renaming a file adds a name for contents that are already placed.       *)
LEMMA FilesCommit ==
  ASSUME TypeOK, FilesInv, HoldersInv, NEW t \in Threads, Commit(t)
  PROVE  FilesInv'
<1>1. base[t] \in DOMAIN fams /\ fams' = fams /\ next_file_lsn' = next_file_lsn
  BY DEF HoldersInv, Working, Commit
<1>2. /\ DOMAIN heap' = DOMAIN heap \cup {base[t]}
      /\ heap'[base[t]].objs = fams[base[t]].objs
      /\ \A f \in DOMAIN heap : f # base[t] => heap'[f] = heap[f]
  BY DEF Commit, Rename
<1>3. Files' = Files
  BY <1>1, <1>2 DEF Files
<1>4. ASSUME NEW f \in Files' PROVE ObjsOf(f)' = ObjsOf(f)
  BY <1>1, <1>2 DEF Files, ObjsOf
<1>5. \A f \in DOMAIN heap' : heap'[f].objs = ObjsOf(f)
  BY <1>1, <1>2 DEF FilesInv, ObjsOf
<1> QED BY <1>1, <1>3, <1>4, <1>5, FilesFrame

(* Unlinking a file disturbs no other file.                                *)
LEMMA FilesUnlink ==
  ASSUME FilesInv, NEW f \in DOMAIN heap, Unlink(f)
  PROVE  FilesInv'
<1>1. /\ fams' = fams /\ next_file_lsn' = next_file_lsn
      /\ DOMAIN heap' = DOMAIN heap \ {f} /\ \A g \in DOMAIN heap' : heap'[g] = heap[g]
  BY DEF Unlink
<1>2. Files' \subseteq Files
  BY <1>1 DEF Files
<1>3. ASSUME NEW g \in Files' PROVE ObjsOf(g)' = ObjsOf(g)
  BY <1>1 DEF Files, ObjsOf
<1>4. \A g \in DOMAIN heap' : heap'[g].objs = ObjsOf(g)
  BY <1>1 DEF FilesInv
<1> QED BY <1>1, <1>2, <1>3, <1>4, FilesFrame

(* After recovery the files lie where they lay, behind the new             *)
(* next_file_lsn.                                                          *)
LEMMA FilesRestart ==
  ASSUME NEW files, Directory(files), Recover(files), heap' = files
  PROVE  FilesInv'
<1>1. /\ DOMAIN fams' = DOMAIN files
      /\ \A f \in DOMAIN files : fams'[f].objs = files[f].objs
  BY RecoverFams
<1>2. Files' = DOMAIN files
  BY <1>1 DEF Files
<1>3. ASSUME NEW f \in DOMAIN files
      PROVE  ObjsOf(f)' = files[f].objs
  BY <1>1 DEF ObjsOf
<1>4. \A f \in Files' : Placed(f, ObjsOf(f))'
  <2>1. ASSUME NEW f \in DOMAIN files PROVE Placed(f, ObjsOf(f))'
    BY <1>3, RecoverLsn DEF Placed, Directory, Position
  <2> QED BY <1>2, <2>1
<1>5. \A f, g \in Files' : Disjoint(f, ObjsOf(f), g)'
  BY <1>2, <1>3 DEF Directory, Disjoint, Position
<1>6. \A f \in DOMAIN heap' : heap'[f].objs = ObjsOf(f)'
  BY <1>3
<1>7. next_file_lsn' >= 1
  BY RecoverLsn
<1> QED BY <1>4, <1>5, <1>6, <1>7 DEF FilesInv

(* What a thread inserts, and where.                                       *)
Inserts(t, part, objs, f) ==
  /\ part \in SUBSET ObjectIds /\ objs \in [part -> Entry] /\ f \in FamLocations
  /\ DataLen(objs) \in Nat /\ \A o \in part : objs[o].off <= DataLen(objs)
  /\ Position(f) = next_file_lsn /\ LsnOf(f) < 2 * NewWriteBatchBit
  /\ next_file_lsn + DataLen(objs) < NewWriteBatchBit
  /\ next_file_lsn' = next_file_lsn + DataLen(objs) + 1
  /\ DOMAIN fams' = DOMAIN fams \cup {f}
  /\ fams'[f] = [objs |-> objs, live |-> Cardinality(part),
                 generation |-> gen[t], claim |-> TRUE, size |-> 0]
  /\ \A g \in DOMAIN fams : g # f => fams'[g] = fams[g]
  /\ base' = [base EXCEPT ![t] = f] /\ todo' = [todo EXCEPT ![t] = part]
  /\ part \subseteq rest[t] /\ (gen[t] = 0 => part = rest[t])
  /\ LsnOf(f) = StampLsn(next_file_lsn, gen[t] # 0) /\ part # {}
  /\ \A o \in part : objs[o].val = batch[t][o].val /\ objs[o].del = batch[t][o].del

(* InsertPart inserts well-typed contents at next_file_lsn.                *)
LEMMA InsertFacts ==
  ASSUME TypeOK, NEW t \in Threads, InsertPart(t)
  PROVE  \E part, objs, f : Inserts(t, part, objs, f)
<1>1. PICK part \in (SUBSET rest[t]) \ {{}} :
        LET objs == Contents(batch[t], part)
            f == NewFam(StampLsn(next_file_lsn, gen[t] # 0))
        IN  /\ gen[t] = 0 => part = rest[t]
            /\ next_file_lsn + DataLen(objs) + 1 <= NewWriteBatchBit
            /\ InsertFam(f, objs, gen[t])
            /\ base' = [base EXCEPT ![t] = f]
            /\ todo' = [todo EXCEPT ![t] = part]
  BY DEF InsertPart
<1> DEFINE objs == Contents(batch[t], part)
           f == NewFam(StampLsn(next_file_lsn, gen[t] # 0))
<1>2. /\ DOMAIN objs = part /\ part \in SUBSET ObjectIds /\ objs \in [part -> Entry]
      /\ DataLen(objs) \in Nat /\ \A o \in part : objs[o].off <= DataLen(objs)
  BY ContentsType, DataLenType
<1>3. next_file_lsn \in Nat /\ next_file_lsn + DataLen(objs) < NewWriteBatchBit
  <2> HIDE DEF objs
  <2>1. next_file_lsn + DataLen(objs) + 1 <= NewWriteBatchBit
    BY <1>1 DEF objs
  <2> QED BY <1>2, <2>1, BitAssumption DEF TypeOK, FileMapTypeOK
<1>4. /\ f \in FamLocations /\ Position(f) = next_file_lsn
      /\ LsnOf(f) < 2 * NewWriteBatchBit
  <2>1. next_file_lsn < NewWriteBatchBit
    <3> HIDE DEF objs
    <3> QED BY <1>2, <1>3, BitAssumption
  <2> QED BY <1>3, <2>1, StampFacts
<1>5. InsertFam(f, objs, gen[t])
  BY <1>1
<1>6. /\ base' = [base EXCEPT ![t] = f] /\ todo' = [todo EXCEPT ![t] = part]
      /\ part \subseteq rest[t] /\ (gen[t] = 0 => part = rest[t]) /\ part # {}
      /\ \A o \in part : objs[o].val = batch[t][o].val /\ objs[o].del = batch[t][o].del
  BY <1>1 DEF Contents
<1>9. LsnOf(f) = StampLsn(next_file_lsn, gen[t] # 0)
  BY <1>3, NewFamFacts, BitAssumption DEF StampLsn
<1> HIDE DEF objs, f
<1>7. /\ next_file_lsn' = next_file_lsn + DataLen(objs) + 1
      /\ DOMAIN fams' = DOMAIN fams \cup {f}
      /\ fams'[f] = [objs |-> objs, live |-> Cardinality(part),
                     generation |-> gen[t], claim |-> TRUE, size |-> 0]
      /\ \A g \in DOMAIN fams : g # f => fams'[g] = fams[g]
  BY <1>2, <1>5 DEF InsertFam
<1>8. Inserts(t, part, objs, f)
  BY <1>2, <1>3, <1>4, <1>6, <1>7, <1>9 DEF Inserts
<1> QED BY <1>8

(* The position of a file lies before the next LSN.                        *)
LEMMA FilesBehind ==
  ASSUME TypeOK, FilesInv, NEW f \in Files
  PROVE  /\ f \in FamLocations /\ Position(f) \in Nat /\ DataLen(ObjsOf(f)) \in Nat
         /\ Position(f) + DataLen(ObjsOf(f)) < next_file_lsn
         /\ Position(f) < next_file_lsn /\ next_file_lsn \in Nat
<1>1. f \in FamLocations /\ DOMAIN ObjsOf(f) \subseteq ObjectIds
  BY FamTypes, HeapTypes DEF Files, ObjsOf
<1>2. Position(f) \in Nat /\ DataLen(ObjsOf(f)) \in Nat
  BY <1>1, FamLocationFacts, DataLenType
<1>3. Position(f) + DataLen(ObjsOf(f)) < next_file_lsn /\ next_file_lsn \in Nat
  BY DEF FilesInv, Placed, TypeOK, FileMapTypeOK
<1> QED BY <1>1, <1>2, <1>3

(* A new file lies behind all the others, and next_file_lsn behind it.     *)
LEMMA FilesInsert ==
  ASSUME TypeOK, FilesInv, NEW t \in Threads, InsertPart(t)
  PROVE  FilesInv'
<1>0. PICK part, objs, f : Inserts(t, part, objs, f)
  BY InsertFacts
<1>1. /\ part \in SUBSET ObjectIds /\ objs \in [part -> Entry] /\ f \in FamLocations
      /\ DataLen(objs) \in Nat /\ \A o \in part : objs[o].off <= DataLen(objs)
      /\ Position(f) = next_file_lsn /\ LsnOf(f) < 2 * NewWriteBatchBit
      /\ next_file_lsn + DataLen(objs) < NewWriteBatchBit
      /\ next_file_lsn' = next_file_lsn + DataLen(objs) + 1
      /\ DOMAIN fams' = DOMAIN fams \cup {f}
      /\ fams'[f].objs = objs
      /\ \A g \in DOMAIN fams : g # f => fams'[g] = fams[g]
  BY <1>0 DEF Inserts
<1>2. heap' = heap
  BY DEF InsertPart
<1>3. next_file_lsn \in Nat /\ next_file_lsn >= 1
  BY DEF TypeOK, FileMapTypeOK, FilesInv
<1>4. f \notin Files
  BY <1>1, <1>3, FilesBehind
<1>5. Files' = Files \cup {f}
  BY <1>1, <1>2 DEF Files
<1>6. ObjsOf(f)' = objs /\ \A g \in Files : ObjsOf(g)' = ObjsOf(g)
  BY <1>1, <1>2, <1>4 DEF Files, ObjsOf
<1>7. ASSUME NEW g \in Files' PROVE Placed(g, ObjsOf(g))'
  <2>1. CASE g = f
    BY <1>1, <1>3, <1>6, <2>1 DEF Placed
  <2>2. CASE g # f
    <3>1. g \in Files /\ ObjsOf(g)' = ObjsOf(g)
      BY <1>5, <1>6, <2>2
    <3>2. Placed(g, ObjsOf(g))
      BY <3>1 DEF FilesInv
    <3>3. Position(g) + DataLen(ObjsOf(g)) < next_file_lsn'
      BY <1>1, <1>3, <3>1, FilesBehind
    <3> QED BY <3>1, <3>2, <3>3 DEF Placed
  <2> QED BY <2>1, <2>2
<1>8. ASSUME NEW g \in Files', NEW h \in Files' PROVE Disjoint(g, ObjsOf(g), h)'
  <2>1. CASE g # f /\ h # f
    BY <1>5, <1>6, <2>1 DEF FilesInv, Disjoint
  <2>2. CASE g = f /\ h # f
    BY <1>1, <1>3, <1>5, <2>2, FilesBehind DEF Disjoint
  <2>3. CASE g # f /\ h = f
    BY <1>1, <1>3, <1>5, <1>6, <2>3, FilesBehind DEF Disjoint
  <2>4. CASE g = f /\ h = f
    BY <1>1, <1>3, <2>4 DEF Disjoint
  <2> QED BY <2>1, <2>2, <2>3, <2>4
<1>9. \A g \in DOMAIN heap' : heap'[g].objs = ObjsOf(g)'
  BY <1>2, <1>6 DEF FilesInv, Files
<1>10. next_file_lsn' >= 1
  BY <1>1, <1>3
<1> QED BY <1>7, <1>8, <1>9, <1>10 DEF FilesInv

(* No file begins at 0, which stands for no file.                          *)
LEMMA ZeroNotFam == FilesInv => 0 \notin DOMAIN fams
<1>1. Position(0) = 0
  BY BitAssumption DEF Position, MaskLsn, LsnOf
<1> QED BY <1>1 DEF FilesInv, Files, Placed

(***************************************************************************)
(* Who holds which claim.                                                  *)
(***************************************************************************)
(* A step that changes no claim and no file that a thread works on.        *)
LEMMA HoldersFrame ==
  ASSUME HoldersInv, base' = base, claims' = claims, DOMAIN fams' = DOMAIN fams,
         \A f \in DOMAIN fams : /\ fams'[f].objs = fams[f].objs
                                /\ fams'[f].claim = fams[f].claim
                                /\ f \in DOMAIN heap => f \in DOMAIN heap',
         \A u \in Threads :
           /\ pc'[u] \in Working <=> pc[u] \in Working
           /\ pc'[u] = "install" => pc[u] = "install" /\ todo'[u] \subseteq todo[u]
           /\ pc[u] = "install" => pc'[u] = "install" \/ base[u] \in DOMAIN heap'
           /\ queue'[u] \subseteq queue[u] /\ reading'[u] \subseteq claims[u]
           /\ pc'[u] # "read" => reading'[u] = {}
           /\ pc'[u] \in {"release", "prune", "remove"} => queue'[u] = {}
  PROVE  HoldersInv'
<1>1. ASSUME NEW u \in Threads
      PROVE  /\ pc'[u] \in Working <=> base'[u] # 0
             /\ base'[u] # 0 => base'[u] \in DOMAIN fams' /\ fams'[base'[u]].claim
             /\ pc'[u] = "install" => todo'[u] \subseteq DOMAIN fams'[base'[u]].objs
             /\ \A f \in claims'[u] : f \in DOMAIN fams' /\ fams'[f].claim
             /\ queue'[u] \subseteq claims'[u]
  BY DEF HoldersInv, Working
<1>2. ASSUME NEW f \in DOMAIN fams'
      PROVE  /\ fams'[f].claim => \E u \in Threads : f \in claims'[u] \/ base'[u] = f
             /\ f \in DOMAIN heap' \/ \E u \in Threads : base'[u] = f /\ pc'[u] = "install"
  BY DEF HoldersInv
<1>3. \A u, v \in Threads :
        /\ base'[u] \notin claims'[v]
        /\ u # v => /\ base'[u] # 0 => base'[u] # base'[v]
                    /\ claims'[u] \cap claims'[v] = {}
  BY DEF HoldersInv
<1> QED BY <1>1, <1>2, <1>3 DEF HoldersInv

(* A thread moves on, and changes no claim and no file.                    *)
LEMMA HoldersGoto ==
  ASSUME TypeOK, HoldersInv, NEW t \in Threads, NEW label,
         pc' = [pc EXCEPT ![t] = label],
         pc[t] \notin {"install", "read"}, label \notin {"install", "read"},
         pc[t] \in Working <=> label \in Working,
         label \in {"release", "prune", "remove"} => queue[t] = {},
         UNCHANGED <<base, claims, heap, todo, queue, reading>>,
         DOMAIN fams' = DOMAIN fams,
         \A f \in DOMAIN fams : /\ fams'[f].objs = fams[f].objs
                                /\ fams'[f].claim = fams[f].claim
  PROVE  HoldersInv'
<1>1. pc'[t] = label /\ \A u \in Threads : u # t => pc'[u] = pc[u]
  BY DEF TypeOK
<1>2. ASSUME NEW u \in Threads
      PROVE  /\ pc'[u] \in Working <=> pc[u] \in Working
             /\ pc'[u] = "install" <=> pc[u] = "install"
             /\ reading[u] \subseteq claims[u]
             /\ pc'[u] # "read" => reading[u] = {}
             /\ pc'[u] \in {"release", "prune", "remove"} => queue[u] = {}
  BY <1>1 DEF HoldersInv
<1> QED BY <1>2, HoldersFrame

(* A thread that begins write_batch holds nothing.                         *)
LEMMA HoldersWriteBatch ==
  ASSUME TypeOK, HoldersInv, NEW t \in Threads, WriteBatch(t)
  PROVE  HoldersInv'
<1>1. /\ UNCHANGED <<base, claims, fams, heap, todo, queue, reading>>
      /\ pc[t] = "idle" /\ pc' = [pc EXCEPT ![t] = "insert"]
  BY DEF WriteBatch, Goto, shared, inner, maint
<1> QED BY <1>1, HoldersGoto DEF Working

(* Installing a location changes no claim.                                 *)
LEMMA HoldersInstall ==
  ASSUME TypeOK, HoldersInv, NEW t \in Threads, NEW o, Install(t, o)
  PROVE  HoldersInv'
<1>1. /\ UNCHANGED <<base, claims, fams, heap, queue, reading, pc>>
      /\ todo' = [todo EXCEPT ![t] = @ \ {o}]
  BY DEF Install, maint
<1>2. \A u \in Threads : todo'[u] \subseteq todo[u]
  BY <1>1 DEF TypeOK
<1> QED BY <1>1, <1>2, HoldersFrame DEF HoldersInv

(* Renaming a file changes no claim.                                       *)
LEMMA HoldersCommit ==
  ASSUME TypeOK, HoldersInv, NEW t \in Threads, Commit(t)
  PROVE  HoldersInv'
<1>1. /\ UNCHANGED <<base, claims, fams, todo, queue, reading>>
      /\ pc[t] = "install" /\ pc' = [pc EXCEPT ![t] = "evacuate"]
      /\ DOMAIN heap' = DOMAIN heap \cup {base[t]}
  BY DEF Commit, Rename, Goto, inner, maint
<1> QED BY <1>1, HoldersFrame DEF TypeOK, HoldersInv, Working

(* Decrementing a live count changes no claim.                             *)
LEMMA HoldersEvacuate ==
  ASSUME TypeOK, HoldersInv, NEW t \in Threads, Evacuate(t)
  PROVE  HoldersInv'
<1>1. UNCHANGED <<base, claims, heap, todo, queue, reading, pc>>
  BY DEF Evacuate, maint
<1>2. PICK f : fams' = [fams EXCEPT ![f].live = @ - 1]
  BY DEF Evacuate, DecrementFam
<1>3. /\ DOMAIN fams' = DOMAIN fams
      /\ \A g \in DOMAIN fams : /\ fams'[g].objs = fams[g].objs
                                /\ fams'[g].claim = fams[g].claim
  <2> DEFINE n == 1
  <2>1. n \in Int /\ fams' = [fams EXCEPT ![f].live = @ - n]
    BY <1>2
  <2> HIDE DEF n
  <2> QED BY <2>1, TypeFams, LiveUpdate
<1> QED BY <1>1, <1>3, HoldersFrame DEF TypeOK, HoldersInv, Working

(* finalize_fam changes no claim.                                          *)
LEMMA HoldersFinalize ==
  ASSUME TypeOK, FilesInv, HoldersInv, NEW t \in Threads, Finalize(t)
  PROVE  HoldersInv'
<1>1. /\ UNCHANGED <<base, claims, heap, todo, queue, reading>>
      /\ pc[t] = "evacuate" /\ pc' = [pc EXCEPT ![t] = "unclaim"]
  BY DEF Finalize, Goto, maint
<1>2. /\ DOMAIN fams' = DOMAIN fams
      /\ \A g \in DOMAIN fams : /\ fams'[g].objs = fams[g].objs
                                /\ fams'[g].claim = fams[g].claim
  BY FinalizeFields
<1>3. PICK label : label = "unclaim"
  OBVIOUS
<1>4. /\ pc[t] \notin {"install", "read"} /\ label \notin {"install", "read"}
      /\ pc[t] \in Working <=> label \in Working
      /\ label \notin {"release", "prune", "remove"}
      /\ pc' = [pc EXCEPT ![t] = label]
  BY <1>1, <1>3 DEF Working
<1> QED BY <1>1, <1>2, <1>4, HoldersGoto

(* A thread that begins maintenance holds nothing.                         *)
LEMMA HoldersStartMaintenance ==
  ASSUME TypeOK, HoldersInv, NEW t \in Threads, StartMaintenance(t)
  PROVE  HoldersInv'
<1>1. /\ UNCHANGED <<base, claims, fams, heap, todo, queue, reading>>
      /\ pc[t] = "idle" /\ pc' = [pc EXCEPT ![t] = "scan"]
  BY DEF StartMaintenance, Goto, shared, inner
<1> QED BY <1>1, HoldersGoto DEF Working

(* Looking at the next file changes no claim.                              *)
LEMMA HoldersScan ==
  ASSUME TypeOK, HoldersInv, NEW t \in Threads, Scan(t)
  PROVE  HoldersInv'
<1>1. /\ UNCHANGED <<base, claims, fams, heap, todo, queue, reading>>
      /\ pc[t] = "scan"
      /\ \E label \in {"claim", "scan", "rewrite"} : pc' = [pc EXCEPT ![t] = label]
  BY DEF Scan, Goto, shared, inner
<1>2. PICK label \in {"claim", "scan", "rewrite"} : pc' = [pc EXCEPT ![t] = label]
  BY <1>1
<1>3. /\ pc[t] \notin {"install", "read"} /\ label \notin {"install", "read"}
      /\ pc[t] \in Working <=> label \in Working
      /\ label \notin {"release", "prune", "remove"}
  BY <1>1, <1>2 DEF Working
<1> QED BY <1>1, <1>2, <1>3, HoldersGoto

(* Choosing a group of files changes no claim; the group is claimed.       *)
LEMMA HoldersRewrite ==
  ASSUME TypeOK, HoldersInv, NEW t \in Threads, Rewrite(t)
  PROVE  HoldersInv'
<1>1. UNCHANGED <<base, claims, fams, heap, todo>> /\ pc[t] = "rewrite"
  BY DEF Rewrite, shared, inner
<1>2. CASE queue[t] = {} /\ Goto(t, "release") /\ UNCHANGED <<gen, queue, reading>>
  BY <1>1, <1>2, HoldersGoto DEF Working, Goto
<1>3. ASSUME NEW group, group \subseteq queue[t],
             queue' = [queue EXCEPT ![t] = @ \ group],
             \/ Goto(t, "rewrite") /\ reading' = reading
             \/ Goto(t, "read") /\ reading' = [reading EXCEPT ![t] = group]
      PROVE  HoldersInv'
  <2>1. \A u \in Threads :
          /\ queue'[u] \subseteq queue[u] /\ reading'[u] \subseteq claims[u]
          /\ pc'[u] # "read" => reading'[u] = {}
          /\ pc'[u] \in {"release", "prune", "remove"} => queue'[u] = {}
          /\ pc'[u] \in Working <=> pc[u] \in Working
          /\ pc'[u] = "install" <=> pc[u] = "install"
    <3> TAKE u \in Threads
    <3>1. CASE u = t
      BY <1>1, <1>3, <3>1 DEF TypeOK, HoldersInv, Working, Goto
    <3>2. CASE u # t
      <4>1. queue'[u] = queue[u] /\ reading'[u] = reading[u] /\ pc'[u] = pc[u]
        BY <1>3, <3>2 DEF TypeOK, Goto
      <4> QED BY <4>1 DEF HoldersInv
    <3> QED BY <3>1, <3>2
  <2> QED BY <1>1, <2>1, HoldersFrame
<1>4. CASE ~ (queue[t] = {} /\ Goto(t, "release") /\ UNCHANGED <<gen, queue, reading>>)
  <2>1. PICK g \in {NextGeneration(f) : f \in queue[t]} :
          LET group == {f \in queue[t] : NextGeneration(f) = g}
              skip == Cardinality(group) < MinCompactionFiles
          IN  /\ queue' = [queue EXCEPT ![t] = @ \ group]
              /\ reading' = IF skip THEN reading
                            ELSE [reading EXCEPT ![t] = group]
              /\ Goto(t, IF skip THEN "rewrite" ELSE "read")
    BY <1>4 DEF Rewrite
  <2> DEFINE group == {f \in queue[t] : NextGeneration(f) = g}
  <2>2. /\ group \subseteq queue[t]
        /\ queue' = [queue EXCEPT ![t] = @ \ group]
        /\ \/ Goto(t, "rewrite") /\ reading' = reading
           \/ Goto(t, "read") /\ reading' = [reading EXCEPT ![t] = group]
    BY <2>1
  <2> HIDE DEF group
  <2> QED BY <1>3, <2>2
<1> QED BY <1>2, <1>4

(* Reading a claimed file changes no claim.                                *)
LEMMA HoldersReadFile ==
  ASSUME TypeOK, HoldersInv, NEW t \in Threads, ReadFile(t)
  PROVE  HoldersInv'
<1>1. UNCHANGED <<base, claims, fams, heap, todo, queue>> /\ pc[t] = "read"
  BY DEF ReadFile, shared, inner
<1>2. PICK f \in reading[t] :
        /\ reading' = [reading EXCEPT ![t] = @ \ {f}]
        /\ \E label \in {"read", "insert", "rewrite"} :
             pc' = [pc EXCEPT ![t] = label] /\ (label # "read" => reading[t] = {f})
  BY DEF ReadFile, Goto
<1>3. ASSUME NEW u \in Threads
      PROVE  /\ reading'[u] \subseteq claims[u]
             /\ pc'[u] # "read" => reading'[u] = {}
             /\ pc'[u] \in {"release", "prune", "remove"} => queue[u] = {}
             /\ pc'[u] \in Working <=> pc[u] \in Working
             /\ pc'[u] = "install" <=> pc[u] = "install"
  BY <1>1, <1>2 DEF TypeOK, HoldersInv, Working
<1> QED BY <1>1, <1>3, HoldersFrame

(* A file that is unlinked is in nobody's hands: it has left the map.      *)
LEMMA HoldersUnlink ==
  ASSUME HoldersInv, NEW f \in DOMAIN heap, Unlink(f)
  PROVE  HoldersInv'
<1>1. /\ UNCHANGED <<base, claims, fams, todo, queue, reading, pc>>
      /\ f \notin DOMAIN fams /\ DOMAIN heap' = DOMAIN heap \ {f}
  BY DEF Unlink, local, inner, maint
<1> QED BY <1>1, HoldersFrame DEF HoldersInv

(* A new file is claimed by its writer and by nobody else.                 *)
LEMMA HoldersInsert ==
  ASSUME TypeOK, FilesInv, HoldersInv, NEW t \in Threads, InsertPart(t)
  PROVE  HoldersInv'
<1>0. PICK part, objs, f : Inserts(t, part, objs, f)
  BY InsertFacts
<1>1. /\ f \in FamLocations /\ f \notin Files /\ f # 0
  <2>1. Position(f) = next_file_lsn /\ f \in FamLocations
    BY <1>0 DEF Inserts
  <2>2. next_file_lsn \in Nat /\ next_file_lsn >= 1
    BY DEF TypeOK, FileMapTypeOK, FilesInv
  <2>3. f \notin Files
    BY <2>1, <2>2, FilesBehind
  <2>4. Position(0) = 0
    BY BitAssumption DEF Position, MaskLsn, LsnOf
  <2> QED BY <2>1, <2>2, <2>3, <2>4
<1>2. /\ DOMAIN fams' = DOMAIN fams \cup {f}
      /\ DOMAIN fams'[f].objs = part /\ fams'[f].claim = TRUE
      /\ \A g \in DOMAIN fams : fams'[g] = fams[g]
      /\ base' = [base EXCEPT ![t] = f] /\ todo' = [todo EXCEPT ![t] = part]
  BY <1>0, <1>1 DEF Inserts, Files
<1>3. /\ UNCHANGED <<claims, heap, queue, reading>>
      /\ pc[t] = "insert" /\ pc' = [pc EXCEPT ![t] = "install"]
  BY DEF InsertPart, Goto, maint
<1>4. /\ base'[t] = f /\ pc'[t] = "install" /\ todo'[t] = part
      /\ \A u \in Threads : u # t => /\ base'[u] = base[u] /\ pc'[u] = pc[u]
                                     /\ todo'[u] = todo[u]
  BY <1>2, <1>3 DEF TypeOK
<1>5. base[t] = 0 /\ f \notin DOMAIN fams /\ \A u \in Threads : base[u] # f /\ f \notin claims[u]
  BY <1>1, <1>3 DEF HoldersInv, Working, Files
<1>6. ASSUME NEW u \in Threads
      PROVE  /\ pc'[u] \in Working <=> base'[u] # 0
             /\ base'[u] # 0 => base'[u] \in DOMAIN fams' /\ fams'[base'[u]].claim
             /\ pc'[u] = "install" => todo'[u] \subseteq DOMAIN fams'[base'[u]].objs
             /\ \A g \in claims'[u] : g \in DOMAIN fams' /\ fams'[g].claim
             /\ queue'[u] \subseteq claims'[u] /\ reading'[u] \subseteq claims'[u]
             /\ pc'[u] # "read" => reading'[u] = {}
             /\ pc'[u] \in {"release", "prune", "remove"} => queue'[u] = {}
  <2>1. CASE u = t
    BY <1>1, <1>2, <1>3, <1>4, <1>5, <2>1 DEF HoldersInv, Working
  <2>2. CASE u # t
    BY <1>2, <1>3, <1>4, <2>2 DEF HoldersInv, Working
  <2> QED BY <2>1, <2>2
<1>7. ASSUME NEW u \in Threads, NEW v \in Threads
      PROVE  /\ base'[u] \notin claims'[v]
             /\ u # v => /\ base'[u] # 0 => base'[u] # base'[v]
                         /\ claims'[u] \cap claims'[v] = {}
  BY <1>3, <1>4, <1>5 DEF HoldersInv
<1>8. ASSUME NEW g \in DOMAIN fams'
      PROVE  /\ fams'[g].claim => \E u \in Threads : g \in claims'[u] \/ base'[u] = g
             /\ g \in DOMAIN heap' \/ \E u \in Threads : base'[u] = g /\ pc'[u] = "install"
  <2>1. CASE g = f
    BY <1>4, <2>1
  <2>2. CASE g # f
    <3>1. g \in DOMAIN fams /\ fams'[g] = fams[g]
      BY <1>2, <2>2
    <3>2. fams[g].claim => \E u \in Threads : g \in claims[u] \/ (u # t /\ base[u] = g)
      BY <1>5, <3>1, FamTypes, FamLocationFacts, ZeroNotFam DEF HoldersInv
    <3>3. g \in DOMAIN heap \/ \E u \in Threads : base[u] = g /\ pc[u] = "install" /\ u # t
      BY <1>3, <3>1 DEF HoldersInv
    <3> QED BY <1>3, <1>4, <3>1, <3>2, <3>3
  <2> QED BY <2>1, <2>2
<1> QED BY <1>6, <1>7, <1>8 DEF HoldersInv

(* The writer of a part is done with its file: it gives up its claim, or   *)
(* takes the file out of the map again.                                    *)
LEMMA HoldersPartDone ==
  ASSUME TypeOK, FilesInv, HoldersInv, NEW t \in Threads, PartDone(t), pc[t] \in Working,
         UNCHANGED <<claims, queue, reading, todo, heap>>,
         pc[t] # "install" \/ base[t] \notin DOMAIN fams',
         base[t] \in DOMAIN fams' => ~ fams'[base[t]].claim,
         DOMAIN fams' \subseteq DOMAIN fams,
         \A g \in DOMAIN fams : g # base[t] => g \in DOMAIN fams' /\ fams'[g] = fams[g]
  PROVE  HoldersInv'
<1>1. /\ base'[t] = 0 /\ pc'[t] \in {"insert", "rewrite", "idle"}
      /\ \A u \in Threads : u # t => base'[u] = base[u] /\ pc'[u] = pc[u]
  BY DEF PartDone, Goto, TypeOK
<1>2. /\ base[t] # 0 /\ base[t] \in DOMAIN fams
      /\ \A u \in Threads : u # t => base[u] # base[t]
      /\ \A u \in Threads : base[t] \notin claims[u]
  BY DEF HoldersInv
<1>3. ASSUME NEW u \in Threads
      PROVE  /\ pc'[u] \in Working <=> base'[u] # 0
             /\ base'[u] # 0 => base'[u] \in DOMAIN fams' /\ fams'[base'[u]].claim
             /\ pc'[u] = "install" => todo'[u] \subseteq DOMAIN fams'[base'[u]].objs
             /\ \A g \in claims'[u] : g \in DOMAIN fams' /\ fams'[g].claim
             /\ queue'[u] \subseteq claims'[u] /\ reading'[u] \subseteq claims'[u]
             /\ pc'[u] # "read" => reading'[u] = {}
             /\ pc'[u] \in {"release", "prune", "remove"} => queue'[u] = {}
  <2>1. CASE u = t
    BY <1>1, <1>2, <2>1 DEF HoldersInv, Working
  <2>2. CASE u # t
    BY <1>1, <1>2, <2>2 DEF HoldersInv, Working
  <2> QED BY <2>1, <2>2
<1>4. ASSUME NEW u \in Threads, NEW v \in Threads
      PROVE  /\ base'[u] \notin claims'[v]
             /\ u # v => /\ base'[u] # 0 => base'[u] # base'[v]
                         /\ claims'[u] \cap claims'[v] = {}
  BY <1>1, <1>2, ZeroNotFam DEF HoldersInv
<1>5. ASSUME NEW g \in DOMAIN fams'
      PROVE  /\ fams'[g].claim => \E u \in Threads : g \in claims'[u] \/ base'[u] = g
             /\ g \in DOMAIN heap' \/ \E u \in Threads : base'[u] = g /\ pc'[u] = "install"
  <2>1. CASE g = base[t]
    <3>1. g \in DOMAIN heap
      BY <1>2, <2>1 DEF HoldersInv
    <3> QED BY <2>1, <3>1
  <2>2. CASE g # base[t]
    <3>1. g \in DOMAIN fams /\ fams'[g] = fams[g]
      BY <2>2
    <3>2. fams[g].claim => \E u \in Threads : g \in claims[u] \/ (u # t /\ base[u] = g)
      BY <2>2, <3>1 DEF HoldersInv
    <3>3. g \in DOMAIN heap \/ \E u \in Threads : base[u] = g /\ pc[u] = "install" /\ u # t
      BY <2>2, <3>1 DEF HoldersInv
    <3> QED BY <1>1, <3>1, <3>2, <3>3
  <2> QED BY <2>1, <2>2
<1> QED BY <1>3, <1>4, <1>5 DEF HoldersInv

(* Dropping a file of which nothing was installed drops its claim.         *)
LEMMA HoldersAbandon ==
  ASSUME TypeOK, FilesInv, HoldersInv, NEW t \in Threads, Abandon(t)
  PROVE  HoldersInv'
<1>1. /\ pc[t] = "install" /\ RemoveFam(base[t]) /\ PartDone(t)
      /\ UNCHANGED <<claims, queue, reading, todo, heap>>
  BY DEF Abandon, maint
<1>2. /\ DOMAIN fams' = DOMAIN fams \ {base[t]}
      /\ \A g \in DOMAIN fams' : fams'[g] = fams[g]
  BY <1>1, TypeFams, RemoveUpdate
<1> QED BY <1>1, <1>2, HoldersPartDone DEF Working

(* The writer's claim is released once.                                    *)
LEMMA HoldersUnclaim ==
  ASSUME TypeOK, FilesInv, HoldersInv, NEW t \in Threads, Unclaim(t)
  PROVE  HoldersInv'
<1>1. /\ pc[t] = "unclaim" /\ ReleaseClaim(base[t]) /\ PartDone(t)
      /\ UNCHANGED <<claims, queue, reading, todo, heap>>
  BY DEF Unclaim, maint
<1>2. /\ DOMAIN fams' = DOMAIN fams
      /\ \A g \in DOMAIN fams : g # base[t] => fams'[g] = fams[g]
      /\ base[t] \in DOMAIN fams => fams'[base[t]].claim = FALSE
  <2> DEFINE f == base[t]
  <2>1. ReleaseClaim(f)
    BY <1>1
  <2>2. FamsType(fams)
    BY TypeFams
  <2> HIDE DEF f
  <2>3. /\ DOMAIN fams' = DOMAIN fams
        /\ \A g \in DOMAIN fams : g # f => fams'[g] = fams[g]
        /\ f \in DOMAIN fams => fams'[f].claim = FALSE
    BY <2>1, <2>2, ClaimUpdate
  <2> QED BY <2>3 DEF f
<1> QED BY <1>1, <1>2, HoldersPartDone DEF Working

(* A thread takes the claim of a file that nobody holds.                   *)
LEMMA HoldersTake ==
  ASSUME TypeOK, FilesInv, HoldersInv, NEW t \in Threads, NEW f \in DOMAIN fams,
         ~ fams[f].claim, TakeClaim(f),
         claims' = [claims EXCEPT ![t] = @ \cup {f}],
         UNCHANGED <<base, todo, reading, heap>>,
         pc[t] \in {"claim", "prune"},
         \/ pc' = pc /\ queue' = queue
         \/ /\ pc' = [pc EXCEPT ![t] = "scan"]
            /\ queue' = [queue EXCEPT ![t] = @ \cup {f}]
  PROVE  HoldersInv'
<1>1. /\ DOMAIN fams' = DOMAIN fams
      /\ \A g \in DOMAIN fams : g # f => fams'[g] = fams[g]
      /\ fams'[f].claim = TRUE /\ \A g \in DOMAIN fams : fams'[g].objs = fams[g].objs
  BY TypeFams, ClaimUpdate
<1>2. /\ claims'[t] = claims[t] \cup {f}
      /\ \A u \in Threads : u # t => /\ claims'[u] = claims[u] /\ queue'[u] = queue[u]
                                     /\ pc'[u] = pc[u]
      /\ \/ pc'[t] = pc[t] /\ queue'[t] = queue[t]
         \/ pc'[t] = "scan" /\ queue'[t] = queue[t] \cup {f}
  BY DEF TypeOK
<1>3. \A u \in Threads : f \notin claims[u] /\ base[u] # f
  BY ZeroNotFam DEF HoldersInv
<1>4. ASSUME NEW u \in Threads
      PROVE  /\ pc'[u] \in Working <=> base'[u] # 0
             /\ base'[u] # 0 => base'[u] \in DOMAIN fams' /\ fams'[base'[u]].claim
             /\ pc'[u] = "install" => todo'[u] \subseteq DOMAIN fams'[base'[u]].objs
             /\ \A g \in claims'[u] : g \in DOMAIN fams' /\ fams'[g].claim
             /\ queue'[u] \subseteq claims'[u] /\ reading'[u] \subseteq claims'[u]
             /\ pc'[u] # "read" => reading'[u] = {}
             /\ pc'[u] \in {"release", "prune", "remove"} => queue'[u] = {}
  <2>1. CASE u = t
    BY <1>1, <1>2, <1>3, <2>1 DEF HoldersInv, Working
  <2>2. CASE u # t
    BY <1>1, <1>2, <1>3, <2>2 DEF HoldersInv, Working
  <2> QED BY <2>1, <2>2
<1>5. ASSUME NEW u \in Threads, NEW v \in Threads
      PROVE  /\ base'[u] \notin claims'[v]
             /\ u # v => /\ base'[u] # 0 => base'[u] # base'[v]
                         /\ claims'[u] \cap claims'[v] = {}
  BY <1>2, <1>3 DEF HoldersInv
<1>6. ASSUME NEW g \in DOMAIN fams'
      PROVE  /\ fams'[g].claim => \E u \in Threads : g \in claims'[u] \/ base'[u] = g
             /\ g \in DOMAIN heap' \/ \E u \in Threads : base'[u] = g /\ pc'[u] = "install"
  <2>1. fams'[g].claim => \E u \in Threads : g \in claims'[u] \/ base'[u] = g
    <3>1. CASE g = f
      BY <1>2, <3>1
    <3>2. CASE g # f
      BY <1>1, <1>2, <3>2 DEF HoldersInv
    <3> QED BY <3>1, <3>2
  <2>2. g \in DOMAIN heap' \/ \E u \in Threads : base'[u] = g /\ pc'[u] = "install"
    <3>1. g \in DOMAIN heap \/ \E u \in Threads : base[u] = g /\ pc[u] = "install" /\ u # t
      BY <1>1 DEF HoldersInv
    <3> QED BY <1>2, <3>1
  <2> QED BY <2>1, <2>2
<1> QED BY <1>4, <1>5, <1>6 DEF HoldersInv

(* A thread gives up a claim: it resets it, or removes the file.           *)
LEMMA HoldersDrop ==
  ASSUME TypeOK, FilesInv, HoldersInv, NEW t \in Threads, NEW f \in claims[t],
         claims' = [claims EXCEPT ![t] = @ \ {f}],
         UNCHANGED <<pc, base, todo, queue, reading, heap>>,
         pc[t] \in {"release", "remove"},
         f \in DOMAIN fams' => ~ fams'[f].claim,
         DOMAIN fams' \subseteq DOMAIN fams,
         \A g \in DOMAIN fams : g # f => g \in DOMAIN fams' /\ fams'[g] = fams[g]
  PROVE  HoldersInv'
<1>1. /\ claims'[t] = claims[t] \ {f}
      /\ \A u \in Threads : u # t => claims'[u] = claims[u]
  BY DEF TypeOK
<1>2. /\ \A u \in Threads : base[u] # f
      /\ \A u \in Threads : u # t => f \notin claims[u]
      /\ f \in DOMAIN fams
      /\ queue[t] = {} /\ reading[t] = {}
  BY DEF HoldersInv
<1>3. ASSUME NEW u \in Threads
      PROVE  /\ pc'[u] \in Working <=> base'[u] # 0
             /\ base'[u] # 0 => base'[u] \in DOMAIN fams' /\ fams'[base'[u]].claim
             /\ pc'[u] = "install" => todo'[u] \subseteq DOMAIN fams'[base'[u]].objs
             /\ \A g \in claims'[u] : g \in DOMAIN fams' /\ fams'[g].claim
             /\ queue'[u] \subseteq claims'[u] /\ reading'[u] \subseteq claims'[u]
             /\ pc'[u] # "read" => reading'[u] = {}
             /\ pc'[u] \in {"release", "prune", "remove"} => queue'[u] = {}
  <2>1. CASE u = t
    BY <1>1, <1>2, <2>1 DEF HoldersInv, Working
  <2>2. CASE u # t
    BY <1>1, <1>2, <2>2 DEF HoldersInv, Working
  <2> QED BY <2>1, <2>2
<1>4. ASSUME NEW u \in Threads, NEW v \in Threads
      PROVE  /\ base'[u] \notin claims'[v]
             /\ u # v => /\ base'[u] # 0 => base'[u] # base'[v]
                         /\ claims'[u] \cap claims'[v] = {}
  BY <1>1, <1>2 DEF HoldersInv
<1>5. ASSUME NEW g \in DOMAIN fams'
      PROVE  /\ fams'[g].claim => \E u \in Threads : g \in claims'[u] \/ base'[u] = g
             /\ g \in DOMAIN heap' \/ \E u \in Threads : base'[u] = g /\ pc'[u] = "install"
  <2>1. g \in DOMAIN heap' \/ \E u \in Threads : base'[u] = g /\ pc'[u] = "install"
    BY DEF HoldersInv
  <2>2. fams'[g].claim => \E u \in Threads : g \in claims'[u] \/ base'[u] = g
    <3>1. CASE g = f
      BY <3>1
    <3>2. CASE g # f
      <4>1. g \in DOMAIN fams /\ fams'[g] = fams[g]
        BY <3>2
      <4>2. fams[g].claim => \E u \in Threads : g \in claims[u] \/ base[u] = g
        BY <4>1 DEF HoldersInv
      <4> QED BY <1>1, <3>2, <4>1, <4>2
    <3> QED BY <3>1, <3>2
  <2> QED BY <2>1, <2>2
<1> QED BY <1>3, <1>4, <1>5 DEF HoldersInv

(* A thread of maintenance moves on and touches no file.                   *)
LEMMA HoldersMove ==
  ASSUME TypeOK, HoldersInv, NEW t \in Threads, NEW label,
         label \in {"scan", "prune", "remove", "idle"}, label = "scan" \/ queue[t] = {},
         pc[t] \in {"claim", "release", "prune", "remove"},
         pc' = [pc EXCEPT ![t] = label],
         UNCHANGED <<fams, claims, base, todo, queue, reading, heap>>
  PROVE  HoldersInv'
<1>1. ASSUME NEW u \in Threads
      PROVE  /\ pc'[u] # "read" => reading'[u] = {}
             /\ pc'[u] \in {"release", "prune", "remove"} => queue[u] = {}
             /\ pc'[u] \in Working <=> pc[u] \in Working
             /\ pc'[u] = "install" <=> pc[u] = "install"
  BY DEF TypeOK, HoldersInv, Working
<1>2. \A u \in Threads : reading[u] \subseteq claims[u]
  BY DEF HoldersInv
<1> QED BY <1>1, <1>2, HoldersFrame

(* files_to_defrag takes a claim only if the swap found it free.           *)
LEMMA HoldersClaim ==
  ASSUME TypeOK, FilesInv, HoldersInv, NEW t \in Threads, Claim(t)
  PROVE  HoldersInv'
<1>1. /\ pc[t] = "claim" /\ pc' = [pc EXCEPT ![t] = "scan"]
      /\ UNCHANGED <<base, todo, reading, heap>>
  BY DEF Claim, Goto, inner
<1>2. CASE cursor[t] \in DOMAIN fams /\ ~ fams[cursor[t]].claim
  BY <1>1, <1>2, HoldersTake DEF Claim
<1>3. CASE ~ (cursor[t] \in DOMAIN fams /\ ~ fams[cursor[t]].claim)
  BY <1>1, <1>3, HoldersMove DEF Claim
<1> QED BY <1>2, <1>3

(* Maintenance releases the claims it holds, one after the other.          *)
LEMMA HoldersRelease ==
  ASSUME TypeOK, FilesInv, HoldersInv, NEW t \in Threads, Release(t)
  PROVE  HoldersInv'
<1>1. pc[t] = "release" /\ UNCHANGED <<base, todo, queue, reading, heap>>
  BY DEF Release, inner
<1>2. ASSUME NEW f \in claims[t], pc' = pc, claims' = [claims EXCEPT ![t] = @ \ {f}],
             IF f \in DOMAIN fams THEN ReleaseClaim(f) ELSE UNCHANGED fams
      PROVE  HoldersInv'
  <2>1. f \in DOMAIN fams
    BY DEF HoldersInv
  <2>2. /\ DOMAIN fams' = DOMAIN fams /\ fams'[f].claim = FALSE
        /\ \A g \in DOMAIN fams : g # f => fams'[g] = fams[g]
    BY <1>2, <2>1, TypeFams, ClaimUpdate
  <2> QED BY <1>1, <1>2, <2>2, HoldersDrop
<1>3. CASE claims[t] = {} /\ Goto(t, "prune") /\ UNCHANGED <<fams, claims>>
  <2>1. queue[t] = {}
    BY <1>1 DEF HoldersInv
  <2> QED BY <1>1, <1>3, <2>1, HoldersMove DEF Goto
<1> QED BY <1>2, <1>3 DEF Release

(* prune_empty_files takes a claim only if the swap found it free.         *)
LEMMA HoldersPrune ==
  ASSUME TypeOK, FilesInv, HoldersInv, NEW t \in Threads, Prune(t)
  PROVE  HoldersInv'
<1>1. pc[t] = "prune" /\ UNCHANGED <<base, todo, queue, reading, heap>>
  BY DEF Prune, inner
<1>2. ASSUME NEW f, HasNextFam(cursor[t]), f = NextFam(cursor[t]), Prunable(f),
             TakeClaim(f), claims' = [claims EXCEPT ![t] = @ \cup {f}], pc' = pc
      PROVE  HoldersInv'
  <2>1. cursor[t] \in Nat
    BY BitAssumption DEF TypeOK, Top
  <2>2. f \in DOMAIN fams /\ ~ fams[f].claim
    BY <1>2, <2>1, NextFamType DEF Prunable
  <2> QED BY <1>1, <1>2, <2>2, HoldersTake
<1>3. ASSUME UNCHANGED <<fams, claims, pc>>
      PROVE  HoldersInv'
  <2>1. \A u \in Threads : /\ reading[u] \subseteq claims[u]
                           /\ pc[u] # "read" => reading[u] = {}
                           /\ pc[u] \in {"release", "prune", "remove"} => queue[u] = {}
    BY DEF HoldersInv
  <2> QED BY <1>1, <1>3, <2>1, HoldersFrame
<1>4. ASSUME Goto(t, "remove"), UNCHANGED <<fams, claims>>
      PROVE  HoldersInv'
  <2>1. queue[t] = {}
    BY <1>1 DEF HoldersInv
  <2> QED BY <1>1, <1>4, <2>1, HoldersMove DEF Goto
<1> QED BY <1>2, <1>3, <1>4 DEF Prune

(* prune_empty_files removes files whose claims it holds.                  *)
LEMMA HoldersRemove ==
  ASSUME TypeOK, FilesInv, HoldersInv, NEW t \in Threads, Remove(t)
  PROVE  HoldersInv'
<1>1. pc[t] = "remove" /\ UNCHANGED <<base, todo, queue, reading, heap>>
  BY DEF Remove, inner
<1>2. ASSUME NEW f \in claims[t], RemoveFam(f),
             claims' = [claims EXCEPT ![t] = @ \ {f}], pc' = pc
      PROVE  HoldersInv'
  <2>1. DOMAIN fams' = DOMAIN fams \ {f} /\ \A g \in DOMAIN fams' : fams'[g] = fams[g]
    BY <1>2, TypeFams, RemoveUpdate
  <2> QED BY <1>1, <1>2, <2>1, HoldersDrop
<1>3. ASSUME Goto(t, "idle"), UNCHANGED <<fams, claims>>
      PROVE  HoldersInv'
  <2>1. queue[t] = {}
    BY <1>1 DEF HoldersInv
  <2> QED BY <1>1, <1>3, <2>1, HoldersMove DEF Goto
<1> QED BY <1>2, <1>3 DEF Remove

(* Recovery leaves every file unclaimed and every thread idle.             *)
LEMMA HoldersRestart ==
  ASSUME NEW files, Directory(files), Recover(files), heap' = files, ResetThreads
  PROVE  HoldersInv'
<1>1. /\ DOMAIN fams' = DOMAIN files
      /\ \A f \in DOMAIN files : fams'[f].claim = FALSE
  BY RecoverFams
<1>2. \A u \in Threads : /\ pc'[u] = "idle" /\ base'[u] = 0 /\ claims'[u] = {}
                         /\ queue'[u] = {} /\ reading'[u] = {}
  BY DEF ResetThreads
<1> QED BY <1>1, <1>2 DEF HoldersInv, Working

(***************************************************************************)
(* The induction.                                                          *)
(***************************************************************************)
CoreInv == TypeOK /\ FilesInv /\ HoldersInv

(* The inductive invariant holds of an empty store.                        *)
LEMMA InitCore == Init => CoreInv
<1> SUFFICES ASSUME Init PROVE CoreInv
  OBVIOUS
<1>1. TypeOK
  BY InitType
<1>2. FilesInv
  BY DEF Init, FilesInv, Files
<1>3. HoldersInv
  BY DEF Init, HoldersInv, Working
<1> QED BY <1>1, <1>2, <1>3 DEF CoreInv

(* Files that no thread is writing are in the heap directory.              *)
LEMMA IdleFilesKept ==
  ASSUME HoldersInv, \A t \in Threads : pc[t] = "idle"
  PROVE  DOMAIN fams \subseteq DOMAIN heap
BY DEF HoldersInv

(* After a crash, or an orderly restart, recovery runs over renamed files. *)
LEMMA RestartFacts ==
  ASSUME HoldersInv, CrashRecover \/ CloseAndReopen
  PROVE  \E files : /\ Kept(files) /\ Recover(files) /\ ResetThreads /\ heap' = files
                    /\ crashes < MaxCrashes /\ crashes' = crashes + 1
                    /\ UNCHANGED <<calls, sweeps, order, latest>>
<1>1. CASE CrashRecover
  <2>1. Kept(heap)
    BY DEF Kept
  <2> QED BY <1>1, <2>1 DEF CrashRecover, history
<1>2. CASE CloseAndReopen
  <2> DEFINE kept == [f \in {g \in DOMAIN fams : fams[g].live # 0 \/ fams[g].size = 0}
                        |-> heap[f]]
  <2>1. Kept(kept)
    BY <1>2, IdleFilesKept DEF CloseAndReopen, Kept
  <2>2. /\ Recover(kept) /\ ResetThreads /\ heap' = kept
        /\ crashes < MaxCrashes /\ crashes' = crashes + 1
        /\ UNCHANGED <<calls, sweeps, order, latest>>
    BY <1>2 DEF CloseAndReopen, history
  <2> HIDE DEF kept
  <2> QED BY <2>1, <2>2
<1> QED BY <1>1, <1>2

(* Opening a directory establishes the inductive invariant.                *)
LEMMA CoreRecover ==
  ASSUME CoreInv, NEW files, Directory(files), Recover(files), ResetThreads, heap' = files,
         crashes' \in 0 .. MaxCrashes, latest' \in [ObjectIds -> Nat],
         UNCHANGED <<calls, sweeps, order>>
  PROVE  CoreInv'
<1>1. TypeOK'
  BY TypeRestart DEF CoreInv
<1>2. FilesInv'
  BY FilesRestart
<1>3. HoldersInv'
  BY HoldersRestart
<1> QED BY <1>1, <1>2, <1>3 DEF CoreInv

(* A crash or an orderly restart preserves the inductive invariant.        *)
LEMMA CoreRestart ==
  ASSUME CoreInv, CrashRecover \/ CloseAndReopen
  PROVE  CoreInv'
<1>1. PICK files : /\ Kept(files) /\ Recover(files) /\ ResetThreads /\ heap' = files
                   /\ crashes < MaxCrashes /\ crashes' = crashes + 1
                   /\ UNCHANGED <<calls, sweeps, order, latest>>
  BY RestartFacts DEF CoreInv
<1>2. Directory(files)
  BY <1>1, KeptDirectory DEF CoreInv
<1>3. crashes' \in 0 .. MaxCrashes /\ latest' \in [ObjectIds -> Nat]
  BY <1>1, BoundsAssumption DEF CoreInv, TypeOK
<1> QED BY <1>1, <1>2, <1>3, CoreRecover

(* The steps that leave every file where it is.                            *)
LEMMA FilesStep ==
  ASSUME TypeOK, FilesInv, HoldersInv, NEW t \in Threads,
         \/ WriteBatch(t) \/ StartMaintenance(t) \/ (\E o \in ObjectIds : Install(t, o))
         \/ Abandon(t) \/ Evacuate(t) \/ Finalize(t) \/ Unclaim(t) \/ Scan(t)
         \/ Claim(t) \/ Rewrite(t) \/ ReadFile(t) \/ Release(t) \/ Prune(t) \/ Remove(t)
  PROVE  FilesInv'
<1>1. CASE UNCHANGED <<fams, next_file_lsn, heap>>
  BY <1>1, FilesUpdate
<1>2. ASSUME NEW f, ReleaseClaim(f) \/ TakeClaim(f) \/ RemoveFam(f),
             next_file_lsn' = next_file_lsn, heap' = heap
      PROVE  FilesInv'
  BY <1>2, TypeFams, ClaimUpdate, RemoveUpdate, FilesUpdate
<1>3. CASE WriteBatch(t) \/ StartMaintenance(t) \/ (\E o \in ObjectIds : Install(t, o))
  BY <1>1, <1>3 DEF WriteBatch, StartMaintenance, Install, shared
<1>4. CASE Scan(t) \/ Rewrite(t) \/ ReadFile(t)
  BY <1>1, <1>4 DEF Scan, Rewrite, ReadFile, shared
<1>5. CASE Abandon(t) \/ Unclaim(t)
  BY <1>2, <1>5 DEF Abandon, Unclaim
<1>6. CASE Evacuate(t)
  <2>1. PICK f : fams' = [fams EXCEPT ![f].live = @ - 1]
    BY <1>6 DEF Evacuate, DecrementFam
  <2>2. /\ DOMAIN fams' = DOMAIN fams
        /\ \A g \in DOMAIN fams : fams'[g].objs = fams[g].objs
    <3> DEFINE n == 1
    <3>1. n \in Int /\ fams' = [fams EXCEPT ![f].live = @ - n]
      BY <2>1
    <3> HIDE DEF n
    <3> QED BY <3>1, TypeFams, LiveUpdate
  <2> QED BY <1>6, <2>2, FilesUpdate DEF Evacuate
<1>7. CASE Finalize(t)
  BY <1>7, FinalizeFields, FilesUpdate DEF Finalize
<1>8. CASE Claim(t)
  BY <1>1, <1>2, <1>8 DEF Claim
<1>9. CASE Release(t)
  BY <1>1, <1>2, <1>9 DEF Release
<1>10. CASE Prune(t)
  BY <1>1, <1>2, <1>10 DEF Prune
<1>11. CASE Remove(t)
  BY <1>1, <1>2, <1>11 DEF Remove
<1> QED BY <1>3, <1>4, <1>5, <1>6, <1>7, <1>8, <1>9, <1>10, <1>11

(* A step of a thread preserves the inductive invariant.                   *)
LEMMA CoreThread ==
  ASSUME CoreInv, NEW t \in Threads, WriteBatch(t) \/ StartMaintenance(t) \/ Step(t)
  PROVE  CoreInv'
<1> USE DEF CoreInv
<1>1. FilesInv'
  <2>1. CASE InsertPart(t)
    BY <2>1, FilesInsert
  <2>2. CASE Commit(t)
    BY <2>2, FilesCommit
  <2> QED BY <2>1, <2>2, FilesStep DEF Step
<1>2. CASE WriteBatch(t)
  BY <1>1, <1>2, TypeWriteBatch, HoldersWriteBatch
<1>3. CASE StartMaintenance(t)
  BY <1>1, <1>3, TypeStartMaintenance, HoldersStartMaintenance
<1>4. CASE InsertPart(t)
  BY <1>1, <1>4, TypeInsertPart, HoldersInsert
<1>5. CASE \E o \in ObjectIds : Install(t, o)
  BY <1>1, <1>5, TypeInstall, HoldersInstall
<1>6. CASE Abandon(t)
  BY <1>1, <1>6, TypeAbandon, HoldersAbandon
<1>7. CASE Commit(t)
  BY <1>1, <1>7, TypeCommit, HoldersCommit
<1>8. CASE Evacuate(t)
  BY <1>1, <1>8, TypeEvacuate, HoldersEvacuate
<1>9. CASE Finalize(t)
  BY <1>1, <1>9, TypeFinalize, HoldersFinalize
<1>10. CASE Unclaim(t)
  BY <1>1, <1>10, TypeUnclaim, HoldersUnclaim
<1>11. CASE Scan(t)
  BY <1>1, <1>11, TypeScan, HoldersScan
<1>12. CASE Claim(t)
  BY <1>1, <1>12, TypeClaim, HoldersClaim
<1>13. CASE Rewrite(t)
  BY <1>1, <1>13, TypeRewrite, HoldersRewrite
<1>14. CASE ReadFile(t)
  BY <1>1, <1>14, TypeReadFile, HoldersReadFile
<1>15. CASE Release(t)
  BY <1>1, <1>15, TypeRelease, HoldersRelease
<1>16. CASE Prune(t)
  BY <1>1, <1>16, TypePrune, HoldersPrune
<1>17. CASE Remove(t)
  BY <1>1, <1>17, TypeRemove, HoldersRemove
<1> QED BY <1>2, <1>3, <1>4, <1>5, <1>6, <1>7, <1>8, <1>9, <1>10, <1>11, <1>12,
           <1>13, <1>14, <1>15, <1>16, <1>17 DEF Step

(* A step that changes nothing preserves the inductive invariant.          *)
LEMMA CoreStutter ==
  ASSUME CoreInv, UNCHANGED vars
  PROVE  CoreInv'
<1>1. TypeOK'
  BY DEF CoreInv, vars, shared, local, inner, maint, bounds, history, TypeOK,
         FileMapTypeOK
<1>2. FilesInv'
  BY FilesUpdate DEF CoreInv, vars, shared
<1>3. HoldersInv'
  BY DEF CoreInv, vars, shared, local, inner, maint, HoldersInv, Working
<1> QED BY <1>1, <1>2, <1>3 DEF CoreInv

(* Every step preserves the inductive invariant.                           *)
LEMMA CoreStep == CoreInv /\ [Next]_vars => CoreInv'
<1> SUFFICES ASSUME CoreInv, [Next]_vars PROVE CoreInv'
  OBVIOUS
<1>1. ASSUME NEW f \in DOMAIN heap, Unlink(f) PROVE CoreInv'
  BY <1>1, TypeUnlink, FilesUnlink, HoldersUnlink DEF CoreInv
<1>2. CASE UNCHANGED vars
  BY <1>2, CoreStutter
<1> QED BY <1>1, <1>2, CoreThread, CoreRestart DEF Next

(* The inductive invariant holds of every reachable state: besides the     *)
(* types, where files lie in the LSN space, and which thread holds the     *)
(* claim of which file. Recovery needs the first to continue the LSNs, and *)
(* every step of the write path needs the second to find its own file in   *)
(* the map.                                                                *)
THEOREM CoreInduction == Spec => []CoreInv
BY InitCore, CoreStep, PTL DEF Spec

(* Every variable keeps its type, in every interleaving of any number of   *)
(* threads, across crashes and restarts.                                   *)
THEOREM TypeCorrect == Spec => []TypeOK
<1>1. CoreInv => TypeOK
  BY DEF CoreInv
<1> QED BY <1>1, CoreInduction, PTL

(* The claims part of the inductive invariant implies ClaimsExclusive.     *)
LEMMA CoreClaims == CoreInv => ClaimsExclusive
<1> SUFFICES ASSUME CoreInv PROVE ClaimsExclusive
  OBVIOUS
<1> USE DEF CoreInv
<1>1. ASSUME NEW f \in DOMAIN fams
      PROVE  Cardinality(Holders(f)) = IF fams[f].claim THEN 1 ELSE 0
  <2>1. f # 0
    BY ZeroNotFam
  <2>2. CASE fams[f].claim
    <3>1. PICK t \in Threads : f \in claims[t] \/ base[t] = f
      BY <2>2 DEF HoldersInv
    <3>2. Holders(f) = {t}
      BY <2>1, <3>1 DEF HoldersInv, Holders
    <3> QED BY <2>2, <3>2, FS_Singleton
  <2>3. CASE ~ fams[f].claim
    <3>1. Holders(f) = {}
      BY <2>1, <2>3 DEF HoldersInv, Holders
    <3> QED BY <2>3, <3>1, FS_EmptySet
  <2> QED BY <2>2, <2>3
<1>2. \A t \in Threads : claims[t] \subseteq DOMAIN fams
  BY DEF HoldersInv
<1> QED BY <1>1, <1>2 DEF ClaimsExclusive

(* The claim of a file (rewrite_claim) is set exactly while one thread     *)
(* holds it: its writer until drop(fam_claim), or one maintenance through  *)
(* DeferUnclaim.  No interleaving of write_batch, maintenance and crashes  *)
(* leaks a claim, and prune_empty_files removes no file twice.             *)
THEOREM ClaimsAlwaysExclusive == Spec => []ClaimsExclusive
BY CoreInduction, CoreClaims, PTL

(* The files part of the inductive invariant implies RangesDisjoint.       *)
LEMMA CoreRanges == CoreInv => RangesDisjoint
<1> SUFFICES ASSUME CoreInv PROVE RangesDisjoint
  OBVIOUS
<1> USE DEF CoreInv
<1>1. \A f \in Files : End(f) < next_file_lsn
  BY DEF FilesInv, Placed, End
<1>2. \A f, g \in Files : Disjoint(f, ObjsOf(f), g)
  BY DEF FilesInv
<1> QED BY <1>1, <1>2 DEF RangesDisjoint, Disjoint, End

(* The LSN ranges of the files, in the map or waiting to be unlinked, are  *)
(* disjoint and lie before next_file_lsn, whatever threads insert and      *)
(* remove and wherever recovery restarts the counter: no insert displaces  *)
(* a file, and Config::open applies locations in monotonic order.          *)
THEOREM RangesAlwaysDisjoint == Spec => []RangesDisjoint
BY CoreInduction, CoreRanges, PTL
=============================================================================
