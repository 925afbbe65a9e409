--------------------------- MODULE MarbleVersions ---------------------------
(***************************************************************************)
(* Proofs about the accounts and the batches of Marble and about the ids   *)
(* that maintenance meets: LiveObjectsExact, TableBacked, EvacuationSafe,  *)
(* MaintenanceKeepsVersions and RewrittenObjectsKnown, for every set of    *)
(* threads, every finite set of object ids, every configuration and every  *)
(* value of the bounds.                                                    *)
(*                                                                         *)
(* A live count is changed by fetch_sub long after the location table was, *)
(* by a thread that holds no lock.  What makes the counts exact is a       *)
(* statement about locations (LocationsInv): a location is never in two    *)
(* places.  It is still to be tried or was refused, or it is in the table, *)
(* or exactly one thread has it among its replaced_locations.              *)
(*                                                                         *)
(* maintenance reads an object and its location, and installs the copy     *)
(* much later with compare_exchange.  The invariant says that in between   *)
(* the claim keeps the file it read, so that the location still leads to   *)
(* the version in the batch when the exchange succeeds (ItemsInv).         *)
(*                                                                         *)
(* A file written by maintenance holds data of ids that were not installed *)
(* and that its trailer leaves out.  The expects of maintenance need those *)
(* ids in the location table after a crash too, although the file that the *)
(* table led to may have been lost with the process.  The second part of   *)
(* the invariant follows the replaced locations: from the file the table   *)
(* leads to, over files that are not renamed yet, one reaches a renamed    *)
(* file with the id in its trailer (Chained).                              *)
(***************************************************************************)
EXTENDS MarbleProofs

(***************************************************************************)
(* The accounts: the inductive invariant.                                  *)
(***************************************************************************)
(* The ids of the file being written that nothing refers to, and that its  *)
(* live count includes.                                                    *)
Pending(t) == todo[t] \cup failed[t]

(* What the lists of write_batch_inner hold, and when.                     *)
WorkInv ==
  \A t \in Threads :
    /\ pc[t] # "install" => todo[t] = {}
    /\ pc[t] \notin {"install", "evacuate"} => failed[t] = {} /\ replaced[t] = {}
    /\ todo[t] \cap failed[t] = {}
    /\ base[t] # 0 => Pending(t) \subseteq DOMAIN fams[base[t]].objs
    /\ \A r \in replaced[t] : r[1] \in DOMAIN fams[base[t]].objs \ Pending(t)

(* A location of an object of a file in the map.                           *)
Backed(o, location) == \E f \in DOMAIN fams : OwnedBy(f, o, location)

(* The location table, or a thread that has yet to decrement a count,      *)
(* refers to a location.                                                   *)
Referred(o, location) ==
  \/ location_table[o] = location
  \/ \E t \in Threads : <<o, location>> \in replaced[t]

LocationsInv ==
  /\ \A o \in ObjectIds : location_table[o] # Null => Backed(o, location_table[o])
  /\ \A t \in Threads : \A r \in replaced[t] :
       /\ Backed(r[1], r[2])
       /\ r[2] # At(base[t], r[1])
       /\ location_table[r[1]] # r[2]
  /\ \A t, u \in Threads : t # u => replaced[t] \cap replaced[u] = {}
  /\ \A t \in Threads : \A o \in Pending(t) : ~ Referred(o, At(base[t], o))

(* The counts, and that what prune_empty_files claimed stays empty.        *)
CountsInv ==
  /\ LiveObjectsExact
  /\ \A t \in Threads : pc[t] \in {"prune", "remove"} =>
       \A f \in claims[t] : fams[f].live = 0

AccountsInv == WorkInv /\ LocationsInv /\ CountsInv

(***************************************************************************)
(* Steps that change neither a location nor a count.                       *)
(***************************************************************************)
USE DEF Null

(* What such a step leaves alone.                                          *)
SameAccounts ==
  /\ UNCHANGED <<location_table, todo, failed, replaced>>
  /\ DOMAIN fams' = DOMAIN fams
  /\ \A f \in DOMAIN fams : /\ fams'[f].objs = fams[f].objs
                            /\ fams'[f].live = fams[f].live
  /\ \A u \in Threads :
       /\ base'[u] = base[u] \/ (Pending(u) = {} /\ replaced[u] = {})
       /\ pc'[u] # "install" => todo[u] = {}
       /\ pc'[u] \notin {"install", "evacuate"} => failed[u] = {} /\ replaced[u] = {}
       /\ pc'[u] \in {"prune", "remove"} => \A f \in claims'[u] : fams[f].live = 0

(* A step that leaves locations and counts alone preserves the invariant.  *)
LEMMA AccountsFrame ==
  ASSUME CoreInv, CoreInv', AccountsInv, SameAccounts
  PROVE  AccountsInv'
<1>1. \A f \in DOMAIN fams : \A o : At(f, o)' = At(f, o)
  BY DEF SameAccounts, At
<1>2. \A u \in Threads : Pending(u)' = Pending(u)
  BY DEF SameAccounts, Pending
<1>3. \A u \in Threads : base[u] # 0 => base[u] \in DOMAIN fams
  BY DEF CoreInv, HoldersInv
<1>4. WorkInv'
  <2> SUFFICES ASSUME NEW u \in Threads
               PROVE  /\ pc'[u] # "install" => todo'[u] = {}
                      /\ pc'[u] \notin {"install", "evacuate"}
                           => failed'[u] = {} /\ replaced'[u] = {}
                      /\ todo'[u] \cap failed'[u] = {}
                      /\ base'[u] # 0 => Pending(u)' \subseteq DOMAIN fams'[base'[u]].objs
                      /\ \A r \in replaced'[u] :
                           r[1] \in DOMAIN fams'[base'[u]].objs \ Pending(u)'
    BY DEF WorkInv
  <2>1. CASE base'[u] = base[u]
    <3>1. base[u] # 0 \/ replaced[u] = {}
      BY DEF AccountsInv, WorkInv, CoreInv, HoldersInv, Working
    <3> QED BY <1>2, <1>3, <2>1, <3>1 DEF AccountsInv, WorkInv, SameAccounts
  <2>2. CASE Pending(u) = {} /\ replaced[u] = {}
    BY <1>2, <2>2 DEF AccountsInv, WorkInv, SameAccounts
  <2> QED BY <2>1, <2>2 DEF SameAccounts
<1>5. \A o, l : Backed(o, l)' <=> Backed(o, l)
  BY <1>1 DEF Backed, OwnedBy, SameAccounts
<1>6. \A o, l : Referred(o, l)' <=> Referred(o, l)
  BY DEF Referred, SameAccounts
<1>7. \A u \in Threads : Pending(u) # {} \/ replaced[u] # {} =>
        base'[u] = base[u] /\ \A o : At(base[u], o)' = At(base[u], o)
  <2> SUFFICES ASSUME NEW u \in Threads, Pending(u) # {} \/ replaced[u] # {}
               PROVE  base'[u] = base[u] /\ \A o : At(base[u], o)' = At(base[u], o)
    OBVIOUS
  <2>1. base'[u] = base[u]
    BY DEF SameAccounts
  <2>2. pc[u] \in {"install", "evacuate"}
    BY DEF AccountsInv, WorkInv, Pending
  <2>3. base[u] \in DOMAIN fams
    BY <2>2 DEF CoreInv, HoldersInv, Working
  <2>4. base[u] \in DOMAIN fams'
    BY <2>3 DEF SameAccounts
  <2> QED BY <2>1, <2>3, <1>1
<1>8. LocationsInv'
  <2>1. \A o \in ObjectIds : location_table'[o] # Null => Backed(o, location_table[o])'
    BY <1>5 DEF AccountsInv, LocationsInv, SameAccounts
  <2>2. ASSUME NEW u \in Threads, NEW r \in replaced'[u]
        PROVE  /\ Backed(r[1], r[2])'
               /\ r[2] # At(base[u], r[1])'
               /\ location_table'[r[1]] # r[2]
    <3>1. r \in replaced[u] /\ location_table' = location_table
      BY <2>2 DEF SameAccounts
    <3>2. Backed(r[1], r[2]) /\ r[2] # At(base[u], r[1]) /\ location_table[r[1]] # r[2]
      BY <3>1 DEF AccountsInv, LocationsInv
    <3>3. At(base[u], r[1])' = At(base[u], r[1])
      BY <1>7, <3>1
    <3> QED BY <1>5, <3>1, <3>2, <3>3
  <2>3. \A u, v \in Threads : u # v => replaced'[u] \cap replaced'[v] = {}
    BY DEF AccountsInv, LocationsInv, SameAccounts
  <2>4. ASSUME NEW u \in Threads, NEW o \in Pending(u)'
        PROVE  ~ Referred(o, At(base[u], o))'
    <3>1. o \in Pending(u) /\ base'[u] = base[u] /\ At(base[u], o)' = At(base[u], o)
      BY <1>2, <1>7
    <3>2. ~ Referred(o, At(base[u], o))
      BY <3>1 DEF AccountsInv, LocationsInv
    <3> QED BY <3>1, <3>2, <1>6 DEF Referred, SameAccounts
  <2> QED BY <2>1, <2>2, <2>3, <2>4 DEF LocationsInv
<1>9. \A f \in DOMAIN fams : Accounted(f)' = Accounted(f)
  <2> SUFFICES ASSUME NEW f \in DOMAIN fams, NEW o \in DOMAIN fams[f].objs
               PROVE  /\ DOMAIN fams'[f].objs = DOMAIN fams[f].objs
                      /\ o \in Accounted(f)' <=> o \in Accounted(f)
    BY DEF Accounted, SameAccounts
  <2>1. f \in DOMAIN fams' /\ fams'[f].objs = fams[f].objs /\ At(f, o)' = At(f, o)
    BY <1>1 DEF SameAccounts
  <2>2. \A u \in Threads : base'[u] = f /\ o \in Pending(u)' <=>
                             base[u] = f /\ o \in Pending(u)
    BY <1>2, <1>7
  <2>3. UNCHANGED <<location_table, replaced>>
    BY DEF SameAccounts
  <2> QED BY <2>1, <2>2, <2>3 DEF Accounted, Pending
<1>10. CountsInv'
  BY <1>9 DEF AccountsInv, CountsInv, LiveObjectsExact, SameAccounts, CoreInv, HoldersInv
<1> QED BY <1>4, <1>8, <1>10 DEF AccountsInv

(* A step of one thread that changes neither a location nor a count.       *)
LEMMA AccountsMove ==
  ASSUME CoreInv, AccountsInv, NEW t \in Threads, NEW label,
         pc' = [pc EXCEPT ![t] = label],
         UNCHANGED <<location_table, todo, failed, replaced>>,
         DOMAIN fams' = DOMAIN fams,
         \A f \in DOMAIN fams : /\ fams'[f].objs = fams[f].objs
                                /\ fams'[f].live = fams[f].live,
         base' = base \/ (pc[t] = "unclaim" /\ base' = [base EXCEPT ![t] = 0]),
         label # "install",
         \/ pc[t] \notin {"install", "evacuate"}
         \/ label = "evacuate" /\ todo[t] = {},
         \A u \in Threads : u # t => claims'[u] = claims[u],
         label \in {"prune", "remove"} => \A f \in claims'[t] : fams[f].live = 0
  PROVE  SameAccounts
<1>1. pc'[t] = label /\ \A u \in Threads : u # t => pc'[u] = pc[u]
  BY DEF CoreInv, TypeOK
<1>2. ASSUME NEW u \in Threads
      PROVE  /\ base'[u] = base[u] \/ (Pending(u) = {} /\ replaced[u] = {})
             /\ pc'[u] # "install" => todo[u] = {}
             /\ pc'[u] \notin {"install", "evacuate"}
                  => failed[u] = {} /\ replaced[u] = {}
             /\ pc'[u] \in {"prune", "remove"}
                  => \A f \in claims'[u] : fams[f].live = 0
  <2>1. CASE u = t
    <3>1. pc[t] = "unclaim" => Pending(t) = {} /\ replaced[t] = {}
      BY DEF AccountsInv, WorkInv, Pending
    <3> QED BY <1>1, <2>1, <3>1 DEF AccountsInv, WorkInv
  <2>2. CASE u # t
    BY <1>1, <2>2 DEF AccountsInv, WorkInv, CountsInv, CoreInv, TypeOK
  <2> QED BY <2>1, <2>2
<1> QED BY <1>2 DEF SameAccounts

(* Calls that begin, iterations of the file map, the choice of a group,    *)
(* reading, renaming, and taking and dropping claims.                      *)
LEMMA AccountsQuiet ==
  ASSUME CoreInv, CoreInv', AccountsInv, NEW t \in Threads,
         \/ WriteBatch(t) \/ StartMaintenance(t) \/ Commit(t) \/ Unclaim(t)
         \/ Scan(t) \/ Claim(t) \/ Rewrite(t) \/ ReadFile(t) \/ Release(t) \/ Prune(t)
  PROVE  SameAccounts
<1> DEFINE SameFams == /\ DOMAIN fams' = DOMAIN fams
                       /\ \A f \in DOMAIN fams : /\ fams'[f].objs = fams[f].objs
                                                 /\ fams'[f].live = fams[f].live
<1>1. ASSUME NEW f, ReleaseClaim(f) \/ TakeClaim(f) PROVE SameFams
  BY <1>1, ClaimUpdate, TypeFams DEF CoreInv
<1>2. fams' = fams => SameFams
  OBVIOUS
<1>3. SameFams
  BY <1>1, <1>2 DEF WriteBatch, StartMaintenance, Commit, Unclaim, Scan, Claim,
                    Rewrite, ReadFile, Release, Prune, shared
<1>4. UNCHANGED <<location_table, todo, failed, replaced>>
  <2>1. CASE Unclaim(t)
    <3>1. failed[t] = {} /\ failed' = [failed EXCEPT ![t] = {}]
      BY <2>1 DEF Unclaim, PartDone, AccountsInv, WorkInv
    <3>2. failed' = failed
      BY <3>1 DEF CoreInv, TypeOK
    <3> QED BY <2>1, <3>2 DEF Unclaim
  <2>2. CASE ~ Unclaim(t)
    BY <2>2 DEF WriteBatch, StartMaintenance, Commit, Scan, Claim,
                Rewrite, ReadFile, Release, Prune, shared, inner
  <2> QED BY <2>1, <2>2
<1>5. \A u \in Threads : u # t => claims'[u] = claims[u]
  <2>1. ASSUME NEW S, claims' = [claims EXCEPT ![t] = S] \/ claims' = claims
        PROVE  \A u \in Threads : u # t => claims'[u] = claims[u]
    BY <2>1 DEF CoreInv, TypeOK
  <2>2. CASE WriteBatch(t) \/ StartMaintenance(t) \/ Commit(t) \/ Unclaim(t) \/ Scan(t)
    BY <2>1, <2>2 DEF WriteBatch, StartMaintenance, Commit, Unclaim, Scan, maint
  <2>3. CASE Claim(t)
    BY <2>1, <2>3 DEF Claim
  <2>4. CASE Rewrite(t) \/ ReadFile(t) \/ Release(t)
    BY <2>1, <2>4 DEF Rewrite, ReadFile, Release
  <2>5. CASE Prune(t)
    BY <2>1, <2>5 DEF Prune
  <2> QED BY <2>2, <2>3, <2>4, <2>5
<1>6. base' = base \/ (pc[t] = "unclaim" /\ base' = [base EXCEPT ![t] = 0])
  <2>1. CASE Unclaim(t)
    BY <2>1 DEF Unclaim, PartDone
  <2>2. CASE WriteBatch(t) \/ StartMaintenance(t) \/ Commit(t) \/ Scan(t) \/ Claim(t)
    BY <2>2 DEF WriteBatch, StartMaintenance, Commit, Scan, Claim, inner
  <2>3. CASE Rewrite(t) \/ ReadFile(t) \/ Release(t) \/ Prune(t)
    BY <2>3 DEF Rewrite, ReadFile, Release, Prune, inner
  <2> QED BY <2>1, <2>2, <2>3
<1> DEFINE MovesTo(label) ==
        /\ pc' = [pc EXCEPT ![t] = label] /\ label # "install"
        /\ \/ pc[t] \notin {"install", "evacuate"}
           \/ label = "evacuate" /\ todo[t] = {}
        /\ label \in {"prune", "remove"} => \A f \in claims'[t] : fams[f].live = 0
<1>7. \E label : MovesTo(label)
  <2>1. ASSUME pc' = pc PROVE pc' = [pc EXCEPT ![t] = pc[t]]
    BY <2>1 DEF CoreInv, TypeOK
  <2>2. ASSUME NEW label, pc' = [pc EXCEPT ![t] = label],
               label \notin {"install", "prune", "remove"},
               \/ pc[t] \notin {"install", "evacuate"}
               \/ label = "evacuate" /\ todo[t] = {}
        PROVE  MovesTo(label)
    BY <2>2
  <2>5. CASE WriteBatch(t) \/ StartMaintenance(t) \/ Commit(t)
    BY <2>2, <2>5 DEF WriteBatch, StartMaintenance, Commit, Goto
  <2>6. CASE Unclaim(t)
    BY <2>2, <2>6 DEF Unclaim, PartDone, Goto
  <2>7. CASE Scan(t) \/ Claim(t)
    BY <2>2, <2>7 DEF Scan, Claim, Goto
  <2>8. CASE Rewrite(t) \/ ReadFile(t)
    BY <2>2, <2>8 DEF Rewrite, ReadFile, Goto
  <2>3. CASE Release(t)
    BY <2>1, <2>3 DEF Release, Goto
  <2>4. CASE Prune(t)
    <3>1. CASE HasNextFam(cursor[t])
      <4> DEFINE f == NextFam(cursor[t])
      <4>1. pc' = [pc EXCEPT ![t] = pc[t]] /\ pc[t] = "prune"
        BY <2>1, <2>4, <3>1 DEF Prune
      <4>2. \A g \in claims[t] : fams[g].live = 0
        BY <4>1 DEF AccountsInv, CountsInv
      <4>3. \/ claims' = claims
            \/ fams[f].live = 0 /\ claims' = [claims EXCEPT ![t] = @ \cup {f}]
        BY <2>4, <3>1 DEF Prune, Prunable
      <4>4. \A g \in claims'[t] : fams[g].live = 0
        <5>1. \/ claims'[t] = claims[t]
              \/ fams[f].live = 0 /\ claims'[t] = claims[t] \cup {f}
          BY <4>3 DEF CoreInv, TypeOK
        <5> QED BY <4>2, <5>1
      <4> QED BY <4>1, <4>4
    <3>2. CASE ~ HasNextFam(cursor[t])
      BY <2>4, <3>2 DEF Prune, Goto, AccountsInv, CountsInv
    <3> QED BY <3>1, <3>2
  <2> QED BY <2>3, <2>4, <2>5, <2>6, <2>7, <2>8
<1> QED BY <1>3, <1>4, <1>5, <1>6, <1>7, AccountsMove

(***************************************************************************)
(* The write path.                                                         *)
(***************************************************************************)
(* Locations of files in the map are positive.                             *)
LEMMA AtPositive ==
  ASSUME CoreInv, NEW f \in DOMAIN fams, NEW o \in DOMAIN fams[f].objs
  PROVE  At(f, o) \in Nat /\ At(f, o) # Null
<1>1. /\ f \in FamLocations /\ fams[f].objs[o].off \in Nat
      /\ fams[f].objs[o].del \in BOOLEAN
  BY FamTypes DEF CoreInv
<1>2. Position(f) >= 1
  BY DEF CoreInv, FilesInv, Files, Placed
<1>3. LsnOf(f) \in Nat /\ LsnOf(f) # 0
  BY <1>1, <1>2, FamLocationFacts, BitAssumption DEF Position, MaskLsn
<1>4. At(f, o) = 2 * (LsnOf(f) + fams[f].objs[o].off)
                   + (IF fams[f].objs[o].del THEN 1 ELSE 0)
  BY <1>1, LocationInFacts DEF At
<1>5. At(f, o) \in Nat
  BY FamTypes DEF CoreInv
<1>6. CASE fams[f].objs[o].del
  <2>1. At(f, o) = 2 * (LsnOf(f) + fams[f].objs[o].off) + 1
    BY <1>4, <1>6
  <2> QED BY <1>1, <1>3, <1>5, <2>1
<1>7. CASE ~ fams[f].objs[o].del
  <2>1. At(f, o) = 2 * (LsnOf(f) + fams[f].objs[o].off) + 0
    BY <1>4, <1>7
  <2> QED BY <1>1, <1>3, <1>5, <2>1
<1> QED BY <1>6, <1>7

(* What a thread that installs, or decrements counts, finds.               *)
LEMMA WriterFacts ==
  ASSUME CoreInv, AccountsInv, NEW t \in Threads, pc[t] \in {"install", "evacuate"}
  PROVE  /\ base[t] \in DOMAIN fams /\ base[t] # 0
         /\ Pending(t) \subseteq DOMAIN fams[base[t]].objs
         /\ DOMAIN fams[base[t]].objs \subseteq ObjectIds
BY FamTypes DEF CoreInv, HoldersInv, Working, AccountsInv, WorkInv

(* compare_exchange or fetch_max either moves an id from the ids to be     *)
(* tried to the table, and the location it replaces to the thread's list,  *)
(* or refuses the id: the objects that account for a count stay the same.  *)
LEMMA AccountsInstall ==
  ASSUME CoreInv, CoreInv', AccountsInv, NEW t \in Threads, NEW o \in ObjectIds,
         Install(t, o)
  PROVE  AccountsInv'
<1> DEFINE f == base[t]
           new == At(f, o)
           old == location_table[o]
<1>1. /\ pc[t] = "install" /\ o \in todo[t]
      /\ todo' = [todo EXCEPT ![t] = @ \ {o}]
      /\ UNCHANGED <<fams, pc, base, claims>>
  BY DEF Install, maint
<1>2. \/ /\ location_table' = [location_table EXCEPT ![o] = new]
         /\ failed' = failed
         /\ replaced' = IF old # Null THEN [replaced EXCEPT ![t] = @ \cup {<<o, old>>}]
                                      ELSE replaced
      \/ /\ location_table' = location_table /\ replaced' = replaced
         /\ failed' = [failed EXCEPT ![t] = @ \cup {o}]
  BY DEF Install, Cas, FetchMax, At
<1>3. /\ f \in DOMAIN fams /\ o \in DOMAIN fams[f].objs /\ o \in Pending(t)
      /\ o \notin failed[t]
  BY <1>1, WriterFacts DEF Pending, AccountsInv, WorkInv
<1>4. OwnedBy(f, o, new) /\ new # Null /\ ~ Referred(o, new)
  BY <1>3, AtPositive DEF OwnedBy, AccountsInv, LocationsInv
<1>5. \A g, p : At(g, p)' = At(g, p)
  BY <1>1 DEF At
<1>6. \A p, l : Backed(p, l)' <=> Backed(p, l)
  BY <1>1 DEF Backed, OwnedBy, At
<1> HIDE DEF f, new, old
<1>7. CASE /\ location_table' = location_table /\ replaced' = replaced
           /\ failed' = [failed EXCEPT ![t] = @ \cup {o}]
  <2>0. /\ todo'[t] = todo[t] \ {o} /\ failed'[t] = failed[t] \cup {o}
        /\ \A u \in Threads : u # t => todo'[u] = todo[u] /\ failed'[u] = failed[u]
    BY <1>1, <1>7 DEF CoreInv, TypeOK
  <2>1. \A u \in Threads : Pending(u)' = Pending(u)
    BY <1>1, <2>0 DEF Pending
  <2>2. \A p, l : Referred(p, l)' <=> Referred(p, l)
    BY <1>7 DEF Referred
  <2>3. WorkInv'
    <3>1. \A u \in Threads : todo'[u] \cap failed'[u] = {}
      BY <2>0 DEF AccountsInv, WorkInv
    <3>2. \A u \in Threads :
            /\ pc[u] # "install" => todo'[u] = {}
            /\ pc[u] \notin {"install", "evacuate"} => failed'[u] = {}
      BY <1>1, <2>0 DEF AccountsInv, WorkInv
    <3> QED BY <1>1, <1>7, <2>1, <3>1, <3>2 DEF AccountsInv, WorkInv
  <2>4. LocationsInv'
    BY <1>1, <1>6, <1>7, <2>1 DEF AccountsInv, LocationsInv, Referred, At
  <2>5. \A g \in DOMAIN fams : Accounted(g)' = Accounted(g)
    BY <1>1, <1>7, <2>1 DEF Accounted, Pending, At
  <2>6. CountsInv'
    BY <1>1, <2>5 DEF AccountsInv, CountsInv, LiveObjectsExact
  <2> QED BY <2>3, <2>4, <2>6 DEF AccountsInv
<1>8. CASE /\ location_table' = [location_table EXCEPT ![o] = new]
           /\ failed' = failed
           /\ replaced' = IF old # Null THEN [replaced EXCEPT ![t] = @ \cup {<<o, old>>}]
                                        ELSE replaced
  <2>1. /\ Pending(t)' = Pending(t) \ {o}
        /\ \A u \in Threads : u # t => Pending(u)' = Pending(u)
        /\ \A u \in Threads : Pending(u)' \subseteq Pending(u)
    BY <1>1, <1>3, <1>8 DEF Pending, CoreInv, TypeOK
  <2>0. /\ todo'[t] = todo[t] \ {o}
        /\ \A u \in Threads : u # t => todo'[u] = todo[u]
    BY <1>1 DEF CoreInv, TypeOK
  <2>2. /\ location_table'[o] = new
        /\ \A p \in ObjectIds : p # o => location_table'[p] = location_table[p]
        /\ \A u \in Threads : u # t => replaced'[u] = replaced[u]
        /\ \A r \in replaced'[t] : r \in replaced[t] \/ (r = <<o, old>> /\ old # Null)
        /\ replaced[t] \subseteq replaced'[t]
        /\ old # Null => <<o, old>> \in replaced'[t]
    BY <1>8 DEF CoreInv, TypeOK
  <2>3. \A u \in Threads : replaced[u] \subseteq replaced'[u]
    BY <2>2
  <2> USE DEF old
  <2>4. ASSUME NEW p \in ObjectIds, NEW l
        PROVE  /\ Referred(p, l)' => Referred(p, l) \/ (p = o /\ l = new)
               /\ Referred(p, l) /\ l # Null => Referred(p, l)'
    <3>1. Referred(p, l)' => Referred(p, l) \/ (p = o /\ l = new)
      BY <2>2 DEF Referred
    <3>2. Referred(p, l) /\ l # Null => Referred(p, l)'
      BY <2>2, <2>3 DEF Referred
    <3> QED BY <3>1, <3>2
  <2>5. old # Null => Backed(o, old) /\ old # At(f, o)
    BY <1>4 DEF AccountsInv, LocationsInv, Referred, new
  <2>6. WorkInv'
    <3> SUFFICES ASSUME NEW u \in Threads
                 PROVE  /\ pc[u] # "install" => todo'[u] = {}
                        /\ pc[u] \notin {"install", "evacuate"}
                             => failed[u] = {} /\ replaced'[u] = {}
                        /\ todo'[u] \cap failed[u] = {}
                        /\ base[u] # 0 => Pending(u)' \subseteq DOMAIN fams[base[u]].objs
                        /\ \A r \in replaced'[u] :
                             r[1] \in DOMAIN fams[base[u]].objs \ Pending(u)'
      BY <1>1, <1>8 DEF WorkInv
    <3>1. CASE u # t
      BY <2>0, <2>1, <2>2, <3>1 DEF AccountsInv, WorkInv
    <3>2. CASE u = t
      <4>1. \A r \in replaced'[t] : r[1] \in DOMAIN fams[f].objs \ Pending(t)'
        BY <1>3, <2>1, <2>2 DEF AccountsInv, WorkInv, f
      <4> QED BY <1>1, <2>0, <2>1, <3>2, <4>1 DEF AccountsInv, WorkInv, f
    <3> QED BY <3>1, <3>2
  <2>7. LocationsInv'
    <3>1. ASSUME NEW p \in ObjectIds, location_table'[p] # Null
          PROVE  Backed(p, location_table[p])'
      <4>1. CASE p = o
        BY <1>3, <1>4, <1>6, <2>2, <4>1 DEF Backed
      <4>2. CASE p # o
        BY <1>6, <2>2, <3>1, <4>2 DEF AccountsInv, LocationsInv
      <4> QED BY <4>1, <4>2
    <3>2. ASSUME NEW u \in Threads, NEW r \in replaced'[u]
          PROVE  /\ Backed(r[1], r[2])'
                 /\ r[2] # At(base[u], r[1])'
                 /\ location_table'[r[1]] # r[2]
      <4>1. CASE r \in replaced[u]
        <5>1. /\ Backed(r[1], r[2]) /\ r[2] # At(base[u], r[1])
              /\ location_table[r[1]] # r[2] /\ r \in ObjectIds \X Nat
          BY <4>1 DEF AccountsInv, LocationsInv, CoreInv, TypeOK
        <5>2. r[1] = o => r[2] # new
          BY <1>4, <4>1, <5>1 DEF Referred
        <5> QED BY <1>1, <1>5, <1>6, <2>2, <5>1, <5>2
      <4>2. CASE r \notin replaced[u]
        <5>1. u = t /\ r = <<o, old>> /\ old # Null
          BY <2>2, <3>2, <4>2
        <5> QED BY <1>1, <1>4, <1>5, <1>6, <2>2, <2>5, <5>1 DEF Referred, f
      <4> QED BY <4>1, <4>2
    <3>3. ASSUME NEW u \in Threads, NEW v \in Threads, u # v
          PROVE  replaced'[u] \cap replaced'[v] = {}
      <4>1. \A w \in Threads : <<o, old>> \notin replaced[w]
        BY DEF AccountsInv, LocationsInv
      <4> QED BY <2>2, <3>3, <4>1 DEF AccountsInv, LocationsInv
    <3>4. ASSUME NEW u \in Threads, NEW p \in Pending(u)'
          PROVE  ~ Referred(p, At(base[u], p))'
      <4>1. p \in Pending(u) /\ p \in ObjectIds /\ ~ Referred(p, At(base[u], p))
        BY <2>1 DEF AccountsInv, LocationsInv, Pending, CoreInv, TypeOK
      <4>2. p = o => At(base[u], p) # new
        <5> SUFFICES ASSUME p = o, At(base[u], p) = new PROVE FALSE
          OBVIOUS
        <5>1. u # t
          BY <2>1
        <5>2. pc[u] \in {"install", "evacuate"}
          BY <4>1 DEF AccountsInv, WorkInv, Pending
        <5>3. OwnedBy(base[u], o, new)
          BY <4>1, <5>2, WriterFacts DEF OwnedBy
        <5>4. base[u] = f
          BY <1>4, <5>3, OwnerUnique DEF CoreInv
        <5> QED BY <5>1, <5>2, <5>4, WriterFacts DEF CoreInv, HoldersInv, f
      <4>3. At(base[u], p)' = At(base[u], p)
        BY <1>1, <1>5
      <4> QED BY <2>4, <4>1, <4>2, <4>3 DEF Referred
    <3> QED BY <3>1, <3>2, <3>3, <3>4 DEF LocationsInv
  <2>8. ASSUME NEW g \in DOMAIN fams PROVE Accounted(g)' = Accounted(g)
    <3> SUFFICES ASSUME NEW p \in DOMAIN fams[g].objs
                 PROVE  p \in Accounted(g)' <=> p \in Accounted(g)
      BY <1>1 DEF Accounted
    <3>1. /\ p \in Accounted(g) <=> \/ Referred(p, At(g, p))
                                    \/ \E u \in Threads : base[u] = g /\ p \in Pending(u)
          /\ p \in Accounted(g)' <=> \/ Referred(p, At(g, p))'
                                     \/ \E u \in Threads : base[u] = g /\ p \in Pending(u)'
      BY <1>1 DEF Accounted, Referred, Pending
    <3>2. At(g, p) # Null /\ p \in ObjectIds /\ At(g, p)' = At(g, p)
      BY <1>5, AtPositive, FamTypes DEF CoreInv
    <3>3. Referred(p, At(g, p)) => Referred(p, At(g, p))'
      BY <2>4, <3>2 DEF Referred
    <3>4. Referred(p, At(g, p))' => Referred(p, At(g, p)) \/ (p = o /\ At(g, p) = new)
      BY <2>4, <3>2 DEF Referred
    <3>5. p = o /\ At(g, p) = new => g = f
      BY <1>4, OwnerUnique DEF OwnedBy, CoreInv
    <3>7. ASSUME NEW u \in Threads, base[u] = g, p \in Pending(u), p \notin Pending(u)'
          PROVE  Referred(p, At(g, p))'
      <4>1. u = t /\ p = o
        BY <2>1, <3>7
      <4>2. location_table'[p] = At(g, p)'
        BY <2>2, <3>2, <3>7, <4>1 DEF f, new
      <4> QED BY <4>2 DEF Referred
    <3> QED BY <1>3, <2>1, <3>1, <3>3, <3>4, <3>5, <3>7 DEF f
  <2>9. CountsInv'
    BY <1>1, <2>8 DEF AccountsInv, CountsInv, LiveObjectsExact
  <2> QED BY <2>6, <2>7, <2>9 DEF AccountsInv
<1> QED BY <1>2, <1>7, <1>8 DEF old, new

(* Locations of files in the map are positive and have one owner: the two  *)
(* facts above as one state predicate, which can be primed.                *)
LocationsDistinct ==
  /\ \A f, g, o, l : OwnedBy(f, o, l) /\ OwnedBy(g, o, l) => f = g
  /\ \A f \in DOMAIN fams : \A o \in DOMAIN fams[f].objs : At(f, o) # Null

LEMMA CoreLocations == CoreInv => LocationsDistinct
BY OwnerUnique, AtPositive DEF CoreInv, LocationsDistinct

(* The same of the state after a step.                                     *)
LEMMA CoreLocationsNext == CoreInv' => LocationsDistinct'
BY CoreLocations, PTL

(* A location of a new file is nowhere yet, because next_file_lsn is past  *)
(* every file: all of its objects account for its count, and nothing       *)
(* changes for the other files.                                            *)
LEMMA AccountsInsert ==
  ASSUME CoreInv, CoreInv', AccountsInv, NEW t \in Threads, InsertPart(t)
  PROVE  AccountsInv'
<1>0. PICK part, objs, f : Inserts(t, part, objs, f)
  BY InsertFacts DEF CoreInv
<1>1. f \notin DOMAIN fams
  <2>1. Position(f) = next_file_lsn
    BY <1>0 DEF Inserts
  <2>2. ASSUME f \in Files PROVE FALSE
    BY <2>1, <2>2, FilesBehind DEF CoreInv
  <2> QED BY <2>2 DEF Files
<1>2. /\ DOMAIN fams' = DOMAIN fams \cup {f} /\ part \subseteq ObjectIds
      /\ fams'[f].objs = objs /\ DOMAIN objs = part
      /\ fams'[f].live = Cardinality(part)
      /\ \A g \in DOMAIN fams : fams'[g] = fams[g]
  BY <1>0, <1>1 DEF Inserts
<1>3. /\ base' = [base EXCEPT ![t] = f] /\ todo' = [todo EXCEPT ![t] = part]
      /\ pc' = [pc EXCEPT ![t] = "install"] /\ pc[t] = "insert"
      /\ UNCHANGED <<location_table, failed, replaced, claims>>
  BY <1>0 DEF Inserts, InsertPart, Goto, maint
<1>4. todo[t] = {} /\ failed[t] = {} /\ replaced[t] = {}
  BY <1>3 DEF AccountsInv, WorkInv
<1>5. /\ base'[t] = f /\ todo'[t] = part /\ pc'[t] = "install"
      /\ \A u \in Threads : u # t =>
           base'[u] = base[u] /\ todo'[u] = todo[u] /\ pc'[u] = pc[u]
  BY <1>3 DEF CoreInv, TypeOK
<1>6. /\ Pending(t)' = part
      /\ \A u \in Threads : u # t => Pending(u)' = Pending(u)
  BY <1>3, <1>4, <1>5 DEF Pending
<1>7. \A g \in DOMAIN fams : \A o : At(g, o)' = At(g, o)
  BY <1>2 DEF At
<1>8. \A o, l : Backed(o, l) => Backed(o, l)'
  BY <1>2, <1>7 DEF Backed, OwnedBy
<1>9. ASSUME NEW u \in Threads, u # t, Pending(u) # {} \/ replaced[u] # {}
      PROVE  base[u] \in DOMAIN fams /\ base[u] # 0
  BY <1>9, WriterFacts DEF AccountsInv, WorkInv, Pending
<1>10. ASSUME NEW o \in part
       PROVE  ~ Referred(o, At(f, o)')
  <2>1. LocationsDistinct'
    BY CoreLocationsNext
  <2>2. f \in DOMAIN fams' /\ o \in DOMAIN fams'[f].objs
    BY <1>2
  <2>3. ASSUME Backed(o, At(f, o)') PROVE FALSE
    <3>1. PICK g \in DOMAIN fams : o \in DOMAIN fams[g].objs /\ At(f, o)' = At(g, o)
      BY <2>3 DEF Backed, OwnedBy
    <3>2. g \in DOMAIN fams' /\ o \in DOMAIN fams'[g].objs /\ At(g, o)' = At(f, o)'
      BY <1>2, <1>7, <3>1
    <3>3. g = f
      BY <2>1, <2>2, <3>2 DEF OwnedBy, LocationsDistinct
    <3> QED BY <1>1, <3>3
  <2>5. At(f, o)' # Null
    BY <2>1, <2>2 DEF LocationsDistinct
  <2>6. o \in ObjectIds
    BY <1>2
  <2> QED BY <2>3, <2>5, <2>6 DEF Referred, AccountsInv, LocationsInv
<1>11. WorkInv'
  <2> SUFFICES ASSUME NEW u \in Threads
               PROVE  /\ pc'[u] # "install" => todo'[u] = {}
                      /\ pc'[u] \notin {"install", "evacuate"}
                           => failed[u] = {} /\ replaced[u] = {}
                      /\ todo'[u] \cap failed[u] = {}
                      /\ base'[u] # 0 => Pending(u)' \subseteq DOMAIN fams'[base'[u]].objs
                      /\ \A r \in replaced[u] :
                           r[1] \in DOMAIN fams'[base'[u]].objs \ Pending(u)'
    BY <1>3 DEF WorkInv
  <2>1. CASE u = t
    BY <1>2, <1>4, <1>5, <1>6, <2>1
  <2>2. CASE u # t
    <3>1. /\ pc[u] # "install" => todo[u] = {}
          /\ pc[u] \notin {"install", "evacuate"} => failed[u] = {} /\ replaced[u] = {}
          /\ todo[u] \cap failed[u] = {}
          /\ base[u] # 0 => Pending(u) \subseteq DOMAIN fams[base[u]].objs
          /\ \A r \in replaced[u] : r[1] \in DOMAIN fams[base[u]].objs \ Pending(u)
      BY DEF AccountsInv, WorkInv
    <3> QED BY <1>2, <1>5, <1>6, <1>9, <2>2, <3>1
  <2> QED BY <2>1, <2>2
<1>12. LocationsInv'
  <2>1. \A o \in ObjectIds : location_table'[o] # Null => Backed(o, location_table[o])'
    BY <1>3, <1>8 DEF AccountsInv, LocationsInv
  <2>2. ASSUME NEW u \in Threads, NEW r \in replaced'[u]
        PROVE  /\ Backed(r[1], r[2])'
               /\ r[2] # At(base[u], r[1])'
               /\ location_table'[r[1]] # r[2]
    <3>1. r \in replaced[u] /\ u # t
      BY <1>3, <1>4, <2>2
    <3>2. Backed(r[1], r[2]) /\ r[2] # At(base[u], r[1]) /\ location_table[r[1]] # r[2]
      BY <3>1 DEF AccountsInv, LocationsInv
    <3>3. At(base[u], r[1])' = At(base[u], r[1])
      BY <1>5, <1>7, <1>9, <3>1
    <3> QED BY <1>3, <1>8, <3>2, <3>3
  <2>3. \A u, v \in Threads : u # v => replaced'[u] \cap replaced'[v] = {}
    BY <1>3 DEF AccountsInv, LocationsInv
  <2>4. ASSUME NEW u \in Threads, NEW o \in Pending(u)'
        PROVE  ~ Referred(o, At(base[u], o))'
    <3>1. CASE u = t
      BY <1>3, <1>5, <1>6, <1>10, <3>1 DEF Referred
    <3>2. CASE u # t
      <4>1. ~ Referred(o, At(base[u], o)) /\ o \in Pending(u)
        BY <1>6, <2>4, <3>2 DEF AccountsInv, LocationsInv
      <4>2. At(base[u], o)' = At(base[u], o)
        BY <1>5, <1>7, <1>9, <3>2, <4>1
      <4> QED BY <1>3, <4>1, <4>2 DEF Referred
    <3> QED BY <3>1, <3>2
  <2> QED BY <2>1, <2>2, <2>3, <2>4 DEF LocationsInv
<1>13. ASSUME NEW g \in DOMAIN fams PROVE Accounted(g)' = Accounted(g)
  <2>1. \A u \in Threads : \A o :
          base'[u] = g /\ o \in Pending(u)' <=> base[u] = g /\ o \in Pending(u)
    <3> SUFFICES ASSUME NEW u \in Threads, NEW o
                 PROVE  base'[u] = g /\ o \in Pending(u)' <=> base[u] = g /\ o \in Pending(u)
      OBVIOUS
    <3>1. CASE u = t
      BY <1>1, <1>4, <1>5, <3>1 DEF Pending
    <3>2. CASE u # t
      BY <1>5, <1>6, <3>2
    <3> QED BY <3>1, <3>2
  <2>2. fams'[g] = fams[g] /\ \A o : At(g, o)' = At(g, o)
    BY <1>2, <1>7
  <2> QED BY <1>3, <2>1, <2>2 DEF Accounted, Pending
<1>14. Accounted(f)' = part
  BY <1>2, <1>5, <1>6 DEF Accounted, Pending
<1>15. CountsInv'
  <2>1. ASSUME NEW g \in DOMAIN fams' PROVE fams'[g].live = Cardinality(Accounted(g)')
    BY <1>2, <1>13, <1>14 DEF AccountsInv, CountsInv, LiveObjectsExact
  <2>2. ASSUME NEW u \in Threads, pc'[u] \in {"prune", "remove"}, NEW g \in claims'[u]
        PROVE  fams'[g].live = 0
    <3>1. u # t /\ pc[u] = pc'[u] /\ g \in claims[u] /\ g \in DOMAIN fams
      BY <1>3, <1>5, <2>2 DEF CoreInv, HoldersInv
    <3> QED BY <1>2, <2>2, <3>1 DEF AccountsInv, CountsInv
  <2> QED BY <2>1, <2>2 DEF CountsInv, LiveObjectsExact
<1> QED BY <1>11, <1>12, <1>15 DEF AccountsInv

(* Subtracting from a finite set what it contains.                         *)
LEMMA DifferenceCount ==
  ASSUME NEW S, IsFiniteSet(S), NEW T \in SUBSET S
  PROVE  Cardinality(S \ T) = Cardinality(S) - Cardinality(T)
<1>1. IsFiniteSet(T) /\ IsFiniteSet(S \ T)
  BY FS_Subset
<1>2. (S \ T) \cup T = S /\ (S \ T) \cap T = {}
  OBVIOUS
<1>3. Cardinality(S) = Cardinality(S \ T) + Cardinality(T) - 0
  BY <1>1, <1>2, FS_Union, FS_EmptySet
<1>4. Cardinality(S) \in Nat /\ Cardinality(T) \in Nat /\ Cardinality(S \ T) \in Nat
  BY <1>1, FS_CardinalityType
<1> QED BY <1>3, <1>4

(* The objects that account for a file are finitely many.                  *)
LEMMA AccountedFinite ==
  ASSUME CoreInv, NEW f \in DOMAIN fams
  PROVE  IsFiniteSet(Accounted(f)) /\ Cardinality(Accounted(f)) \in Nat
<1>1. Accounted(f) \in SUBSET ObjectIds
  BY FamTypes DEF Accounted, CoreInv
<1> QED BY <1>1, FiniteObjectIds, FS_Subset, FS_CardinalityType

(* An object accounts for a file while something refers to its location,   *)
(* or while it is pending.                                                 *)
LEMMA AccountedFacts ==
  ASSUME NEW f \in DOMAIN fams, NEW o \in DOMAIN fams[f].objs
  PROVE  o \in Accounted(f) <=> \/ Referred(o, At(f, o))
                                \/ \E u \in Threads : base[u] = f /\ o \in Pending(u)
BY DEF Accounted, Referred, Pending

(* A replaced location leads to a file other than the one being written,   *)
(* for which its object still accounts.                                    *)
LEMMA ReplacedFacts ==
  ASSUME CoreInv, AccountsInv, NEW t \in Threads, NEW r \in replaced[t]
  PROVE  LET g == FamFor(fams, r[2])
         IN  /\ r \in ObjectIds \X Nat /\ OwnedBy(g, r[1], r[2])
             /\ HasFamFor(fams, r[2]) /\ g # base[t]
             /\ r[1] \in Accounted(g) /\ fams[g].live >= 1
<1>1. /\ r \in ObjectIds \X Nat /\ Backed(r[1], r[2]) /\ r[2] # At(base[t], r[1])
  BY DEF AccountsInv, LocationsInv, CoreInv, TypeOK
<1>2. PICK g \in DOMAIN fams : OwnedBy(g, r[1], r[2])
  BY <1>1 DEF Backed
<1>3. HasFamFor(fams, r[2]) /\ FamFor(fams, r[2]) = g
  BY <1>2, OwnerIsFamFor DEF CoreInv
<1>4. /\ r[1] \in DOMAIN fams[g].objs /\ r[2] = At(g, r[1]) /\ r = <<r[1], r[2]>>
      /\ g # base[t]
  BY <1>1, <1>2 DEF OwnedBy
<1>5. r[1] \in Accounted(g)
  BY <1>4 DEF Accounted
<1>6. fams[g].live = Cardinality(Accounted(g))
  BY DEF AccountsInv, CountsInv, LiveObjectsExact
<1>7. Cardinality(Accounted(g)) # 0 /\ Cardinality(Accounted(g)) \in Nat
  BY <1>5, AccountedFinite, FS_EmptySet
<1>8. fams[g].live >= 1
  BY <1>6, <1>7
<1> QED BY <1>1, <1>2, <1>3, <1>4, <1>5, <1>8

(* decrement_evacuated_fams takes one from the count of the file, and one  *)
(* object from those that account for it.                                  *)
LEMMA AccountsEvacuate ==
  ASSUME CoreInv, CoreInv', AccountsInv, NEW t \in Threads, Evacuate(t)
  PROVE  AccountsInv'
<1>1. PICK r \in replaced[t] :
        DecrementFam(r[2]) /\ replaced' = [replaced EXCEPT ![t] = @ \ {r}]
  BY DEF Evacuate
<1>2. PICK g :
      /\ g = FamFor(fams, r[2])
      /\ r \in ObjectIds \X Nat /\ r = <<r[1], r[2]>>
      /\ g \in DOMAIN fams /\ r[1] \in DOMAIN fams[g].objs /\ r[2] = At(g, r[1])
      /\ r[1] \in Accounted(g) /\ fams[g].live >= 1
  BY ReplacedFacts DEF OwnedBy
<1>3. fams' = [fams EXCEPT ![g].live = @ - 1]
  BY <1>1, <1>2 DEF DecrementFam
<1>4. /\ DOMAIN fams' = DOMAIN fams
      /\ \A h \in DOMAIN fams : fams'[h].objs = fams[h].objs
      /\ \A h \in DOMAIN fams : h # g => fams'[h] = fams[h]
      /\ fams'[g].live = fams[g].live - 1
  <2> DEFINE n == 1
  <2>1. n \in Int /\ fams' = [fams EXCEPT ![g].live = @ - n]
    BY <1>3
  <2> HIDE DEF n
  <2>2. fams'[g].live = fams[g].live - n
    BY <1>2, <2>1, TypeFams, LiveUpdate DEF CoreInv
  <2> QED BY <2>1, <2>2, TypeFams, LiveUpdate DEF CoreInv, n
<1>5. UNCHANGED <<location_table, pc, base, todo, failed, claims>>
  BY DEF Evacuate, maint
<1>6. /\ replaced'[t] = replaced[t] \ {r}
      /\ \A u \in Threads : u # t => replaced'[u] = replaced[u]
  BY <1>1 DEF CoreInv, TypeOK
<1>7. \A u \in Threads : Pending(u)' = Pending(u) /\ replaced'[u] \subseteq replaced[u]
  BY <1>5, <1>6 DEF Pending
<1>8. \A h \in DOMAIN fams : \A o : At(h, o)' = At(h, o)
  BY <1>4 DEF At
<1>9. \A o, l : Backed(o, l)' <=> Backed(o, l)
  BY <1>4, <1>8 DEF Backed, OwnedBy
<1>10. /\ \A o, l : Referred(o, l)' => Referred(o, l)
       /\ \A o, l : Referred(o, l) => Referred(o, l)' \/ <<o, l>> = r
       /\ ~ Referred(r[1], r[2])'
  <2>1. \A o, l : Referred(o, l)' => Referred(o, l)
    BY <1>5, <1>7 DEF Referred
  <2>2. \A o, l : Referred(o, l) => Referred(o, l)' \/ <<o, l>> = r
    BY <1>5, <1>6 DEF Referred
  <2>3. location_table[r[1]] # r[2]
    BY DEF AccountsInv, LocationsInv
  <2>4. \A u \in Threads : r \notin replaced'[u]
    BY <1>6 DEF AccountsInv, LocationsInv
  <2> QED BY <1>2, <1>5, <2>1, <2>2, <2>3, <2>4 DEF Referred
<1>11. ASSUME NEW u \in Threads, Pending(u) # {} \/ replaced[u] # {}
       PROVE  base[u] \in DOMAIN fams /\ base[u] # 0
  BY <1>11, WriterFacts DEF AccountsInv, WorkInv, Pending
<1>12. WorkInv'
  <2> SUFFICES ASSUME NEW u \in Threads
               PROVE  /\ pc[u] # "install" => todo[u] = {}
                      /\ pc[u] \notin {"install", "evacuate"}
                           => failed[u] = {} /\ replaced'[u] = {}
                      /\ todo[u] \cap failed[u] = {}
                      /\ base[u] # 0 => Pending(u) \subseteq DOMAIN fams'[base[u]].objs
                      /\ \A s \in replaced'[u] :
                           s[1] \in DOMAIN fams'[base[u]].objs \ Pending(u)
    BY <1>5, <1>7 DEF WorkInv
  <2>1. base[u] # 0 => base[u] \in DOMAIN fams
    BY DEF CoreInv, HoldersInv
  <2>2. base[u] # 0 \/ replaced[u] = {}
    BY <1>11
  <2>3. base[u] # 0 => fams'[base[u]].objs = fams[base[u]].objs
    BY <1>4, <2>1
  <2> QED BY <1>7, <2>1, <2>2, <2>3 DEF AccountsInv, WorkInv
<1>13. LocationsInv'
  <2>1. \A o \in ObjectIds : location_table'[o] # Null => Backed(o, location_table[o])'
    BY <1>5, <1>9 DEF AccountsInv, LocationsInv
  <2>2. ASSUME NEW u \in Threads, NEW s \in replaced'[u]
        PROVE  /\ Backed(s[1], s[2])'
               /\ s[2] # At(base[u], s[1])'
               /\ location_table'[s[1]] # s[2]
    <3>1. s \in replaced[u]
      BY <1>7
    <3>2. Backed(s[1], s[2]) /\ s[2] # At(base[u], s[1]) /\ location_table[s[1]] # s[2]
      BY <3>1 DEF AccountsInv, LocationsInv
    <3>3. At(base[u], s[1])' = At(base[u], s[1])
      BY <1>5, <1>8, <1>11, <3>1
    <3> QED BY <1>5, <1>9, <3>2, <3>3
  <2>3. \A u, v \in Threads : u # v => replaced'[u] \cap replaced'[v] = {}
    BY <1>7 DEF AccountsInv, LocationsInv
  <2>4. ASSUME NEW u \in Threads, NEW o \in Pending(u)'
        PROVE  ~ Referred(o, At(base[u], o))'
    <3>1. o \in Pending(u) /\ ~ Referred(o, At(base[u], o))
      BY <1>7 DEF AccountsInv, LocationsInv
    <3>2. At(base[u], o)' = At(base[u], o)
      BY <1>5, <1>8, <1>11, <3>1
    <3> QED BY <1>5, <1>7, <3>1, <3>2 DEF Referred
  <2> QED BY <2>1, <2>2, <2>3, <2>4 DEF LocationsInv
<1>14. \A h \in DOMAIN fams : \A o \in DOMAIN fams[h].objs :
         /\ o \in Accounted(h)' => o \in Accounted(h)
         /\ o \in Accounted(h) /\ <<o, At(h, o)>> # r => o \in Accounted(h)'
  <2> SUFFICES ASSUME NEW h \in DOMAIN fams, NEW o \in DOMAIN fams[h].objs
               PROVE  /\ o \in Accounted(h)' => o \in Accounted(h)
                      /\ o \in Accounted(h) /\ <<o, At(h, o)>> # r => o \in Accounted(h)'
    OBVIOUS
  <2>1. o \in Accounted(h)' <=>
          \/ Referred(o, At(h, o))'
          \/ \E u \in Threads : base'[u] = h /\ o \in Pending(u)'
    BY <1>4 DEF Accounted, Referred, Pending
  <2>2. At(h, o)' = At(h, o)
    BY <1>8
  <2>3. /\ Referred(o, At(h, o))' => Referred(o, At(h, o))
        /\ Referred(o, At(h, o)) /\ <<o, At(h, o)>> # r => Referred(o, At(h, o))'
    BY <1>10, <2>2 DEF Referred
  <2> QED BY <1>5, <1>7, <2>1, <2>3, AccountedFacts
<1>15. ASSUME NEW h \in DOMAIN fams, h # g PROVE Accounted(h)' = Accounted(h)
  <2>1. \A o \in DOMAIN fams[h].objs : <<o, At(h, o)>> # r
    BY <1>2, <1>15, OwnerUnique DEF OwnedBy, CoreInv
  <2> QED BY <1>4, <1>14, <2>1 DEF Accounted
<1>16. Accounted(g)' = Accounted(g) \ {r[1]}
  <2>1. ASSUME r[1] \in Accounted(g)' PROVE FALSE
    <3>1. \/ Referred(r[1], At(g, r[1]))'
          \/ \E u \in Threads : base'[u] = g /\ r[1] \in Pending(u)'
      BY <2>1, <1>2, <1>4 DEF Accounted, Referred, Pending
    <3>2. ~ Referred(r[1], At(g, r[1]))'
      BY <1>2, <1>8, <1>10 DEF Referred
    <3>3. PICK u \in Threads : base[u] = g /\ r[1] \in Pending(u)
      BY <1>5, <1>7, <3>1, <3>2
    <3>4. ~ Referred(r[1], r[2])
      BY <1>2, <3>3 DEF AccountsInv, LocationsInv
    <3> QED BY <1>2, <3>4 DEF Referred
  <2> QED BY <1>2, <1>4, <1>14, <2>1 DEF Accounted
<1>17. Cardinality(Accounted(g)') = Cardinality(Accounted(g)) - 1
  BY <1>2, <1>16, AccountedFinite, FS_RemoveElement
<1>18. CountsInv'
  <2>1. \A h \in DOMAIN fams' : fams'[h].live = Cardinality(Accounted(h)')
    BY <1>2, <1>4, <1>15, <1>17 DEF AccountsInv, CountsInv, LiveObjectsExact
  <2>2. ASSUME NEW u \in Threads, pc'[u] \in {"prune", "remove"}, NEW h \in claims'[u]
        PROVE  fams'[h].live = 0
    <3>1. pc[u] \in {"prune", "remove"} /\ h \in claims[u] /\ h \in DOMAIN fams
      BY <1>5, <2>2 DEF CoreInv, HoldersInv
    <3>2. fams[h].live = 0
      BY <3>1 DEF AccountsInv, CountsInv
    <3>3. h # g
      BY <1>2, <3>2
    <3> QED BY <1>4, <3>1, <3>2, <3>3
  <2> QED BY <2>1, <2>2 DEF CountsInv, LiveObjectsExact
<1> QED BY <1>12, <1>13, <1>18 DEF AccountsInv

(* finalize_fam subtracts the refused ids from the count, and they no      *)
(* longer account for it.                                                  *)
LEMMA AccountsFinalize ==
  ASSUME CoreInv, CoreInv', AccountsInv, NEW t \in Threads, Finalize(t)
  PROVE  AccountsInv'
<1>0. PICK f : f = base[t]
  OBVIOUS
<1>1. /\ pc[t] = "evacuate" /\ replaced[t] = {}
      /\ pc' = [pc EXCEPT ![t] = "unclaim"]
      /\ failed' = [failed EXCEPT ![t] = {}]
      /\ UNCHANGED <<location_table, base, todo, replaced, claims>>
  BY DEF Finalize, Goto, maint
<1>2. /\ pc'[t] = "unclaim" /\ failed'[t] = {}
      /\ \A u \in Threads : u # t => pc'[u] = pc[u] /\ failed'[u] = failed[u]
  BY <1>1 DEF CoreInv, TypeOK
<1>3. /\ f \in DOMAIN fams /\ f # 0
      /\ Pending(t) = failed[t] /\ failed[t] \subseteq DOMAIN fams[f].objs
      /\ todo[t] = {}
  BY <1>0, <1>1, WriterFacts DEF AccountsInv, WorkInv, Pending
<1>4. /\ DOMAIN fams' = DOMAIN fams
      /\ \A h \in DOMAIN fams : fams'[h].objs = fams[h].objs
      /\ \A h \in DOMAIN fams : h # f => fams'[h] = fams[h]
      /\ fams'[f].live = fams[f].live - Cardinality(failed[t])
  BY <1>0, FinalizeFields DEF CoreInv
<1>5. /\ Pending(t)' = {}
      /\ \A u \in Threads : u # t => Pending(u)' = Pending(u)
      /\ \A u \in Threads : Pending(u)' \subseteq Pending(u)
  BY <1>1, <1>2, <1>3 DEF Pending
<1>6. \A h \in DOMAIN fams : \A o : At(h, o)' = At(h, o)
  BY <1>4 DEF At
<1>7. \A o, l : (Backed(o, l)' <=> Backed(o, l)) /\ (Referred(o, l)' <=> Referred(o, l))
  BY <1>1, <1>4, <1>6 DEF Backed, OwnedBy, Referred
<1>8. ASSUME NEW u \in Threads, Pending(u) # {} \/ replaced[u] # {}
      PROVE  base[u] \in DOMAIN fams /\ base[u] # 0
  BY <1>8, WriterFacts DEF AccountsInv, WorkInv, Pending
<1>9. WorkInv'
  <2> SUFFICES ASSUME NEW u \in Threads
               PROVE  /\ pc'[u] # "install" => todo[u] = {}
                      /\ pc'[u] \notin {"install", "evacuate"}
                           => failed'[u] = {} /\ replaced[u] = {}
                      /\ todo[u] \cap failed'[u] = {}
                      /\ base[u] # 0 => Pending(u)' \subseteq DOMAIN fams'[base[u]].objs
                      /\ \A r \in replaced[u] :
                           r[1] \in DOMAIN fams'[base[u]].objs \ Pending(u)'
    BY <1>1 DEF WorkInv
  <2>1. CASE u = t
    BY <1>1, <1>2, <1>3, <1>5, <2>1
  <2>2. CASE u # t
    <3>1. base[u] # 0 => fams'[base[u]].objs = fams[base[u]].objs
      BY <1>4 DEF CoreInv, HoldersInv
    <3>2. base[u] # 0 \/ replaced[u] = {}
      BY <1>8
    <3> QED BY <1>2, <1>5, <2>2, <3>1, <3>2 DEF AccountsInv, WorkInv
  <2> QED BY <2>1, <2>2
<1>10. LocationsInv'
  <2>1. \A o \in ObjectIds : location_table'[o] # Null => Backed(o, location_table[o])'
    BY <1>1, <1>7 DEF AccountsInv, LocationsInv
  <2>2. ASSUME NEW u \in Threads, NEW r \in replaced'[u]
        PROVE  /\ Backed(r[1], r[2])'
               /\ r[2] # At(base[u], r[1])'
               /\ location_table'[r[1]] # r[2]
    <3>1. /\ r \in replaced[u] /\ Backed(r[1], r[2]) /\ r[2] # At(base[u], r[1])
          /\ location_table[r[1]] # r[2]
      BY <1>1 DEF AccountsInv, LocationsInv
    <3>2. At(base[u], r[1])' = At(base[u], r[1])
      BY <1>1, <1>6, <1>8, <3>1
    <3> QED BY <1>1, <1>7, <3>1, <3>2
  <2>3. \A u, v \in Threads : u # v => replaced'[u] \cap replaced'[v] = {}
    BY <1>1 DEF AccountsInv, LocationsInv
  <2>4. ASSUME NEW u \in Threads, NEW o \in Pending(u)'
        PROVE  ~ Referred(o, At(base[u], o))'
    <3>1. o \in Pending(u) /\ ~ Referred(o, At(base[u], o))
      BY <1>5 DEF AccountsInv, LocationsInv
    <3>2. At(base[u], o)' = At(base[u], o)
      BY <1>1, <1>6, <1>8, <3>1
    <3> QED BY <1>1, <3>1, <3>2 DEF Referred
  <2> QED BY <2>1, <2>2, <2>3, <2>4 DEF LocationsInv
<1>11. \A u \in Threads : u # t => base[u] # f
  BY <1>0, <1>3 DEF CoreInv, HoldersInv
<1>12. \A h \in DOMAIN fams : \A o \in DOMAIN fams[h].objs :
         o \in Accounted(h)' <=> o \in Accounted(h) /\ ~ (h = f /\ o \in failed[t])
  <2> SUFFICES ASSUME NEW h \in DOMAIN fams, NEW o \in DOMAIN fams[h].objs
               PROVE  o \in Accounted(h)' <=>
                        o \in Accounted(h) /\ ~ (h = f /\ o \in failed[t])
    OBVIOUS
  <2>1. o \in Accounted(h)' <=>
          \/ Referred(o, At(h, o))'
          \/ \E u \in Threads : base[u] = h /\ o \in Pending(u)'
    BY <1>1, <1>4 DEF Accounted, Referred, Pending
  <2>2. Referred(o, At(h, o))' <=> Referred(o, At(h, o))
    BY <1>6, <1>7 DEF Referred
  <2>3. o \in Accounted(h) <=>
          \/ Referred(o, At(h, o))
          \/ \E u \in Threads : base[u] = h /\ o \in Pending(u)
    BY AccountedFacts
  <2>4. h = f /\ o \in failed[t] => ~ Referred(o, At(h, o))
    BY <1>0, <1>3 DEF AccountsInv, LocationsInv
  <2> QED BY <1>0, <1>3, <1>5, <1>11, <2>1, <2>2, <2>3, <2>4
<1>13. \A h \in DOMAIN fams : h # f => Accounted(h)' = Accounted(h)
  BY <1>4, <1>12 DEF Accounted
<1>14. Accounted(f)' = Accounted(f) \ failed[t] /\ failed[t] \in SUBSET Accounted(f)
  <2>1. failed[t] \in SUBSET Accounted(f)
    BY <1>0, <1>3, AccountedFacts
  <2> QED BY <1>3, <1>4, <1>12, <2>1 DEF Accounted
<1>15. Cardinality(Accounted(f)') = Cardinality(Accounted(f)) - Cardinality(failed[t])
  BY <1>3, <1>14, AccountedFinite, DifferenceCount
<1>16. CountsInv'
  <2>1. \A h \in DOMAIN fams' : fams'[h].live = Cardinality(Accounted(h)')
    BY <1>3, <1>4, <1>13, <1>15 DEF AccountsInv, CountsInv, LiveObjectsExact
  <2>2. ASSUME NEW u \in Threads, pc'[u] \in {"prune", "remove"}, NEW h \in claims'[u]
        PROVE  fams'[h].live = 0
    <3>1. u # t /\ pc[u] \in {"prune", "remove"} /\ h \in claims[u] /\ h \in DOMAIN fams
      BY <1>1, <1>2, <2>2 DEF CoreInv, HoldersInv
    <3>2. h # f
      BY <1>0, <3>1 DEF CoreInv, HoldersInv
    <3> QED BY <1>4, <3>1, <3>2 DEF AccountsInv, CountsInv
  <2> QED BY <2>1, <2>2 DEF CountsInv, LiveObjectsExact
<1> QED BY <1>9, <1>10, <1>16 DEF AccountsInv

(***************************************************************************)
(* Files that leave the map.                                               *)
(***************************************************************************)
(* A file to which nothing refers can leave the map.                       *)
LEMMA AccountsRemove ==
  ASSUME CoreInv, CoreInv', AccountsInv, NEW t \in Threads, NEW f, NEW label,
         RemoveFam(f), UNCHANGED <<location_table, todo, replaced>>,
         \A o \in DOMAIN fams[f].objs : ~ Referred(o, At(f, o)),
         pc' = [pc EXCEPT ![t] = label], failed' = [failed EXCEPT ![t] = {}],
         label \in {"remove", "insert", "idle", "rewrite"},
         todo[t] = {} /\ replaced[t] = {}, base[t] \in {0, f}, base'[t] = 0,
         \A u \in Threads : u # t =>
           base'[u] = base[u] /\ base[u] # f /\ claims'[u] = claims[u],
         label = "remove" => claims'[t] \subseteq claims[t] /\ pc[t] = "remove"
  PROVE  AccountsInv'
<1>1. /\ DOMAIN fams' = DOMAIN fams \ {f}
      /\ \A g \in DOMAIN fams' : fams'[g] = fams[g]
  BY RemoveUpdate, TypeFams DEF CoreInv
<1>2. /\ pc'[t] = label /\ failed'[t] = {}
      /\ \A u \in Threads : u # t => pc'[u] = pc[u] /\ failed'[u] = failed[u]
  BY DEF CoreInv, TypeOK
<1>3. /\ Pending(t)' = {}
      /\ \A u \in Threads : u # t => Pending(u)' = Pending(u)
  BY <1>2 DEF Pending
<1>4. \A g \in DOMAIN fams' : \A o : At(g, o)' = At(g, o)
  BY <1>1 DEF At
<1>5. \A o, l : Referred(o, l)' <=> Referred(o, l)
  BY DEF Referred
<1>6. ASSUME NEW o, NEW l, Backed(o, l), Referred(o, l) PROVE Backed(o, l)'
  <2>1. PICK g \in DOMAIN fams : OwnedBy(g, o, l)
    BY <1>6 DEF Backed
  <2>2. g # f
    BY <1>6, <2>1 DEF OwnedBy
  <2>3. g \in DOMAIN fams' /\ OwnedBy(g, o, l)'
    BY <1>1, <1>4, <2>1, <2>2 DEF OwnedBy
  <2> QED BY <2>3 DEF Backed
<1>7. ASSUME NEW u \in Threads, u # t, Pending(u) # {} \/ replaced[u] # {}
      PROVE  base[u] \in DOMAIN fams' /\ base[u] # 0 /\ base'[u] = base[u]
  BY <1>1, <1>7, WriterFacts DEF AccountsInv, WorkInv, Pending
<1>8. WorkInv'
  <2> SUFFICES ASSUME NEW u \in Threads
               PROVE  /\ pc'[u] # "install" => todo[u] = {}
                      /\ pc'[u] \notin {"install", "evacuate"}
                           => failed'[u] = {} /\ replaced[u] = {}
                      /\ todo[u] \cap failed'[u] = {}
                      /\ base'[u] # 0 => Pending(u)' \subseteq DOMAIN fams'[base'[u]].objs
                      /\ \A r \in replaced[u] :
                           r[1] \in DOMAIN fams'[base'[u]].objs \ Pending(u)'
    BY DEF WorkInv
  <2>1. CASE u = t
    BY <1>2, <1>3, <2>1
  <2>2. CASE u # t
    <3>1. base[u] # 0 => fams'[base[u]] = fams[base[u]]
      BY <1>1, <2>2 DEF CoreInv, HoldersInv
    <3>2. base[u] # 0 \/ replaced[u] = {}
      BY <1>7, <2>2
    <3> QED BY <1>2, <1>3, <2>2, <3>1, <3>2 DEF AccountsInv, WorkInv
  <2> QED BY <2>1, <2>2
<1>9. LocationsInv'
  <2>1. ASSUME NEW o \in ObjectIds, location_table'[o] # Null
        PROVE  Backed(o, location_table[o])'
    <3>1. Backed(o, location_table[o]) /\ Referred(o, location_table[o])
      BY <2>1 DEF AccountsInv, LocationsInv, Referred
    <3> QED BY <1>6, <3>1
  <2>2. ASSUME NEW u \in Threads, NEW r \in replaced'[u]
        PROVE  /\ Backed(r[1], r[2])'
               /\ r[2] # At(base[u], r[1])'
               /\ location_table'[r[1]] # r[2]
    <3>1. /\ r \in replaced[u] /\ Backed(r[1], r[2]) /\ r[2] # At(base[u], r[1])
          /\ location_table[r[1]] # r[2] /\ u # t
      BY <2>2 DEF AccountsInv, LocationsInv
    <3>2. At(base[u], r[1])' = At(base[u], r[1])
      BY <1>4, <1>7, <3>1
    <3>3. r \in ObjectIds \X Nat
      BY <3>1, ReplacedFacts
    <3>4. Referred(r[1], r[2])
      BY <3>1, <3>3 DEF Referred
    <3> QED BY <1>6, <3>1, <3>2, <3>4
  <2>3. \A u, v \in Threads : u # v => replaced'[u] \cap replaced'[v] = {}
    BY DEF AccountsInv, LocationsInv
  <2>4. ASSUME NEW u \in Threads, NEW o \in Pending(u)'
        PROVE  ~ Referred(o, At(base[u], o))'
    <3>1. u # t /\ o \in Pending(u) /\ ~ Referred(o, At(base[u], o))
      BY <1>3, <2>4 DEF AccountsInv, LocationsInv
    <3>2. At(base[u], o)' = At(base[u], o)
      BY <1>4, <1>7, <3>1
    <3> QED BY <3>1, <3>2 DEF Referred
  <2> QED BY <2>1, <2>2, <2>3, <2>4 DEF LocationsInv
<1>10. ASSUME NEW g \in DOMAIN fams' PROVE Accounted(g)' = Accounted(g)
  <2>1. g \in DOMAIN fams /\ g # f /\ fams'[g] = fams[g] /\ g # 0
    BY <1>1, ZeroNotFam DEF CoreInv
  <2>2. \A u \in Threads : \A o :
          base'[u] = g /\ o \in Pending(u)' <=> base[u] = g /\ o \in Pending(u)
    <3> SUFFICES ASSUME NEW u \in Threads, NEW o
                 PROVE  base'[u] = g /\ o \in Pending(u)' <=> base[u] = g /\ o \in Pending(u)
      OBVIOUS
    <3>1. CASE u # t
      BY <1>3, <3>1
    <3>2. CASE u = t
      BY <1>3, <2>1, <3>2
    <3> QED BY <3>1, <3>2
  <2>3. \A o : At(g, o)' = At(g, o)
    BY <1>4
  <2> QED BY <2>1, <2>2, <2>3 DEF Accounted, Pending
<1>11. CountsInv'
  <2>1. \A g \in DOMAIN fams' : fams'[g].live = Cardinality(Accounted(g)')
    BY <1>1, <1>10 DEF AccountsInv, CountsInv, LiveObjectsExact
  <2>2. ASSUME NEW u \in Threads, pc'[u] \in {"prune", "remove"}, NEW g \in claims'[u]
        PROVE  fams'[g].live = 0
    <3>1. pc[u] \in {"prune", "remove"} /\ g \in claims[u] /\ g \in DOMAIN fams'
      BY <1>2, <2>2 DEF CoreInv, HoldersInv
    <3> QED BY <1>1, <3>1 DEF AccountsInv, CountsInv
  <2> QED BY <2>1, <2>2 DEF CountsInv, LiveObjectsExact
<1> QED BY <1>8, <1>9, <1>11 DEF AccountsInv

(* Step 4 of write_batch_inner drops a file none of whose ids was          *)
(* installed, so that nothing refers to it.                                *)
LEMMA AccountsAbandon ==
  ASSUME CoreInv, CoreInv', AccountsInv, NEW t \in Threads, Abandon(t)
  PROVE  AccountsInv'
<1>0. PICK f : f = base[t]
  OBVIOUS
<1>1. /\ pc[t] = "install" /\ todo[t] = {} /\ Trailer(t) = {} /\ RemoveFam(f)
      /\ base' = [base EXCEPT ![t] = 0] /\ failed' = [failed EXCEPT ![t] = {}]
      /\ UNCHANGED <<location_table, todo, replaced, claims>>
  BY <1>0 DEF Abandon, PartDone, maint
<1>2. PICK label \in {"insert", "rewrite", "idle"} : pc' = [pc EXCEPT ![t] = label]
  BY DEF Abandon, PartDone, Goto
<1>3. f \in DOMAIN fams /\ f # 0
  BY <1>0, <1>1, WriterFacts
<1>4. DOMAIN fams[f].objs \subseteq failed[t]
  BY <1>0, <1>1 DEF Trailer
<1>5. \A o \in DOMAIN fams[f].objs : ~ Referred(o, At(f, o))
  BY <1>0, <1>4 DEF AccountsInv, LocationsInv, Pending
<1>6. replaced[t] = {}
  BY <1>0, <1>4 DEF AccountsInv, WorkInv, Pending
<1>7. /\ base'[t] = 0
      /\ \A u \in Threads : u # t => base'[u] = base[u] /\ base[u] # f
  BY <1>0, <1>1, <1>3 DEF CoreInv, HoldersInv, TypeOK
<1> QED BY <1>0, <1>1, <1>2, <1>5, <1>6, <1>7, AccountsRemove

(* prune_empty_files removes files whose count is 0, to which nothing      *)
(* refers because the count is exact.                                      *)
LEMMA AccountsPruned ==
  ASSUME CoreInv, CoreInv', AccountsInv, NEW t \in Threads, Remove(t)
  PROVE  AccountsInv'
<1>1. /\ pc[t] = "remove"
      /\ UNCHANGED <<location_table, base, todo, failed, replaced>>
  BY DEF Remove, inner
<1>2. todo[t] = {} /\ failed[t] = {} /\ replaced[t] = {}
  BY <1>1 DEF AccountsInv, WorkInv
<1>3. base[t] = 0
  BY <1>1 DEF CoreInv, HoldersInv, Working
<1>4. ASSUME NEW f \in claims[t], RemoveFam(f), claims' = [claims EXCEPT ![t] = @ \ {f}],
             pc' = pc
      PROVE  AccountsInv'
  <2>1. f \in DOMAIN fams /\ fams[f].live = 0
    BY <1>1, <1>4 DEF CoreInv, HoldersInv, AccountsInv, CountsInv
  <2>2. Accounted(f) = {}
    <3>1. Cardinality(Accounted(f)) = 0
      BY <2>1 DEF AccountsInv, CountsInv, LiveObjectsExact
    <3> QED BY <2>1, <3>1, AccountedFinite, FS_EmptySet
  <2>3. \A o \in DOMAIN fams[f].objs : ~ Referred(o, At(f, o))
    BY <2>1, <2>2, AccountedFacts
  <2>4. pc' = [pc EXCEPT ![t] = "remove"] /\ failed' = [failed EXCEPT ![t] = {}]
    BY <1>1, <1>2, <1>4 DEF CoreInv, TypeOK
  <2>5. /\ claims'[t] \subseteq claims[t]
        /\ \A u \in Threads : u # t => claims'[u] = claims[u]
    BY <1>4 DEF CoreInv, TypeOK
  <2>6. \A u \in Threads : base[u] # f
    BY <1>4 DEF CoreInv, HoldersInv
  <2>7. PICK label : label = "remove"
    OBVIOUS
  <2>8. /\ label \in {"remove", "insert", "idle", "rewrite"}
        /\ pc' = [pc EXCEPT ![t] = label] /\ pc[t] = "remove"
    BY <1>1, <2>4, <2>7
  <2>9. /\ base[t] \in {0, f} /\ base'[t] = 0
        /\ \A u \in Threads : u # t =>
             base'[u] = base[u] /\ base[u] # f /\ claims'[u] = claims[u]
    BY <1>1, <1>3, <2>5, <2>6
  <2> QED BY <1>1, <1>2, <1>4, <2>3, <2>4, <2>5, <2>8, <2>9, AccountsRemove
<1>5. ASSUME Goto(t, "idle"), UNCHANGED <<fams, claims>>
      PROVE  AccountsInv'
  <2>1. PICK label : label = "idle"
    OBVIOUS
  <2>2. /\ pc' = [pc EXCEPT ![t] = label] /\ label \notin {"install", "prune", "remove"}
        /\ pc[t] \notin {"install", "evacuate"}
    BY <1>1, <1>5, <2>1 DEF Goto
  <2>3. SameAccounts
    BY <1>1, <1>5, <2>2, AccountsMove
  <2> QED BY <2>3, AccountsFrame
<1> QED BY <1>4, <1>5 DEF Remove

(***************************************************************************)
(* Restarts.                                                               *)
(***************************************************************************)
(* Recovery points the table at objects of the files it opens, and counts  *)
(* for each file the objects that the table points at in it.               *)
LEMMA RecoveredOwner ==
  ASSUME NEW files, Directory(files), NEW o \in ObjectIds, FilesWith(files, o) # {}
  PROVE  LET f == LastFileWith(files, o)
             l == LocationIn(f, files[f].objs, o)
         IN  /\ RecoveredLocation(files, o) = l
             /\ f \in DOMAIN files /\ o \in DOMAIN files[f].objs
             /\ FamFor(files, l) = f
<1> DEFINE f == LastFileWith(files, o)
<1>1. f \in DOMAIN files /\ o \in files[f].trailer
  BY LastFileFacts
<1>2. RecoveredLocation(files, o) = LocationIn(f, files[f].objs, o)
  BY DEF RecoveredLocation
<1> HIDE DEF f
<1>3. /\ f \in FamLocations /\ o \in DOMAIN files[f].objs
      /\ DOMAIN files[f].objs \subseteq ObjectIds
      /\ files[f].objs[o].off \in Nat /\ files[f].objs[o].del \in BOOLEAN
  BY <1>1, DirectoryTypes
<1>4. /\ LsnOf(f) < 2 * NewWriteBatchBit
      /\ Position(f) >= 1 /\ Position(f) + DataLen(files[f].objs) < NewWriteBatchBit
      /\ files[f].objs[o].off <= DataLen(files[f].objs)
      /\ \A g \in DOMAIN files : Disjoint(f, files[f].objs, g)
      /\ DOMAIN files \subseteq FamLocations
  BY <1>1, <1>3 DEF Directory
<1>5. FamFor(files, LocationIn(f, files[f].objs, o)) = f
  BY <1>1, <1>3, <1>4, FamForOwner
<1> QED BY <1>1, <1>2, <1>3, <1>5 DEF f

(* After a restart the counts are those that recovery took.                *)
LEMMA AccountsRestart ==
  ASSUME CoreInv', NEW files, Directory(files), Recover(files), ResetThreads
  PROVE  AccountsInv'
<1>1. \A u \in Threads : /\ pc'[u] = "idle" /\ base'[u] = 0 /\ claims'[u] = {}
                         /\ todo'[u] = {} /\ failed'[u] = {} /\ replaced'[u] = {}
  BY DEF ResetThreads
<1>2. /\ DOMAIN fams' = DOMAIN files
      /\ \A f \in DOMAIN files : fams'[f].objs = files[f].objs
      /\ \A f \in DOMAIN files :
           fams'[f].live = Cardinality({o \in ObjectIds :
                             /\ RecoveredLocation(files, o) # Null
                             /\ FamFor(files, RecoveredLocation(files, o)) = f})
      /\ \A o \in ObjectIds : location_table'[o] = RecoveredLocation(files, o)
  BY DEF Recover
<1>3. \A f \in DOMAIN files : \A o : At(f, o)' = LocationIn(f, files[f].objs, o)
  BY <1>2 DEF At
<1>4. ASSUME NEW o \in ObjectIds, location_table'[o] # Null
      PROVE  \E f \in DOMAIN files :
               /\ o \in DOMAIN files[f].objs /\ location_table'[o] = At(f, o)'
               /\ FamFor(files, location_table'[o]) = f
  <2>1. FilesWith(files, o) # {}
    BY <1>2, <1>4 DEF RecoveredLocation
  <2> QED BY <1>2, <1>3, <2>1, RecoveredOwner
<1>5. WorkInv'
  BY <1>1 DEF WorkInv, Pending
<1>6. LocationsInv'
  <2>1. \A o \in ObjectIds : location_table'[o] # Null => Backed(o, location_table[o])'
    BY <1>2, <1>4 DEF Backed, OwnedBy
  <2> QED BY <1>1, <2>1 DEF LocationsInv, Pending
<1>7. ASSUME NEW f \in DOMAIN files
      PROVE  Accounted(f)' = {o \in ObjectIds :
                                /\ RecoveredLocation(files, o) # Null
                                /\ FamFor(files, RecoveredLocation(files, o)) = f}
  <2>1. LocationsDistinct'
    BY CoreLocationsNext
  <2>2. DOMAIN fams'[f].objs \subseteq ObjectIds
    BY <1>2 DEF CoreInv, TypeOK, FileMapTypeOK
  <2>3. \A o : o \in Accounted(f)' <=>
          o \in DOMAIN fams'[f].objs /\ location_table'[o] = At(f, o)'
    BY <1>1 DEF Accounted
  <2>4. ASSUME NEW o \in ObjectIds, o \in Accounted(f)'
        PROVE  location_table'[o] # Null /\ FamFor(files, location_table'[o]) = f
    <3>1. o \in DOMAIN fams'[f].objs /\ location_table'[o] = At(f, o)' /\ f \in DOMAIN fams'
      BY <1>2, <2>3, <2>4
    <3>2. location_table'[o] # Null
      BY <2>1, <3>1 DEF LocationsDistinct
    <3>3. PICK g \in DOMAIN files :
            /\ o \in DOMAIN files[g].objs /\ location_table'[o] = At(g, o)'
            /\ FamFor(files, location_table'[o]) = g
      BY <1>4, <3>2
    <3>4. OwnedBy(f, o, location_table[o])' /\ OwnedBy(g, o, location_table[o])'
      BY <1>2, <3>1, <3>3 DEF OwnedBy
    <3>5. f = g
      BY <2>1, <3>4 DEF LocationsDistinct
    <3> QED BY <3>2, <3>3, <3>5
  <2>5. ASSUME NEW o \in ObjectIds, location_table'[o] # Null,
               FamFor(files, location_table'[o]) = f
        PROVE  o \in Accounted(f)'
    BY <1>2, <1>4, <2>3, <2>5
  <2> QED BY <1>2, <2>2, <2>3, <2>4, <2>5
<1>8. CountsInv'
  BY <1>1, <1>2, <1>7 DEF CountsInv, LiveObjectsExact
<1> QED BY <1>5, <1>6, <1>8 DEF AccountsInv

(***************************************************************************)
(* The induction.                                                          *)
(***************************************************************************)
(* An empty store has nothing to account for.                              *)
LEMMA InitAccounts == Init => AccountsInv
<1> SUFFICES ASSUME Init PROVE AccountsInv
  OBVIOUS
<1>1. \A t \in Threads : /\ todo[t] = {} /\ failed[t] = {} /\ replaced[t] = {}
                         /\ base[t] = 0 /\ pc[t] = "idle"
  BY DEF Init
<1>2. DOMAIN fams = {} /\ \A o \in ObjectIds : location_table[o] = Null
  BY DEF Init, EmptyTable
<1>3. WorkInv
  BY <1>1 DEF WorkInv, Pending
<1>4. LocationsInv
  BY <1>1, <1>2 DEF LocationsInv, Pending
<1>5. CountsInv
  BY <1>1, <1>2 DEF CountsInv, LiveObjectsExact
<1> QED BY <1>3, <1>4, <1>5 DEF AccountsInv

(* Every step preserves the accounts.                                      *)
LEMMA AccountsNext ==
  ASSUME CoreInv, CoreInv', AccountsInv, [Next]_vars
  PROVE  AccountsInv'
<1>1. ASSUME NEW t \in Threads, WriteBatch(t) \/ StartMaintenance(t) \/ Step(t)
      PROVE  AccountsInv'
  BY <1>1, AccountsQuiet, AccountsFrame, AccountsInsert, AccountsInstall,
     AccountsAbandon, AccountsEvacuate, AccountsFinalize, AccountsPruned DEF Step
<1>2. ASSUME UNCHANGED <<location_table, fams, pc, todo, failed, replaced, base, claims>>
      PROVE  AccountsInv'
  <2>1. SameAccounts
    BY <1>2 DEF SameAccounts, AccountsInv, WorkInv, CountsInv
  <2> QED BY <2>1, AccountsFrame
<1>3. ASSUME NEW f \in DOMAIN heap, Unlink(f) PROVE AccountsInv'
  BY <1>2, <1>3 DEF Unlink, local, inner, maint
<1>4. CASE UNCHANGED vars
  BY <1>2, <1>4 DEF vars, shared, local, inner, maint
<1>5. CASE CrashRecover \/ CloseAndReopen
  <2>1. PICK files : Kept(files) /\ Recover(files) /\ ResetThreads
    BY <1>5, RestartFacts DEF CoreInv
  <2> QED BY <2>1, KeptDirectory, AccountsRestart DEF CoreInv
<1> QED BY <1>1, <1>3, <1>4, <1>5 DEF Next

(* In every reachable state each location is in one place only: still to   *)
(* be tried or refused, in the location table, or among the replaced       *)
(* locations of one thread; and live_objects counts exactly those.         *)
THEOREM AccountsInduction == Spec => []AccountsInv
<1>1. CoreInv /\ CoreInv' /\ AccountsInv /\ [Next]_vars => AccountsInv'
  BY AccountsNext
<1> QED BY <1>1, InitAccounts, CoreInduction, PTL DEF Spec

(* live_objects of every file is exactly the number of objects that        *)
(* account for it, in every interleaving of any number of writers and      *)
(* maintenances, across crashes and restarts: the fetch_sub of             *)
(* decrement_evacuated_fams and of finalize_fam never wraps around, and a  *)
(* count of 0 means that nothing refers to the file.                       *)
THEOREM LiveObjectsAlwaysExact == Spec => []LiveObjectsExact
<1>1. AccountsInv => LiveObjectsExact
  BY DEF AccountsInv, CountsInv
<1> QED BY <1>1, AccountsInduction, PTL

(* The locations part of the invariant implies TableBacked.                *)
LEMMA AccountsTable == CoreInv /\ AccountsInv => TableBacked
<1> SUFFICES ASSUME CoreInv, AccountsInv, NEW o \in ObjectIds, location_table[o] # Null
             PROVE  /\ HasFamFor(fams, location_table[o])
                    /\ LET f == FamFor(fams, location_table[o])
                       IN  o \in DOMAIN fams[f].objs /\ location_table[o] = At(f, o)
  BY DEF TableBacked
<1>1. PICK f \in DOMAIN fams : OwnedBy(f, o, location_table[o])
  BY DEF AccountsInv, LocationsInv, Backed
<1>2. HasFamFor(fams, location_table[o]) /\ FamFor(fams, location_table[o]) = f
  BY <1>1, OwnerIsFamFor DEF CoreInv
<1> QED BY <1>1, <1>2 DEF OwnedBy

(* The range query of fam_for_location finds, for every entry of the       *)
(* location table, the file that holds the object there: prune_empty_files *)
(* never removes a file in use, whatever writers and other maintenances do *)
(* between its test of the count and the removal.                          *)
THEOREM TableAlwaysBacked == Spec => []TableBacked
BY AccountsTable, AccountsInduction, CoreInduction, PTL

(* The locations and counts imply EvacuationSafe.                          *)
LEMMA AccountsEvacuation == CoreInv /\ AccountsInv => EvacuationSafe
BY ReplacedFacts DEF EvacuationSafe, EvacuationPasses

(* The unwrap and the assertions of decrement_evacuated_fams never fail:   *)
(* the file of a replaced location is still in the map, is not the file    *)
(* just written, and still counts at least one object.                     *)
THEOREM EvacuationAlwaysSafe == Spec => []EvacuationSafe
BY AccountsEvacuation, AccountsInduction, CoreInduction, PTL

(***************************************************************************)
(* The batches: the inductive invariant.                                   *)
(***************************************************************************)
Writing == Working \cup {"insert"}

(* Where a thread can be inside write_batch and inside maintenance, and    *)
(* when it has a batch.                                                    *)
CallOk(t) ==
  /\ pc[t] = "idle" => t \notin sweeping
  /\ t \notin sweeping => pc[t] \in Writing \cup {"idle"} /\ gen[t] = 0
  /\ t \in sweeping /\ pc[t] \in Writing \cup {"read"} => gen[t] # 0
  /\ pc[t] \notin Writing \cup {"read"} => DOMAIN batch[t] = {}

CallInv == \A t \in Threads : CallOk(t)

(* The objects in the batch of maintenance are those of the files it has   *)
(* claimed, and a file being written holds the values of the batch.        *)
ItemFrom(t, o, g) ==
  OwnedBy(g, o, batch[t][o].old) /\ fams[g].objs[o].val = batch[t][o].val

ItemsInv ==
  \A t \in Threads :
    /\ t \in sweeping =>
         \A o \in DOMAIN batch[t] : \E g \in claims[t] : ItemFrom(t, o, g)
    /\ pc[t] \in Working =>
         \A o \in DOMAIN fams[base[t]].objs :
           o \in DOMAIN batch[t] /\ fams[base[t]].objs[o].val = batch[t][o].val

BatchesInv == CallInv /\ ItemsInv

(***************************************************************************)
(* What the steps of one thread leave alone.                               *)
(***************************************************************************)
(* The local variables of the other threads.                               *)
OthersStay(t) ==
  \A u \in Threads : u # t =>
    /\ pc'[u] = pc[u] /\ (u \in sweeping' <=> u \in sweeping)
    /\ gen'[u] = gen[u] /\ batch'[u] = batch[u] /\ rest'[u] = rest[u]
    /\ base'[u] = base[u] /\ todo'[u] = todo[u] /\ failed'[u] = failed[u]
    /\ replaced'[u] = replaced[u] /\ claims'[u] = claims[u]

(* A thread changes no other thread's local variables.                     *)
LEMMA ThreadsApart ==
  ASSUME TypeOK, NEW t \in Threads, WriteBatch(t) \/ StartMaintenance(t) \/ Step(t)
  PROVE  OthersStay(t)
<1>1. /\ DOMAIN pc = Threads /\ DOMAIN gen = Threads /\ DOMAIN batch = Threads
      /\ DOMAIN rest = Threads /\ DOMAIN base = Threads /\ DOMAIN todo = Threads
      /\ DOMAIN failed = Threads /\ DOMAIN replaced = Threads /\ DOMAIN claims = Threads
  BY DEF TypeOK
<1>2. CASE WriteBatch(t)
  BY <1>1, <1>2 DEF WriteBatch, Goto, inner, maint, OthersStay
<1>3. CASE StartMaintenance(t)
  BY <1>1, <1>3 DEF StartMaintenance, Goto, inner, OthersStay
<1>4. CASE InsertPart(t)
  BY <1>1, <1>4 DEF InsertPart, Goto, maint, OthersStay
<1>5. ASSUME NEW o \in ObjectIds, Install(t, o) PROVE OthersStay(t)
  BY <1>1, <1>5 DEF Install, maint, OthersStay
<1>6. CASE Abandon(t)
  BY <1>1, <1>6 DEF Abandon, PartDone, Goto, maint, OthersStay
<1>7. CASE Commit(t)
  BY <1>1, <1>7 DEF Commit, Goto, inner, maint, OthersStay
<1>8. CASE Evacuate(t)
  BY <1>1, <1>8 DEF Evacuate, maint, OthersStay
<1>9. CASE Finalize(t)
  BY <1>1, <1>9 DEF Finalize, Goto, maint, OthersStay
<1>10. CASE Unclaim(t)
  BY <1>1, <1>10 DEF Unclaim, PartDone, Goto, maint, OthersStay
<1>11. CASE Scan(t)
  BY <1>1, <1>11 DEF Scan, Goto, inner, OthersStay
<1>12. CASE Claim(t)
  BY <1>1, <1>12 DEF Claim, Goto, inner, OthersStay
<1>13. CASE Rewrite(t)
  BY <1>1, <1>13 DEF Rewrite, Goto, inner, OthersStay
<1>14. CASE ReadFile(t)
  BY <1>1, <1>14 DEF ReadFile, Goto, inner, OthersStay
<1>15. CASE Release(t)
  BY <1>1, <1>15 DEF Release, Goto, inner, OthersStay
<1>16. CASE Prune(t)
  BY <1>1, <1>16 DEF Prune, Goto, inner, OthersStay
<1>17. CASE Remove(t)
  BY <1>1, <1>17 DEF Remove, Goto, inner, OthersStay
<1> QED BY <1>2, <1>3, <1>4, <1>5, <1>6, <1>7, <1>8, <1>9, <1>10, <1>11, <1>12,
           <1>13, <1>14, <1>15, <1>16, <1>17 DEF Step

(* The set of open files and their contents.                               *)
SameFiles ==
  /\ DOMAIN fams' = DOMAIN fams
  /\ \A f \in DOMAIN fams : fams'[f].objs = fams[f].objs

(* Only the insertion and the removal of a file change the set of open     *)
(* files, and no step changes the contents of one.                         *)
LEMMA FilesStay ==
  ASSUME CoreInv, AccountsInv, NEW t \in Threads,
         \/ WriteBatch(t) \/ StartMaintenance(t) \/ (\E o \in ObjectIds : Install(t, o))
         \/ Commit(t) \/ Evacuate(t) \/ Finalize(t) \/ Unclaim(t) \/ Scan(t)
         \/ Claim(t) \/ Rewrite(t) \/ ReadFile(t) \/ Release(t) \/ Prune(t)
  PROVE  SameFiles
<1>1. fams' = fams => SameFiles
  BY DEF SameFiles
<1>2. ASSUME NEW f, ReleaseClaim(f) \/ TakeClaim(f) PROVE SameFiles
  BY <1>2, ClaimUpdate, TypeFams DEF CoreInv, SameFiles
<1>3. CASE Evacuate(t)
  <2>1. PICK f : fams' = [fams EXCEPT ![f].live = @ - 1]
    BY <1>3 DEF Evacuate, DecrementFam
  <2> DEFINE n == 1
  <2>2. n \in Int /\ fams' = [fams EXCEPT ![f].live = @ - n]
    BY <2>1
  <2> HIDE DEF n
  <2> QED BY <2>2, TypeFams, LiveUpdate DEF CoreInv, SameFiles
<1>4. CASE Finalize(t)
  BY <1>4, FinalizeFields DEF CoreInv, SameFiles
<1>5. CASE WriteBatch(t) \/ StartMaintenance(t) \/ (\E o \in ObjectIds : Install(t, o))
  BY <1>1, <1>5 DEF WriteBatch, StartMaintenance, Install, shared
<1>6. CASE Commit(t) \/ Unclaim(t) \/ Scan(t) \/ Claim(t) \/ Rewrite(t) \/ ReadFile(t)
  BY <1>1, <1>2, <1>6 DEF Commit, Unclaim, Scan, Claim, Rewrite, ReadFile, shared
<1>7. CASE Release(t)
  BY <1>1, <1>2, <1>7 DEF Release
<1>8. CASE Prune(t)
  BY <1>1, <1>2, <1>8 DEF Prune
<1> QED BY <1>3, <1>4, <1>5, <1>6, <1>7, <1>8

(* What a thread inside maintenance reads from a file.                     *)
Reads(t, f, items) ==
  /\ f \in reading[t] /\ batch' = [batch EXCEPT ![t] = items]
  /\ DOMAIN items = DOMAIN batch[t] \cup Survivors(f)
  /\ \A o \in DOMAIN items :
       IF o \in Survivors(f)
       THEN /\ items[o].val = fams[f].objs[o].val /\ items[o].old = location_table[o]
            /\ items[o].del = fams[f].objs[o].del
       ELSE items[o] = batch[t][o]
  /\ \E label \in {"read", "insert", "rewrite"} :
       /\ pc' = [pc EXCEPT ![t] = label]
       /\ label = "rewrite" => DOMAIN items = {}

(* ReadFile adds the surviving objects of a file to the batch.             *)
LEMMA ReadFacts ==
  ASSUME NEW t \in Threads, ReadFile(t)
  PROVE  \E f, items : Reads(t, f, items)
<1>1. PICK f \in reading[t] :
        LET items == [o \in DOMAIN batch[t] \cup Survivors(f) |->
                        IF o \in Survivors(f)
                        THEN [del |-> fams[f].objs[o].del,
                              val |-> fams[f].objs[o].val,
                              old |-> location_table[o]]
                        ELSE batch[t][o]]
            last == reading[t] = {f}
        IN  /\ batch' = [batch EXCEPT ![t] = items]
            /\ Goto(t, IF ~ last THEN "read"
                       ELSE IF DOMAIN items # {} THEN "insert" ELSE "rewrite")
  BY DEF ReadFile
<1> DEFINE items == [o \in DOMAIN batch[t] \cup Survivors(f) |->
                       IF o \in Survivors(f)
                       THEN [del |-> fams[f].objs[o].del,
                             val |-> fams[f].objs[o].val,
                             old |-> location_table[o]]
                       ELSE batch[t][o]]
           label == IF reading[t] # {f} THEN "read"
                    ELSE IF DOMAIN items # {} THEN "insert" ELSE "rewrite"
<1>2. batch' = [batch EXCEPT ![t] = items] /\ pc' = [pc EXCEPT ![t] = label]
  BY <1>1 DEF Goto
<1>3. /\ DOMAIN items = DOMAIN batch[t] \cup Survivors(f)
      /\ \A o \in DOMAIN items :
           IF o \in Survivors(f)
           THEN /\ items[o].val = fams[f].objs[o].val /\ items[o].old = location_table[o]
                /\ items[o].del = fams[f].objs[o].del
           ELSE items[o] = batch[t][o]
  OBVIOUS
<1> HIDE DEF items
<1>4. label \in {"read", "insert", "rewrite"} /\ (label = "rewrite" => DOMAIN items = {})
  OBVIOUS
<1> HIDE DEF label
<1>5. Reads(t, f, items)
  BY <1>2, <1>3, <1>4 DEF Reads
<1> QED BY <1>5

(***************************************************************************)
(* Calls.                                                                  *)
(***************************************************************************)
(* A step of a thread takes it to where its call goes next.                *)
LEMMA CallStep ==
  ASSUME CoreInv, CallInv, NEW t \in Threads,
         WriteBatch(t) \/ StartMaintenance(t) \/ Step(t)
  PROVE  CallInv'
<1>0. /\ DOMAIN pc = Threads /\ DOMAIN gen = Threads /\ DOMAIN batch = Threads
      /\ gen[t] \in 0 .. MAX_GENERATION
  BY DEF CoreInv, TypeOK
<1>1. SUFFICES CallOk(t)'
  <2>1. ASSUME NEW u \in Threads, u # t PROVE CallOk(u)'
    BY <2>1, ThreadsApart DEF CoreInv, CallInv, CallOk, OthersStay
  <2> QED BY <2>1 DEF CallInv
<1>2. CallOk(t)
  BY DEF CallInv
<1> USE DEF Writing, Working
<1>3. ASSUME UNCHANGED <<sweeping, gen>>, PartDone(t), pc[t] \in Working PROVE CallOk(t)'
  <2>1. CASE rest[t] # {}
    BY <1>0, <1>2, <1>3, <2>1 DEF PartDone, Goto, CallOk
  <2>2. CASE rest[t] = {}
    BY <1>0, <1>2, <1>3, <2>2 DEF PartDone, Goto, CallOk, EmptyBatch
  <2> QED BY <2>1, <2>2
<1>4. CASE WriteBatch(t)
  BY <1>0, <1>2, <1>4 DEF WriteBatch, Goto, CallOk
<1>5. CASE StartMaintenance(t)
  BY <1>0, <1>2, <1>5 DEF StartMaintenance, Goto, CallOk
<1>6. CASE InsertPart(t)
  BY <1>0, <1>2, <1>6 DEF InsertPart, Goto, CallOk
<1>7. ASSUME NEW o \in ObjectIds, Install(t, o) PROVE CallOk(t)'
  BY <1>0, <1>2, <1>7 DEF Install, CallOk
<1>8. CASE Abandon(t) \/ Unclaim(t)
  BY <1>3, <1>8 DEF Abandon, Unclaim
<1>9. CASE Commit(t)
  BY <1>0, <1>2, <1>9 DEF Commit, Goto, CallOk
<1>10. CASE Evacuate(t)
  BY <1>0, <1>2, <1>10 DEF Evacuate, CallOk
<1>11. CASE Finalize(t)
  BY <1>0, <1>2, <1>11 DEF Finalize, Goto, CallOk
<1>12. CASE Scan(t)
  BY <1>0, <1>2, <1>12 DEF Scan, Goto, CallOk
<1>13. CASE Claim(t)
  BY <1>0, <1>2, <1>13 DEF Claim, Goto, CallOk
<1>14. CASE Rewrite(t)
  <2>1. \A f \in queue[t] : NextGeneration(f) # 0
    <3> SUFFICES ASSUME NEW f \in queue[t] PROVE NextGeneration(f) # 0
      OBVIOUS
    <3>1. fams[f].generation \in 0 .. MAX_GENERATION
      BY FamTypes DEF CoreInv, HoldersInv
    <3> QED BY <3>1 DEF NextGeneration, MAX_GENERATION
  <2>2. t \in sweeping /\ DOMAIN batch[t] = {}
    BY <1>2, <1>14 DEF Rewrite, CallOk
  <2>3. \/ pc'[t] \in {"rewrite", "release"} /\ gen' = gen
        \/ pc'[t] = "read" /\ gen'[t] # 0
    <3>1. CASE queue[t] = {} /\ Goto(t, "release") /\ gen' = gen
      BY <1>0, <3>1 DEF Goto
    <3>2. ASSUME NEW g \in {NextGeneration(f) : f \in queue[t]}, NEW skip \in BOOLEAN,
                 gen' = IF skip THEN gen ELSE [gen EXCEPT ![t] = g],
                 Goto(t, IF skip THEN "rewrite" ELSE "read")
          PROVE  \/ pc'[t] \in {"rewrite", "release"} /\ gen' = gen
                 \/ pc'[t] = "read" /\ gen'[t] # 0
      BY <1>0, <2>1, <3>2 DEF Goto
    <3> QED BY <1>14, <3>1, <3>2 DEF Rewrite
  <2> QED BY <1>14, <2>2, <2>3 DEF Rewrite, CallOk
<1>15. CASE ReadFile(t)
  <2>1. t \in sweeping /\ gen[t] # 0 /\ pc[t] = "read"
    BY <1>2, <1>15 DEF ReadFile, CallOk
  <2>2. /\ UNCHANGED <<sweeping, gen>>
        /\ pc'[t] \in {"read", "insert", "rewrite"}
        /\ pc'[t] = "rewrite" => DOMAIN batch'[t] = {}
    BY <1>0, <1>15, ReadFacts DEF ReadFile, Reads
  <2> QED BY <2>1, <2>2 DEF CallOk
<1>16. CASE Release(t)
  BY <1>0, <1>2, <1>16 DEF Release, Goto, CallOk
<1>17. CASE Prune(t)
  BY <1>0, <1>2, <1>17 DEF Prune, Goto, CallOk
<1>18. CASE Remove(t)
  BY <1>0, <1>2, <1>18 DEF Remove, Goto, CallOk
<1> QED BY <1>4, <1>5, <1>6, <1>7, <1>8, <1>9, <1>10, <1>11, <1>12, <1>13, <1>14,
           <1>15, <1>16, <1>17, <1>18 DEF Step

(***************************************************************************)
(* Batches.                                                                *)
(***************************************************************************)
(* How a step of a thread changes the set of open files.                   *)
FilesChange(t) ==
  \/ SameFiles
  \/ /\ InsertPart(t)
     /\ \E f : /\ f \notin Files /\ DOMAIN fams' = DOMAIN fams \cup {f}
               /\ \A g \in DOMAIN fams : fams'[g].objs = fams[g].objs
  \/ \E f : /\ (f = base[t] /\ Abandon(t)) \/ (f \in claims[t] /\ Remove(t))
            /\ f \in DOMAIN fams /\ DOMAIN fams' = DOMAIN fams \ {f}
            /\ \A g \in DOMAIN fams' : fams'[g].objs = fams[g].objs

(* Every step changes the set of open files in one of these three ways.    *)
LEMMA FilesEffect ==
  ASSUME CoreInv, AccountsInv, NEW t \in Threads,
         WriteBatch(t) \/ StartMaintenance(t) \/ Step(t)
  PROVE  FilesChange(t)
<1>1. CASE InsertPart(t)
  <2>1. PICK part, objs, f : Inserts(t, part, objs, f)
    BY <1>1, InsertFacts DEF CoreInv
  <2>2. f \notin Files
    <3>1. Position(f) = next_file_lsn
      BY <2>1 DEF Inserts
    <3> QED BY <3>1, FilesBehind DEF CoreInv
  <2>3. /\ DOMAIN fams' = DOMAIN fams \cup {f}
        /\ \A g \in DOMAIN fams : fams'[g].objs = fams[g].objs
    BY <2>1, <2>2 DEF Inserts, Files
  <2> QED BY <1>1, <2>2, <2>3 DEF FilesChange
<1>2. ASSUME NEW f, RemoveFam(f)
      PROVE  /\ DOMAIN fams' = DOMAIN fams \ {f}
             /\ \A g \in DOMAIN fams' : fams'[g].objs = fams[g].objs
  BY <1>2, RemoveUpdate, TypeFams DEF CoreInv
<1>3. CASE Abandon(t)
  <2>1. RemoveFam(base[t]) /\ base[t] \in DOMAIN fams
    BY <1>3, WriterFacts DEF Abandon
  <2> QED BY <1>2, <1>3, <2>1 DEF FilesChange
<1>4. CASE Remove(t)
  <2>1. ASSUME NEW f \in claims[t], RemoveFam(f) PROVE FilesChange(t)
    <3>1. f \in DOMAIN fams
      BY DEF CoreInv, HoldersInv
    <3> QED BY <1>2, <1>4, <2>1, <3>1 DEF FilesChange
  <2>2. CASE fams' = fams
    BY <2>2 DEF FilesChange, SameFiles
  <2> QED BY <1>4, <2>1, <2>2 DEF Remove
<1> QED BY <1>1, <1>3, <1>4, FilesStay DEF Step, FilesChange

(* A file stays open, with its contents.                                   *)
StaysOpen(g) == g \in DOMAIN fams' /\ fams'[g].objs = fams[g].objs

(* A thread takes away no file that another holds, and none of its own     *)
(* unless it drops it or prunes it.                                        *)
LEMMA HeldStay ==
  ASSUME CoreInv, AccountsInv, NEW t \in Threads,
         WriteBatch(t) \/ StartMaintenance(t) \/ Step(t),
         NEW u \in Threads, NEW g \in DOMAIN fams, g \in claims[u] \/ g = base[u],
         \/ u # t
         \/ ~ Abandon(t) /\ ~ Remove(t)
         \/ g \in claims[t] /\ ~ Remove(t)
  PROVE  StaysOpen(g)
<1>1. FilesChange(t)
  BY FilesEffect
<1>2. CASE SameFiles
  BY <1>2 DEF SameFiles, StaysOpen
<1>3. CASE \E f : /\ f \notin Files /\ DOMAIN fams' = DOMAIN fams \cup {f}
                  /\ \A h \in DOMAIN fams : fams'[h].objs = fams[h].objs
  BY <1>3 DEF StaysOpen
<1>4. ASSUME NEW f, (f = base[t] /\ Abandon(t)) \/ (f \in claims[t] /\ Remove(t)),
             f \in DOMAIN fams, DOMAIN fams' = DOMAIN fams \ {f},
             \A h \in DOMAIN fams' : fams'[h].objs = fams[h].objs
      PROVE  StaysOpen(g)
  <2>1. f # 0
    BY <1>4, ZeroNotFam DEF CoreInv
  <2>2. g # f
    BY <1>4, <2>1 DEF CoreInv, HoldersInv
  <2> QED BY <1>4, <2>2 DEF StaysOpen
<1> QED BY <1>1, <1>2, <1>3, <1>4 DEF FilesChange

(* An item that stays in the batch stays in the file it was read from.     *)
LEMMA ItemStays ==
  ASSUME NEW t \in Threads, NEW o, NEW g, ItemFrom(t, o, g), StaysOpen(g),
         batch'[t][o] = batch[t][o]
  PROVE  ItemFrom(t, o, g)'
BY DEF ItemFrom, StaysOpen, OwnedBy, At

(* A step keeps, for every thread, where the items of its batch come from. *)
LEMMA ItemsStep ==
  ASSUME CoreInv, AccountsInv, CallInv, ItemsInv, NEW t \in Threads,
         WriteBatch(t) \/ StartMaintenance(t) \/ Step(t)
  PROVE  ItemsInv'
<1> DEFINE Read(u) == u \in sweeping' =>
             \A o \in DOMAIN batch'[u] : \E g \in claims'[u] : ItemFrom(u, o, g)'
           Written(u) == pc'[u] \in Working =>
             \A o \in DOMAIN fams'[base'[u]].objs :
               /\ o \in DOMAIN batch'[u]
               /\ fams'[base'[u]].objs[o].val = batch'[u][o].val
<1>0. /\ DOMAIN pc = Threads /\ DOMAIN batch = Threads /\ DOMAIN base = Threads
  BY DEF CoreInv, TypeOK
<1>1. ASSUME NEW u \in Threads, u \in sweeping' => u \in sweeping,
             batch'[u] = batch[u], claims'[u] = claims[u],
             u # t \/ ~ Remove(t)
      PROVE  Read(u)
  <2> SUFFICES ASSUME u \in sweeping, NEW o \in DOMAIN batch[u]
               PROVE  \E g \in claims[u] : ItemFrom(u, o, g)'
    BY <1>1
  <2>1. PICK g \in claims[u] : ItemFrom(u, o, g)
    BY DEF ItemsInv
  <2>2. StaysOpen(g)
    BY <1>1, HeldStay DEF CoreInv, HoldersInv
  <2> QED BY <1>1, <2>1, <2>2, ItemStays
<1>2. ASSUME NEW u \in Threads, pc'[u] \in Working => pc[u] \in Working,
             batch'[u] = batch[u], base'[u] = base[u],
             u # t \/ (~ Abandon(t) /\ ~ Remove(t))
      PROVE  Written(u)
  <2> SUFFICES ASSUME pc[u] \in Working, NEW o \in DOMAIN fams'[base[u]].objs
               PROVE  o \in DOMAIN batch[u] /\ fams'[base[u]].objs[o].val = batch[u][o].val
    BY <1>2
  <2>1. base[u] \in DOMAIN fams
    BY DEF CoreInv, HoldersInv
  <2>2. StaysOpen(base[u])
    BY <1>2, <2>1, HeldStay
  <2> QED BY <2>2 DEF StaysOpen, ItemsInv
<1>3. SUFFICES Read(t) /\ Written(t)
  <2>1. ASSUME NEW u \in Threads, u # t PROVE Read(u) /\ Written(u)
    BY <1>1, <1>2, <2>1, ThreadsApart DEF CoreInv, OthersStay
  <2> QED BY <2>1 DEF ItemsInv
<1> HIDE DEF Read, Written
<1>4. ASSUME pc'[t] \notin Working PROVE Written(t)
  BY <1>4 DEF Written
<1>5. ASSUME DOMAIN batch'[t] = {} \/ t \notin sweeping' PROVE Read(t)
  BY <1>5 DEF Read
<1>6. CASE WriteBatch(t)
  <2>1. t \notin sweeping' /\ pc'[t] = "insert"
    BY <1>0, <1>6 DEF WriteBatch, Goto, CallInv, CallOk
  <2> QED BY <1>4, <1>5, <2>1 DEF Working
<1>7. CASE StartMaintenance(t) \/ Scan(t) \/ Claim(t) \/ Rewrite(t) \/ Release(t)
           \/ Prune(t) \/ Remove(t)
  <2>1. pc[t] \in {"idle", "scan", "claim", "rewrite", "release", "prune", "remove"}
    BY <1>7 DEF StartMaintenance, Scan, Claim, Rewrite, Release, Prune, Remove
  <2>2. batch' = batch
    <3>1. CASE StartMaintenance(t) \/ Scan(t) \/ Claim(t) \/ Rewrite(t)
      BY <3>1 DEF StartMaintenance, Scan, Claim, Rewrite
    <3>2. CASE Release(t) \/ Prune(t) \/ Remove(t)
      BY <3>2 DEF Release, Prune, Remove
    <3> QED BY <1>7, <3>1, <3>2
  <2>3. DOMAIN batch'[t] = {}
    BY <2>1, <2>2 DEF CallInv, CallOk, Writing, Working
  <2>4. pc'[t] \notin Working
    <3>1. CASE StartMaintenance(t) \/ Scan(t) \/ Claim(t)
      BY <1>0, <3>1 DEF StartMaintenance, Scan, Claim, Goto, Working
    <3>2. CASE Rewrite(t)
      BY <1>0, <3>2 DEF Rewrite, Goto, Working
    <3>3. CASE Release(t) \/ Prune(t) \/ Remove(t)
      BY <1>0, <3>3 DEF Release, Prune, Remove, Goto, Working
    <3> QED BY <1>7, <3>1, <3>2, <3>3
  <2> QED BY <1>4, <1>5, <2>3, <2>4
<1>8. CASE InsertPart(t)
  <2>1. UNCHANGED <<sweeping, batch, claims>> /\ ~ Remove(t) /\ pc[t] = "insert"
    BY <1>8 DEF InsertPart, Remove, maint
  <2>2. PICK part, objs, f : Inserts(t, part, objs, f)
    BY <1>8, InsertFacts DEF CoreInv
  <2>3. /\ base'[t] = f /\ fams'[f].objs = objs /\ DOMAIN objs = part
        /\ part \subseteq DOMAIN batch[t]
        /\ \A o \in part : objs[o].val = batch[t][o].val
    BY <1>0, <2>2 DEF Inserts, CoreInv, TypeOK
  <2> QED BY <1>1, <2>1, <2>3 DEF Written
<1>9. ASSUME (\E o \in ObjectIds : Install(t, o)) \/ Commit(t) \/ Evacuate(t) \/ Finalize(t)
      PROVE  Read(t) /\ Written(t)
  <2>1. UNCHANGED <<sweeping, batch, base, claims>> /\ pc[t] \in Working
    BY <1>9 DEF Install, Commit, Evacuate, Finalize, inner, maint, Working
  <2>2. ~ Remove(t) /\ ~ Abandon(t)
    <3>1. ASSUME Abandon(t) PROVE FALSE
      <4>1. todo[t] = {} /\ Trailer(t) = {} /\ pc[t] = "install" /\ base'[t] = 0
        BY <1>0, <3>1 DEF Abandon, PartDone
      <4>2. base'[t] = base[t] /\ base[t] # 0
        BY <2>1 DEF CoreInv, HoldersInv
      <4> QED BY <4>1, <4>2
    <3> QED BY <2>1, <3>1 DEF Remove, Working
  <2> QED BY <1>1, <1>2, <2>1, <2>2
<1>10. CASE Abandon(t) \/ Unclaim(t)
  <2>1. UNCHANGED <<sweeping, claims>> /\ PartDone(t) /\ ~ Remove(t)
    BY <1>10 DEF Abandon, Unclaim, Remove, maint
  <2>2. /\ pc'[t] \notin Working
        /\ batch'[t] = batch[t] \/ DOMAIN batch'[t] = {}
    BY <1>0, <2>1 DEF PartDone, Goto, Working, EmptyBatch
  <2> QED BY <1>1, <1>4, <1>5, <2>1, <2>2
<1>11. CASE ReadFile(t)
  <2>1. PICK f, items : Reads(t, f, items)
    BY <1>11, ReadFacts
  <2>2. UNCHANGED <<sweeping, claims, fams, location_table>>
    BY <1>11 DEF ReadFile, shared
  <2>3. batch'[t] = items /\ pc'[t] \notin Working
    BY <1>0, <2>1 DEF Reads, Working
  <2>4. ASSUME t \in sweeping, NEW o \in DOMAIN items
        PROVE  \E g \in claims[t] : ItemFrom(t, o, g)'
    <3>1. CASE o \in Survivors(f)
      <4>1. f \in claims[t] /\ f \in DOMAIN fams
        BY <2>1 DEF Reads, CoreInv, HoldersInv
      <4>2. /\ o \in DOMAIN fams[f].objs /\ location_table[o] = At(f, o)
            /\ items[o].val = fams[f].objs[o].val /\ items[o].old = location_table[o]
        BY <2>1, <3>1 DEF Survivors, Reads, At
      <4>3. ItemFrom(t, o, f)'
        BY <2>2, <2>3, <4>1, <4>2 DEF ItemFrom, OwnedBy, At
      <4> QED BY <4>1, <4>3
    <3>2. CASE o \notin Survivors(f)
      <4>1. o \in DOMAIN batch[t] /\ items[o] = batch[t][o]
        BY <2>1, <3>2 DEF Reads
      <4>2. PICK g \in claims[t] : ItemFrom(t, o, g)
        BY <2>4, <4>1 DEF ItemsInv
      <4>3. ItemFrom(t, o, g)'
        BY <2>2, <2>3, <4>1, <4>2 DEF ItemFrom, OwnedBy, At
      <4> QED BY <4>3
    <3> QED BY <3>1, <3>2
  <2> QED BY <1>4, <2>2, <2>3, <2>4 DEF Read
<1> QED BY <1>6, <1>7, <1>8, <1>9, <1>10, <1>11 DEF Step

(***************************************************************************)
(* The induction.                                                          *)
(***************************************************************************)
(* Threads that were just reset have no batch.                             *)
LEMMA BatchesReset ==
  ASSUME \A t \in Threads : /\ pc[t] = "idle" /\ gen[t] = 0 /\ batch[t] = EmptyBatch
                            /\ t \notin sweeping
  PROVE  BatchesInv
BY DEF BatchesInv, CallInv, CallOk, ItemsInv, EmptyBatch, Writing, Working

(* A restart resets the threads.                                           *)
LEMMA BatchesRestart ==
  ASSUME ResetThreads
  PROVE  BatchesInv'
BY DEF ResetThreads, BatchesInv, CallInv, CallOk, ItemsInv, EmptyBatch, Writing, Working

(* Every step preserves the invariant of the batches.                      *)
LEMMA BatchesNext ==
  ASSUME CoreInv, AccountsInv, BatchesInv, [Next]_vars
  PROVE  BatchesInv'
<1>1. ASSUME NEW t \in Threads, WriteBatch(t) \/ StartMaintenance(t) \/ Step(t)
      PROVE  BatchesInv'
  BY <1>1, CallStep, ItemsStep DEF BatchesInv
<1>2. ASSUME UNCHANGED <<fams, pc, sweeping, gen, batch, base, claims>>
      PROVE  BatchesInv'
  BY <1>2 DEF BatchesInv, CallInv, CallOk, ItemsInv, ItemFrom, OwnedBy, At
<1>3. ASSUME NEW f \in DOMAIN heap, Unlink(f) PROVE BatchesInv'
  BY <1>2, <1>3 DEF Unlink, local, inner, maint
<1>4. CASE UNCHANGED vars
  BY <1>2, <1>4 DEF vars, shared, local, inner, maint
<1>5. CASE CrashRecover \/ CloseAndReopen
  BY <1>5, BatchesRestart DEF CrashRecover, CloseAndReopen
<1> QED BY <1>1, <1>3, <1>4, <1>5 DEF Next

(* In every reachable state a thread has a batch only while it reads or    *)
(* writes one, and what maintenance has read is still in the files it has  *)
(* claimed.                                                                *)
THEOREM BatchesInduction == Spec => []BatchesInv
<1>1. Init => BatchesInv
  BY BatchesReset DEF Init
<1>2. CoreInv /\ AccountsInv /\ BatchesInv /\ [Next]_vars => BatchesInv'
  BY BatchesNext
<1> QED BY <1>1, <1>2, CoreInduction, AccountsInduction, PTL DEF Spec

(***************************************************************************)
(* Versions.                                                               *)
(***************************************************************************)
(* The version the table leads to is the one in the owner of the location: *)
(* a state predicate, which can be primed.                                 *)
VersionsRead ==
  \A o \in ObjectIds : \A f :
    OwnedBy(f, o, location_table[o]) => /\ location_table[o] # Null
                                        /\ TableVersion(o) = fams[f].objs[o].val

(* The types and the placement of the files imply it.                      *)
LEMMA CoreVersions == CoreInv => VersionsRead
<1> SUFFICES ASSUME CoreInv, NEW o \in ObjectIds, NEW f,
                    OwnedBy(f, o, location_table[o])
             PROVE  /\ location_table[o] # Null
                    /\ TableVersion(o) = fams[f].objs[o].val
  BY DEF VersionsRead
<1>1. location_table[o] # Null
  BY AtPositive DEF OwnedBy
<1>2. FamFor(fams, location_table[o]) = f
  BY OwnerIsFamFor DEF CoreInv
<1> QED BY <1>1, <1>2 DEF TableVersion

(* The same of the state after a step.                                     *)
LEMMA CoreVersionsNext == CoreInv' => VersionsRead'
BY CoreVersions, PTL

(* An object whose location stays keeps its version, also when files are   *)
(* inserted or removed.                                                    *)
LEMMA VersionStays ==
  ASSUME CoreInv, CoreInv', AccountsInv, AccountsInv', NEW t \in Threads,
         WriteBatch(t) \/ StartMaintenance(t) \/ Step(t),
         NEW o \in ObjectIds, location_table'[o] = location_table[o]
  PROVE  TableVersion(o)' = TableVersion(o)
<1>1. CASE location_table[o] = Null
  BY <1>1 DEF TableVersion
<1>2. CASE location_table[o] # Null
  <2>1. PICK f : OwnedBy(f, o, location_table[o])
    BY <1>2 DEF AccountsInv, LocationsInv, Backed
  <2>2. PICK g : OwnedBy(g, o, location_table[o])'
    BY <1>2 DEF AccountsInv, LocationsInv, Backed
  <2>3. TableVersion(o) = fams[f].objs[o].val /\ TableVersion(o)' = fams'[g].objs[o].val
    BY <2>1, <2>2, CoreVersions, CoreVersionsNext DEF VersionsRead
  <2>4. FilesChange(t)
    BY FilesEffect
  <2>5. /\ OwnedBy(f, o, location_table[o]) /\ StaysOpen(f) => OwnedBy(f, o, location_table[o])'
        /\ OwnedBy(g, o, location_table[o])' /\ g \in DOMAIN fams /\ StaysOpen(g)
             => OwnedBy(g, o, location_table[o])
    BY DEF OwnedBy, StaysOpen, At
  <2>6. \/ StaysOpen(f)
        \/ g \in DOMAIN fams /\ StaysOpen(g)
    BY <2>1, <2>2, <2>4 DEF FilesChange, SameFiles, StaysOpen, OwnedBy
  <2>7. f = g /\ StaysOpen(f)
    <3>1. CASE StaysOpen(f)
      BY <2>1, <2>2, <2>5, <3>1, CoreLocationsNext DEF LocationsDistinct
    <3>2. CASE g \in DOMAIN fams /\ StaysOpen(g)
      BY <2>1, <2>2, <2>5, <3>2, CoreLocations DEF LocationsDistinct
    <3> QED BY <2>6, <3>1, <3>2
  <2> QED BY <2>3, <2>7 DEF StaysOpen
<1> QED BY <1>1, <1>2

(* Only the installation of a location changes the location table while    *)
(* the process runs.                                                       *)
LEMMA TableStays ==
  ASSUME NEW t \in Threads, WriteBatch(t) \/ StartMaintenance(t) \/ Step(t),
         \A o \in ObjectIds : ~ Install(t, o)
  PROVE  location_table' = location_table
<1>1. CASE WriteBatch(t) \/ StartMaintenance(t) \/ InsertPart(t)
  BY <1>1 DEF WriteBatch, StartMaintenance, InsertPart, shared
<1>2. CASE Abandon(t) \/ Commit(t) \/ Evacuate(t) \/ Finalize(t) \/ Unclaim(t)
  BY <1>2 DEF Abandon, Commit, Evacuate, Finalize, Unclaim
<1>3. CASE Scan(t) \/ Claim(t) \/ Rewrite(t) \/ ReadFile(t)
  BY <1>3 DEF Scan, Claim, Rewrite, ReadFile, shared
<1>4. CASE Release(t) \/ Prune(t) \/ Remove(t)
  BY <1>4 DEF Release, Prune, Remove
<1> QED BY <1>1, <1>2, <1>3, <1>4 DEF Step

(* What the installation of a location does.                               *)
LEMMA InstallFacts ==
  ASSUME CoreInv, AccountsInv, BatchesInv, NEW t \in Threads, NEW o \in ObjectIds,
         Install(t, o)
  PROVE  /\ base[t] \in DOMAIN fams /\ OwnedBy(base[t], o, At(base[t], o))
         /\ o \in DOMAIN batch[t] /\ fams[base[t]].objs[o].val = batch[t][o].val
         /\ \A p \in ObjectIds : p # o => location_table'[p] = location_table[p]
         /\ \/ location_table'[o] = location_table[o] /\ failed' # failed
            \/ location_table'[o] = At(base[t], o) /\ failed' = failed
         /\ location_table'[o] # location_table[o] =>
              IF t \in sweeping THEN location_table[o] = batch[t][o].old
                                ELSE location_table[o] < At(base[t], o)
<1>1. base[t] \in DOMAIN fams /\ o \in DOMAIN fams[base[t]].objs /\ o \in todo[t]
  BY WriterFacts DEF Install, Pending
<1>2. /\ OwnedBy(base[t], o, At(base[t], o))
      /\ o \in DOMAIN batch[t] /\ fams[base[t]].objs[o].val = batch[t][o].val
  BY <1>1 DEF Install, OwnedBy, BatchesInv, ItemsInv, Working
<1>3. gen[t] # 0 <=> t \in sweeping
  BY DEF Install, BatchesInv, CallInv, CallOk, Writing, Working
<1>4. /\ \A p \in ObjectIds : p # o => location_table'[p] = location_table[p]
      /\ \/ /\ location_table' = location_table
            /\ failed' = [failed EXCEPT ![t] = @ \cup {o}]
         \/ /\ location_table'[o] = At(base[t], o) /\ failed' = failed
            /\ IF t \in sweeping THEN location_table[o] = batch[t][o].old
                                 ELSE location_table[o] < At(base[t], o)
  <2>1. DOMAIN location_table = ObjectIds
    BY DEF CoreInv, TypeOK
  <2>2. CASE gen[t] # 0
    BY <1>3, <2>1, <2>2 DEF Install, Cas, CasSucceeds, At
  <2>3. CASE gen[t] = 0
    BY <1>3, <2>1, <2>3 DEF Install, FetchMax, FetchMaxSucceeds, At
  <2> QED BY <2>2, <2>3
<1>5. failed' = [failed EXCEPT ![t] = @ \cup {o}] => failed' # failed
  <2>1. o \notin failed[t] /\ t \in DOMAIN failed
    BY <1>1 DEF AccountsInv, WorkInv, CoreInv, TypeOK
  <2> QED BY <2>1
<1> QED BY <1>1, <1>2, <1>4, <1>5

(* A step of maintenance keeps the version of every object.                *)
LEMMA MaintenanceStep ==
  ASSUME CoreInv, CoreInv', AccountsInv, AccountsInv', BatchesInv,
         NEW t \in sweeping, Step(t), NEW o \in ObjectIds
  PROVE  TableVersion(o)' = TableVersion(o)
<1>0. t \in Threads
  BY DEF CoreInv, TypeOK
<1>1. CASE location_table'[o] = location_table[o]
  BY <1>0, <1>1, VersionStays
<1>2. CASE location_table'[o] # location_table[o]
  <2>1. PICK p \in ObjectIds : Install(t, p)
    BY <1>0, <1>2, TableStays
  <2>2. p = o
    BY <1>0, <1>2, <2>1, InstallFacts
  <2>3. /\ OwnedBy(base[t], o, location_table'[o]) /\ o \in DOMAIN batch[t]
        /\ fams[base[t]].objs[o].val = batch[t][o].val
        /\ location_table[o] = batch[t][o].old
    BY <1>0, <1>2, <2>1, <2>2, InstallFacts
  <2>4. PICK g : ItemFrom(t, o, g)
    BY <1>0, <2>3 DEF BatchesInv, ItemsInv
  <2>5. TableVersion(o) = batch[t][o].val
    BY <2>3, <2>4, CoreVersions DEF VersionsRead, ItemFrom
  <2>6. fams' = fams
    BY <2>1 DEF Install
  <2>8. TableVersion(o)' = batch[t][o].val
    <3>1. PICK f : f = base[t]
      OBVIOUS
    <3>2. OwnedBy(f, o, location_table[o])' /\ fams'[f].objs[o].val = batch[t][o].val
      BY <2>3, <2>6, <3>1 DEF OwnedBy, At
    <3> QED BY <3>2, CoreVersionsNext DEF VersionsRead
  <2> QED BY <2>5, <2>8
<1> QED BY <1>1, <1>2

(* maintenance changes the version of no object, whatever is written at    *)
(* the same time: the compare_exchange of write_batch_inner succeeds only  *)
(* while the location it read still leads to the version it moves.         *)
THEOREM MaintenanceAlwaysKeepsVersions == Spec => MaintenanceKeepsVersions
<1>1. CoreInv /\ CoreInv' /\ AccountsInv /\ AccountsInv' /\ BatchesInv /\ [Next]_vars
        => [(\E t \in sweeping : Step(t)) =>
              \A o \in ObjectIds : TableVersion(o)' = TableVersion(o)]_vars
  BY MaintenanceStep
<1> QED BY <1>1, CoreInduction, AccountsInduction, BatchesInduction, PTL
    DEF Spec, MaintenanceKeepsVersions
(***************************************************************************)
(* The LSN counter.                                                        *)
(***************************************************************************)
(* Where a location of a file is in the LSN space.                         *)
LEMMA OwnedLsn ==
  ASSUME CoreInv, NEW f, NEW o, NEW l, OwnedBy(f, o, l)
  PROVE  /\ l \in Nat /\ Position(f) <= MaskLsn(LsnOf(l))
         /\ MaskLsn(LsnOf(l)) < next_file_lsn
<1>1. f \in DOMAIN fams /\ o \in DOMAIN fams[f].objs /\ l = LocationIn(f, fams[f].objs, o)
  BY DEF OwnedBy, At
<1>2. /\ f \in FamLocations /\ fams[f].objs[o].off \in Nat
      /\ fams[f].objs[o].del \in BOOLEAN /\ DOMAIN fams[f].objs \subseteq ObjectIds
  BY <1>1, FamTypes DEF CoreInv
<1>3. LsnOf(f) \in Nat /\ Position(f) \in Nat /\ DataLen(fams[f].objs) \in Nat
  BY <1>2, FamLocationFacts, DataLenType
<1>4. /\ fams[f].objs[o].off <= DataLen(fams[f].objs) /\ next_file_lsn \in Nat
      /\ Position(f) + DataLen(fams[f].objs) < NewWriteBatchBit
      /\ Position(f) + DataLen(fams[f].objs) < next_file_lsn
  BY <1>1 DEF CoreInv, FilesInv, Placed, Files, ObjsOf, TypeOK, FileMapTypeOK
<1>5. PICK off \in Nat : off = fams[f].objs[o].off
  BY <1>2
<1>6. l = 2 * (LsnOf(f) + off) + (IF fams[f].objs[o].del THEN 1 ELSE 0)
  BY <1>1, <1>2, <1>5, LocationInFacts
<1>7. PICK n \in Nat : n = LsnOf(f)
  BY <1>3
<1>8. l \in Nat /\ l \div 2 = n + off
  <2>1. l = 2 * (n + off) \/ l = 2 * (n + off) + 1
    BY <1>6, <1>7
  <2>2. PICK k \in Nat : k = n + off
    OBVIOUS
  <2>3. l = 2 * k \/ l = 2 * k + 1
    BY <2>1, <2>2
  <2> QED BY <2>2, <2>3
<1>9. MaskLsn(n + off) = Position(f) + off
  <2>1. NewWriteBatchBit \in Nat /\ Position(f) = MaskLsn(n)
    BY <1>7, BitAssumption DEF Position
  <2>3. CASE n >= NewWriteBatchBit
    BY <1>5, <2>1, <2>3 DEF MaskLsn
  <2>4. CASE n < NewWriteBatchBit
    <3>1. Position(f) = n
      BY <2>1, <2>4 DEF MaskLsn
    <3>2. n + off < NewWriteBatchBit
      BY <1>3, <1>4, <1>5, <2>1, <3>1
    <3> QED BY <2>1, <3>1, <3>2 DEF MaskLsn
  <2> QED BY <2>1, <2>3, <2>4
<1>10. MaskLsn(LsnOf(l)) = Position(f) + off
  BY <1>8, <1>9 DEF LsnOf
<1> QED BY <1>3, <1>4, <1>5, <1>8, <1>10

(* A file lies below its locations: a state predicate, which can be primed. *)
FilesBelow ==
  \A f, o, l : OwnedBy(f, o, l) => /\ l \in Nat /\ Position(f) <= MaskLsn(LsnOf(l))
                                  /\ MaskLsn(LsnOf(l)) < next_file_lsn

(* The placement of the files implies it.                                  *)
LEMMA CoreBelow == CoreInv => FilesBelow
BY OwnedLsn DEF FilesBelow

(* The same of the state after a step.                                     *)
LEMMA CoreBelowNext == CoreInv' => FilesBelow'
BY CoreBelow, PTL

(* The LSN counter only grows while the process runs, and a new file has   *)
(* the place that the counter gave it.                                     *)
LEMMA LsnGrows ==
  ASSUME CoreInv, CoreInv', NEW t \in Threads,
         WriteBatch(t) \/ StartMaintenance(t) \/ Step(t)
  PROVE  /\ next_file_lsn <= next_file_lsn'
         /\ InsertPart(t) => Position(base'[t]) = next_file_lsn
<1>0. next_file_lsn \in Nat /\ DOMAIN base = Threads
  BY DEF CoreInv, TypeOK, FileMapTypeOK
<1>1. CASE InsertPart(t)
  <2>1. PICK part, objs, f : Inserts(t, part, objs, f)
    BY <1>1, InsertFacts DEF CoreInv
  <2>2. /\ base'[t] = f /\ Position(f) = next_file_lsn /\ DataLen(objs) \in Nat
        /\ next_file_lsn' = next_file_lsn + DataLen(objs) + 1
    BY <1>0, <2>1 DEF Inserts
  <2> QED BY <1>0, <2>2
<1>2. CASE ~ InsertPart(t)
  <2>1. CASE WriteBatch(t) \/ StartMaintenance(t)
    BY <1>0, <1>2, <2>1 DEF WriteBatch, StartMaintenance, shared
  <2>2. CASE \E o \in ObjectIds : Install(t, o)
    BY <1>0, <1>2, <2>2 DEF Install
  <2>3. CASE Abandon(t) \/ Commit(t) \/ Evacuate(t) \/ Finalize(t) \/ Unclaim(t)
    BY <1>0, <1>2, <2>3 DEF Abandon, Commit, Evacuate, Finalize, Unclaim
  <2>4. CASE Scan(t) \/ Claim(t) \/ Rewrite(t) \/ ReadFile(t)
    BY <1>0, <1>2, <2>4 DEF Scan, Claim, Rewrite, ReadFile, shared
  <2>5. CASE Release(t) \/ Prune(t) \/ Remove(t)
    BY <1>0, <1>2, <2>5 DEF Release, Prune, Remove
  <2> QED BY <1>2, <2>1, <2>2, <2>3, <2>4, <2>5 DEF Step
<1> QED BY <1>1, <1>2

(* A thread installs because it was installing, or has just inserted its   *)
(* file.                                                                   *)
LEMMA InstallOnly ==
  ASSUME TypeOK, NEW t \in Threads, WriteBatch(t) \/ StartMaintenance(t) \/ Step(t),
         pc'[t] = "install"
  PROVE  InsertPart(t) \/ (\E o \in ObjectIds : Install(t, o))
<1>d. DOMAIN pc = Threads
  BY DEF TypeOK
<1>1. CASE WriteBatch(t) \/ StartMaintenance(t) \/ Abandon(t) \/ Scan(t) \/ Claim(t)
  BY <1>d, <1>1 DEF WriteBatch, StartMaintenance, Abandon, PartDone, Scan, Claim, Goto
<1>2. CASE Rewrite(t) \/ ReadFile(t) \/ Release(t) \/ Prune(t) \/ Remove(t)
  BY <1>d, <1>2 DEF Rewrite, ReadFile, Release, Prune, Remove, Goto
<1>3. CASE Unclaim(t) \/ Commit(t) \/ Evacuate(t) \/ Finalize(t)
  BY <1>d, <1>3 DEF Unclaim, PartDone, Commit, Evacuate, Finalize, Goto
<1> QED BY <1>1, <1>2, <1>3 DEF Step

(***************************************************************************)
(* The ids that maintenance meets: the inductive invariant.                *)
(***************************************************************************)
(* A set of open files that contains, with a file still to be renamed, the *)
(* file from which its writer took the location of the object.             *)
Closed(o, X) ==
  \A t \in Threads : pc[t] = "install" /\ base[t] \in X =>
    \A f \in DOMAIN fams :
      o \in DOMAIN fams[f].objs /\ <<o, At(f, o)>> \in replaced[t] => f \in X

(* A crash leaves a trailer with the object: every closed set that begins  *)
(* at the file the table leads to contains a renamed file with the id.     *)
Chained(o) ==
  /\ location_table[o] # Null
  /\ \A X \in SUBSET DOMAIN fams :
       /\ \A f \in DOMAIN fams : OwnedBy(f, o, location_table[o]) => f \in X
       /\ Closed(o, X)
       => \E g \in X : g \in DOMAIN heap /\ o \in heap[g].trailer

(* A file that is being installed is neither renamed nor finalized, and    *)
(* the ids it has tried are in the table.                                  *)
InstallInv ==
  \A t \in Threads : pc[t] = "install" =>
    /\ base[t] \notin DOMAIN heap /\ fams[base[t]].size = 0
    /\ \A o \in DOMAIN fams[base[t]].objs \ todo[t] : location_table[o] # Null

(* The ids of a renamed file are in the table, those that something refers *)
(* to are in its trailer.                                                  *)
TrailersInv ==
  \A f \in DOMAIN fams \cap DOMAIN heap : \A o \in DOMAIN fams[f].objs :
    /\ location_table[o] # Null
    /\ Referred(o, At(f, o)) => o \in heap[f].trailer

(* What maintenance has read, or left out of a trailer, survives a crash.  *)
ChainsInv ==
  /\ \A t \in sweeping : \A o \in DOMAIN batch[t] : Chained(o)
  /\ \A f \in DOMAIN heap : \A o \in DOMAIN heap[f].objs \ heap[f].trailer : Chained(o)

KnownInv == InstallInv /\ TrailersInv /\ ChainsInv

(***************************************************************************)
(* Chains.                                                                 *)
(***************************************************************************)
(* A chain survives a step that keeps the files and the replaced locations *)
(* it goes through, renames a file of it, or puts one in front.            *)
LEMMA ChainedFrame ==
  ASSUME CoreInv, CoreInv', AccountsInv, NEW o \in ObjectIds, Chained(o),
         \A g \in DOMAIN fams : \A l :
           OwnedBy(g, o, l) /\ Referred(o, l) => StaysOpen(g),
         \A g \in DOMAIN fams \cap DOMAIN heap :
           g \in DOMAIN heap' /\ heap'[g] = heap[g],
         \/ location_table'[o] = location_table[o]
         \/ /\ location_table'[o] # Null
            /\ \E u \in Threads : /\ pc'[u] = "install"
                                  /\ OwnedBy(base[u], o, location_table[o])'
                                  /\ <<o, location_table[o]>> \in replaced'[u],
         \A u \in Threads : pc[u] = "install" /\ (\E l : <<o, l>> \in replaced[u]) =>
           \/ pc'[u] = "install" /\ base'[u] = base[u] /\ replaced[u] \subseteq replaced'[u]
           \/ base[u] \in DOMAIN heap' /\ o \in heap'[base[u]].trailer
  PROVE  Chained(o)'
<1>1. location_table'[o] # Null
  BY DEF Chained
<1> SUFFICES ASSUME NEW Y \in SUBSET DOMAIN fams',
                    \A f \in DOMAIN fams' : OwnedBy(f, o, location_table[o])' => f \in Y,
                    Closed(o, Y)'
             PROVE  \E g \in Y : g \in DOMAIN heap' /\ o \in heap'[g].trailer
  <2>1. DOMAIN fams' = (DOMAIN fams)'
    OBVIOUS
  <2> QED BY <1>1, <2>1 DEF Chained, Closed
<1>2. \A f : StaysOpen(f) => /\ f \in DOMAIN fams' /\ fams'[f].objs = fams[f].objs
                             /\ \A p : At(f, p)' = At(f, p)
  BY DEF StaysOpen, At
<1>3. ASSUME NEW u \in Threads, base[u] \in Y, base[u] \in DOMAIN heap',
             o \in heap'[base[u]].trailer
      PROVE  \E g \in Y : g \in DOMAIN heap' /\ o \in heap'[g].trailer
  BY <1>3
<1>4. CASE \A u \in Threads :
             ~ (base[u] \in Y /\ base[u] \in DOMAIN heap' /\ o \in heap'[base[u]].trailer)
  <2>1. PICK f0 \in DOMAIN fams : OwnedBy(f0, o, location_table[o])
    BY DEF AccountsInv, LocationsInv, Backed, Chained
  <2>2. StaysOpen(f0) /\ o \in DOMAIN fams[f0].objs /\ location_table[o] = At(f0, o)
    BY <2>1 DEF Referred, OwnedBy
  <2>3. f0 \in Y
    <3>1. CASE location_table'[o] = location_table[o]
      <4>1. OwnedBy(f0, o, location_table[o])'
        BY <1>2, <2>2, <3>1 DEF OwnedBy
      <4> QED BY <1>2, <2>2, <4>1
    <3>2. ASSUME NEW u \in Threads, pc'[u] = "install",
                 OwnedBy(base[u], o, location_table[o])',
                 <<o, location_table[o]>> \in replaced'[u]
          PROVE  f0 \in Y
      <4>1. base'[u] \in Y
        BY <3>2 DEF OwnedBy
      <4>2. f0 \in DOMAIN fams' /\ o \in DOMAIN fams'[f0].objs
            /\ <<o, At(f0, o)'>> \in replaced'[u]
        BY <1>2, <2>2, <3>2
      <4> QED BY <3>2, <4>1, <4>2 DEF Closed
    <3> QED BY <3>1, <3>2
  <2> DEFINE X == Y \cap DOMAIN fams
  <2>4. \A f \in DOMAIN fams : OwnedBy(f, o, location_table[o]) => f \in X
    BY <2>1, <2>3, OwnerUnique DEF CoreInv
  <2>5. Closed(o, X)
    <3> SUFFICES ASSUME NEW u \in Threads, pc[u] = "install", base[u] \in X,
                        NEW f \in DOMAIN fams, o \in DOMAIN fams[f].objs,
                        <<o, At(f, o)>> \in replaced[u]
                 PROVE  f \in X
      BY DEF Closed
    <3>1. StaysOpen(f)
      BY DEF OwnedBy, Referred
    <3>2. pc'[u] = "install" /\ base'[u] = base[u] /\ replaced[u] \subseteq replaced'[u]
      BY <1>4
    <3>3. /\ f \in DOMAIN fams' /\ o \in DOMAIN fams'[f].objs
          /\ <<o, At(f, o)'>> \in replaced'[u] /\ base'[u] \in Y
      BY <1>2, <3>1, <3>2
    <3>4. f \in Y
      BY <3>2, <3>3 DEF Closed
    <3> QED BY <3>4
  <2>6. X \in SUBSET DOMAIN fams
    OBVIOUS
  <2> HIDE DEF X
  <2>7. PICK g \in X : g \in DOMAIN heap /\ o \in heap[g].trailer
    BY <2>4, <2>5, <2>6 DEF Chained
  <2>8. g \in Y /\ g \in DOMAIN fams
    BY DEF X
  <2> QED BY <2>7, <2>8
<1> QED BY <1>3, <1>4

(* A file that something refers to stays open.                             *)
LEMMA ReferredStays ==
  ASSUME CoreInv, AccountsInv, AccountsInv', NEW t \in Threads,
         WriteBatch(t) \/ StartMaintenance(t) \/ Step(t),
         NEW o \in ObjectIds, NEW l, NEW g, OwnedBy(g, o, l), Referred(o, l)
  PROVE  StaysOpen(g)
<1>1. FilesChange(t) /\ g \in DOMAIN fams
  BY FilesEffect DEF OwnedBy
<1>2. CASE SameFiles \/ InsertPart(t)
  <2>1. CASE SameFiles
    BY <1>1, <2>1 DEF SameFiles, StaysOpen
  <2>2. CASE ~ SameFiles /\ InsertPart(t)
    <3>1. ~ Abandon(t) /\ ~ Remove(t)
      BY <2>2 DEF InsertPart, Abandon, Remove
    <3> QED BY <1>1, <2>2, <3>1 DEF FilesChange, StaysOpen
  <2> QED BY <1>2, <2>1, <2>2
<1>3. ASSUME NEW f, (f = base[t] /\ Abandon(t)) \/ (f \in claims[t] /\ Remove(t)),
             f \in DOMAIN fams, DOMAIN fams' = DOMAIN fams \ {f},
             \A h \in DOMAIN fams' : fams'[h].objs = fams[h].objs
      PROVE  StaysOpen(g)
  <2>1. UNCHANGED <<location_table, replaced>>
    BY <1>3 DEF Abandon, Remove, inner
  <2>2. l # Null
    BY CoreLocations DEF OwnedBy, LocationsDistinct
  <2>3. Backed(o, l)'
    <3>1. CASE location_table[o] = l
      BY <2>1, <2>2, <3>1 DEF AccountsInv, LocationsInv
    <3>2. ASSUME NEW u \in Threads, <<o, l>> \in replaced[u] PROVE Backed(o, l)'
      <4>1. PICK r \in replaced'[u] : r = <<o, l>>
        BY <2>1, <3>2
      <4>2. Backed(r[1], r[2])'
        BY <4>1 DEF AccountsInv, LocationsInv
      <4> QED BY <4>1, <4>2
    <3> QED BY <3>1, <3>2 DEF Referred
  <2>4. PICK h \in DOMAIN fams' : OwnedBy(h, o, l)'
    BY <2>3 DEF Backed
  <2>5. OwnedBy(h, o, l)
    BY <1>3, <2>4 DEF OwnedBy, At
  <2>6. h = g
    BY <2>5, OwnerUnique DEF CoreInv
  <2> QED BY <1>3, <2>4, <2>6 DEF StaysOpen
<1> QED BY <1>1, <1>2, <1>3 DEF FilesChange

(* How a step of a thread changes the heap directory.                      *)
HeapChange(t) ==
  \/ heap' = heap
  \/ /\ Commit(t) /\ DOMAIN heap' = DOMAIN heap \cup {base[t]}
     /\ heap'[base[t]].objs = fams[base[t]].objs
     /\ heap'[base[t]].trailer = Trailer(t)
     /\ \A g \in DOMAIN heap : g # base[t] => heap'[g] = heap[g]

(* Only the rename of a file changes the heap directory while the threads  *)
(* run.                                                                    *)
LEMMA HeapEffect ==
  ASSUME NEW t \in Threads, WriteBatch(t) \/ StartMaintenance(t) \/ Step(t)
  PROVE  HeapChange(t)
<1>1. CASE WriteBatch(t) \/ StartMaintenance(t) \/ InsertPart(t)
  BY <1>1 DEF WriteBatch, StartMaintenance, InsertPart, shared, HeapChange
<1>2. CASE (\E o \in ObjectIds : Install(t, o)) \/ Abandon(t) \/ Evacuate(t) \/ Finalize(t)
           \/ Unclaim(t)
  BY <1>2 DEF Install, Abandon, Evacuate, Finalize, Unclaim, HeapChange
<1>3. CASE Scan(t) \/ Claim(t) \/ Rewrite(t) \/ ReadFile(t)
  BY <1>3 DEF Scan, Claim, Rewrite, ReadFile, shared, HeapChange
<1>4. CASE Release(t) \/ Prune(t) \/ Remove(t)
  BY <1>4 DEF Release, Prune, Remove, HeapChange
<1>5. CASE Commit(t)
  BY <1>5 DEF Commit, Rename, HeapChange
<1> QED BY <1>1, <1>2, <1>3, <1>4, <1>5 DEF Step

(* Only finalize_fam changes the size of a file.                           *)
LEMMA SizesStay ==
  ASSUME CoreInv, NEW t \in Threads, WriteBatch(t) \/ StartMaintenance(t) \/ Step(t),
         NEW g \in DOMAIN fams, g \in DOMAIN fams'
  PROVE  fams'[g].size = fams[g].size \/ (Finalize(t) /\ g = base[t])
<1>1. ASSUME NEW f, ReleaseClaim(f) \/ TakeClaim(f) PROVE fams'[g].size = fams[g].size
  BY <1>1, ClaimUpdate, TypeFams DEF CoreInv
<1>2. ASSUME NEW f, RemoveFam(f) PROVE fams'[g].size = fams[g].size
  BY <1>2, RemoveUpdate, TypeFams DEF CoreInv
<1>3. CASE Evacuate(t)
  <2>1. PICK f : fams' = [fams EXCEPT ![f].live = @ - 1]
    BY <1>3 DEF Evacuate, DecrementFam
  <2> DEFINE n == 1
  <2>2. n \in Int /\ fams' = [fams EXCEPT ![f].live = @ - n]
    BY <2>1
  <2> HIDE DEF n
  <2> QED BY <2>2, TypeFams, LiveUpdate DEF CoreInv
<1>4. CASE Finalize(t)
  BY <1>4, FinalizeFields DEF CoreInv
<1>5. CASE InsertPart(t)
  <2>1. PICK part, objs, f : Inserts(t, part, objs, f)
    BY <1>5, InsertFacts DEF CoreInv
  <2>2. f \notin DOMAIN fams
    <3>1. Position(f) = next_file_lsn
      BY <2>1 DEF Inserts
    <3> QED BY <3>1, FilesBehind DEF CoreInv, Files
  <2>3. fams'[g] = fams[g]
    BY <2>1, <2>2 DEF Inserts
  <2> QED BY <2>3
<1>6. CASE WriteBatch(t) \/ StartMaintenance(t) \/ (\E o \in ObjectIds : Install(t, o))
  BY <1>6 DEF WriteBatch, StartMaintenance, Install, shared
<1>7. CASE Commit(t) \/ Abandon(t) \/ Unclaim(t) \/ Scan(t) \/ Claim(t)
  BY <1>1, <1>2, <1>7 DEF Commit, Abandon, Unclaim, Scan, Claim, shared
<1>8. CASE Rewrite(t) \/ ReadFile(t) \/ Release(t) \/ Remove(t)
  BY <1>1, <1>2, <1>8 DEF Rewrite, ReadFile, Release, Remove, shared
<1>9. CASE Prune(t)
  BY <1>1, <1>9 DEF Prune
<1> QED BY <1>3, <1>4, <1>5, <1>6, <1>7, <1>8, <1>9 DEF Step

(* A successful installation remembers the location it replaced.           *)
LEMMA InstallReplaces ==
  ASSUME CoreInv, NEW t \in Threads, NEW o \in ObjectIds, Install(t, o)
  PROVE  /\ replaced[t] \subseteq replaced'[t]
         /\ location_table'[o] # location_table[o] /\ location_table[o] # Null =>
              <<o, location_table[o]>> \in replaced'[t]
         /\ \A r \in replaced'[t] : r \in replaced[t] \/ r = <<o, location_table[o]>>
         /\ \A p \in ObjectIds : p # o => location_table'[p] = location_table[p]
<1>1. t \in DOMAIN replaced /\ DOMAIN location_table = ObjectIds
  BY DEF CoreInv, TypeOK
<1>2. CASE gen[t] # 0
  BY <1>1, <1>2 DEF Install, Cas, CasSucceeds
<1>3. CASE gen[t] = 0
  BY <1>1, <1>3 DEF Install, FetchMax, FetchMaxSucceeds
<1> QED BY <1>2, <1>3

(* The location of an object in the table stays one, and a chain stays a   *)
(* chain, whatever a thread does.                                          *)
LEMMA ChainedStep ==
  ASSUME CoreInv, CoreInv', AccountsInv, AccountsInv', BatchesInv, InstallInv,
         NEW t \in Threads, WriteBatch(t) \/ StartMaintenance(t) \/ Step(t),
         NEW o \in ObjectIds
  PROVE  /\ location_table[o] # Null => location_table'[o] # Null
         /\ Chained(o) => Chained(o)'
<1>1. ASSUME location_table'[o] # location_table[o]
      PROVE  /\ Install(t, o) /\ pc[t] = "install"
             /\ location_table'[o] = At(base[t], o) /\ At(base[t], o) # Null
             /\ OwnedBy(base[t], o, location_table[o])'
  <2>1. PICK p \in ObjectIds : Install(t, p)
    BY <1>1, TableStays
  <2>2. p = o
    BY <1>1, <2>1, InstallReplaces
  <2>3. OwnedBy(base[t], o, At(base[t], o)) /\ location_table'[o] = At(base[t], o)
    BY <1>1, <2>1, <2>2, InstallFacts
  <2>4. pc[t] = "install" /\ UNCHANGED <<fams, base>>
    BY <2>1 DEF Install
  <2>5. At(base[t], o) # Null
    BY <2>3, CoreLocations DEF OwnedBy, LocationsDistinct
  <2> QED BY <2>1, <2>2, <2>3, <2>4, <2>5 DEF OwnedBy, At
<1>2. location_table[o] # Null => location_table'[o] # Null
  BY <1>1
<1>3. ASSUME Chained(o) PROVE Chained(o)'
  <2>1. \A g \in DOMAIN fams : \A l : OwnedBy(g, o, l) /\ Referred(o, l) => StaysOpen(g)
    BY ReferredStays
  <2>2. \A g \in DOMAIN fams \cap DOMAIN heap : g \in DOMAIN heap' /\ heap'[g] = heap[g]
    BY HeapEffect DEF HeapChange, InstallInv, Commit
  <2>3. \/ location_table'[o] = location_table[o]
        \/ /\ location_table'[o] # Null
           /\ \E u \in Threads : /\ pc'[u] = "install"
                                 /\ OwnedBy(base[u], o, location_table[o])'
                                 /\ <<o, location_table[o]>> \in replaced'[u]
    <3> SUFFICES ASSUME location_table'[o] # location_table[o]
                 PROVE  /\ location_table'[o] # Null /\ pc'[t] = "install"
                        /\ OwnedBy(base[t], o, location_table[o])'
                        /\ <<o, location_table[o]>> \in replaced'[t]
      OBVIOUS
    <3>1. Install(t, o) /\ location_table[o] # Null
      BY <1>1, <1>3 DEF Chained
    <3>2. pc'[t] = "install"
      BY <1>1, <3>1 DEF Install
    <3> QED BY <1>1, <3>1, <3>2, InstallReplaces
  <2>4. ASSUME NEW u \in Threads, pc[u] = "install", NEW l, <<o, l>> \in replaced[u]
        PROVE  \/ /\ pc'[u] = "install" /\ base'[u] = base[u]
                  /\ replaced[u] \subseteq replaced'[u]
               \/ base[u] \in DOMAIN heap' /\ o \in heap'[base[u]].trailer
    <3>1. CASE u # t
      BY <2>4, <3>1, ThreadsApart DEF CoreInv, OthersStay
    <3>2. CASE u = t
      <4>1. (\E p \in ObjectIds : Install(t, p)) \/ Abandon(t) \/ Commit(t)
        BY <2>4, <3>2 DEF WriteBatch, StartMaintenance, Step, InsertPart, Evacuate,
             Finalize, Unclaim, Scan, Claim, Rewrite, ReadFile, Release, Prune, Remove
      <4>2. ASSUME NEW p \in ObjectIds, Install(t, p)
            PROVE  /\ pc'[t] = "install" /\ base'[t] = base[t]
                   /\ replaced[t] \subseteq replaced'[t]
        BY <2>4, <3>2, <4>2, InstallReplaces DEF Install
      <4>3. PICK r \in replaced[t] : r = <<o, l>>
        BY <2>4, <3>2
      <4>4. o \in DOMAIN fams[base[t]].objs /\ o \notin failed[t]
        BY <4>3 DEF AccountsInv, WorkInv, Pending
      <4>5. o \in Trailer(t)
        BY <4>4 DEF Trailer
      <4>6. ~ Abandon(t)
        BY <4>5 DEF Abandon
      <4>7. CASE Commit(t)
        BY <3>2, <4>5, <4>7 DEF Commit, Rename
      <4> QED BY <3>2, <4>1, <4>2, <4>6, <4>7
    <3> QED BY <3>1, <3>2
  <2> QED BY <1>3, <2>1, <2>2, <2>3, <2>4, ChainedFrame
<1> QED BY <1>2, <1>3

(***************************************************************************)
(* The steps of a thread.                                                  *)
(***************************************************************************)
(* Ids that were tried are in the table: they were installed, or lost      *)
(* against a location that is there.                                       *)
LEMMA InstallStep ==
  ASSUME CoreInv, CoreInv', AccountsInv, AccountsInv', BatchesInv, KnownInv,
         NEW t \in Threads, WriteBatch(t) \/ StartMaintenance(t) \/ Step(t)
  PROVE  InstallInv'
<1>0. /\ InstallInv /\ DOMAIN pc = Threads
      /\ \A o \in ObjectIds : location_table[o] # Null => location_table'[o] # Null
  BY ChainedStep DEF KnownInv, CoreInv, TypeOK
<1> SUFFICES ASSUME NEW u \in Threads, pc'[u] = "install"
             PROVE  /\ base'[u] \notin DOMAIN heap' /\ fams'[base'[u]].size = 0
                    /\ \A o \in DOMAIN fams'[base'[u]].objs \ todo'[u] :
                         location_table'[o] # Null
  BY DEF InstallInv
<1>1. CASE u # t
  <2>1. pc[u] = "install" /\ base'[u] = base[u] /\ todo'[u] = todo[u]
    BY <1>1, ThreadsApart DEF CoreInv, OthersStay
  <2>2. base[u] \in DOMAIN fams /\ base[u] # 0 /\ base[u] # base[t]
    BY <1>1, <2>1, WriterFacts DEF CoreInv, HoldersInv
  <2>3. StaysOpen(base[u])
    BY <1>1, <2>2, HeldStay
  <2>4. base[u] \notin DOMAIN heap'
    BY <1>0, <2>1, <2>2, HeapEffect DEF HeapChange, InstallInv
  <2>5. fams'[base[u]].size = 0
    BY <1>0, <2>1, <2>2, <2>3, SizesStay DEF StaysOpen, InstallInv
  <2>6. \A o \in DOMAIN fams[base[u]].objs \ todo[u] : location_table'[o] # Null
    BY <1>0, <2>1, <2>2, FamTypes DEF InstallInv, CoreInv
  <2> QED BY <2>1, <2>3, <2>4, <2>5, <2>6 DEF StaysOpen
<1>2. CASE u = t
  <2>1. InsertPart(t) \/ \E o \in ObjectIds : Install(t, o)
    <3>1. CASE WriteBatch(t) \/ StartMaintenance(t) \/ Commit(t) \/ Finalize(t)
      BY <1>0, <1>2, <3>1 DEF WriteBatch, StartMaintenance, Commit, Finalize, Goto
    <3>2. CASE Abandon(t) \/ Unclaim(t)
      BY <1>0, <1>2, <3>2 DEF Abandon, Unclaim, PartDone, Goto
    <3>3. CASE Evacuate(t) \/ Scan(t) \/ Claim(t)
      BY <1>0, <1>2, <3>3 DEF Evacuate, Scan, Claim, Goto
    <3>4. CASE Rewrite(t)
      BY <1>0, <1>2, <3>4 DEF Rewrite, Goto
    <3>5. CASE ReadFile(t)
      BY <1>0, <1>2, <3>5, ReadFacts DEF Reads
    <3>6. CASE Release(t) \/ Prune(t) \/ Remove(t)
      BY <1>0, <1>2, <3>6 DEF Release, Prune, Remove, Goto
    <3> QED BY <3>1, <3>2, <3>3, <3>4, <3>5, <3>6 DEF Step
  <2>2. CASE InsertPart(t)
    <3>1. PICK part, objs, f : Inserts(t, part, objs, f)
      BY <2>2, InsertFacts DEF CoreInv
    <3>2. f \notin Files
      <4>1. Position(f) = next_file_lsn
        BY <3>1 DEF Inserts
      <4> QED BY <4>1, FilesBehind DEF CoreInv
    <3>3. /\ base'[t] = f /\ todo'[t] = part
          /\ fams'[f].size = 0 /\ DOMAIN fams'[f].objs = part
      BY <3>1 DEF Inserts, CoreInv, TypeOK
    <3> QED BY <1>2, <2>2, <3>2, <3>3 DEF Files, InsertPart
  <2>3. ASSUME NEW o \in ObjectIds, Install(t, o)
        PROVE  /\ base'[t] \notin DOMAIN heap' /\ fams'[base'[t]].size = 0
               /\ \A p \in DOMAIN fams'[base'[t]].objs \ todo'[t] :
                    location_table'[p] # Null
    <3>1. /\ pc[t] = "install" /\ UNCHANGED <<fams, heap, base>>
          /\ todo'[t] = todo[t] \ {o}
      BY <2>3 DEF Install, CoreInv, TypeOK
    <3>2. base[t] \in DOMAIN fams /\ DOMAIN fams[base[t]].objs \subseteq ObjectIds
      BY <3>1, WriterFacts
    <3>3. location_table'[o] # Null
      <4>1. /\ OwnedBy(base[t], o, At(base[t], o)) /\ o \in DOMAIN batch[t]
            /\ location_table'[o] = location_table[o] \/ location_table'[o] = At(base[t], o)
        BY <2>3, InstallFacts
      <4>2. At(base[t], o) \in Nat /\ At(base[t], o) # Null
        BY <4>1, AtPositive DEF OwnedBy
      <4>3. CASE t \in sweeping
        BY <1>0, <4>1, <4>2, <4>3 DEF KnownInv, ChainsInv, Chained
      <4>4. CASE t \notin sweeping
        <5>1. gen[t] = 0
          BY <4>4 DEF BatchesInv, CallInv, CallOk
        <5>2. FetchMax(o, At(base[t], o))
          BY <2>3, <5>1 DEF Install, At
        <5>3. location_table \in [ObjectIds -> Nat]
          BY DEF CoreInv, TypeOK
        <5> QED BY <4>2, <5>2, <5>3 DEF FetchMax, FetchMaxSucceeds
      <4> QED BY <4>3, <4>4
    <3>4. \A p \in DOMAIN fams[base[t]].objs \ todo[t] : location_table'[p] # Null
      BY <1>0, <3>1, <3>2 DEF InstallInv
    <3> QED BY <1>0, <3>1, <3>3, <3>4 DEF InstallInv
  <2> QED BY <1>2, <2>1, <2>2, <2>3
<1> QED BY <1>1, <1>2

(* Only an installation adds to the replaced locations.                    *)
LEMMA ReplacedShrinks ==
  ASSUME CoreInv, NEW t \in Threads, WriteBatch(t) \/ StartMaintenance(t) \/ Step(t),
         \A o \in ObjectIds : ~ Install(t, o), NEW u \in Threads
  PROVE  replaced'[u] \subseteq replaced[u]
<1>1. t \in DOMAIN replaced
  BY DEF CoreInv, TypeOK
<1>2. CASE WriteBatch(t) \/ StartMaintenance(t) \/ InsertPart(t) \/ Abandon(t) \/ Commit(t)
  BY <1>2 DEF WriteBatch, StartMaintenance, InsertPart, Abandon, Commit, inner
<1>3. CASE Evacuate(t)
  BY <1>1, <1>3 DEF Evacuate
<1>4. CASE Finalize(t) \/ Unclaim(t) \/ Scan(t) \/ Claim(t) \/ Rewrite(t)
  BY <1>4 DEF Finalize, Unclaim, Scan, Claim, Rewrite, inner
<1>5. CASE ReadFile(t) \/ Release(t) \/ Prune(t) \/ Remove(t)
  BY <1>5 DEF ReadFile, Release, Prune, Remove, inner
<1> QED BY <1>2, <1>3, <1>4, <1>5 DEF Step

(* A location that something begins to refer to is that of a file which is *)
(* being installed.                                                        *)
LEMMA ReferredNew ==
  ASSUME CoreInv, AccountsInv, BatchesInv, NEW t \in Threads,
         WriteBatch(t) \/ StartMaintenance(t) \/ Step(t),
         NEW o \in ObjectIds, NEW l, Referred(o, l)', ~ Referred(o, l)
  PROVE  pc[t] = "install" /\ OwnedBy(base[t], o, l)
<1>1. CASE \A p \in ObjectIds : ~ Install(t, p)
  BY <1>1, TableStays, ReplacedShrinks DEF Referred
<1>2. ASSUME NEW p \in ObjectIds, Install(t, p) PROVE pc[t] = "install" /\ OwnedBy(base[t], o, l)
  <2>1. \A u \in Threads : u # t => replaced'[u] = replaced[u]
    BY <1>2, ThreadsApart DEF CoreInv, OthersStay, Step
  <2>2. /\ \A r \in replaced'[t] : r \in replaced[t] \/ r = <<p, location_table[p]>>
        /\ \A q \in ObjectIds : q # p => location_table'[q] = location_table[q]
    BY <1>2, InstallReplaces
  <2>3. \A u \in Threads : <<o, l>> \notin replaced'[u]
    BY <2>1, <2>2 DEF Referred
  <2>4. o = p /\ location_table'[o] = l /\ location_table[o] # l
    BY <2>2, <2>3 DEF Referred
  <2> QED BY <1>2, <2>4, InstallFacts DEF Install
<1> QED BY <1>1, <1>2

(* The trailer of a renamed file has every id of it that something refers  *)
(* to: maintenance leaves out only what it failed to install.              *)
LEMMA TrailersStep ==
  ASSUME CoreInv, CoreInv', AccountsInv, AccountsInv', BatchesInv, KnownInv,
         NEW t \in Threads, WriteBatch(t) \/ StartMaintenance(t) \/ Step(t)
  PROVE  TrailersInv'
<1>0. /\ InstallInv /\ TrailersInv
      /\ \A o \in ObjectIds : location_table[o] # Null => location_table'[o] # Null
  BY ChainedStep DEF KnownInv
<1> SUFFICES ASSUME NEW f \in DOMAIN fams', f \in DOMAIN heap',
                    NEW o \in DOMAIN fams'[f].objs
             PROVE  /\ location_table'[o] # Null
                    /\ Referred(o, At(f, o))' => o \in heap'[f].trailer
  BY DEF TrailersInv
<1>1. f \in DOMAIN fams /\ fams'[f].objs = fams[f].objs
  <2>1. FilesChange(t)
    BY FilesEffect
  <2>2. ASSUME NEW g, InsertPart(t), g \notin Files, DOMAIN fams' = DOMAIN fams \cup {g},
               \A h \in DOMAIN fams : fams'[h].objs = fams[h].objs
        PROVE  f \in DOMAIN fams /\ fams'[f].objs = fams[f].objs
    <3>1. heap' = heap
      BY <2>2 DEF InsertPart
    <3> QED BY <2>2, <3>1 DEF Files
  <2> QED BY <2>1, <2>2 DEF FilesChange, SameFiles
<1>2. At(f, o)' = At(f, o) /\ o \in ObjectIds
  BY <1>1, FamTypes DEF At, CoreInv
<1>3. CASE f \in DOMAIN heap
  <2>1. location_table[o] # Null /\ (Referred(o, At(f, o)) => o \in heap[f].trailer)
    BY <1>0, <1>1, <1>3 DEF TrailersInv
  <2>2. heap'[f] = heap[f]
    BY <1>0, <1>3, HeapEffect DEF HeapChange, InstallInv, Commit
  <2>3. ASSUME Referred(o, At(f, o))', ~ Referred(o, At(f, o)) PROVE FALSE
    <3>1. PICK l : l = At(f, o)
      OBVIOUS
    <3>2. Referred(o, l)' /\ ~ Referred(o, l)
      BY <1>2, <2>3, <3>1 DEF Referred
    <3>3. pc[t] = "install" /\ OwnedBy(base[t], o, l)
      BY <1>2, <3>2, ReferredNew
    <3>4. base[t] = f
      BY <1>1, <3>1, <3>3, OwnerUnique DEF CoreInv, OwnedBy
    <3> QED BY <1>0, <1>3, <3>3, <3>4 DEF InstallInv
  <2> QED BY <1>0, <1>2, <2>1, <2>2, <2>3
<1>4. CASE f \notin DOMAIN heap
  <2>1. Commit(t) /\ f = base[t] /\ heap'[f].trailer = Trailer(t)
    BY <1>4, HeapEffect DEF HeapChange
  <2>2. /\ pc[t] = "install" /\ todo[t] = {}
        /\ UNCHANGED <<location_table, replaced>>
    BY <2>1 DEF Commit, inner
  <2>3. location_table[o] # Null
    BY <1>0, <1>1, <2>1, <2>2 DEF InstallInv
  <2>4. ASSUME Referred(o, At(f, o))' PROVE o \in Trailer(t)
    <3>1. Referred(o, At(base[t], o))
      BY <1>2, <2>1, <2>2, <2>4 DEF Referred
    <3>2. o \notin failed[t]
      BY <3>1 DEF AccountsInv, LocationsInv, Pending
    <3> QED BY <1>1, <2>1, <3>2 DEF Trailer
  <2> QED BY <2>1, <2>2, <2>3, <2>4
<1> QED BY <1>3, <1>4

(* What maintenance reads is chained: the table leads to a renamed file.   *)
LEMMA SurvivorsChained ==
  ASSUME CoreInv, TrailersInv, NEW t \in Threads, NEW f \in claims[t],
         NEW o \in Survivors(f)
  PROVE  Chained(o)
<1>1. /\ f \in DOMAIN fams /\ o \in DOMAIN fams[f].objs
      /\ location_table[o] = At(f, o)
  BY DEF CoreInv, HoldersInv, Survivors, At
<1>2. f \in DOMAIN heap
  BY <1>1 DEF CoreInv, HoldersInv
<1>3. location_table[o] # Null /\ o \in heap[f].trailer
  BY <1>1, <1>2 DEF TrailersInv, Referred
<1>4. OwnedBy(f, o, location_table[o])
  BY <1>1 DEF OwnedBy
<1> QED BY <1>1, <1>2, <1>3, <1>4 DEF Chained

(* The batch of maintenance grows only by what it reads.                   *)
LEMMA BatchGrows ==
  ASSUME CoreInv, BatchesInv, NEW t \in Threads,
         WriteBatch(t) \/ StartMaintenance(t) \/ Step(t),
         t \in sweeping', NEW o \in DOMAIN batch'[t]
  PROVE  \/ t \in sweeping /\ o \in DOMAIN batch[t]
         \/ \E f \in claims[t] : o \in Survivors(f)
<1>1. t \in DOMAIN batch
  BY DEF CoreInv, TypeOK
<1>2. CASE WriteBatch(t)
  BY <1>2 DEF WriteBatch, BatchesInv, CallInv, CallOk
<1>3. CASE StartMaintenance(t)
  BY <1>3 DEF StartMaintenance, BatchesInv, CallInv, CallOk, Writing, Working
<1>4. CASE ReadFile(t)
  <2>1. PICK f, items : Reads(t, f, items)
    BY <1>4, ReadFacts
  <2>2. batch'[t] = items /\ f \in claims[t] /\ sweeping' = sweeping
    BY <1>1, <1>4, <2>1 DEF Reads, ReadFile, CoreInv, HoldersInv
  <2> QED BY <2>1, <2>2 DEF Reads
<1>5. CASE Abandon(t) \/ Unclaim(t)
  BY <1>1, <1>5 DEF Abandon, Unclaim, PartDone, EmptyBatch
<1>6. ASSUME InsertPart(t) \/ (\E p \in ObjectIds : Install(t, p)) \/ Commit(t)
             \/ Evacuate(t) \/ Finalize(t)
      PROVE  t \in sweeping /\ o \in DOMAIN batch[t]
  BY <1>6 DEF InsertPart, Install, Commit, Evacuate, Finalize
<1>7. CASE Scan(t) \/ Claim(t) \/ Rewrite(t)
  BY <1>7 DEF Scan, Claim, Rewrite
<1>8. CASE Release(t) \/ Prune(t) \/ Remove(t)
  BY <1>8 DEF Release, Prune, Remove
<1> QED BY <1>2, <1>3, <1>4, <1>5, <1>6, <1>7, <1>8 DEF Step

(* What maintenance has in its batch, or left out of a trailer, stays      *)
(* chained.                                                                *)
LEMMA ChainsStep ==
  ASSUME CoreInv, CoreInv', AccountsInv, AccountsInv', BatchesInv, KnownInv,
         NEW t \in Threads, WriteBatch(t) \/ StartMaintenance(t) \/ Step(t)
  PROVE  ChainsInv'
<1>0. /\ InstallInv /\ TrailersInv /\ ChainsInv
      /\ \A o \in ObjectIds : Chained(o) => Chained(o)'
  BY ChainedStep DEF KnownInv
<1>1. ASSUME NEW u \in sweeping', NEW o \in DOMAIN batch'[u] PROVE Chained(o)'
  <2>0. u \in Threads /\ o \in ObjectIds
    BY DEF CoreInv, TypeOK
  <2>1. CASE u # t
    <3>1. u \in sweeping /\ o \in DOMAIN batch[u]
      BY <2>0, <2>1, ThreadsApart DEF CoreInv, OthersStay
    <3> QED BY <1>0, <2>0, <3>1 DEF ChainsInv
  <2>2. CASE u = t
    <3>1. CASE t \in sweeping /\ o \in DOMAIN batch[t]
      BY <1>0, <2>0, <3>1 DEF ChainsInv
    <3>2. CASE \E f \in claims[t] : o \in Survivors(f)
      BY <1>0, <2>0, <3>2, SurvivorsChained
    <3> QED BY <1>1, <2>2, <3>1, <3>2, BatchGrows
  <2> QED BY <2>1, <2>2
<1>2. ASSUME NEW f \in DOMAIN heap', NEW o \in DOMAIN heap'[f].objs \ heap'[f].trailer
      PROVE  Chained(o)'
  <2>0. o \in ObjectIds
    BY DEF CoreInv, TypeOK
  <2>1. CASE f \in DOMAIN heap
    <3>1. heap'[f] = heap[f]
      BY <1>0, <2>1, HeapEffect DEF HeapChange, InstallInv, Commit
    <3> QED BY <1>0, <2>0, <2>1, <3>1 DEF ChainsInv
  <2>2. CASE f \notin DOMAIN heap
    <3>1. /\ Commit(t) /\ f = base[t] /\ heap'[f].objs = fams[f].objs
          /\ heap'[f].trailer = Trailer(t)
      BY <2>2, HeapEffect DEF HeapChange
    <3>2. o \in DOMAIN fams[base[t]].objs /\ gen[t] # 0
      BY <3>1 DEF Trailer
    <3>3. t \in sweeping /\ o \in DOMAIN batch[t]
      BY <3>1, <3>2 DEF Commit, BatchesInv, CallInv, CallOk, ItemsInv, Working
    <3> QED BY <1>0, <2>0, <3>3 DEF ChainsInv
  <2> QED BY <2>1, <2>2
<1> QED BY <1>1, <1>2 DEF ChainsInv

(***************************************************************************)
(* Unlinked files and restarts.                                            *)
(***************************************************************************)
(* A file that is unlinked is no longer open, so no chain ends there.      *)
LEMMA KnownUnlink ==
  ASSUME CoreInv, CoreInv', AccountsInv, KnownInv,
         UNCHANGED <<location_table, fams, local>>,
         DOMAIN heap' \subseteq DOMAIN heap, \A g \in DOMAIN heap' : heap'[g] = heap[g],
         \A g \in DOMAIN fams \cap DOMAIN heap : g \in DOMAIN heap'
  PROVE  KnownInv'
<1>1. UNCHANGED <<pc, sweeping, batch, base, todo, failed, replaced>>
  BY DEF local, inner
<1>2. ASSUME NEW o \in ObjectIds, Chained(o) PROVE Chained(o)'
  <2>1. \A g \in DOMAIN fams : StaysOpen(g)
    BY DEF StaysOpen
  <2> QED BY <1>1, <1>2, <2>1, ChainedFrame
<1>3. InstallInv'
  BY <1>1 DEF KnownInv, InstallInv
<1>4. TrailersInv'
  BY <1>1 DEF KnownInv, TrailersInv, Referred, At
<1>5. ChainsInv'
  <2>1. \A t \in sweeping : \A o \in DOMAIN batch[t] : o \in ObjectIds /\ Chained(o)
    BY DEF KnownInv, ChainsInv, CoreInv, TypeOK
  <2>2. \A f \in DOMAIN heap : \A o \in DOMAIN heap[f].objs \ heap[f].trailer :
          o \in ObjectIds /\ Chained(o)
    BY DEF KnownInv, ChainsInv, CoreInv, TypeOK
  <2> QED BY <1>1, <1>2, <2>1, <2>2 DEF ChainsInv
<1> QED BY <1>3, <1>4, <1>5 DEF KnownInv

(* A chained id is in the trailer of a file that recovery reads.           *)
LEMMA ChainedRecovered ==
  ASSUME CoreInv, AccountsInv, CrashRecover \/ CloseAndReopen,
         NEW o \in ObjectIds, Chained(o)
  PROVE  FilesWith(heap', o) # {}
<1>1. PICK f \in DOMAIN fams : OwnedBy(f, o, location_table[o])
  BY DEF AccountsInv, LocationsInv, Backed, Chained
<1>2. CASE CrashRecover
  <2>1. Closed(o, DOMAIN fams)
    BY DEF Closed
  <2>2. PICK g \in DOMAIN fams : g \in DOMAIN heap /\ o \in heap[g].trailer
    BY <2>1 DEF Chained
  <2> QED BY <1>2, <2>2 DEF CrashRecover, FilesWith
<1>3. CASE CloseAndReopen
  <2>1. /\ \A t \in Threads : pc[t] = "idle"
        /\ heap' = [g \in {h \in DOMAIN fams : fams[h].live # 0 \/ fams[h].size = 0}
                      |-> heap[g]]
    BY <1>3 DEF CloseAndReopen
  <2>2. Closed(o, {f})
    BY <2>1 DEF Closed
  <2>3. \A g \in DOMAIN fams : OwnedBy(g, o, location_table[o]) => g \in {f}
    BY <1>1, OwnerUnique DEF CoreInv
  <2>4. f \in DOMAIN heap /\ o \in heap[f].trailer
    BY <2>2, <2>3 DEF Chained
  <2>5. fams[f].live # 0
    <3>1. o \in Accounted(f)
      BY <1>1 DEF OwnedBy, Accounted
    <3>2. fams[f].live = Cardinality(Accounted(f))
      BY DEF AccountsInv, CountsInv, LiveObjectsExact
    <3> QED BY <3>1, <3>2, AccountedFinite, FS_EmptySet
  <2>6. f \in DOMAIN heap' /\ heap'[f] = heap[f]
    BY <2>1, <2>5
  <2> QED BY <2>4, <2>6 DEF FilesWith
<1> QED BY <1>2, <1>3

(* Every id of a file of a directory is in a trailer of one of its files.  *)
Complete(files) ==
  \A f \in DOMAIN files : \A o \in DOMAIN files[f].objs : FilesWith(files, o) # {}

(* After a restart every id of every file is in the table, and the table   *)
(* leads to files that have the id in their trailer.                       *)
LEMMA KnownRecover ==
  ASSUME CoreInv', NEW files, Directory(files), Complete(files), Recover(files),
         ResetThreads, heap' = files
  PROVE  KnownInv'
<1>1. /\ DOMAIN fams' = DOMAIN files /\ sweeping' = {}
      /\ \A f \in DOMAIN files : fams'[f].objs = files[f].objs
      /\ \A o \in ObjectIds : location_table'[o] = RecoveredLocation(files, o)
      /\ \A t \in Threads : pc'[t] = "idle" /\ replaced'[t] = {}
  BY DEF Recover, ResetThreads
<1>2. ASSUME NEW o \in ObjectIds, FilesWith(files, o) # {}
      PROVE  \E f \in DOMAIN files : /\ OwnedBy(f, o, location_table[o])'
                                     /\ location_table'[o] # Null
                                     /\ o \in files[f].trailer
  <2>1. PICK f : f = LastFileWith(files, o)
    OBVIOUS
  <2>2. /\ location_table'[o] = LocationIn(f, files[f].objs, o)
        /\ f \in DOMAIN files /\ o \in DOMAIN files[f].objs /\ o \in files[f].trailer
    BY <1>1, <1>2, <2>1, RecoveredOwner, LastFileFacts
  <2>3. OwnedBy(f, o, location_table[o])'
    BY <1>1, <2>2 DEF OwnedBy, At
  <2>4. location_table'[o] # Null
    BY <2>3, CoreLocationsNext DEF LocationsDistinct, OwnedBy
  <2> QED BY <2>2, <2>3, <2>4
<1>3. ASSUME NEW f \in DOMAIN files, NEW o \in DOMAIN files[f].objs
      PROVE  o \in ObjectIds /\ FilesWith(files, o) # {}
  BY DirectoryTypes DEF Complete
<1>4. InstallInv'
  BY <1>1 DEF InstallInv
<1>5. TrailersInv'
  <2> SUFFICES ASSUME NEW f \in DOMAIN files, NEW o \in DOMAIN files[f].objs
               PROVE  /\ location_table'[o] # Null
                      /\ Referred(o, At(f, o))' => o \in heap'[f].trailer
    BY <1>1 DEF TrailersInv
  <2>1. PICK g \in DOMAIN files : /\ OwnedBy(g, o, location_table[o])'
                                  /\ location_table'[o] # Null
                                  /\ o \in files[g].trailer
    BY <1>2, <1>3
  <2>2. ASSUME Referred(o, At(f, o))' PROVE g = f
    <3>1. location_table'[o] = At(f, o)'
      BY <1>1, <2>2 DEF Referred
    <3>2. OwnedBy(f, o, location_table[o])'
      BY <1>1, <3>1 DEF OwnedBy
    <3> QED BY <2>1, <3>2, CoreLocationsNext DEF LocationsDistinct
  <2> QED BY <2>1, <2>2
<1>6. ChainsInv'
  <2> SUFFICES ASSUME NEW f \in DOMAIN files, NEW o \in DOMAIN files[f].objs
               PROVE  Chained(o)'
    BY <1>1 DEF ChainsInv
  <2>1. PICK g \in DOMAIN files : /\ OwnedBy(g, o, location_table[o])'
                                  /\ location_table'[o] # Null
                                  /\ o \in files[g].trailer
    BY <1>2, <1>3
  <2> QED BY <1>1, <2>1 DEF Chained
<1> QED BY <1>4, <1>5, <1>6 DEF KnownInv

(* What a restart finds is complete.                                       *)
LEMMA KnownRestart ==
  ASSUME CoreInv, CoreInv', AccountsInv, KnownInv, CrashRecover \/ CloseAndReopen
  PROVE  KnownInv'
<1>1. PICK files : Kept(files) /\ Recover(files) /\ ResetThreads /\ heap' = files
  BY RestartFacts DEF CoreInv
<1>2. Directory(files)
  BY <1>1, KeptDirectory DEF CoreInv
<1>3. ASSUME NEW f \in DOMAIN files, NEW o \in DOMAIN files[f].objs
      PROVE  FilesWith(files, o) # {}
  <2>1. f \in DOMAIN heap /\ files[f] = heap[f] /\ o \in ObjectIds
    BY <1>1, <1>2, DirectoryTypes DEF Kept
  <2>2. CASE o \in files[f].trailer
    BY <2>2 DEF FilesWith
  <2>3. CASE o \notin files[f].trailer
    BY <1>1, <2>1, <2>3, ChainedRecovered DEF KnownInv, ChainsInv
  <2> QED BY <2>2, <2>3
<1> QED BY <1>1, <1>2, <1>3, KnownRecover DEF Complete

(***************************************************************************)
(* The induction.                                                          *)
(***************************************************************************)
(* Every step preserves the invariant of the known ids.                    *)
LEMMA KnownNext ==
  ASSUME CoreInv, CoreInv', AccountsInv, AccountsInv', BatchesInv, KnownInv,
         [Next]_vars
  PROVE  KnownInv'
<1>1. ASSUME NEW t \in Threads, WriteBatch(t) \/ StartMaintenance(t) \/ Step(t)
      PROVE  KnownInv'
  BY <1>1, InstallStep, TrailersStep, ChainsStep DEF KnownInv
<1>2. ASSUME NEW f \in DOMAIN heap, Unlink(f) PROVE KnownInv'
  BY <1>2, KnownUnlink DEF Unlink
<1>3. CASE UNCHANGED vars
  BY <1>3, KnownUnlink DEF vars, shared
<1>4. CASE CrashRecover \/ CloseAndReopen
  BY <1>4, KnownRestart
<1> QED BY <1>1, <1>2, <1>3, <1>4 DEF Next

(* In every reachable state what maintenance has read, or has left out of  *)
(* a trailer, is in a trailer that a crash leaves behind.                  *)
THEOREM KnownInduction == Spec => []KnownInv
<1>1. Init => KnownInv
  <2> SUFFICES ASSUME Init PROVE KnownInv
    OBVIOUS
  <2>1. /\ \A t \in Threads : pc[t] = "idle"
        /\ DOMAIN fams = {} /\ DOMAIN heap = {} /\ sweeping = {}
    BY DEF Init
  <2> QED BY <2>1 DEF KnownInv, InstallInv, TrailersInv, ChainsInv
<1>2. /\ CoreInv /\ CoreInv' /\ AccountsInv /\ AccountsInv' /\ BatchesInv /\ KnownInv
      /\ [Next]_vars
      => KnownInv'
  BY KnownNext
<1> QED BY <1>1, <1>2, CoreInduction, AccountsInduction, BatchesInduction, PTL DEF Spec

(* The invariant implies RewrittenObjectsKnown.                            *)
LEMMA KnownRewritten == CoreInv /\ KnownInv => RewrittenObjectsKnown
<1> SUFFICES ASSUME CoreInv, KnownInv, NEW f \in DOMAIN fams, fams[f].size # 0,
                    NEW o \in DOMAIN fams[f].objs
             PROVE  location_table[o] # Null
  BY DEF RewrittenObjectsKnown
<1>1. f \in DOMAIN heap
  BY DEF CoreInv, HoldersInv, KnownInv, InstallInv
<1> QED BY <1>1 DEF KnownInv, TrailersInv

(* The expects of maintenance never fail: every object in the data section *)
(* of a file, and every deletion in its trailer, is in the location table, *)
(* whatever was lost in crashes and however calls overlapped before them.  *)
THEOREM RewrittenObjectsAlwaysKnown == Spec => []RewrittenObjectsKnown
BY KnownRewritten, KnownInduction, CoreInduction, PTL
=============================================================================
