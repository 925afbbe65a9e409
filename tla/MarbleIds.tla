----------------------------- MODULE MarbleIds -----------------------------
(***************************************************************************)
(* The ids in use: max_object_id, free_object_ids and allocated_object_ids *)
(* (lib.rs), from which a caller's own allocator of ids starts.            *)
(***************************************************************************)
EXTENDS Marble

CONSTANT
  LastId                \* u64::MAX

ASSUME IdsAssumption == LastId \in Nat /\ ObjectIds \subseteq 0 .. LastId

VARIABLE
  max_object_id         \* AtomicU64

IdsInit == Init /\ max_object_id = 0

(* The end of the first loop of shard_batch: fetch_max with the greatest   *)
(* id of the batch, before any of it is written.                           *)
Sharded(t) == pc[t] \in {"idle", "read"} /\ pc'[t] = "insert"

RaiseMax(t) ==
  max_object_id' = IF Sharded(t) THEN Max({max_object_id} \cup DOMAIN batch'[t])
                   ELSE max_object_id

(* Mutation: every file sets the maximum anew.                             *)
RecoveredMaxOfLast ==
  LET last == CHOOSE f \in DOMAIN heap' : \A g \in DOMAIN heap' : LsnOf(g) <= LsnOf(f)
  IN  IF DOMAIN heap' = {} THEN 0 ELSE Max({0} \cup heap'[last].trailer)

(* Config::open: the greatest id that any trailer names.                   *)
RecoveredMax == Max({0} \cup {o \in ObjectIds : location_table'[o] # Null})

(* The steps of Marble, with what they do to max_object_id.                *)
IdsStep ==
  \/ \E t \in Threads : (WriteBatch(t) \/ StartMaintenance(t) \/ Step(t)) /\ RaiseMax(t)
  \/ \E f \in DOMAIN heap : Unlink(f) /\ UNCHANGED max_object_id

IdsReopen == (CrashRecover \/ CloseAndReopen) /\ max_object_id' = RecoveredMax

(* location_table.load(oid), for any id.                                   *)
Load(o) == IF o \in ObjectIds THEN location_table[o] ELSE Null

(* free_object_ids: an iterator over the ids without a location, and one   *)
(* more than the maximum.                                                  *)
FreeObjectIds == {o \in 0 .. max_object_id : Load(o) = Null}

(* What max + 1 may be: behind the last id a release build wraps around,   *)
(* and a debug build panics.                                               *)
Overflow == -1

NextObjectIds ==
  IF max_object_id = LastId THEN {0, Overflow} ELSE {max_object_id + 1}

(* The ids that a caller's allocator may take.                             *)
FreshIds == FreeObjectIds \cup (NextObjectIds \ {Overflow})

AllocatedObjectIds == {o \in 0 .. max_object_id : Load(o) # Null}

(***************************************************************************)
(* Properties.                                                             *)
(***************************************************************************)
Holds(o) == location_table[o] # Null /\ ~ IsDelete(location_table[o])

(* "1 higher than the current max allocated object ID": whatever is being  *)
(* written, moved or recovered, the next id is above every id that has a   *)
(* location, that a file on disk names or that a batch on its way to disk  *)
(* holds, and allocated_object_ids leaves no object out.  After the last   *)
(* id there is no higher one to return, and nothing is asked.              *)
NextIdAbove ==
  /\ \A o \in ObjectIds : Holds(o) => o \in AllocatedObjectIds
  /\ max_object_id < LastId => \A next \in NextObjectIds :
       /\ \A o \in ObjectIds : location_table[o] # Null => o < next
       /\ \A f \in DOMAIN heap : \A o \in heap[f].trailer : o < next
       /\ \A t \in Threads : pc[t] \in {"insert", "install", "evacuate"} =>
            \A o \in DOMAIN batch[t] : o < next

(* "Intended for use in recovery, to bootstrap a higher level object ID    *)
(* allocator": between calls, and before the last id is used, no id that   *)
(* is handed out as free or next has an object in the last file on disk    *)
(* that names it, files that wait to be unlinked included, so no crash     *)
(* brings one back under an id that is used again.                         *)
FreshIdsVacant ==
  (\A t \in Threads : pc[t] = "idle") /\ max_object_id < LastId =>
    \A o \in FreshIds :
      FilesWith(heap, o) # {} => heap[LastFileWith(heap, o)].objs[o].del
=============================================================================
