---------------------------- MODULE MarbleStore ----------------------------
(***************************************************************************)
(* Marble implements ObjectStore, when its callers keep write_batch and    *)
(* maintenance apart.  Durable is what recovery would read from the heap   *)
(* directory, visible what the location table leads to.  A batch begins    *)
(* when it takes its LSN, which is its stamp, and is durable when its file *)
(* is renamed.                                                             *)
(***************************************************************************)
EXTENDS Marble

VersionOf(entry) == [stamp |-> order[entry.val], del |-> entry.del]

NoVersion == [stamp |-> 0, del |-> FALSE]

DurableVersion(o) ==
  IF FilesWith(heap, o) = {} THEN NoVersion
  ELSE VersionOf(heap[LastFileWith(heap, o)].objs[o])

VisibleVersion(o) ==
  IF location_table[o] = Null THEN NoVersion
  ELSE VersionOf(fams[FamFor(fams, location_table[o])].objs[o])

BatchOf(f) ==
  [stamp |-> Position(f),
   del |-> [o \in DOMAIN fams[f].objs |-> fams[f].objs[o].del]]

Store == INSTANCE ObjectStore WITH
  MaxStamp <- NewWriteBatchBit,
  durable <- [o \in ObjectIds |-> DurableVersion(o)],
  visible <- [o \in ObjectIds |-> VisibleVersion(o)],
  writing <- {BatchOf(base[t]) :
                t \in {u \in Threads : pc[u] = "install" /\ gen[u] = 0}}

(* Marble implements the abstract store: every batch becomes durable as a  *)
(* whole at the rename and after it is visible, later batches win in both  *)
(* maps, a crash restores exactly the durable versions, and no step of     *)
(* maintenance, pruning, unlinking or recovery shows to callers at all.    *)
ImplementsObjectStore == Store!StoreSpec
=============================================================================
