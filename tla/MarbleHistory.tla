--------------------------- MODULE MarbleHistory ---------------------------
(***************************************************************************)
(* The self-check of builds with the feature runtime_validation:           *)
(* DebugHistory records every location that is installed or replaced, in   *)
(* one critical section with the atomic instruction (debug_history.rs,     *)
(* writepath.rs, recovery.rs), and verify_file_uninhabited searches the    *)
(* whole location table (file_map.rs, gc.rs).                              *)
(***************************************************************************)
EXTENDS Marble

VARIABLES
  adds,         \* pairs of an id and a location that was installed
  removes,      \* pairs of an id and a location that was replaced
  rewritten     \* thread -> rewritten_fam_locations

debugVars == <<adds, removes, rewritten>>

NothingRewritten == [t \in Threads |-> {}]

HistoryInit ==
  Init /\ adds = {} /\ removes = {} /\ rewritten = NothingRewritten

(* The iteration of step 3 that thread t takes now, if it does, and        *)
(* whether it installs the location.                                       *)
Installing(t, o) ==
  /\ pc[t] = "install" /\ pc'[t] = "install"
  /\ o \in todo[t] /\ todo'[t] = todo[t] \ {o}

Installed(t, o) == Installing(t, o) /\ o \notin failed'[t]

NewLocation(t, o) == <<o, LocationIn(base[t], fams[base[t]].objs, o)>>

(* What is marked as removed: the location that maintenance expected, or   *)
(* the one that fetch_max returned.                                        *)
OldLocations(t, o) ==
  {<<o, l>> : l \in {IF gen[t] # 0 THEN batch[t][o].old ELSE location_table[o]} \ {Null}}

(* mark_add and mark_remove.                                               *)
MarkInstalled(t) ==
  /\ adds' = adds \cup {NewLocation(t, o) : o \in {p \in ObjectIds : Installed(t, p)}}
  /\ removes' = removes \cup
       UNION {OldLocations(t, o) : o \in {p \in ObjectIds : Installed(t, p)}}

(* maintenance collects the files of a group as it reads them, and looks   *)
(* at them again when shard_batch has returned.                            *)
GroupBegins(t) == pc[t] = "rewrite" /\ pc'[t] = "read"

GroupEnds(t) == pc[t] # "rewrite" /\ pc'[t] = "rewrite"

CollectRewritten(t) ==
  rewritten' = [rewritten EXCEPT ![t] = IF GroupBegins(t) THEN reading'[t]
                                        ELSE IF GroupEnds(t) THEN {} ELSE @]

(* verify_file_uninhabited: the file is in the map, and no location of the *)
(* table is one of its data section.                                       *)
Uninhabited(f) ==
  /\ f \in DOMAIN fams
  /\ LET next_location == NewFam(LsnOf(f) + DataLen(fams[f].objs))
     IN  \A o \in ObjectIds : location_table[o] \notin f .. next_location - 1

HistoryNext ==
  \/ \E t \in Threads : /\ WriteBatch(t) \/ StartMaintenance(t) \/ Step(t)
                        /\ MarkInstalled(t) /\ CollectRewritten(t)
  \/ \E f \in DOMAIN heap : Unlink(f) /\ UNCHANGED debugVars
  \/ /\ CrashRecover \/ CloseAndReopen
     /\ adds' = {<<o, location_table'[o]>> :
                   o \in {p \in ObjectIds : location_table'[p] # Null}}
     /\ removes' = {} /\ rewritten' = NothingRewritten

HistorySpec == HistoryInit /\ [][HistoryNext]_<<vars, debugVars>>

(* The assertions of DebugHistory, "that the operation is unique and that  *)
(* removals only happen for things that were already added": no location   *)
(* is ever installed twice for an object or replaced twice, by batches and *)
(* overlapping maintenances together.  Hence a compare-and-swap that finds *)
(* the location it expects finds an object that was not moved in between.  *)
HistoryUnique ==
  [][\A t \in Threads, o \in ObjectIds : Installed(t, o) =>
       /\ NewLocation(t, o) \notin adds \cup removes
       /\ OldLocations(t, o) \subseteq adds \ removes]_<<vars, debugVars>>

(* "orphaned object location pairs in location table": when maintenance    *)
(* has rewritten a group of files nothing points into any of them, whether *)
(* its compare-and-swaps succeeded or lost to a batch, and nothing does    *)
(* when prune_empty_files removes a file.                                  *)
VerifyPasses ==
  [][\A t \in Threads :
       /\ GroupEnds(t) => \A f \in rewritten[t] : Uninhabited(f)'
       /\ pc[t] = "remove" => \A f \in claims[t] : Uninhabited(f)]_<<vars, debugVars>>
=============================================================================
