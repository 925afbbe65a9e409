--------------------------- MODULE LocationTable ---------------------------
(***************************************************************************)
(* The in-memory table from object ids to disk locations                   *)
(* (location_table.rs).  Each operation of the code is one atomic          *)
(* instruction on one 64-bit slot, and one step here.                      *)
(***************************************************************************)
EXTENDS DiskLocation

CONSTANT
  ObjectIds             \* the object ids in use, natural numbers

ASSUME ObjectIdsAssumption == ObjectIds \subseteq Nat

VARIABLE
  location_table        \* object id -> raw location, Null when never written

EmptyTable == [o \in ObjectIds |-> Null]

(* Mutation: the old location is not compared.                             *)
CasIgnoresOld(o, old_location) == TRUE

(* compare_exchange: whether it succeeds, and the slot it leaves.          *)
CasSucceeds(o, old_location) == location_table[o] = old_location

Cas(o, old_location, new_location) ==
  location_table' = IF CasSucceeds(o, old_location)
                    THEN [location_table EXCEPT ![o] = new_location]
                    ELSE location_table

(* Mutation: a plain store.                                                *)
FetchMaxStores(o, new_location) == TRUE

(* fetch_max: whether the new location is greater, and the slot it leaves. *)
FetchMaxSucceeds(o, new_location) == location_table[o] < new_location

FetchMax(o, new_location) ==
  location_table' = IF FetchMaxSucceeds(o, new_location)
                    THEN [location_table EXCEPT ![o] = new_location]
                    ELSE location_table
=============================================================================
