---------------------------- MODULE MarbleReads ----------------------------
(***************************************************************************)
(* read (readpath.rs) beside the writers and maintenance of Marble, with   *)
(* the ids of MarbleIds.                                                   *)
(*                                                                         *)
(* read loads the location of an object, and then looks up the file that   *)
(* holds it: two accesses to shared state, with anything in between.  From *)
(* then on the Arc keeps the file open, and files never change, so the     *)
(* rest of the call belongs to the second step.  Readers leave no trace    *)
(* for each other or for writers: one of them stands for all.              *)
(***************************************************************************)
EXTENDS MarbleIds

CONSTANT MaxReads       \* bound: calls of read

ASSUME ReadsAssumption == MaxReads \in Nat

VARIABLES
  read_at,      \* "idle", "fetch", or how the last call ended: "ok", "error"
  object_id, location,          \* the argument, and the location loaded
  version,      \* the version read, 0 for an object never written
  floor,        \* the version last committed when the location was loaded
  reads

rvars == <<read_at, object_id, location, version, floor, reads>>

ReadInit ==
  /\ IdsInit
  /\ read_at = "idle" /\ object_id = 0 /\ location = Null
  /\ version = 0 /\ floor = 0 /\ reads = 0

(* Up to fam_for_location: nothing written and deleted both answer None.   *)
ReadLoad(o) ==
  /\ read_at # "fetch" /\ reads < MaxReads
  /\ reads' = reads + 1
  /\ floor' = latest[o]
  /\ IF location_table[o] = Null \/ IsDelete(location_table[o])
     THEN /\ read_at' = "ok" /\ version' = TableVersion(o)
          /\ UNCHANGED <<object_id, location>>
     ELSE /\ read_at' = "fetch" /\ version' = 0
          /\ object_id' = o /\ location' = location_table[o]
  /\ UNCHANGED <<vars, max_object_id>>

(* What is at an offset of the data section of a file: a set of at most    *)
(* one object.                                                             *)
ObjectAt(f, offset) ==
  {o \in DOMAIN fams[f].objs : ~ fams[f].objs[o].del /\ fams[f].objs[o].off = offset}

(* fam_for_location, header, data, checksum and object id.  Outside of the *)
(* data section the header is refused; without any file the call panics.   *)
ReadFetch ==
  LET f == FamFor(fams, location)
      found == IF HasFamFor(fams, location)
               THEN ObjectAt(f, LsnOf(location) - LsnOf(f)) ELSE {}
  IN  /\ read_at = "fetch"
      /\ IF found = {object_id}
         THEN read_at' = "ok" /\ version' = fams[f].objs[object_id].val
         ELSE read_at' = "error" /\ UNCHANGED version
      /\ object_id' = 0 /\ location' = Null
      /\ UNCHANGED <<vars, max_object_id, floor, reads>>

(* The process is gone, and with it the answers it gave.  A crash ends a   *)
(* call of read; the last clone is not dropped during one.                 *)
ForgetRead ==
  /\ read_at' = "idle" /\ object_id' = 0 /\ location' = Null
  /\ version' = 0 /\ floor' = 0 /\ reads' = reads

ReadNext ==
  \/ IdsStep /\ UNCHANGED rvars
  \/ IdsReopen /\ (read_at = "fetch" => ~ CloseAndReopen) /\ ForgetRead
  \/ \E o \in ObjectIds : ReadLoad(o)
  \/ ReadFetch

ReadSpec == ReadInit /\ [][ReadNext]_<<vars, max_object_id, rvars>>

(* A read that answers returns a version at least as late, in LSN order,   *)
(* as every batch whose file was renamed when the read began: no moved,    *)
(* pruned or reused location leads it to an older version or to another    *)
(* object.                                                                 *)
ReadsFresh == read_at = "ok" => order[floor] <= order[version]

(* "not blocking concurrent calls to `read`" (maintenance): with no I/O    *)
(* error a read of the store ends with an answer.                          *)
ReadsAnswer == read_at # "error"
=============================================================================
