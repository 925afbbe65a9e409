---------------------------- MODULE ObjectStore ----------------------------
(***************************************************************************)
(* What Marble promises its callers, with no files, locations, counts or   *)
(* maintenance: a map from object ids to versions.  Batches take effect in *)
(* the order of their stamps.  A batch becomes visible object by object    *)
(* ("NOT runtime atomic") and durable in one step ("crash-atomic",         *)
(* write_batch), after all of it is visible.  A crash brings back the      *)
(* durable versions.  Nothing else ever changes a version.                 *)
(***************************************************************************)
EXTENDS Naturals

CONSTANTS
  ObjectIds,
  MaxStamp              \* bound: the stamps of batches

ASSUME MaxStampAssumption == MaxStamp \in Nat

VARIABLES
  durable,      \* object id -> the version a crash brings back
  visible,      \* object id -> the version a read sees
  writing       \* the batches begun and not yet durable

storeVars == <<durable, visible, writing>>

(* A version is the stamp of the batch that wrote it, and whether it is a  *)
(* deletion.  A batch is a stamp and a version for some of the ids.        *)
Version == [stamp : 0 .. MaxStamp, del : BOOLEAN]

NeverWritten == [stamp |-> 0, del |-> FALSE]

Batch == [stamp : 1 .. MaxStamp,
          del : UNION {[ids -> BOOLEAN] : ids \in (SUBSET ObjectIds) \ {{}}}]

StoreInit ==
  /\ durable = [o \in ObjectIds |-> NeverWritten]
  /\ visible = [o \in ObjectIds |-> NeverWritten]
  /\ writing = {}

(* The version of an object when a batch is applied over another one: the  *)
(* greater stamp wins.                                                     *)
Apply(b, o, version) ==
  IF o \in DOMAIN b.del /\ version.stamp < b.stamp
  THEN [stamp |-> b.stamp, del |-> b.del[o]] ELSE version

Begin(b) ==
  /\ writing' = writing \cup {b}
  /\ \A o \in ObjectIds : visible[o].stamp < b.stamp /\ durable[o].stamp < b.stamp
  /\ \A c \in writing : c.stamp < b.stamp
  /\ UNCHANGED <<durable, visible>>

Show(b, o) ==
  /\ visible' = [visible EXCEPT ![o] = Apply(b, o, @)]
  /\ UNCHANGED <<durable, writing>>

MakeDurable(b) ==
  /\ writing' = writing \ {b}
  /\ \A o \in DOMAIN b.del : b.stamp <= visible[o].stamp
  /\ durable' = [o \in ObjectIds |-> Apply(b, o, durable[o])]
  /\ UNCHANGED visible

Crash ==
  /\ visible' = durable
  /\ writing' = {}
  /\ UNCHANGED durable

(* A batch that begins is any one that is being written after the step.   *)
StoreNext ==
  \/ \E b \in writing : MakeDurable(b) \/ \E o \in DOMAIN b.del : Show(b, o)
  \/ Crash
  \/ \E b \in writing' : b \in Batch /\ Begin(b)

StoreSpec == StoreInit /\ [][StoreNext]_storeVars
=============================================================================
