------------------------------ MODULE KvStore ------------------------------
(***************************************************************************)
(* The key-value store of examples/kv.rs on top of ObjectStore, the        *)
(* specification that Marble implements.  It keeps an index object and one *)
(* leaf page, and trusts two promises of write_batch: a page and the index *)
(* that names it become durable together, and what was written when the    *)
(* call returned is durable.  The calls of maintenance in mutate are steps *)
(* that ObjectStore does not see.                                          *)
(***************************************************************************)
EXTENDS ObjectStore, FiniteSets

CONSTANTS
  Keys,
  KvValues              \* positive numbers; 0 stands for no value

IndexObjectId == 1

(* The index and the first page have ids.                                  *)
ASSUME KvAssumption ==
  /\ KvValues \subseteq Nat \ {0}
  /\ {IndexObjectId, IndexObjectId + 2} \subseteq ObjectIds

VARIABLES
  kv,           \* "down", "allocate", "up", "writing"
  index,        \* Kv::index: the page for all keys (0 for none) and max_pid
  current,      \* the batch being written, at most one
  mutation,     \* the change of a key that it makes, at most one
  \* What the batches wrote, by their stamps.
  index_of,     \* stamp -> the contents of the index object
  page_of,      \* stamp -> the key-value pairs of the leaf
  \* History.
  acknowledged  \* key -> its value when the last mutation returned

kvVars == <<kv, index, current, mutation, index_of, page_of, acknowledged>>

(* Index::default.                                                         *)
DefaultIndex == [page |-> 0, max_pid |-> IndexObjectId + 1]

EmptyPage == [k \in Keys |-> 0]

KvInit ==
  /\ StoreInit
  /\ kv = "down" /\ index = DefaultIndex
  /\ current = {} /\ mutation = {}
  /\ index_of = [s \in 0 .. MaxStamp |-> DefaultIndex]
  /\ page_of = [s \in 0 .. MaxStamp |-> EmptyPage]
  /\ acknowledged = EmptyPage

NextStamp ==
  1 + Cardinality({s \in 1 .. MaxStamp :
        \/ \E o \in ObjectIds : durable[o].stamp >= s \/ visible[o].stamp >= s
        \/ \E b \in writing : b.stamp >= s})

(* heap.write_batch of some objects.                                       *)
StartBatch(ids) ==
  LET b == [stamp |-> NextStamp, del |-> [o \in ids |-> FALSE]]
  IN  /\ NextStamp <= MaxStamp
      /\ Begin(b)
      /\ current' = {b}

(* recover: the store is opened and the index read; an index without pages *)
(* gets a first one.                                                       *)
RecoverKv ==
  LET found == index_of[visible[IndexObjectId].stamp]
  IN  /\ kv = "down"
      /\ index' = found
      /\ kv' = IF found.page = 0 THEN "allocate" ELSE "up"
      /\ UNCHANGED <<storeVars, current, mutation, index_of, page_of, acknowledged>>

(* Mutation: the index is written without the page.                        *)
AllocateLeafIndexFirst ==
  LET object_id == index.max_pid + 1
      new == [page |-> object_id, max_pid |-> object_id]
  IN  /\ kv = "allocate"
      /\ StartBatch({IndexObjectId})
      /\ index' = new
      /\ index_of' = [index_of EXCEPT ![NextStamp] = new]
      /\ page_of' = [page_of EXCEPT ![NextStamp] = EmptyPage]
      /\ kv' = "writing"
      /\ UNCHANGED <<mutation, acknowledged>>

(* allocate_leaf: the new page and the new index in one batch.             *)
AllocateLeaf ==
  LET object_id == index.max_pid + 1
      new == [page |-> object_id, max_pid |-> object_id]
  IN  /\ kv = "allocate"
      /\ StartBatch({object_id, IndexObjectId})
      /\ index' = new
      /\ index_of' = [index_of EXCEPT ![NextStamp] = new]
      /\ page_of' = [page_of EXCEPT ![NextStamp] = EmptyPage]
      /\ kv' = "writing"
      /\ UNCHANGED <<mutation, acknowledged>>

(* heap.read(object_id), deserialized.                                     *)
Leaf == page_of[visible[index.page].stamp]

(* mutate: set for a value, remove for 0.                                  *)
Mutate(k, v) ==
  /\ kv = "up"
  /\ StartBatch({index.page})
  /\ page_of' = [page_of EXCEPT ![NextStamp] = [Leaf EXCEPT ![k] = v]]
  /\ mutation' = {<<k, v>>}
  /\ kv' = "writing"
  /\ UNCHANGED <<index, index_of, acknowledged>>

(* Inside write_batch.                                                     *)
WriteBatchStep ==
  /\ \E b \in writing : MakeDurable(b) \/ \E o \in DOMAIN b.del : Show(b, o)
  /\ UNCHANGED kvVars

(* What a returning mutation acknowledges.                                 *)
Acknowledge ==
  acknowledged' = [k \in Keys |-> IF \E m \in mutation : m[1] = k
                                  THEN (CHOOSE m \in mutation : m[1] = k)[2]
                                  ELSE acknowledged[k]]

(* Mutation: the call returns when the batch can be read.                  *)
WriteReturnsVisible ==
  /\ kv = "writing"
  /\ \A b \in current : \A o \in DOMAIN b.del : visible[o].stamp >= b.stamp
  /\ Acknowledge
  /\ kv' = "up" /\ current' = {} /\ mutation' = {}
  /\ UNCHANGED <<storeVars, index, index_of, page_of>>

(* write_batch and then set, remove or recover return.                     *)
WriteReturns ==
  /\ kv = "writing" /\ current \cap writing = {}
  /\ Acknowledge
  /\ kv' = "up" /\ current' = {} /\ mutation' = {}
  /\ UNCHANGED <<storeVars, index, index_of, page_of>>

(* What recover and get would read after a crash.                          *)
DurableIndex == index_of[durable[IndexObjectId].stamp]

DurableLeaf == IF DurableIndex.page = 0 THEN EmptyPage
               ELSE page_of[durable[DurableIndex.page].stamp]

(* The process dies; recover comes next.  A mutation that had not returned *)
(* is decided: the caller finds the old or the new value.                  *)
CrashKv ==
  /\ Crash
  /\ kv' = "down" /\ index' = DefaultIndex /\ current' = {} /\ mutation' = {}
  /\ acknowledged' = DurableLeaf
  /\ UNCHANGED <<index_of, page_of>>

KvNext ==
  \/ RecoverKv \/ AllocateLeaf \/ WriteBatchStep \/ WriteReturns \/ CrashKv
  \/ \E k \in Keys, v \in KvValues \cup {0} : Mutate(k, v)

KvSpec == KvInit /\ [][KvNext]_<<storeVars, kvVars>>

(***************************************************************************)
(* Properties.                                                             *)
(***************************************************************************)
Present(version) == version.stamp # 0 /\ ~ version.del

(* The unwraps of get and mutate: once recover has returned the page that  *)
(* the index names can be read, and at every moment a crash would leave an *)
(* index whose page is there too, or none at all.                          *)
PagesReadable ==
  /\ kv = "up" => index.page # 0 /\ Present(visible[index.page])
  /\ Present(durable[IndexObjectId]) => Present(durable[DurableIndex.page])

(* Whenever the process dies every key has the value that the last         *)
(* mutation to return gave it, except that the mutation in progress may    *)
(* have taken effect.                                                      *)
AcknowledgedSurvive ==
  \A k \in Keys :
    DurableLeaf[k] \in {acknowledged[k]} \cup {m[2] : m \in {n \in mutation : n[1] = k}}
=============================================================================
