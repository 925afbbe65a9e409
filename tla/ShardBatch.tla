----------------------------- MODULE ShardBatch -----------------------------
(***************************************************************************)
(* How shard_batch distributes the items of a batch over files             *)
(* (writepath.rs), with the partition function of the configuration        *)
(* (lib.rs).  Marble leaves the split of a rewrite open; here it is the    *)
(* one of the code, item by item.                                          *)
(*                                                                         *)
(* Sizes are in bytes.  Of an object only its size matters; a tombstone    *)
(* is the size Deleted.                                                    *)
(***************************************************************************)
EXTENDS Naturals, Sequences, FiniteSets, FiniteSetsExt, Functions

CONSTANTS
  ItemIds,              \* object ids
  ItemSizes,            \* the sizes of the objects of a batch
  TargetSize,           \* Config::target_file_size
  MaxItems              \* bound: items of a batch

ASSUME ShardAssumption ==
  /\ ItemSizes \subseteq Nat
  /\ TargetSize \in Nat \ {0}
  /\ MaxItems \in Nat

VARIABLES
  generation,   \* of the batch: 0 for a new one
  shards,       \* shard -> its size so far and its objects, id -> size
  fragments,    \* fragmented_shards: full shards taken off the map
  items         \* history: the items given so far

shardVars == <<generation, shards, fragments, items>>

HeaderLen == 20         \* HEADER_LEN
Deleted == 2 ^ 30       \* stands for None

PageMin == 2048
PageMax == 16 * 1024
BlockMax == 4 * 1024 * 1024

(* default_partition_function.                                             *)
DefaultPartition(size) ==
  CASE size < PageMin -> 0
    [] size \in PageMin .. PageMax -> 1
    [] size \in PageMax + 1 .. BlockMax -> 2
    [] OTHER -> 3

(* Mutation: new batches are partitioned too.                              *)
ShardOfAny(size) == IF size = Deleted THEN 0 ELSE DefaultPartition(size)

(* Only rewrites are partitioned.  Tombstones go to shard 0.               *)
ShardOf(size) ==
  IF size = Deleted \/ generation = 0 THEN 0 ELSE DefaultPartition(size)

(* What an item adds to the size of its shard.                             *)
ItemSize(size) == IF size = Deleted THEN 0 ELSE size + HeaderLen

EmptyShard == [size |-> 0, objects |-> [o \in {} |-> 0]]

(* shards.entry(shard_id).or_default().                                    *)
Shard(s) == IF s \in DOMAIN shards THEN shards[s] ELSE EmptyShard

(* Only rewrites are split.                                                *)
OverSize(s) == generation > 0 /\ Shard(s).size > TargetSize

With(f, key, value) == [k \in DOMAIN f \cup {key} |-> IF k = key THEN value ELSE f[k]]

(* Mutation: the header of what is replaced is subtracted, whatever it is. *)
InsertSubtractsHeader(shard, o, size) ==
  LET replaced == IF o \notin DOMAIN shard.objects THEN 0
                  ELSE HeaderLen + (IF shard.objects[o] = Deleted THEN 0 ELSE shard.objects[o])
  IN  [size |-> shard.size + ItemSize(size) - replaced,
       objects |-> With(shard.objects, o, size)]

(* shard.1.insert, and what the size of the shard becomes: the header of a *)
(* replaced object stays counted.                                          *)
Insert(shard, o, size) ==
  LET replaced == IF o \in DOMAIN shard.objects /\ shard.objects[o] # Deleted
                  THEN shard.objects[o] ELSE 0
  IN  [size |-> shard.size + ItemSize(size) - replaced,
       objects |-> With(shard.objects, o, size)]

ShardInit ==
  /\ generation \in {0, 1}
  /\ shards = [s \in {} |-> 0] /\ fragments = <<>>
  /\ items = <<>>

(* Mutation: a full shard is forgotten.                                    *)
TakeItemDropsShard(o, size) ==
  LET s == ShardOf(size)
  IN  /\ Len(items) < MaxItems
      /\ generation > 0 => \A i \in DOMAIN items : items[i].id # o
      /\ shards' = With(shards, s,
                     Insert(IF OverSize(s) THEN EmptyShard ELSE Shard(s), o, size))
      /\ items' = Append(items, [id |-> o, size |-> size])
      /\ UNCHANGED <<generation, fragments>>

(* Mutation: the size of a shard is not reset.                             *)
TakeItemKeepsSize(o, size) ==
  LET s == ShardOf(size)
  IN  /\ Len(items) < MaxItems
      /\ generation > 0 => \A i \in DOMAIN items : items[i].id # o
      /\ fragments' = IF OverSize(s) THEN Append(fragments, shards[s].objects)
                      ELSE fragments
      /\ shards' = With(shards, s,
                     Insert(IF OverSize(s) THEN [EmptyShard EXCEPT !.size = Shard(s).size]
                            ELSE Shard(s), o, size))
      /\ items' = Append(items, [id |-> o, size |-> size])
      /\ UNCHANGED generation

(* One iteration of the loop over the batch.  A caller's batch may name an *)
(* object twice; the batches of maintenance are maps.                      *)
TakeItem(o, size) ==
  LET s == ShardOf(size)
  IN  /\ Len(items) < MaxItems
      /\ generation > 0 => \A i \in DOMAIN items : items[i].id # o
      /\ fragments' = IF OverSize(s) THEN Append(fragments, shards[s].objects)
                      ELSE fragments
      /\ shards' = With(shards, s,
                     Insert(IF OverSize(s) THEN EmptyShard ELSE Shard(s), o, size))
      /\ items' = Append(items, [id |-> o, size |-> size])
      /\ UNCHANGED generation

ShardNext == \E o \in ItemIds, size \in ItemSizes \cup {Deleted} : TakeItem(o, size)

ShardSpec == ShardInit /\ [][ShardNext]_shardVars

(* The arguments of the calls of write_batch_inner: what is left in the    *)
(* shards, then the fragments.                                             *)
Parts == {shards[s].objects : s \in DOMAIN shards} \cup Range(fragments)

(***************************************************************************)
(* Properties.  They hold after every item: the batch may end there.       *)
(***************************************************************************)
LastSize(o) ==
  items[Max({i \in DOMAIN items : items[i].id = o})].size

(* Whatever the sizes and the order of the items, every object of the      *)
(* batch goes to exactly one file, with the last value it was given, and   *)
(* no file is empty ("assert!(!objects.is_empty())" of write_batch_inner): *)
(* this is what Marble assumes of a split.                                 *)
PartsComplete ==
  /\ \A p \in Parts : DOMAIN p # {}
  /\ Cardinality(Parts) = Cardinality(DOMAIN shards) + Len(fragments)
  /\ \A i \in DOMAIN items : LET o == items[i].id IN
       /\ Cardinality({p \in Parts : o \in DOMAIN p}) = 1
       /\ \E p \in Parts : o \in DOMAIN p /\ p[o] = LastSize(o)

(* "only split shards on rewrite, otherwise we lose batch atomicity": a    *)
(* new batch is one file, however large, so one rename commits it.         *)
NewBatchWhole == generation = 0 => Cardinality(Parts) <= 1

Bytes(p) == MapThenSumSet(LAMBDA o : ItemSize(p[o]), DOMAIN p)

(* The running size of a shard covers the objects in it, in new batches,   *)
(* where an id may come several times, deleted and written in any order,   *)
(* as in rewrites: what shard_batch subtracts for a replaced object was    *)
(* counted before, so the unsigned size never wraps below 0.               *)
SizesCover == \A s \in DOMAIN shards : shards[s].size >= Bytes(shards[s].objects)

(* "Garbage collection will try to keep storage files around this size or  *)
(* smaller" (target_file_size): a rewritten file exceeds the target by at  *)
(* most one of its objects, and a file is closed early only when it is     *)
(* over the target, so that rewriting leaves one small file per partition. *)
RewritesNearTarget ==
  generation > 0 =>
    /\ \A p \in Parts : \E o \in DOMAIN p : Bytes(p) - ItemSize(p[o]) <= TargetSize
    /\ \A i \in DOMAIN fragments : Bytes(fragments[i]) > TargetSize
=============================================================================
