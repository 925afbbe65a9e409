-------------------------- MODULE ComponentProofs --------------------------
(***************************************************************************)
(* Proofs about the parts that share no state with the others: the         *)
(* decompression contexts of a storage file, the split of a batch, the     *)
(* compaction loop of the benchmark, the contents of a storage file and    *)
(* the key-value store on top of the abstract store.                       *)
(***************************************************************************)
EXTENDS ShardBatch, StorageFile, ThreadLocalDict, Compaction, KvStore,
        FiniteSetTheorems, FunctionTheorems, SequenceTheorems, WellFoundedInduction,
        TLAPS

(***************************************************************************)
(* Sums over finite sets.                                                  *)
(***************************************************************************)
(* The numbers are well-founded.                                           *)
LEMMA NatWellFounded == IsWellFoundedOn({ss \in Nat \X Nat : ss[1] < ss[2]}, Nat)
BY NatLessThanWellFounded DEF OpToRel

(* A set of numbers has a least one.                                       *)
LEMMA LeastNumber ==
  ASSUME NEW T, T \subseteq Nat, T # {}
  PROVE  \E k \in T : \A n \in T : k <= n
<1> DEFINE R == {ss \in Nat \X Nat : ss[1] < ss[2]}
<1>1. PICK k \in T : \A n \in T : ~ (<<n, k>> \in R)
  <2> HIDE DEF R
  <2>1. IsWellFoundedOn(R, Nat)
    BY NatWellFounded DEF R
  <2> QED BY <2>1, WFMin
<1>2. ASSUME NEW n \in T PROVE k <= n
  <2>1. ~ (n < k)
    BY <1>1
  <2> QED BY <2>1
<1> QED BY <1>2

(* The element that the folds of the community modules take next.          *)
AnyOf(s) == CHOOSE x \in s : TRUE

(* The function by which they add up numbers.                              *)
Adds(sum, w, S) ==
  sum = [s \in S |-> IF s = {} THEN 0 ELSE w[AnyOf(s)] + sum[s \ {AnyOf(s)}]]

(* The element that is taken next is one of the set.                       *)
LEMMA AnyOfFacts == \A s : s # {} => AnyOf(s) \in s
BY DEF AnyOf

(* What is left of a finite set without one element.                       *)
LEMMA LessOne ==
  ASSUME NEW s, IsFiniteSet(s), NEW x \in s
  PROVE  /\ IsFiniteSet(s \ {x}) /\ Cardinality(s \ {x}) = Cardinality(s) - 1
         /\ Cardinality(s) \in Nat \ {0}
BY FS_RemoveElement, FS_CardinalityType, FS_EmptySet

(* There is such a function over a finite set.                             *)
LEMMA AddsExists ==
  ASSUME NEW S, IsFiniteSet(S), NEW w
  PROVE  \E sum : Adds(sum, w, SUBSET S)
<1> DEFINE Small(n) == {s \in SUBSET S : Cardinality(s) <= n}
           T == {n \in Nat : ~ \E sum : Adds(sum, w, Small(n))}
<1>0. \A s \in SUBSET S :
        IsFiniteSet(s) /\ Cardinality(s) \in Nat /\ Cardinality(s) <= Cardinality(S)
  BY FS_Subset, FS_CardinalityType
<1>1. T = {}
  <2> SUFFICES ASSUME T # {} PROVE FALSE
    OBVIOUS
  <2>1. PICK k \in T : \A n \in T : k <= n
    BY LeastNumber
  <2>2. CASE k = 0
    <3>1. \A s \in Small(0) : s = {}
      BY <1>0, FS_EmptySet
    <3>2. Adds([s \in Small(0) |-> 0], w, Small(0))
      BY <3>1 DEF Adds
    <3> QED BY <2>1, <2>2, <3>2
  <2>3. CASE k # 0
    <3>1. k - 1 \in Nat /\ k - 1 \notin T
      <4>1. T \subseteq Nat
        OBVIOUS
      <4> HIDE DEF T
      <4> QED BY <2>1, <2>3, <4>1
    <3>2. PICK g : Adds(g, w, Small(k - 1))
      BY <3>1
    <3> DEFINE h == [s \in Small(k) |-> IF s = {} THEN 0 ELSE w[AnyOf(s)] + g[s \ {AnyOf(s)}]]
    <3>3. ASSUME NEW s \in Small(k), s # {}
          PROVE  s \ {AnyOf(s)} \in Small(k - 1) /\ s \ {AnyOf(s)} \in Small(k)
      BY <1>0, <2>1, <3>3, LessOne, AnyOfFacts
    <3>4. ASSUME NEW s \in Small(k - 1) PROVE h[s] = g[s]
      <4>1. s \in Small(k)
        BY <1>0, <2>1
      <4> QED BY <3>2, <4>1 DEF Adds
    <3>5. \A s \in Small(k) : s # {} => h[s \ {AnyOf(s)}] = g[s \ {AnyOf(s)}]
      BY <3>3, <3>4
    <3>6. h = [s \in Small(k) |-> IF s = {} THEN 0 ELSE w[AnyOf(s)] + h[s \ {AnyOf(s)}]]
      <4> HIDE DEF Small
      <4> QED BY <3>5
    <3> HIDE DEF h
    <3>7. Adds(h, w, Small(k))
      BY <3>6 DEF Adds
    <3> QED BY <2>1, <3>7
  <2> QED BY <2>2, <2>3
<1>2. Small(Cardinality(S)) = SUBSET S /\ Cardinality(S) \in Nat
  BY <1>0, FS_CardinalityType
<1> QED BY <1>1, <1>2

(* The sum without an element, whichever it is.                            *)
LEMMA AddsSplit ==
  ASSUME NEW S, IsFiniteSet(S), NEW w, \A x \in S : w[x] \in Nat, NEW sum, Adds(sum, w, SUBSET S)
  PROVE  /\ sum[{}] = 0
         /\ \A s \in SUBSET S : sum[s] \in Nat
         /\ \A s \in SUBSET S : \A x \in s : sum[s] = w[x] + sum[s \ {x}]
<1> DEFINE Good(s) == sum[s] \in Nat /\ \A x \in s : sum[s] = w[x] + sum[s \ {x}]
           T == {n \in Nat : \E s \in SUBSET S : Cardinality(s) = n /\ ~ Good(s)}
<1>0. /\ \A s \in SUBSET S : IsFiniteSet(s) /\ Cardinality(s) \in Nat
      /\ sum[{}] = 0
      /\ \A s \in SUBSET S : s # {} => sum[s] = w[AnyOf(s)] + sum[s \ {AnyOf(s)}]
  BY FS_Subset, FS_CardinalityType DEF Adds
<1>1. T = {}
  <2> SUFFICES ASSUME T # {} PROVE FALSE
    OBVIOUS
  <2>1. PICK k \in T : \A n \in T : k <= n
    BY LeastNumber
  <2>2. PICK s \in SUBSET S : Cardinality(s) = k /\ ~ Good(s)
    BY <2>1
  <2>3. s # {}
    <3>1. Good({})
      BY <1>0
    <3> HIDE DEF Good
    <3> QED BY <2>2, <3>1
  <2>4. PICK c \in s : c = AnyOf(s)
    BY <2>3, AnyOfFacts
  <2>5. ASSUME NEW r \in SUBSET S, Cardinality(r) < k PROVE Good(r)
    <3>1. Cardinality(r) \in Nat /\ Cardinality(r) \notin T
      BY <1>0, <2>1, <2>5
    <3> QED BY <2>5, <3>1
  <2>6. \A x \in s : s \ {x} \in SUBSET S /\ Good(s \ {x})
    <3> HIDE DEF Good
    <3>1. \A x \in s : s \ {x} \in SUBSET S /\ Cardinality(s \ {x}) < k
      BY <1>0, <2>2, LessOne
    <3> QED BY <2>5, <3>1
  <2>7. sum[s] = w[c] + sum[s \ {c}] /\ w[c] \in Nat /\ sum[s \ {c}] \in Nat
    BY <1>0, <2>3, <2>4, <2>6
  <2>8. ASSUME NEW x \in s, x # c PROVE sum[s] = w[x] + sum[s \ {x}]
    <3>1. (s \ {c}) \ {x} = (s \ {x}) \ {c} /\ x \in s \ {c} /\ c \in s \ {x}
      BY <2>8
    <3>2. sum[s \ {c}] = w[x] + sum[(s \ {c}) \ {x}] /\ sum[s \ {x}] = w[c] + sum[(s \ {x}) \ {c}]
      BY <2>6, <3>1
    <3>3. Good((s \ {c}) \ {x})
      <4> HIDE DEF Good
      <4>1. /\ IsFiniteSet(s \ {c}) /\ Cardinality(s \ {c}) = k - 1 /\ k \in Nat
        BY <1>0, <2>2, LessOne
      <4>2. Cardinality((s \ {c}) \ {x}) = k - 2
        BY <3>1, <4>1, LessOne
      <4> QED BY <2>5, <4>1, <4>2
    <3>4. w[x] \in Nat /\ sum[s \ {x}] \in Nat
      BY <2>6
    <3>5. sum[(s \ {c}) \ {x}] \in Int
      BY <3>3
    <3>6. PICK r : r = sum[(s \ {c}) \ {x}]
      OBVIOUS
    <3>7. sum[s \ {c}] = w[x] + r /\ sum[s \ {x}] = w[c] + r /\ r \in Int
      BY <3>1, <3>2, <3>5, <3>6
    <3> QED BY <2>7, <3>4, <3>7
  <2>9. Good(s)
    <3>1. sum[s] \in Nat
      BY <2>7
    <3>2. \A x \in s : sum[s] = w[x] + sum[s \ {x}]
      BY <2>7, <2>8
    <3> QED BY <3>1, <3>2
  <2> QED BY <2>2, <2>9
<1>2. \A s \in SUBSET S : Good(s)
  BY <1>0, <1>1
<1> QED BY <1>0, <1>2

(* Two sums of the same numbers over the same elements are equal.          *)
LEMMA AddsSame ==
  ASSUME NEW S, IsFiniteSet(S), NEW v, NEW w, NEW R, R \in SUBSET S,
         \A x \in R : v[x] = w[x] /\ w[x] \in Nat, \A x \in S : w[x] \in Nat,
         NEW f, Adds(f, v, SUBSET R), NEW g, Adds(g, w, SUBSET S)
  PROVE  f[R] = g[R]
<1> DEFINE T == {n \in Nat : \E s \in SUBSET R : Cardinality(s) = n /\ f[s] # g[s]}
<1>0. /\ \A s \in SUBSET R : IsFiniteSet(s) /\ Cardinality(s) \in Nat
      /\ f[{}] = g[{}]
      /\ \A s \in SUBSET R : s # {} =>
           /\ f[s] = v[AnyOf(s)] + f[s \ {AnyOf(s)}]
           /\ g[s] = w[AnyOf(s)] + g[s \ {AnyOf(s)}]
  BY FS_Subset, FS_CardinalityType DEF Adds
<1>1. ASSUME T # {} PROVE FALSE
  <2>0. T \subseteq Nat
    OBVIOUS
  <2>1. PICK k \in T : \A n \in T : k <= n
    BY <1>1, <2>0, LeastNumber
  <2>2. PICK s \in SUBSET R : Cardinality(s) = k /\ f[s] # g[s]
    BY <2>1
  <2>3. s # {}
    BY <1>0, <2>2
  <2>4. PICK c \in s : c = AnyOf(s)
    BY <2>3, AnyOfFacts
  <2>5. Cardinality(s \ {c}) = k - 1 /\ k \in Nat \ {0}
    BY <1>0, <2>2, LessOne
  <2>6. k - 1 \notin T
    <3> HIDE DEF T
    <3> QED BY <2>0, <2>1, <2>5
  <2>7. f[s \ {c}] = g[s \ {c}]
    BY <2>5, <2>6
  <2> QED BY <1>0, <2>2, <2>3, <2>4, <2>7
<1> QED BY <1>0, <1>1

(* The function by which the fold over a sequence goes on.                 *)
Folds(fold, base, op, pick, S) ==
  fold = [s \in SUBSET S |-> IF s = {} THEN base ELSE op[pick[s]][fold[s \ {pick[s]}]]]

(* There is such a function.                                               *)
LEMMA FoldsExists ==
  ASSUME NEW S, IsFiniteSet(S), NEW base, NEW op, NEW pick,
         \A s \in SUBSET S : s # {} => pick[s] \in s
  PROVE  \E fold : Folds(fold, base, op, pick, S)
<1> DEFINE Small(n) == {s \in SUBSET S : Cardinality(s) <= n}
           On(fold, D) == fold = [s \in D |-> IF s = {} THEN base
                                              ELSE op[pick[s]][fold[s \ {pick[s]}]]]
           T == {n \in Nat : ~ \E fold : On(fold, Small(n))}
<1>0. \A s \in SUBSET S :
        IsFiniteSet(s) /\ Cardinality(s) \in Nat /\ Cardinality(s) <= Cardinality(S)
  BY FS_Subset, FS_CardinalityType
<1>1. T = {}
  <2> SUFFICES ASSUME T # {} PROVE FALSE
    OBVIOUS
  <2>1. PICK k \in T : \A n \in T : k <= n
    BY LeastNumber
  <2>2. CASE k = 0
    <3>1. \A s \in Small(0) : s = {}
      BY <1>0, FS_EmptySet
    <3>2. On([s \in Small(0) |-> base], Small(0))
      BY <3>1
    <3> QED BY <2>1, <2>2, <3>2
  <2>3. CASE k # 0
    <3>1. k - 1 \in Nat /\ k - 1 \notin T
      <4>1. T \subseteq Nat
        OBVIOUS
      <4> HIDE DEF T
      <4> QED BY <2>1, <2>3, <4>1
    <3>2. PICK g : On(g, Small(k - 1))
      BY <3>1
    <3> DEFINE h == [s \in Small(k) |-> IF s = {} THEN base ELSE op[pick[s]][g[s \ {pick[s]}]]]
    <3>3. ASSUME NEW s \in Small(k), s # {}
          PROVE  s \ {pick[s]} \in Small(k - 1) /\ s \ {pick[s]} \in Small(k)
      BY <1>0, <2>1, <3>3, LessOne
    <3>4. ASSUME NEW s \in Small(k - 1) PROVE h[s] = g[s]
      <4>1. s \in Small(k)
        BY <1>0, <2>1
      <4> QED BY <3>2, <4>1
    <3>5. \A s \in Small(k) : s # {} => h[s \ {pick[s]}] = g[s \ {pick[s]}]
      BY <3>3, <3>4
    <3>6. h = [s \in Small(k) |-> IF s = {} THEN base ELSE op[pick[s]][h[s \ {pick[s]}]]]
      <4> HIDE DEF Small
      <4> QED BY <3>5
    <3> HIDE DEF h
    <3>7. On(h, Small(k))
      BY <3>6
    <3> QED BY <2>1, <3>7
  <2> QED BY <2>2, <2>3
<1>2. Small(Cardinality(S)) = SUBSET S /\ Cardinality(S) \in Nat
  BY <1>0, FS_CardinalityType
<1>3. PICK fold : On(fold, Small(Cardinality(S)))
  BY <1>1, <1>2
<1>4. On(fold, SUBSET S)
  <2> HIDE DEF On, Small
  <2> QED BY <1>2, <1>3
<1> QED BY <1>4 DEF Folds

(* The image of a finite set is finite.                                    *)
LEMMA ImageFinite ==
  ASSUME NEW S, IsFiniteSet(S), NEW f
  PROVE  IsFiniteSet({f[x] : x \in S})
<1> DEFINE T == {f[x] : x \in S}
           g == [x \in S |-> f[x]]
<1>1. g \in Surjection(S, T)
  BY DEF Surjection
<1> QED BY <1>1, FS_Surjection

(* The last of some indices.                                               *)
LEMMA MaxFacts ==
  ASSUME NEW n \in Nat, NEW s \in SUBSET (1 .. n), s # {}
  PROVE  Max(s) \in s /\ \A y \in s : Max(s) >= y
<1> DEFINE T == {n - i : i \in s}
<1>1. T \subseteq Nat /\ T # {}
  OBVIOUS
<1>2. PICK k \in T : \A m \in T : k <= m
  <2> HIDE DEF T
  <2> QED BY <1>1, LeastNumber
<1>3. PICK x \in s : k = n - x
  BY <1>2
<1>4. \A y \in s : x >= y
  <2> TAKE y \in s
  <2>1. n - y \in T /\ x \in Int /\ y \in Int
    OBVIOUS
  <2>2. n - x <= n - y
    <3> HIDE DEF T
    <3> QED BY <1>2, <1>3, <2>1
  <2> QED BY <2>1, <2>2
<1>5. \E z \in s : \A y \in s : z >= y
  BY <1>4
<1> QED BY <1>5 DEF Max

(* The bytes of a part add up so.                                          *)
Weights(p) == [o \in DOMAIN p |-> ItemSize(p[o])]

(* The bytes of a shard are the sum over its objects.                      *)
LEMMA BytesAdds ==
  ASSUME NEW p, IsFiniteSet(DOMAIN p)
  PROVE  \E sum : Adds(sum, Weights(p), SUBSET DOMAIN p) /\ Bytes(p) = sum[DOMAIN p]
<1> DEFINE Step(g) == [s \in SUBSET DOMAIN p |->
                         IF s = {} THEN 0 ELSE LET x == CHOOSE x \in s : TRUE
                                               IN  ItemSize(p[x]) + g[s \ {x}]]
           sum == CHOOSE g : g = Step(g)
<1>1. Bytes(p) = sum[DOMAIN p]
  BY DEF Bytes, MapThenSumSet, MapThenFoldSet
<1>2. \E g : Adds(g, Weights(p), SUBSET DOMAIN p)
  BY AddsExists
<1>3. ASSUME NEW g PROVE Adds(g, Weights(p), SUBSET DOMAIN p) <=> g = Step(g)
  <2>1. \A s \in SUBSET DOMAIN p : s # {} => Weights(p)[AnyOf(s)] = ItemSize(p[AnyOf(s)])
    BY AnyOfFacts DEF Weights
  <2> QED BY <2>1 DEF Adds, AnyOf
<1>4. sum = Step(sum)
  <2> HIDE DEF Step
  <2> QED BY <1>2, <1>3
<1> HIDE DEF sum
<1> QED BY <1>1, <1>3, <1>4

(***************************************************************************)
(* The decompression contexts of a storage file, for every set of threads  *)
(* and any number of panics: no context is shared or used after it was     *)
(* freed, and dropping the file frees each exactly once.                   *)
(***************************************************************************)
(* Where a thread holds a context that it made and that is not in the map, *)
(* and where it holds any context.                                         *)
Fresh == {"try", "insert", "wait"}
Holding == Fresh \cup {"use"}

DictTypeOK ==
  /\ at \in [Readers -> {"idle", "enter", "lookup", "create"} \cup Holding]
  /\ DOMAIN tls \subseteq Readers /\ tls \in [DOMAIN tls -> Nat]
  /\ using \in [Readers -> Nat]
  /\ made \in Nat /\ dropped \in BOOLEAN

(* Every context that was made has one owner: the map, a thread that made  *)
(* it and has not inserted it, or a panic.                                 *)
OwnersInv ==
  /\ \A t \in Readers : at[t] \in Fresh =>
       /\ using[t] \notin Range(tls) \cup lost
       /\ \A u \in Readers : at[u] \in Fresh /\ using[u] = using[t] => u = t
  /\ Range(tls) \cap lost = {}
  /\ IsInjective(tls)
  /\ \A c \in 1 .. made :
       \/ c \in Range(tls) \cup lost
       \/ \E t \in Readers : at[t] \in Fresh /\ using[t] = c
  /\ Range(tls) \subseteq 1 .. made /\ lost \subseteq 1 .. made

(* A thread decompresses with the context of the map under its own name,   *)
(* and makes one only when it has none there.                              *)
ContextsInv ==
  /\ \A t \in Readers :
       /\ at[t] \in Holding => using[t] \in 1 .. made
       /\ at[t] \notin Holding => using[t] = 0
       /\ at[t] = "use" => t \in DOMAIN tls /\ using[t] = tls[t]
       /\ at[t] \in Fresh \cup {"create"} => t \notin DOMAIN tls
  /\ dropped => freed = Range(tls) /\ \A t \in Readers : at[t] = "idle"
  /\ ~ dropped => freed = {}

DictInv == DictTypeOK /\ OwnersInv /\ ContextsInv

USE DEF Move, Fresh, Holding

(* Every step keeps the types.                                             *)
LEMMA DictTypes == DictTypeOK /\ [DictNext]_dictVars => DictTypeOK'
<1> SUFFICES ASSUME DictTypeOK, [DictNext]_dictVars PROVE DictTypeOK'
  OBVIOUS
<1>1. CASE UNCHANGED dictVars
  BY <1>1 DEF DictTypeOK, dictVars
<1>2. CASE DropDict
  BY <1>2 DEF DictTypeOK, DropDict
<1>3. ASSUME NEW t \in Readers,
             Decompress(t) \/ ReadLock(t) \/ Found(t) \/ Used(t) \/ NotFound(t)
             \/ Wait(t) \/ Create(t) \/ Tried(t)
      PROVE  DictTypeOK'
  BY <1>3 DEF DictTypeOK, Decompress, ReadLock, Found, Used, NotFound, Wait, Create, Tried
<1>4. ASSUME NEW t \in Readers, InsertContext(t) PROVE DictTypeOK'
  BY <1>4 DEF DictTypeOK, InsertContext
<1> QED BY <1>1, <1>2, <1>3, <1>4 DEF DictNext, DictStep

(* Every step keeps one owner for every context.                           *)
LEMMA OwnersStep ==
  DictInv /\ [DictNext]_dictVars => OwnersInv'
<1> SUFFICES ASSUME DictInv, [DictNext]_dictVars PROVE OwnersInv'
  OBVIOUS
<1> USE DEF Range, IsInjective
<1>t. DictTypeOK /\ DictTypeOK' /\ OwnersInv /\ ContextsInv
  BY DictTypes DEF DictInv
<1>1. CASE UNCHANGED dictVars
  BY <1>t, <1>1 DEF OwnersInv, dictVars
<1>2. CASE DropDict
  BY <1>t, <1>2 DEF OwnersInv, DropDict
<1>3. ASSUME NEW t \in Readers,
             Decompress(t) \/ ReadLock(t) \/ Found(t) \/ Used(t) \/ NotFound(t)
             \/ Wait(t)
      PROVE  OwnersInv'
  <2>1. UNCHANGED <<tls, lost, made>>
    BY <1>3 DEF Decompress, ReadLock, Found, Used, NotFound, Wait
  <2>2. \A u \in Readers : /\ at'[u] \in Fresh <=> at[u] \in Fresh
                           /\ at[u] \in Fresh => using'[u] = using[u]
    BY <1>3, <1>t DEF DictTypeOK, Decompress, ReadLock, Found, Used, NotFound, Wait
  <2> QED BY <1>t, <2>1, <2>2 DEF OwnersInv
<1>4. ASSUME NEW t \in Readers, Create(t) PROVE OwnersInv'
  <2>1. CASE /\ made' = made + 1 /\ using' = [using EXCEPT ![t] = made + 1]
             /\ Move(t, "try")
    <3>1. /\ UNCHANGED <<tls, lost>> /\ at[t] = "create"
          /\ at' = [at EXCEPT ![t] = "try"]
      BY <1>4, <2>1 DEF Create
    <3>2. \A u \in Readers : at[u] \in Holding => using[u] \in 1 .. made
      BY <1>t DEF ContextsInv
    <3> QED BY <1>t, <2>1, <3>1, <3>2 DEF OwnersInv, DictTypeOK
  <2>2. CASE Move(t, "idle") /\ UNCHANGED <<made, using>>
    BY <1>t, <1>4, <2>2 DEF OwnersInv, DictTypeOK, Create
  <2> QED BY <1>4, <2>1, <2>2 DEF Create
<1>5. ASSUME NEW t \in Readers, Tried(t) PROVE OwnersInv'
  <2>1. CASE Move(t, "insert") /\ UNCHANGED <<using, lost>>
    BY <1>t, <1>5, <2>1 DEF OwnersInv, DictTypeOK, Tried
  <2>2. CASE /\ Move(t, "idle") /\ lost' = lost \cup {using[t]}
             /\ using' = [using EXCEPT ![t] = 0]
    BY <1>t, <1>5, <2>2 DEF OwnersInv, ContextsInv, DictTypeOK, Tried
  <2> QED BY <1>5, <2>1, <2>2 DEF Tried
<1>6. ASSUME NEW t \in Readers, InsertContext(t) PROVE OwnersInv'
  <2>1. /\ t \notin DOMAIN tls /\ at[t] \in Fresh /\ using[t] \in 1 .. made
        /\ UNCHANGED <<lost, made>>
        /\ at' = [at EXCEPT ![t] = "idle"] /\ using' = [using EXCEPT ![t] = 0]
        /\ DOMAIN tls' = DOMAIN tls \cup {t} /\ tls'[t] = using[t]
        /\ \A u \in DOMAIN tls : tls'[u] = tls[u]
    BY <1>6, <1>t DEF InsertContext, ContextsInv
  <2>2. Range(tls') = Range(tls) \cup {using[t]}
    BY <2>1
  <2>3. IsInjective(tls')
    BY <1>t, <2>1 DEF OwnersInv
  <2> HIDE DEF Range, IsInjective
  <2> QED BY <1>t, <2>1, <2>2, <2>3 DEF OwnersInv, DictTypeOK
<1> QED BY <1>1, <1>2, <1>3, <1>4, <1>5, <1>6 DEF DictNext, DictStep

(* Every step keeps the contexts of the threads apart from those freed.    *)
LEMMA ContextsStep ==
  DictInv /\ [DictNext]_dictVars => ContextsInv'
<1> SUFFICES ASSUME DictInv, [DictNext]_dictVars PROVE ContextsInv'
  OBVIOUS
<1>t. DictTypeOK /\ DictTypeOK' /\ OwnersInv /\ ContextsInv
  BY DictTypes DEF DictInv
<1>1. CASE UNCHANGED dictVars
  BY <1>t, <1>1 DEF ContextsInv, dictVars
<1>2. CASE DropDict
  BY <1>t, <1>2 DEF ContextsInv, DropDict
<1>3. ASSUME NEW t \in Readers,
             Decompress(t) \/ ReadLock(t) \/ NotFound(t) \/ Wait(t) \/ Used(t)
      PROVE  ContextsInv'
  BY <1>t, <1>3 DEF ContextsInv, DictTypeOK, Decompress, ReadLock, NotFound, Wait, Used
<1>4. ASSUME NEW t \in Readers, Found(t) PROVE ContextsInv'
  BY <1>t, <1>4 DEF ContextsInv, OwnersInv, DictTypeOK, Found, Range
<1>5. ASSUME NEW t \in Readers, Create(t) \/ Tried(t) PROVE ContextsInv'
  BY <1>t, <1>5 DEF ContextsInv, DictTypeOK, Create, Tried
<1>6. ASSUME NEW t \in Readers, InsertContext(t) PROVE ContextsInv'
  <2>1. /\ at[t] = "wait" /\ UNCHANGED <<made, freed, dropped>>
        /\ at' = [at EXCEPT ![t] = "idle"] /\ using' = [using EXCEPT ![t] = 0]
        /\ DOMAIN tls' = DOMAIN tls \cup {t}
        /\ \A u \in DOMAIN tls : u # t => tls'[u] = tls[u]
    BY <1>6 DEF InsertContext
  <2> QED BY <1>t, <2>1 DEF ContextsInv, DictTypeOK
<1> QED BY <1>1, <1>2, <1>3, <1>4, <1>5, <1>6 DEF DictNext, DictStep

(* Every context that decompress makes has exactly one owner, in every     *)
(* interleaving of the threads and whichever first uses panic.             *)
THEOREM DictInduction == DictSpec => []DictInv
<1>1. DictInit => DictInv
  <2> SUFFICES ASSUME DictInit PROVE DictInv
    OBVIOUS
  <2>1. DOMAIN tls = {} /\ tls \in [{} -> Nat] /\ Range(tls) = {} /\ IsInjective(tls)
    BY DEF DictInit, Range, IsInjective
  <2>2. DictTypeOK
    BY <2>1 DEF DictInit, DictTypeOK
  <2>3. OwnersInv
    BY <2>1 DEF DictInit, OwnersInv
  <2>4. ContextsInv
    BY <2>1 DEF DictInit, ContextsInv
  <2> QED BY <2>2, <2>3, <2>4 DEF DictInv
<1>2. DictInv /\ [DictNext]_dictVars => DictInv'
  BY DictTypes, OwnersStep, ContextsStep DEF DictInv
<1> QED BY <1>1, <1>2, PTL DEF DictSpec

(* The map gates every use by the thread: no context is used by two        *)
(* threads, none after it was freed, and an insert replaces none.          *)
THEOREM ContextsAlwaysPrivate == DictSpec => []ContextsPrivate
<1>1. DictInv => ContextsPrivate
  <2> SUFFICES ASSUME DictInv PROVE ContextsPrivate
    OBVIOUS
  <2>1. ASSUME NEW t \in Readers, NEW u \in Readers, t # u, using[t] # 0
        PROVE  using[t] # using[u]
    BY <2>1 DEF DictInv, DictTypeOK, OwnersInv, ContextsInv, Range, IsInjective
  <2>2. ASSUME NEW t \in Readers PROVE using[t] \notin freed
    BY DEF DictInv, DictTypeOK, OwnersInv, ContextsInv
  <2>3. ASSUME NEW t \in Readers, at[t] \in Fresh PROVE using[t] \notin Range(tls)
    BY <2>3 DEF DictInv, OwnersInv
  <2> QED BY <2>1, <2>2, <2>3 DEF ContextsPrivate
<1> QED BY <1>1, DictInduction, PTL

(* Drop frees every context that was made, those lost in a panic excepted, *)
(* and none twice.                                                         *)
THEOREM ContextsAlwaysFreed == DictSpec => []ContextsFreed
<1>1. DictInv => ContextsFreed
  <2> SUFFICES ASSUME DictInv PROVE ContextsFreed
    OBVIOUS
  <2>1. ASSUME dropped PROVE freed \cup lost = 1 .. made
    BY <2>1 DEF DictInv, DictTypeOK, OwnersInv, ContextsInv
  <2> QED BY <2>1 DEF ContextsFreed, DictInv, OwnersInv
<1> QED BY <1>1, DictInduction, PTL

(***************************************************************************)
(* The split of a batch, for every set of ids and sizes, every target size *)
(* and batches of any length: every object goes to exactly one file with   *)
(* the last value given for it, and a new batch is one file.               *)
(***************************************************************************)
GivenSizes == ItemSizes \cup {Deleted}
ItemRecords == [id : ItemIds, size : GivenSizes]
PartObjects == UNION {[ids -> GivenSizes] : ids \in SUBSET ItemIds}

(* The value of an object in a part is the last one that the batch gave.   *)
LastGiven(given, p) ==
  \A o \in DOMAIN p : \E k \in DOMAIN given :
    /\ given[k].id = o /\ given[k].size = p[o]
    /\ \A m \in DOMAIN given : m > k => given[m].id # o

(* Of two parts at different places no object is in both.                  *)
Apart ==
  /\ \A s, r \in DOMAIN shards : s # r =>
       DOMAIN shards[s].objects \cap DOMAIN shards[r].objects = {}
  /\ \A s \in DOMAIN shards, i \in DOMAIN fragments :
       DOMAIN shards[s].objects \cap DOMAIN fragments[i] = {}
  /\ \A i, j \in DOMAIN fragments : i # j =>
       DOMAIN fragments[i] \cap DOMAIN fragments[j] = {}

ShardTypeOK ==
  /\ generation \in {0, 1}
  /\ items \in Seq(ItemRecords) /\ fragments \in Seq(PartObjects)
  /\ DOMAIN shards \subseteq 0 .. 3
  /\ \A s \in DOMAIN shards : shards[s].objects \in PartObjects

ShardInv ==
  /\ ShardTypeOK
  /\ generation = 0 => DOMAIN shards \subseteq {0} /\ fragments = <<>>
  /\ \A s \in DOMAIN shards :
       DOMAIN shards[s].objects # {} /\ LastGiven(items, shards[s].objects)
  /\ \A i \in DOMAIN fragments :
       DOMAIN fragments[i] # {} /\ LastGiven(items, fragments[i])
  /\ Apart
  /\ \A k \in DOMAIN items :
       \/ \E s \in DOMAIN shards : items[k].id \in DOMAIN shards[s].objects
       \/ \E i \in DOMAIN fragments : items[k].id \in DOMAIN fragments[i]

(* A partial function on ids is one of its own domain.                     *)
LEMMA ObjectsFacts ==
  /\ \A p \in PartObjects : DOMAIN p \subseteq ItemIds /\ p \in [DOMAIN p -> GivenSizes]
  /\ \A ids \in SUBSET ItemIds : [ids -> GivenSizes] \subseteq PartObjects
BY DEF PartObjects

(* What shard.1.insert does to the objects of a shard.                     *)
LEMMA InsertFacts ==
  ASSUME NEW shard, shard.objects \in PartObjects, NEW o \in ItemIds, NEW size \in GivenSizes
  PROVE  LET p == Insert(shard, o, size).objects
         IN  /\ p \in PartObjects
             /\ DOMAIN p = DOMAIN shard.objects \cup {o}
             /\ p[o] = size
             /\ \A q \in DOMAIN shard.objects : q # o => p[q] = shard.objects[q]
<1> DEFINE p == Insert(shard, o, size).objects
<1>1. p = [k \in DOMAIN shard.objects \cup {o} |->
             IF k = o THEN size ELSE shard.objects[k]]
  BY DEF Insert, With
<1>2. p \in [DOMAIN shard.objects \cup {o} -> GivenSizes]
  BY <1>1, ObjectsFacts
<1>3. p \in PartObjects
  BY <1>2, ObjectsFacts
<1> HIDE DEF p
<1> QED BY <1>1, <1>3 DEF p

(* What one item changes: its shard s, which held the objects old, or was  *)
(* found full and set aside, and nothing else.                             *)
ItemEffect(o, size, s, old) ==
  /\ generation = 0 => s = 0
  /\ generation > 0 => \A i \in DOMAIN items : items[i].id # o
  /\ DOMAIN shards' = DOMAIN shards \cup {s}
  /\ \A r \in DOMAIN shards : r # s => shards'[r] = shards[r]
  /\ shards'[s].objects \in PartObjects
  /\ DOMAIN shards'[s].objects = DOMAIN old \cup {o}
  /\ shards'[s].objects[o] = size
  /\ \A q \in DOMAIN old : q # o => shards'[s].objects[q] = old[q]
  /\ \/ /\ generation > 0 /\ s \in DOMAIN shards /\ DOMAIN old = {}
        /\ fragments' = Append(fragments, shards[s].objects)
     \/ /\ fragments' = fragments
        /\ IF s \in DOMAIN shards THEN old = shards[s].objects
                                  ELSE DOMAIN old = {}

(* TakeItem has that effect on some shard.                                 *)
LEMMA ItemFacts ==
  ASSUME ShardInv, NEW o \in ItemIds, NEW size \in GivenSizes, TakeItem(o, size)
  PROVE  \E s \in 0 .. 3, old \in PartObjects : ItemEffect(o, size, s, old)
<1> DEFINE s == ShardOf(size)
           none == [q \in {} |-> 0]
           from == IF OverSize(s) THEN EmptyShard ELSE Shard(s)
<1>1. s \in 0 .. 3 /\ (generation = 0 => s = 0)
  BY DEF ShardOf, DefaultPartition
<1>2. none \in PartObjects /\ DOMAIN none = {}
  <2>1. none \in [{} -> GivenSizes]
    OBVIOUS
  <2> QED BY <2>1, ObjectsFacts
<1>3. EmptyShard.objects = none
  BY DEF EmptyShard
<1>4. Shard(s).objects \in PartObjects
  BY <1>2, <1>3 DEF Shard, ShardInv, ShardTypeOK
<1>5. from.objects \in PartObjects
  BY <1>2, <1>3, <1>4
<1>6. ASSUME OverSize(s) PROVE generation > 0 /\ s \in DOMAIN shards
  <2>1. EmptyShard.size = 0
    BY DEF EmptyShard
  <2>2. TargetSize \in Nat
    BY ShardAssumption
  <2> QED BY <1>6, <2>1, <2>2 DEF OverSize, Shard
<1>7. shards' = With(shards, s, Insert(from, o, size))
  BY DEF TakeItem
<1>8. /\ DOMAIN shards' = DOMAIN shards \cup {s}
      /\ \A r \in DOMAIN shards : r # s => shards'[r] = shards[r]
      /\ shards'[s] = Insert(from, o, size)
  BY <1>7 DEF With
<1>9. generation > 0 => \A i \in DOMAIN items : items[i].id # o
  BY DEF TakeItem
<1>10. fragments' = IF OverSize(s) THEN Append(fragments, shards[s].objects)
                    ELSE fragments
  BY DEF TakeItem
<1>11. PICK old : old = from.objects
  OBVIOUS
<1>12. \/ OverSize(s) /\ DOMAIN old = {}
       \/ /\ ~ OverSize(s)
          /\ IF s \in DOMAIN shards THEN old = shards[s].objects ELSE DOMAIN old = {}
  BY <1>2, <1>3, <1>11 DEF Shard
<1>13. /\ shards'[s].objects \in PartObjects
       /\ DOMAIN shards'[s].objects = DOMAIN old \cup {o}
       /\ shards'[s].objects[o] = size
       /\ \A q \in DOMAIN old : q # o => shards'[s].objects[q] = old[q]
  <2> HIDE DEF from
  <2> QED BY <1>5, <1>8, <1>11, InsertFacts
<1>14. old \in PartObjects
  BY <1>5, <1>11
<1> HIDE DEF s, from
<1> QED BY <1>1, <1>6, <1>8, <1>9, <1>10, <1>12, <1>13, <1>14 DEF ItemEffect

(* An item added to the batch keeps the parts that do not hold its object. *)
LEMMA LastGivenStays ==
  ASSUME ShardInv, NEW o \in ItemIds, NEW size \in GivenSizes,
         items' = Append(items, [id |-> o, size |-> size])
  PROVE  /\ items' \in Seq(ItemRecords)
         /\ DOMAIN items' = DOMAIN items \cup {Len(items) + 1}
         /\ \A k \in DOMAIN items : items'[k] = items[k]
         /\ items'[Len(items) + 1] = [id |-> o, size |-> size]
         /\ \A p : LastGiven(items, p) /\ o \notin DOMAIN p => LastGiven(items', p)
<1> DEFINE item == [id |-> o, size |-> size]
<1>1. item \in ItemRecords /\ items \in Seq(ItemRecords)
  BY DEF ItemRecords, ShardInv, ShardTypeOK
<1>2. /\ items' \in Seq(ItemRecords)
      /\ DOMAIN items' = DOMAIN items \cup {Len(items) + 1}
      /\ \A k \in DOMAIN items : items'[k] = items[k]
      /\ items'[Len(items) + 1] = item
  BY <1>1, AppendProperties
<1>3. ASSUME NEW p, LastGiven(items, p), o \notin DOMAIN p
      PROVE  \A q \in DOMAIN p : \E k \in DOMAIN items' :
               /\ items'[k].id = q /\ items'[k].size = p[q]
               /\ \A m \in DOMAIN items' : m > k => items'[m].id # q
  <2> SUFFICES ASSUME NEW q \in DOMAIN p
               PROVE  \E k \in DOMAIN items' :
                        /\ items'[k].id = q /\ items'[k].size = p[q]
                        /\ \A m \in DOMAIN items' : m > k => items'[m].id # q
    OBVIOUS
  <2>1. PICK k \in DOMAIN items :
          /\ items[k].id = q /\ items[k].size = p[q]
          /\ \A m \in DOMAIN items : m > k => items[m].id # q
    BY <1>3 DEF LastGiven
  <2>2. \A m \in DOMAIN items' : m > k => items'[m].id # q
    BY <1>2, <1>3, <2>1
  <2> QED BY <1>2, <2>1, <2>2
<1> QED BY <1>2, <1>3 DEF LastGiven

(* One iteration of the loop over the batch keeps the invariant.           *)
LEMMA ShardStep == ShardInv /\ [ShardNext]_shardVars => ShardInv'
<1>1. ASSUME ShardInv, UNCHANGED shardVars PROVE ShardInv'
  BY <1>1 DEF ShardInv, ShardTypeOK, LastGiven, Apart, shardVars
<1>2. ASSUME ShardInv, NEW o \in ItemIds, NEW size \in GivenSizes, TakeItem(o, size)
      PROVE  ShardInv'
  <2>0. PICK s \in 0 .. 3, old \in PartObjects : ItemEffect(o, size, s, old)
    BY <1>2, ItemFacts
  <2>1. /\ s \in 0 .. 3 /\ old \in PartObjects
        /\ generation = 0 => s = 0
        /\ generation > 0 => \A i \in DOMAIN items : items[i].id # o
        /\ DOMAIN shards' = DOMAIN shards \cup {s}
        /\ \A r \in DOMAIN shards : r # s => shards'[r] = shards[r]
        /\ shards'[s].objects \in PartObjects
        /\ DOMAIN shards'[s].objects = DOMAIN old \cup {o}
        /\ shards'[s].objects[o] = size
        /\ \A q \in DOMAIN old : q # o => shards'[s].objects[q] = old[q]
        /\ \/ /\ generation > 0 /\ s \in DOMAIN shards /\ DOMAIN old = {}
              /\ fragments' = Append(fragments, shards[s].objects)
           \/ /\ fragments' = fragments
              /\ IF s \in DOMAIN shards THEN old = shards[s].objects
                                        ELSE DOMAIN old = {}
    BY <2>0 DEF ItemEffect
  <2>2. /\ items' = Append(items, [id |-> o, size |-> size])
        /\ generation' = generation
    BY <1>2 DEF TakeItem
  <2>3. /\ items' \in Seq(ItemRecords)
        /\ DOMAIN items' = DOMAIN items \cup {Len(items) + 1}
        /\ \A k \in DOMAIN items : items'[k] = items[k]
        /\ items'[Len(items) + 1] = [id |-> o, size |-> size]
        /\ \A p : LastGiven(items, p) /\ o \notin DOMAIN p => LastGiven(items', p)
    BY <1>2, <2>2, LastGivenStays
  <2>4. /\ \A r \in DOMAIN shards : generation > 0 => o \notin DOMAIN shards[r].objects
        /\ \A i \in DOMAIN fragments : generation > 0 => o \notin DOMAIN fragments[i]
    BY <1>2, <2>1 DEF ShardInv, LastGiven
  <2>5. /\ \A r \in DOMAIN shards : r # s => o \notin DOMAIN shards[r].objects
        /\ \A i \in DOMAIN fragments : o \notin DOMAIN fragments[i]
    BY <1>2, <2>1, <2>4 DEF ShardInv, ShardTypeOK
  <2>6. \/ fragments' = fragments
        \/ /\ s \in DOMAIN shards /\ DOMAIN old = {} /\ generation > 0
           /\ fragments' \in Seq(PartObjects)
           /\ DOMAIN fragments' = DOMAIN fragments \cup {Len(fragments) + 1}
           /\ \A i \in DOMAIN fragments : fragments'[i] = fragments[i]
           /\ fragments'[Len(fragments) + 1] = shards[s].objects
           /\ Len(fragments) + 1 \notin DOMAIN fragments
    <3>1. /\ fragments \in Seq(PartObjects)
          /\ s \in DOMAIN shards => shards[s].objects \in PartObjects
      BY <1>2 DEF ShardInv, ShardTypeOK
    <3>2. ASSUME s \in DOMAIN shards, fragments' = Append(fragments, shards[s].objects)
          PROVE  /\ fragments' \in Seq(PartObjects)
                 /\ DOMAIN fragments' = DOMAIN fragments \cup {Len(fragments) + 1}
                 /\ \A i \in DOMAIN fragments : fragments'[i] = fragments[i]
                 /\ fragments'[Len(fragments) + 1] = shards[s].objects
                 /\ Len(fragments) + 1 \notin DOMAIN fragments
      BY <3>1, <3>2, AppendProperties
    <3> QED BY <2>1, <3>2
  <2>7. ShardTypeOK'
    <3>1. generation' \in {0, 1} /\ DOMAIN shards' \subseteq 0 .. 3
      BY <1>2, <2>1, <2>2 DEF ShardInv, ShardTypeOK
    <3>2. fragments' \in Seq(PartObjects)
      BY <1>2, <2>6 DEF ShardInv, ShardTypeOK
    <3>3. \A r \in DOMAIN shards' : shards'[r].objects \in PartObjects
      BY <1>2, <2>1 DEF ShardInv, ShardTypeOK
    <3> QED BY <2>3, <3>1, <3>2, <3>3 DEF ShardTypeOK
  <2>8. generation' = 0 => DOMAIN shards' \subseteq {0} /\ fragments' = <<>>
    BY <1>2, <2>1, <2>2 DEF ShardInv, ShardTypeOK
  <2>9. LastGiven(items', shards'[s].objects)
    <3>1. ASSUME NEW q \in DOMAIN old, q # o
          PROVE  \E k \in DOMAIN items :
                   /\ items[k].id = q /\ items[k].size = old[q]
                   /\ \A m \in DOMAIN items : m > k => items[m].id # q
      BY <1>2, <2>1, <3>1 DEF ShardInv, LastGiven
    <3>2. ASSUME NEW q \in DOMAIN shards'[s].objects
          PROVE  \E k \in DOMAIN items' :
                   /\ items'[k].id = q /\ items'[k].size = shards'[s].objects[q]
                   /\ \A m \in DOMAIN items' : m > k => items'[m].id # q
      <4>1. CASE q = o
        <5>1. Len(items) + 1 \in DOMAIN items' /\ \A m \in DOMAIN items' : ~ (m > Len(items) + 1)
          BY <1>2, <2>3 DEF ShardInv, ShardTypeOK
        <5> QED BY <4>1, <5>1, <2>1, <2>3
      <4>2. CASE q # o
        <5>1. PICK k \in DOMAIN items :
                   /\ items[k].id = q /\ items[k].size = old[q]
                   /\ \A m \in DOMAIN items : m > k => items[m].id # q
          BY <2>1, <3>1, <4>2
        <5>2. \A m \in DOMAIN items' : m > k => items'[m].id # q
          BY <2>3, <4>2, <5>1
        <5> QED BY <2>1, <2>3, <3>2, <4>2, <5>1, <5>2
      <4> QED BY <4>1, <4>2
    <3> QED BY <3>2 DEF LastGiven
  <2>10. \A r \in DOMAIN shards' :
           DOMAIN shards'[r].objects # {} /\ LastGiven(items', shards'[r].objects)
    BY <1>2, <2>1, <2>3, <2>5, <2>9 DEF ShardInv
  <2>11. \A i \in DOMAIN fragments' :
           DOMAIN fragments'[i] # {} /\ LastGiven(items', fragments'[i])
    BY <1>2, <2>3, <2>4, <2>5, <2>6 DEF ShardInv
  <2>12. Apart'
    <3>1. \A r \in DOMAIN shards : r # s =>
            DOMAIN shards'[r].objects \cap DOMAIN shards'[s].objects = {}
      BY <1>2, <2>1, <2>5 DEF ShardInv, Apart
    <3>2. \A i \in DOMAIN fragments : DOMAIN fragments[i] \cap DOMAIN shards'[s].objects = {}
      BY <1>2, <2>1, <2>5 DEF ShardInv, Apart
    <3>3. CASE fragments' = fragments
      BY <1>2, <2>1, <3>1, <3>2, <3>3 DEF ShardInv, Apart
    <3>4. CASE fragments' # fragments
      BY <1>2, <2>1, <2>4, <2>6, <3>1, <3>2, <3>4 DEF ShardInv, Apart
    <3> QED BY <3>3, <3>4
  <2>13. ASSUME NEW k \in DOMAIN items'
         PROVE  \/ \E r \in DOMAIN shards' : items'[k].id \in DOMAIN shards'[r].objects
                \/ \E i \in DOMAIN fragments' : items'[k].id \in DOMAIN fragments'[i]
    <3>1. CASE k = Len(items) + 1
      BY <2>1, <2>3, <3>1
    <3>2. CASE k \in DOMAIN items
      <4>1. CASE \E i \in DOMAIN fragments : items[k].id \in DOMAIN fragments[i]
        BY <2>3, <2>6, <3>2, <4>1
      <4>2. ASSUME NEW r \in DOMAIN shards, items[k].id \in DOMAIN shards[r].objects
            PROVE  \/ \E x \in DOMAIN shards' : items'[k].id \in DOMAIN shards'[x].objects
                   \/ \E i \in DOMAIN fragments' : items'[k].id \in DOMAIN fragments'[i]
        <5>1. CASE r # s
          BY <2>1, <2>3, <3>2, <4>2, <5>1
        <5>2. CASE r = s /\ fragments' # fragments
          BY <2>3, <2>6, <3>2, <4>2, <5>2
        <5>3. CASE r = s /\ fragments' = fragments
          <6>1. items[k].id \in DOMAIN shards'[s].objects
            BY <2>1, <2>6, <4>2, <5>3
          <6> QED BY <2>1, <2>3, <3>2, <6>1
        <5> QED BY <5>1, <5>2, <5>3
      <4> QED BY <1>2, <3>2, <4>1, <4>2 DEF ShardInv
    <3> QED BY <2>3, <3>1, <3>2
  <2> QED BY <2>7, <2>8, <2>10, <2>11, <2>12, <2>13 DEF ShardInv
<1> QED BY <1>1, <1>2 DEF ShardNext, GivenSizes

(* After every item every object of the batch is in one part, with the     *)
(* last value that was given for it.                                       *)
THEOREM ShardInduction == ShardSpec => []ShardInv
<1>1. ShardInit => ShardInv
  <2> SUFFICES ASSUME ShardInit PROVE ShardInv
    OBVIOUS
  <2>1. DOMAIN shards = {} /\ items = <<>> /\ fragments = <<>> /\ generation \in {0, 1}
    BY DEF ShardInit
  <2>2. DOMAIN items = {} /\ DOMAIN fragments = {}
    BY <2>1
  <2>3. items \in Seq(ItemRecords) /\ fragments \in Seq(PartObjects)
    BY <2>1
  <2> QED BY <2>1, <2>2, <2>3 DEF ShardInv, ShardTypeOK, Apart
<1>2. ShardInv /\ [ShardNext]_shardVars => ShardInv'
  BY ShardStep
<1> QED BY <1>1, <1>2, PTL DEF ShardSpec

(* A function that takes no value twice has as many values as arguments.   *)
LEMMA ImageCardinality ==
  ASSUME NEW S, IsFiniteSet(S), NEW f, \A x, y \in S : f[x] = f[y] => x = y
  PROVE  /\ IsFiniteSet({f[x] : x \in S})
         /\ Cardinality({f[x] : x \in S}) = Cardinality(S)
<1> DEFINE T == {f[x] : x \in S}
           h == [x \in S |-> f[x]]
<1>1. h \in [S -> T] /\ (\A x, y \in S : h[x] = h[y] => x = y) /\ \A y \in T : \E x \in S : h[x] = y
  OBVIOUS
<1>2. h \in Bijection(S, T)
  BY <1>1 DEF Bijection, Injection, Surjection, IsInjective
<1>3. ExistsBijection(S, T)
  BY <1>2 DEF ExistsBijection
<1> QED BY <1>3, FS_Bijection

(* The indices of a sequence.                                              *)
LEMMA IntervalFacts ==
  \A n \in Nat : IsFiniteSet(0 .. n) /\ IsFiniteSet(1 .. n) /\ Cardinality(1 .. n) = n
<1> SUFFICES ASSUME NEW n \in Nat
             PROVE  IsFiniteSet(0 .. n) /\ IsFiniteSet(1 .. n) /\ Cardinality(1 .. n) = n
  OBVIOUS
<1>1. 0 \in Int /\ 1 \in Int /\ n \in Int
  OBVIOUS
<1>2. IsFiniteSet(0 .. n) /\ IsFiniteSet(1 .. n)
  BY <1>1, FS_Interval, Zenon
<1>3. Cardinality(1 .. n) = IF 1 > n THEN 0 ELSE n - 1 + 1
  BY <1>1, FS_Interval, Zenon
<1> QED BY <1>2, <1>3

(* A new batch is one file, however large and however its items are        *)
(* ordered: only rewrites are split.                                       *)
THEOREM NewBatchAlwaysWhole == ShardSpec => []NewBatchWhole
<1>1. ShardInv => NewBatchWhole
  <2> SUFFICES ASSUME ShardInv, generation = 0 PROVE Cardinality(Parts) <= 1
    BY DEF NewBatchWhole
  <2>1. DOMAIN shards \subseteq {0} /\ fragments = <<>>
    BY DEF ShardInv
  <2>2. Parts \in SUBSET {shards[0].objects}
    BY <2>1 DEF Parts, Range
  <2>3. IsFiniteSet({shards[0].objects}) /\ Cardinality({shards[0].objects}) = 1
    BY FS_Singleton
  <2>4. Cardinality(Parts) <= Cardinality({shards[0].objects})
    BY <2>2, <2>3, FS_Subset
  <2> QED BY <2>3, <2>4
<1> QED BY <1>1, ShardInduction, PTL

(* Whatever the sizes and the order of the items, shard_batch writes every *)
(* object of the batch to exactly one file, with the last value it was     *)
(* given, and no file is empty.                                            *)
THEOREM PartsAlwaysComplete == ShardSpec => []PartsComplete
<1>1. ShardInv => PartsComplete
  <2> SUFFICES ASSUME ShardInv PROVE PartsComplete
    OBVIOUS
  <2> DEFINE A == {shards[s].objects : s \in DOMAIN shards}
             B == {fragments[i] : i \in DOMAIN fragments}
             g == [s \in DOMAIN shards |-> shards[s].objects]
  <2>1. Parts = A \cup B
    BY DEF Parts, Range
  <2>2. \A p \in Parts : DOMAIN p # {} /\ LastGiven(items, p)
    BY <2>1 DEF ShardInv
  <2>3. Cardinality(Parts) = Cardinality(DOMAIN shards) + Len(fragments)
    <3>1. IsFiniteSet(DOMAIN shards) /\ IsFiniteSet(DOMAIN fragments)
          /\ Cardinality(DOMAIN fragments) = Len(fragments)
      <4>1. IsFiniteSet(0 .. 3)
        BY IntervalFacts
      <4>4. DOMAIN shards \in SUBSET (0 .. 3)
        BY DEF ShardInv, ShardTypeOK
      <4>2. Len(fragments) \in Nat /\ DOMAIN fragments = 1 .. Len(fragments)
        BY DEF ShardInv, ShardTypeOK
      <4>3. IsFiniteSet(DOMAIN shards)
        BY <4>1, <4>4, FS_Subset
      <4>5. IsFiniteSet(1 .. Len(fragments)) /\ Cardinality(1 .. Len(fragments)) = Len(fragments)
        BY <4>2, IntervalFacts
      <4> QED BY <4>2, <4>3, <4>5
    <3>2. \A s, r \in DOMAIN shards : g[s] = g[r] => s = r
      BY DEF ShardInv, Apart
    <3>3. IsFiniteSet({g[s] : s \in DOMAIN shards})
          /\ Cardinality({g[s] : s \in DOMAIN shards}) = Cardinality(DOMAIN shards)
      <4> HIDE DEF g
      <4> QED BY <3>1, <3>2, ImageCardinality
    <3>4. A = {g[s] : s \in DOMAIN shards}
      OBVIOUS
    <3>5. \A i, j \in DOMAIN fragments : fragments[i] = fragments[j] => i = j
      BY DEF ShardInv, Apart
    <3>6. IsFiniteSet(B) /\ Cardinality(B) = Cardinality(DOMAIN fragments)
      BY <3>1, <3>5, ImageCardinality
    <3>7. A \cap B = {}
      BY DEF ShardInv, Apart
    <3>8. Cardinality(A \cup B) = Cardinality(A) + Cardinality(B) - Cardinality(A \cap B)
      <4> HIDE DEF A, B, g
      <4> QED BY <3>3, <3>4, <3>6, FS_Union
    <3>9. Cardinality(A \cap B) = 0
      <4> HIDE DEF A, B
      <4> QED BY <3>7, FS_EmptySet
    <3>10. Cardinality(DOMAIN shards) \in Nat /\ Len(fragments) \in Nat
      BY <3>1, FS_CardinalityType DEF ShardInv, ShardTypeOK
    <3>11. Cardinality(A) = Cardinality(DOMAIN shards) /\ Cardinality(B) = Len(fragments)
      BY <3>1, <3>3, <3>4, <3>6
    <3> HIDE DEF A, B
    <3> QED BY <2>1, <3>8, <3>9, <3>10, <3>11
  <2>4. ASSUME NEW k \in DOMAIN items
        PROVE  /\ Cardinality({p \in Parts : items[k].id \in DOMAIN p}) = 1
               /\ \E p \in Parts : /\ items[k].id \in DOMAIN p
                                   /\ p[items[k].id] = LastSize(items[k].id)
    <3> DEFINE o == items[k].id
    <3>1. PICK p \in Parts : o \in DOMAIN p
      BY <2>1 DEF ShardInv
    <3>2. \A q \in Parts : o \in DOMAIN q => q = p
      BY <2>1, <3>1 DEF ShardInv, Apart
    <3>3. {q \in Parts : o \in DOMAIN q} = {p}
      BY <3>1, <3>2
    <3>4. PICK m \in DOMAIN items :
            /\ items[m].id = o /\ items[m].size = p[o]
            /\ \A n \in DOMAIN items : n > m => items[n].id # o
      BY <2>2, <3>1 DEF LastGiven
    <3>5. Max({i \in DOMAIN items : items[i].id = o}) = m
      <4>1. m \in Nat /\ \A n \in DOMAIN items : n \in Nat
        BY DEF ShardInv, ShardTypeOK
      <4>2. /\ m \in {i \in DOMAIN items : items[i].id = o}
            /\ \A y \in {i \in DOMAIN items : items[i].id = o} : m >= y
        BY <3>4, <4>1
      <4>3. \A x \in {i \in DOMAIN items : items[i].id = o} : x >= m => x = m
        BY <3>4, <4>1
      <4> QED BY <4>2, <4>3 DEF Max
    <3>6. p[o] = LastSize(o)
      BY <3>4, <3>5 DEF LastSize
    <3>7. Cardinality({p}) = 1
      BY FS_Singleton
    <3> QED BY <3>1, <3>3, <3>6, <3>7
  <2> QED BY <2>2, <2>3, <2>4 DEF PartsComplete
<1> QED BY <1>1, ShardInduction, PTL

(***************************************************************************)
(* The sizes of rewritten files.                                           *)
(***************************************************************************)
(* What an item adds is a number of bytes.                                 *)
LEMMA ItemSizeType ==
  ASSUME NEW p \in PartObjects, NEW o \in DOMAIN p
  PROVE  ItemSize(p[o]) \in Nat
<1>1. p[o] \in GivenSizes
  BY ObjectsFacts
<1>2. PICK z \in GivenSizes : z = p[o]
  BY <1>1
<1>3. ItemSize(z) \in Nat
  <2>1. CASE z = Deleted
    BY <2>1 DEF ItemSize
  <2>2. CASE z # Deleted
    <3>1. z \in Nat
      BY <2>2, ShardAssumption DEF GivenSizes
    <3> QED BY <2>2, <3>1 DEF ItemSize, HeaderLen
  <2> QED BY <2>1, <2>2
<1> QED BY <1>2, <1>3

(* An object more in a part adds its bytes.                                *)
LEMMA BytesInsert ==
  ASSUME NEW p \in PartObjects, IsFiniteSet(DOMAIN p), NEW q \in PartObjects, NEW o,
         o \notin DOMAIN p, DOMAIN q = DOMAIN p \cup {o},
         \A x \in DOMAIN p : q[x] = p[x]
  PROVE  /\ IsFiniteSet(DOMAIN q) /\ Bytes(p) \in Nat /\ ItemSize(q[o]) \in Nat
         /\ Bytes(q) = Bytes(p) + ItemSize(q[o])
<1>1. IsFiniteSet(DOMAIN q)
  BY FS_AddElement
<1>2. PICK v, f : v = Weights(p) /\ Adds(f, v, SUBSET DOMAIN p) /\ Bytes(p) = f[DOMAIN p]
  BY BytesAdds
<1>3. PICK w, g : w = Weights(q) /\ Adds(g, w, SUBSET DOMAIN q) /\ Bytes(q) = g[DOMAIN q]
  BY <1>1, BytesAdds
<1>4. \A x \in DOMAIN q : w[x] \in Nat /\ w[x] = ItemSize(q[x])
  BY <1>3, ItemSizeType DEF Weights
<1>5. \A x \in DOMAIN p : v[x] = w[x]
  BY <1>2, <1>3, <1>4 DEF Weights
<1>6. PICK R, S : /\ R = DOMAIN p /\ S = DOMAIN q /\ IsFiniteSet(S) /\ R \in SUBSET S
                  /\ Adds(f, v, SUBSET R) /\ Adds(g, w, SUBSET S) /\ S \ {o} = R /\ o \in S
  BY <1>1, <1>2, <1>3
<1>7. f[R] = g[R]
  <2>1. /\ \A x \in R : v[x] = w[x]
        /\ \A x \in S : w[x] \in Nat
    BY <1>4, <1>5, <1>6
  <2> QED BY ONLY <1>6, <2>1, AddsSame
<1>8. /\ \A s \in SUBSET S : g[s] \in Nat
      /\ \A s \in SUBSET S : \A x \in s : g[s] = w[x] + g[s \ {x}]
  <2>1. \A x \in S : w[x] \in Nat
    BY <1>4, <1>6
  <2> QED BY ONLY <1>6, <2>1, AddsSplit
<1>9. g[S] = w[o] + g[R] /\ g[R] \in Nat
  <2>1. S \in SUBSET S
    OBVIOUS
  <2> QED BY ONLY <1>6, <1>8, <2>1
<1>10. w[o] = ItemSize(q[o]) /\ w[o] \in Nat
  BY <1>4
<1> QED BY <1>1, <1>2, <1>3, <1>6, <1>7, <1>9, <1>10

(* A part without objects has no bytes.                                    *)
LEMMA BytesEmpty ==
  ASSUME NEW p, DOMAIN p = {}
  PROVE  Bytes(p) = 0
<1>1. PICK f : Adds(f, Weights(p), SUBSET DOMAIN p) /\ Bytes(p) = f[DOMAIN p]
  BY BytesAdds, FS_EmptySet
<1> QED BY <1>1 DEF Adds

(* A part that exceeds the target size by one of its objects at most.      *)
NearTarget(p) ==
  IsFiniteSet(DOMAIN p) /\ \E o \in DOMAIN p : Bytes(p) - ItemSize(p[o]) <= TargetSize

(* In a rewrite, where no object is replaced, the size of a shard is that  *)
(* of its objects.                                                         *)
SizesInv ==
  generation > 0 =>
    /\ \A s \in DOMAIN shards :
         shards[s].size = Bytes(shards[s].objects) /\ NearTarget(shards[s].objects)
    /\ \A i \in DOMAIN fragments :
         Bytes(fragments[i]) > TargetSize /\ NearTarget(fragments[i])

(* One item keeps the sizes exact.                                         *)
LEMMA SizesItem ==
  ASSUME ShardInv, SizesInv, NEW o \in ItemIds, NEW size \in GivenSizes, TakeItem(o, size)
  PROVE  SizesInv'
<1> SUFFICES ASSUME generation > 0 PROVE SizesInv'
  BY DEF TakeItem, SizesInv
<1> DEFINE s == ShardOf(size)
           from == IF OverSize(s) THEN EmptyShard ELSE Shard(s)
<1>1. /\ shards' = With(shards, s, Insert(from, o, size))
      /\ fragments' = IF OverSize(s) THEN Append(fragments, shards[s].objects) ELSE fragments
      /\ \A i \in DOMAIN items : items[i].id # o
  BY DEF TakeItem
<1>2. TargetSize \in Nat /\ EmptyShard.size = 0 /\ DOMAIN EmptyShard.objects = {}
  BY ShardAssumption DEF EmptyShard
<1>3. EmptyShard.objects \in PartObjects
  <2>1. EmptyShard.objects \in [{} -> GivenSizes]
    BY DEF EmptyShard
  <2> QED BY <2>1, ObjectsFacts
<1>4. ASSUME OverSize(s)
      PROVE  s \in DOMAIN shards /\ shards[s].size > TargetSize
  BY <1>2, <1>4 DEF OverSize, Shard
<1>5. /\ from.objects \in PartObjects /\ IsFiniteSet(DOMAIN from.objects)
      /\ from.size = Bytes(from.objects) /\ o \notin DOMAIN from.objects
      /\ ~ (from.size > TargetSize)
  <2>1. CASE from = EmptyShard
    <3>1. PICK e : e = EmptyShard
      OBVIOUS
    <3>2. from = e /\ e.size = 0 /\ DOMAIN e.objects = {} /\ e.objects \in PartObjects
      BY <1>2, <1>3, <2>1, <3>1
    <3> HIDE DEF from
    <3>3. Bytes(e.objects) = 0
      BY <3>2, BytesEmpty
    <3>4. IsFiniteSet(DOMAIN e.objects)
      BY <3>2, FS_EmptySet
    <3> QED BY <1>2, <3>2, <3>3, <3>4
  <2>2. CASE from # EmptyShard
    <3>1. s \in DOMAIN shards /\ from = shards[s] /\ ~ OverSize(s)
      BY <2>2 DEF Shard
    <3>2. o \notin DOMAIN shards[s].objects
      BY <1>1, <3>1 DEF ShardInv, LastGiven
    <3> HIDE DEF from, s
    <3> QED BY <3>1, <3>2 DEF SizesInv, NearTarget, ShardInv, ShardTypeOK, OverSize, Shard
  <2> QED BY <2>1, <2>2
<1> HIDE DEF from
<1>6. PICK q : q = Insert(from, o, size).objects
  OBVIOUS
<1>7. /\ q \in PartObjects /\ DOMAIN q = DOMAIN from.objects \cup {o} /\ q[o] = size
      /\ \A x \in DOMAIN from.objects : q[x] = from.objects[x]
  BY <1>5, <1>6, InsertFacts
<1>8. /\ IsFiniteSet(DOMAIN q) /\ Bytes(q) = from.size + ItemSize(size)
      /\ from.size \in Nat /\ ItemSize(size) \in Nat
  BY <1>5, <1>7, BytesInsert
<1>9. NearTarget(q)
  <2>1. Bytes(q) - ItemSize(q[o]) <= TargetSize
    BY <1>2, <1>5, <1>7, <1>8
  <2> QED BY <1>7, <1>8, <2>1 DEF NearTarget
<1>10. Insert(from, o, size).size = Bytes(q)
  BY <1>5, <1>8 DEF Insert
<1>11. /\ DOMAIN shards' = DOMAIN shards \cup {s}
       /\ \A r \in DOMAIN shards : r # s => shards'[r] = shards[r]
       /\ shards'[s] = Insert(from, o, size)
  <2> HIDE DEF s
  <2> QED BY <1>1 DEF With
<1>12. ASSUME NEW r \in DOMAIN shards'
       PROVE  shards'[r].size = Bytes(shards'[r].objects) /\ NearTarget(shards'[r].objects)
  <2> HIDE DEF s
  <2>1. CASE r = s
    BY <1>6, <1>9, <1>10, <1>11, <2>1
  <2>2. CASE r # s
    BY <1>11, <2>2 DEF SizesInv
  <2> QED BY <2>1, <2>2
<1>13. ASSUME NEW i \in DOMAIN fragments'
       PROVE  Bytes(fragments'[i]) > TargetSize /\ NearTarget(fragments'[i])
  <2>1. CASE ~ OverSize(s)
    BY <1>1, <2>1 DEF SizesInv
  <2>2. CASE OverSize(s)
    <3>1. /\ s \in DOMAIN shards /\ Bytes(shards[s].objects) > TargetSize
          /\ NearTarget(shards[s].objects)
      BY <1>4, <2>2 DEF SizesInv
    <3>2. fragments \in Seq(PartObjects) /\ shards[s].objects \in PartObjects
      BY <3>1 DEF ShardInv, ShardTypeOK
    <3>3. fragments' = Append(fragments, shards[s].objects)
      BY <1>1, <2>2
    <3> HIDE DEF s
    <3>4. \/ i = Len(fragments) + 1 /\ fragments'[i] = shards[s].objects
          \/ i \in DOMAIN fragments /\ fragments'[i] = fragments[i]
      BY <3>2, <3>3, AppendProperties
    <3> QED BY <3>1, <3>4 DEF SizesInv
  <2> QED BY <2>1, <2>2
<1> QED BY <1>12, <1>13
        DEF SizesInv, NearTarget, Bytes, ItemSize, MapThenSumSet, MapThenFoldSet

(* Whatever the sizes and the order of the objects, no file of a rewrite   *)
(* exceeds target_file_size by more than one object, and none is closed    *)
(* before it is over the target.                                           *)
THEOREM RewritesAlwaysNearTarget == ShardSpec => []RewritesNearTarget
<1>1. ShardInit => SizesInv
  BY DEF ShardInit, SizesInv
<1>2. ShardInv /\ SizesInv /\ [ShardNext]_shardVars => SizesInv'
  <2>1. ASSUME SizesInv, UNCHANGED shardVars PROVE SizesInv'
    <3>1. shards' = shards /\ fragments' = fragments /\ generation' = generation
      BY <2>1 DEF shardVars
    <3>2. generation' > 0 =>
            /\ \A s \in DOMAIN shards' :
                 shards'[s].size = Bytes(shards'[s].objects) /\ NearTarget(shards'[s].objects)
            /\ \A i \in DOMAIN fragments' :
                 Bytes(fragments'[i]) > TargetSize /\ NearTarget(fragments'[i])
      BY <2>1, <3>1 DEF SizesInv
    <3> QED BY <3>2 DEF SizesInv, NearTarget, Bytes, ItemSize, MapThenSumSet, MapThenFoldSet
  <2> QED BY <2>1, SizesItem DEF ShardNext, GivenSizes
<1>3. ShardInv /\ SizesInv => RewritesNearTarget
  <2> SUFFICES ASSUME SizesInv, generation > 0
               PROVE  /\ \A p \in Parts : \E o \in DOMAIN p : Bytes(p) - ItemSize(p[o]) <= TargetSize
                      /\ \A i \in DOMAIN fragments : Bytes(fragments[i]) > TargetSize
    BY DEF RewritesNearTarget
  <2>1. \A p \in Parts : NearTarget(p)
    BY DEF Parts, SizesInv, Range
  <2> QED BY <2>1 DEF SizesInv, NearTarget
<1> QED BY <1>1, <1>2, <1>3, ShardInduction, PTL DEF ShardSpec

(* The size of a shard is at least that of its objects: a replaced object  *)
(* leaves its header behind.                                               *)
CoverInv ==
  \A s \in DOMAIN shards : LET p == shards[s].objects IN
    IsFiniteSet(DOMAIN p) /\ shards[s].size \in Nat /\ Bytes(p) <= shards[s].size

(* What is subtracted for an object was added for it.                      *)
LEMMA ReplacedCovered ==
  ASSUME NEW p \in PartObjects, NEW o \in DOMAIN p
  PROVE  LET replaced == IF p[o] # Deleted THEN p[o] ELSE 0
         IN  replaced \in Nat /\ replaced <= ItemSize(p[o])
<1>1. p[o] \in GivenSizes
  BY ObjectsFacts
<1>2. PICK z \in GivenSizes : z = p[o]
  BY <1>1
<1>3. CASE z = Deleted
  BY <1>2, <1>3 DEF ItemSize
<1>4. CASE z # Deleted
  <2>1. z \in Nat
    BY <1>4, ShardAssumption DEF GivenSizes
  <2> QED BY <1>2, <1>4, <2>1 DEF ItemSize, HeaderLen
<1> QED BY <1>3, <1>4

(* An object that takes the place of another in a part.                    *)
LEMMA BytesReplace ==
  ASSUME NEW p \in PartObjects, IsFiniteSet(DOMAIN p), NEW q \in PartObjects,
         NEW o \in DOMAIN p, DOMAIN q = DOMAIN p,
         \A x \in DOMAIN p : x # o => q[x] = p[x]
  PROVE  /\ IsFiniteSet(DOMAIN q) /\ Bytes(p) \in Nat /\ Bytes(q) \in Nat
         /\ ItemSize(p[o]) \in Nat /\ ItemSize(q[o]) \in Nat
         /\ Bytes(q) = Bytes(p) - ItemSize(p[o]) + ItemSize(q[o])
<1> DEFINE r == [x \in DOMAIN p \ {o} |-> p[x]]
<1>1. DOMAIN r = DOMAIN p \ {o} /\ \A x \in DOMAIN r : r[x] = p[x] /\ r[x] = q[x]
  OBVIOUS
<1>2. r \in PartObjects
  <2>1. DOMAIN p \ {o} \subseteq ItemIds /\ \A x \in DOMAIN p : p[x] \in GivenSizes
    BY ObjectsFacts
  <2>2. r \in [DOMAIN p \ {o} -> GivenSizes]
    BY <2>1
  <2> QED BY <2>1, <2>2, ObjectsFacts
<1> HIDE DEF r
<1>3. IsFiniteSet(DOMAIN r)
  BY <1>1, FS_RemoveElement
<1>4. o \notin DOMAIN r /\ DOMAIN p = DOMAIN r \cup {o} /\ DOMAIN q = DOMAIN r \cup {o}
  BY <1>1
<1>5. Bytes(r) \in Nat /\ ItemSize(p[o]) \in Nat /\ Bytes(p) = Bytes(r) + ItemSize(p[o])
  BY <1>1, <1>2, <1>3, <1>4, BytesInsert
<1>6. /\ IsFiniteSet(DOMAIN q) /\ ItemSize(q[o]) \in Nat
      /\ Bytes(q) = Bytes(r) + ItemSize(q[o])
  BY <1>1, <1>2, <1>3, <1>4, BytesInsert
<1> QED BY <1>5, <1>6

(* shard.1.insert keeps the size of a shard above that of its objects.     *)
LEMMA InsertCovers ==
  ASSUME NEW from, from.objects \in PartObjects, IsFiniteSet(DOMAIN from.objects),
         from.size \in Nat, Bytes(from.objects) <= from.size,
         NEW o \in ItemIds, NEW size \in GivenSizes
  PROVE  LET into == Insert(from, o, size)
         IN  /\ IsFiniteSet(DOMAIN into.objects) /\ into.size \in Nat
             /\ Bytes(into.objects) <= into.size
<1>1. PICK into : into = Insert(from, o, size)
  OBVIOUS
<1>2. /\ into.objects \in PartObjects /\ DOMAIN into.objects = DOMAIN from.objects \cup {o}
      /\ into.objects[o] = size
      /\ \A x \in DOMAIN from.objects : x # o => into.objects[x] = from.objects[x]
  BY <1>1, InsertFacts
<1>3. CASE o \notin DOMAIN from.objects
  <2>1. /\ IsFiniteSet(DOMAIN into.objects) /\ Bytes(from.objects) \in Nat
        /\ ItemSize(size) \in Nat
        /\ Bytes(into.objects) = Bytes(from.objects) + ItemSize(size)
    BY <1>2, <1>3, BytesInsert
  <2>2. into.size = from.size + ItemSize(size)
    <3>1. into.size = from.size + ItemSize(size) - 0
      BY <1>1, <1>3 DEF Insert
    <3> QED BY <2>1, <3>1
  <2> QED BY <1>1, <2>1, <2>2
<1>4. CASE o \in DOMAIN from.objects
  <2>1. PICK replaced : replaced = IF from.objects[o] # Deleted THEN from.objects[o] ELSE 0
    OBVIOUS
  <2>2. replaced \in Nat /\ replaced <= ItemSize(from.objects[o])
    BY <1>4, <2>1, ReplacedCovered
  <2>3. DOMAIN into.objects = DOMAIN from.objects
    BY <1>2, <1>4
  <2>4. /\ IsFiniteSet(DOMAIN into.objects) /\ Bytes(from.objects) \in Nat
        /\ Bytes(into.objects) \in Nat
        /\ ItemSize(from.objects[o]) \in Nat /\ ItemSize(size) \in Nat
        /\ Bytes(into.objects) = Bytes(from.objects) - ItemSize(from.objects[o])
                                 + ItemSize(size)
    BY <1>2, <1>4, <2>3, BytesReplace
  <2>5. into.size = from.size + ItemSize(size) - replaced
    BY <1>1, <1>4, <2>1 DEF Insert
  <2>6. Bytes(into.objects) <= into.size /\ into.size \in Nat
    BY <2>2, <2>4, <2>5
  <2> QED BY <1>1, <2>4, <2>6
<1> QED BY <1>3, <1>4

(* One item keeps the sizes above the objects.                             *)
LEMMA CoverItem ==
  ASSUME ShardInv, CoverInv, NEW o \in ItemIds, NEW size \in GivenSizes, TakeItem(o, size)
  PROVE  \A r \in DOMAIN shards' :
           /\ IsFiniteSet(DOMAIN shards'[r].objects) /\ shards'[r].size \in Nat
           /\ Bytes(shards'[r].objects) <= shards'[r].size
<1>1. PICK s, from : /\ shards' = With(shards, s, Insert(from, o, size))
                     /\ from = EmptyShard \/ (s \in DOMAIN shards /\ from = shards[s])
  BY DEF TakeItem, Shard
<1>2. /\ from.objects \in PartObjects /\ IsFiniteSet(DOMAIN from.objects)
      /\ from.size \in Nat /\ Bytes(from.objects) <= from.size
  <2>1. CASE from = EmptyShard
    <3>1. from.size = 0 /\ DOMAIN from.objects = {} /\ from.objects \in [{} -> GivenSizes]
      BY <2>1 DEF EmptyShard
    <3>2. from.objects \in PartObjects
      BY <3>1, ObjectsFacts
    <3>3. Bytes(from.objects) = 0
      BY <3>1, BytesEmpty
    <3> QED BY <3>1, <3>2, <3>3, FS_EmptySet
  <2>2. CASE s \in DOMAIN shards /\ from = shards[s]
    BY <2>2 DEF CoverInv, ShardInv, ShardTypeOK
  <2> QED BY <1>1, <2>1, <2>2
<1>3. PICK into : into = Insert(from, o, size)
  OBVIOUS
<1>4. /\ IsFiniteSet(DOMAIN into.objects) /\ into.size \in Nat
      /\ Bytes(into.objects) <= into.size
  BY <1>2, <1>3, InsertCovers
<1>5. /\ DOMAIN shards' = DOMAIN shards \cup {s} /\ shards'[s] = into
      /\ \A r \in DOMAIN shards : r # s => shards'[r] = shards[r]
  BY <1>1, <1>3 DEF With
<1>6. ASSUME NEW r \in DOMAIN shards'
      PROVE  /\ IsFiniteSet(DOMAIN shards'[r].objects) /\ shards'[r].size \in Nat
             /\ Bytes(shards'[r].objects) <= shards'[r].size
  <2>1. CASE r = s
    BY <1>4, <1>5, <2>1
  <2>2. CASE r # s
    BY <1>5, <2>2 DEF CoverInv
  <2> QED BY <2>1, <2>2
<1> QED BY <1>6

(* The unsigned size of a shard never wraps below 0, in whatever order a   *)
(* batch writes and deletes an id again: it covers the objects of the      *)
(* shard, so what shard_batch subtracts for one of them was counted.       *)
THEOREM SizesAlwaysCover == ShardSpec => []SizesCover
<1>1. ShardInit => CoverInv
  BY DEF ShardInit, CoverInv
<1>2. ShardInv /\ CoverInv /\ [ShardNext]_shardVars => CoverInv'
  <2> SUFFICES ASSUME ShardInv, CoverInv, [ShardNext]_shardVars PROVE CoverInv'
    OBVIOUS
  <2>1. \A r \in DOMAIN shards' :
          /\ IsFiniteSet(DOMAIN shards'[r].objects) /\ shards'[r].size \in Nat
          /\ Bytes(shards'[r].objects) <= shards'[r].size
    <3>1. CASE shards' = shards
      BY <3>1 DEF CoverInv
    <3>2. CASE ShardNext
      BY <3>2, CoverItem DEF ShardNext, GivenSizes
    <3> QED BY <3>1, <3>2 DEF shardVars
  <2> QED BY <2>1 DEF CoverInv, Bytes, ItemSize, MapThenSumSet, MapThenFoldSet
<1>3. ShardInv /\ CoverInv => SizesCover
  <2> SUFFICES ASSUME ShardInv, CoverInv, NEW s \in DOMAIN shards
               PROVE  shards[s].size >= Bytes(shards[s].objects)
    BY DEF SizesCover
  <2>1. shards[s].size \in Nat /\ Bytes(shards[s].objects) <= shards[s].size
    BY DEF CoverInv
  <2>2. Bytes(shards[s].objects) \in Nat
    <3>1. shards[s].objects \in PartObjects /\ IsFiniteSet(DOMAIN shards[s].objects)
          /\ DOMAIN shards[s].objects # {}
      BY DEF ShardInv, ShardTypeOK, CoverInv
    <3> QED BY <3>1, BytesReplace
  <2> QED BY <2>1, <2>2
<1> QED BY <1>1, <1>2, <1>3, ShardInduction, PTL DEF ShardSpec

(***************************************************************************)
(* The loop of the benchmark.                                              *)
(***************************************************************************)
(* A file on the way: what is closed has objects.                          *)
Splitting == [closed : SUBSET ((SUBSET Objects) \ {{}}), open : SUBSET Objects]

(* One object more on the way.                                             *)
AddItem(acc, o, deleted) ==
  IF DataSize(acc.open, deleted) > TargetFileSize
  THEN [closed |-> acc.closed \cup {acc.open}, open |-> {o}]
  ELSE [acc EXCEPT !.open = @ \cup {o}]

(* Nothing of no size is closed.                                           *)
LEMMA DataSizeEmpty == \A deleted : DataSize({}, deleted) = 0
<1> SUFFICES ASSUME NEW deleted PROVE DataSize({}, deleted) = 0
  OBVIOUS
<1> DEFINE Step(g) == [s \in SUBSET ({} \ deleted) |->
                         IF s = {} THEN 0 ELSE LET x == CHOOSE x \in s : TRUE
                                               IN  SizeOfObject[x] + g[s \ {x}]]
           sum == CHOOSE g : g = Step(g)
<1>1. DataSize({}, deleted) = sum[{} \ deleted]
  BY DEF DataSize, MapThenSumSet, MapThenFoldSet
<1>2. [s \in {{}} |-> 0] = Step([s \in {{}} |-> 0])
  OBVIOUS
<1>3. sum = Step(sum)
  <2> HIDE DEF Step
  <2> QED BY <1>2
<1> HIDE DEF sum
<1>4. sum[{}] = 0
  BY <1>3
<1> QED BY <1>1, <1>4

(* An object goes to the open file, or to a new one behind it.             *)
LEMMA AddItemFacts ==
  ASSUME NEW acc \in Splitting, NEW o \in Objects, NEW deleted
  PROVE  AddItem(acc, o, deleted) \in Splitting /\ AddItem(acc, o, deleted).open # {}
<1>1. CASE DataSize(acc.open, deleted) > TargetFileSize
  <2>1. acc.open # {}
    <3>1. ~ (0 > TargetFileSize)
      BY CompactionAssumption
    <3> QED BY <1>1, <3>1, DataSizeEmpty
  <2> QED BY <1>1, <2>1 DEF AddItem, Splitting
<1>2. CASE ~ (DataSize(acc.open, deleted) > TargetFileSize)
  BY <1>2 DEF AddItem, Splitting
<1> QED BY <1>1, <1>2

(* How the parts come about, over the indices of the items.                *)
IsSplit(all, n, ids, deleted) ==
  /\ PartsInOrder(ids, deleted) = all[1 .. n].closed \cup {all[1 .. n].open}
  /\ all[{}] = [closed |-> {}, open |-> {}]
  /\ \A s \in SUBSET (1 .. n) : all[s] \in Splitting /\ (s # {} => all[s].open # {})
  /\ \A s \in SUBSET (1 .. n) : s # {} =>
       \E x \in s : all[s] = AddItem(all[s \ {x}], ids[x], deleted)

(* The fold over the items of a shard is such a function.                  *)
LEMMA PartsFold ==
  ASSUME NEW n \in Nat \ {0}, NEW ids \in [1 .. n -> Objects], NEW deleted
  PROVE  \E all : IsSplit(all, n, ids, deleted)
<1> DEFINE base == [closed |-> {}, open |-> {}]
           Step(g) == [s \in SUBSET DOMAIN ids |->
                         IF s = {} THEN base ELSE LET x == Max(s)
                                                  IN  AddItem(g[s \ {x}], ids[x], deleted)]
           all == CHOOSE g : g = Step(g)
<1>1. PartsInOrder(ids, deleted) = all[DOMAIN ids].closed \cup {all[DOMAIN ids].open}
  BY DEF PartsInOrder, FoldLeft, MapThenFoldSet, AddItem
<1>2. DOMAIN ids = 1 .. n /\ IsFiniteSet(DOMAIN ids) /\ base \in Splitting
  BY IntervalFacts DEF Splitting
<1>3. ASSUME NEW s \in SUBSET DOMAIN ids, s # {}
      PROVE  Max(s) \in s /\ ids[Max(s)] \in Objects
  BY <1>2, <1>3, MaxFacts
<1> DEFINE op == [x \in DOMAIN ids |-> [acc \in Splitting |-> AddItem(acc, ids[x], deleted)]]
           pick == [s \in SUBSET DOMAIN ids |-> Max(s)]
<1>4. \A x \in DOMAIN ids : \A acc \in Splitting :
        /\ op[x][acc] = AddItem(acc, ids[x], deleted)
        /\ op[x][acc] \in Splitting /\ op[x][acc].open # {}
  BY AddItemFacts
<1>5. \A s \in SUBSET DOMAIN ids : s # {} => pick[s] = Max(s) /\ pick[s] \in s
  BY <1>3
<1> HIDE DEF op, pick, base
<1>6. PICK fold : Folds(fold, base, op, pick, DOMAIN ids)
  BY <1>2, <1>5, FoldsExists
<1> DEFINE Good(g, s) == g[s] \in Splitting /\ (s # {} => g[s].open # {})
<1>7. ASSUME NEW g,
             \/ Folds(g, base, op, pick, DOMAIN ids)
             \/ g = Step(g)
      PROVE  \A s \in SUBSET DOMAIN ids : Good(g, s)
  <2> DEFINE T == {m \in Nat : \E s \in SUBSET DOMAIN ids : Cardinality(s) = m /\ ~ Good(g, s)}
  <2>1. ASSUME NEW s \in SUBSET DOMAIN ids, s # {}, Good(g, s \ {Max(s)}) PROVE Good(g, s)
    <3>1. PICK x \in s : x = Max(s) /\ x = pick[s] /\ ids[x] \in Objects /\ x \in DOMAIN ids
      BY <1>3, <1>5, <2>1
    <3>2. \/ g[s] = op[x][g[s \ {x}]]
          \/ g[s] = AddItem(g[s \ {x}], ids[x], deleted)
      BY <1>7, <2>1, <3>1 DEF Folds
    <3>3. g[s \ {x}] \in Splitting
      BY <2>1, <3>1
    <3> QED BY <1>4, <3>1, <3>2, <3>3, AddItemFacts
  <2>2. Good(g, {})
    BY <1>2, <1>7 DEF Folds
  <2> HIDE DEF Good
  <2>3. \A s \in SUBSET DOMAIN ids : IsFiniteSet(s) /\ Cardinality(s) \in Nat
    BY <1>2, FS_Subset, FS_CardinalityType
  <2>4. ASSUME T # {} PROVE FALSE
    <3>1. T \subseteq Nat
      OBVIOUS
    <3>2. PICK k \in T : \A m \in T : k <= m
      BY <2>4, <3>1, LeastNumber
    <3>3. PICK s \in SUBSET DOMAIN ids : Cardinality(s) = k /\ ~ Good(g, s)
      BY <3>2
    <3>4. PICK x \in s : x = Max(s)
      BY <1>3, <2>2, <3>3
    <3>5. Cardinality(s \ {x}) = k - 1 /\ k \in Nat \ {0}
      BY <2>3, <3>3, LessOne
    <3>6. k - 1 \notin T
      <4> HIDE DEF T
      <4> QED BY <3>1, <3>2, <3>5
    <3>7. Good(g, s \ {x})
      BY <3>5, <3>6
    <3> QED BY <2>1, <3>3, <3>4, <3>7
  <2> QED BY <2>3, <2>4
<1>8. fold = Step(fold)
  <2>1. ASSUME NEW s \in SUBSET DOMAIN ids, s # {}
        PROVE  op[pick[s]][fold[s \ {pick[s]}]] = AddItem(fold[s \ {Max(s)}], ids[Max(s)], deleted)
    BY <1>3, <1>4, <1>5, <1>6, <1>7, <2>1
  <2> QED BY <1>6, <2>1 DEF Folds
<1>9. all = Step(all)
  <2> HIDE DEF Step
  <2> QED BY <1>8
<1> HIDE DEF all
<1>10. \A s \in SUBSET DOMAIN ids : Good(all, s)
  BY <1>7, <1>9
<1>11. all[{}] = base
  BY <1>9
<1>12. ASSUME NEW s \in SUBSET DOMAIN ids, s # {}
       PROVE  \E x \in s : all[s] = AddItem(all[s \ {x}], ids[x], deleted)
  <2>1. PICK x \in s : x = Max(s)
    BY <1>3, <1>12
  <2>2. all[s] = AddItem(all[s \ {x}], ids[x], deleted)
    BY <1>9, <1>12, <2>1
  <2> QED BY <2>2
<1>13. IsSplit(all, n, ids, deleted)
  BY <1>1, <1>2, <1>10, <1>11, <1>12 DEF IsSplit, base
<1> QED BY <1>13

(* The files of a shard have objects, whatever the order of the items.     *)
LEMMA PartsFacts ==
  ASSUME NEW n \in Nat \ {0}, NEW ids \in [1 .. n -> Objects], NEW deleted
  PROVE  PartsInOrder(ids, deleted) \subseteq (SUBSET Objects) \ {{}}
<1>1. PICK all : IsSplit(all, n, ids, deleted)
  BY PartsFold
<1>2. 1 .. n # {}
  <2>1. 1 \in 1 .. n
    OBVIOUS
  <2> QED BY <2>1
<1>3. all[1 .. n] \in Splitting /\ all[1 .. n].open # {}
  BY <1>1, <1>2 DEF IsSplit
<1>4. PartsInOrder(ids, deleted) = all[1 .. n].closed \cup {all[1 .. n].open}
  BY <1>1 DEF IsSplit
<1> QED BY <1>3, <1>4 DEF Splitting

(* Every file has objects.                                                 *)
FilesInv ==
  /\ IsFiniteSet(files) /\ empty \in Nat
  /\ \A f \in files : {"live", "deleted"} \subseteq DOMAIN f
                       /\ f.live \in (SUBSET Objects) \ {{}}

(* After a call that rewrote nothing there is nothing to rewrite, although *)
(* that call has pruned files.                                             *)
IdleInv ==
  /\ (caller = "verifying" \/ (caller = "compacting" /\ cleaned_up = 0))
       => \A g \in 1 .. 3 : ~ Rewrites(g)
  /\ SecondCallIdle

(* The ways to write a group leave no file without objects.                *)
LEMMA SplitFacts ==
  ASSUME NEW group, LiveOf(group) \subseteq Objects, NEW split \in Splits(group)
  PROVE  IsFiniteSet(split) /\ split \subseteq (SUBSET Objects) \ {{}}
<1>1. PICK order \in Orders(group) :
        split = UNION {PartsInOrder(order[s], DeletedOf(group)) : s \in ShardsOf(group)}
  BY DEF Splits
<1>2. ASSUME NEW s \in ShardsOf(group)
      PROVE  PartsInOrder(order[s], DeletedOf(group)) \subseteq (SUBSET Objects) \ {{}}
  <2>1. s \subseteq Objects /\ s # {}
    BY DEF ShardsOf
  <2>2. IsFiniteSet(s)
    BY <2>1, FS_Subset, CompactionAssumption
  <2>3. Cardinality(s) \in Nat \ {0}
    BY <2>1, <2>2, FS_CardinalityType, FS_EmptySet
  <2>4. order[s] \in SetToSeqs(s)
    BY <1>1 DEF Orders
  <2>5. order[s] \in [1 .. Cardinality(s) -> Objects]
    BY <2>1, <2>4 DEF SetToSeqs
  <2> QED BY <2>3, <2>5, PartsFacts
<1>3. split \subseteq (SUBSET Objects) \ {{}}
  BY <1>1, <1>2
<1>4. IsFiniteSet(SUBSET Objects)
  BY FS_SUBSET, CompactionAssumption
<1> QED BY <1>3, <1>4, FS_Subset

(* The new files of a generation.                                          *)
LEMMA RewriteFacts ==
  ASSUME NEW g, NEW parts, IsFiniteSet(parts), parts \subseteq (SUBSET Objects) \ {{}}
  PROVE  /\ IsFiniteSet(Rewrite(g, parts))
         /\ \A f \in Rewrite(g, parts) : {"live", "deleted"} \subseteq DOMAIN f
                                        /\ f.live \in (SUBSET Objects) \ {{}}
<1> DEFINE new == [p \in parts |-> NewFile(g, p, p \cap DeletedOf(Group(g)))]
<1>1. Rewrite(g, parts) = {new[p] : p \in parts}
  BY DEF Rewrite
<1>2. IsFiniteSet({new[p] : p \in parts})
  <2> HIDE DEF new
  <2> QED BY ImageFinite
<1>3. ASSUME NEW f \in Rewrite(g, parts)
      PROVE  {"live", "deleted"} \subseteq DOMAIN f /\ f.live \in (SUBSET Objects) \ {{}}
  <2>1. PICK p \in parts : f = NewFile(g, p, p \cap DeletedOf(Group(g)))
    BY DEF Rewrite
  <2>2. f.live = p /\ {"live", "deleted"} \subseteq DOMAIN f
    BY <2>1 DEF NewFile
  <2> QED BY <2>2
<1> QED BY <1>1, <1>2, <1>3

(* The generations that a call rewrites.                                   *)
Groups == {g \in 1 .. 3 : Rewrites(g)}

(* They are finitely many, and each has something to rewrite.              *)
LEMMA GroupsFacts ==
  ASSUME FilesInv
  PROVE  /\ IsFiniteSet(Groups)
         /\ \A g \in Groups : /\ LiveOf(Group(g)) \subseteq Objects
                              /\ IsFiniteSet(LiveOf(Group(g))) /\ LiveOf(Group(g)) # {}
<1>1. IsFiniteSet(Groups)
  BY IntervalFacts, FS_Subset DEF Groups
<1>2. ASSUME NEW g \in Groups
      PROVE  /\ LiveOf(Group(g)) \subseteq Objects
             /\ IsFiniteSet(LiveOf(Group(g))) /\ LiveOf(Group(g)) # {}
  <2>1. Group(g) \subseteq files /\ Group(g) # {}
    BY DEF Group, Groups, Rewrites
  <2> HIDE DEF Group
  <2>2. LiveOf(Group(g)) \subseteq Objects /\ LiveOf(Group(g)) # {}
    BY <2>1 DEF LiveOf, FilesInv
  <2> QED BY <2>2, FS_Subset, CompactionAssumption
<1> QED BY <1>1, <1>2

(* A call leaves no file without objects.                                  *)
LEMMA MaintenanceFiles ==
  ASSUME FilesInv, Maintenance
  PROVE  FilesInv'
<1>1. PICK split \in [Groups -> UNION {Splits(Group(g)) : g \in Groups}] :
        /\ \A g \in Groups : split[g] \in Splits(Group(g))
        /\ files' = (files \ UNION {Group(g) : g \in Groups})
                      \cup UNION {Rewrite(g, split[g]) : g \in Groups}
  BY DEF Maintenance, Groups
<1>2. ASSUME NEW g \in Groups
      PROVE  /\ IsFiniteSet(Rewrite(g, split[g]))
             /\ \A f \in Rewrite(g, split[g]) : {"live", "deleted"} \subseteq DOMAIN f
                                               /\ f.live \in (SUBSET Objects) \ {{}}
  <2>1. PICK group, s : group = Group(g) /\ s = split[g] /\ s \in Splits(group)
    BY <1>1
  <2>2. LiveOf(group) \subseteq Objects
    BY <2>1, GroupsFacts
  <2>3. IsFiniteSet(s) /\ s \subseteq (SUBSET Objects) \ {{}}
    BY <2>1, <2>2, SplitFacts
  <2> QED BY <2>1, <2>3, RewriteFacts
<1>3. IsFiniteSet(UNION {Rewrite(g, split[g]) : g \in Groups})
  <2> DEFINE new == [g \in Groups |-> Rewrite(g, split[g])]
  <2>1. {Rewrite(g, split[g]) : g \in Groups} = {new[g] : g \in Groups}
    OBVIOUS
  <2>2. IsFiniteSet({new[g] : g \in Groups})
    <3> HIDE DEF new
    <3> QED BY GroupsFacts, ImageFinite
  <2>3. \A r \in {Rewrite(g, split[g]) : g \in Groups} : IsFiniteSet(r)
    BY <1>2
  <2> QED BY <2>1, <2>2, <2>3, FS_UNION
<1>4. IsFiniteSet(files')
  <2>1. IsFiniteSet(files \ UNION {Group(g) : g \in Groups})
    BY FS_Subset DEF FilesInv
  <2> QED BY <1>1, <1>3, <2>1, FS_Union
<1>5. empty' \in Nat
  BY DEF Maintenance
<1> QED BY <1>1, <1>2, <1>4, <1>5 DEF FilesInv

(* What a call returns: 0 exactly when it rewrites nothing.                *)
LEMMA CleanedUp ==
  ASSUME FilesInv, Maintenance
  PROVE  cleaned_up' = 0 <=> Groups = {}
<1> DEFINE w == [g \in Groups |-> Cardinality(LiveOf(Group(g)))]
           Step(f) == [s \in SUBSET Groups |->
                         IF s = {} THEN 0 ELSE LET x == CHOOSE x \in s : TRUE
                                               IN  Cardinality(LiveOf(Group(x))) + f[s \ {x}]]
           sum == CHOOSE f : f = Step(f)
<1>1. cleaned_up' = sum[Groups]
  BY DEF Maintenance, Groups, MapThenSumSet, MapThenFoldSet
<1>2. \A g \in Groups : w[g] \in Nat /\ w[g] # 0
  BY GroupsFacts, FS_CardinalityType, FS_EmptySet
<1>3. \E f : Adds(f, w, SUBSET Groups)
  BY GroupsFacts, AddsExists
<1>4. ASSUME NEW f PROVE Adds(f, w, SUBSET Groups) <=> f = Step(f)
  <2>1. \A s \in SUBSET Groups : s # {} => w[AnyOf(s)] = Cardinality(LiveOf(Group(AnyOf(s))))
    BY AnyOfFacts
  <2> QED BY <2>1 DEF Adds, AnyOf
<1>5. sum = Step(sum)
  <2> HIDE DEF Step
  <2> QED BY <1>3, <1>4
<1> HIDE DEF sum, w
<1>6. Adds(sum, w, SUBSET Groups)
  BY <1>4, <1>5
<1>7. /\ sum[{}] = 0
      /\ \A s \in SUBSET Groups : sum[s] \in Nat
      /\ \A s \in SUBSET Groups : \A x \in s : sum[s] = w[x] + sum[s \ {x}]
  <2>1. PICK f, v, G : /\ f = sum /\ v = w /\ G = Groups
                       /\ IsFiniteSet(G) /\ \A x \in G : v[x] \in Nat
                       /\ Adds(f, v, SUBSET G)
    BY <1>2, <1>6, GroupsFacts
  <2>2. /\ f[{}] = 0
        /\ \A s \in SUBSET G : f[s] \in Nat
        /\ \A s \in SUBSET G : \A x \in s : f[s] = v[x] + f[s \ {x}]
    <3>1. IsFiniteSet(G) /\ (\A x \in G : v[x] \in Nat) /\ Adds(f, v, SUBSET G)
      BY ONLY <2>1
    <3> QED BY ONLY <3>1, AddsSplit
  <2> QED BY <2>1, <2>2
<1>8. ASSUME NEW x \in Groups PROVE sum[Groups] # 0
  <2>1. Groups \in SUBSET Groups /\ Groups \ {x} \in SUBSET Groups
    OBVIOUS
  <2>2. sum[Groups] = w[x] + sum[Groups \ {x}] /\ sum[Groups \ {x}] \in Nat
    BY <1>7, <2>1
  <2> QED BY <1>2, <2>2
<1> QED BY <1>1, <1>7, <1>8

(* Fewer files make no candidate.                                          *)
LEMMA CandidateFewer ==
  ASSUME NEW f, FamLen \in Nat, FamLen' \in Nat, FamLen' <= FamLen, Candidate(f)'
  PROVE  Candidate(f)
BY CompactionAssumption DEF Candidate

(* The same files, and no more of them, leave the same groups too small.   *)
LEMMA IdleStays ==
  ASSUME FilesInv, files' = files, empty' \in Nat, empty' <= empty,
         \A g \in 1 .. 3 : ~ Rewrites(g)
  PROVE  \A g \in 1 .. 3 : ~ Rewrites(g)'
<1>1. FamLen \in Nat /\ FamLen' \in Nat /\ FamLen' <= FamLen
  BY FS_CardinalityType DEF FamLen, FilesInv
<1>2. ASSUME NEW g \in 1 .. 3, Rewrites(g)' PROVE FALSE
  <2>1. Group(g)' \subseteq Group(g)
    BY <1>1, CandidateFewer DEF Group
  <2>2. PICK old, new : /\ old = Group(g) /\ new = Group(g)' /\ new \subseteq old
                        /\ IsFiniteSet(old)
    <3>1. Group(g) \subseteq files
      BY DEF Group
    <3> QED BY <2>1, <3>1, FS_Subset DEF FilesInv
  <2>3. Cardinality(new) <= Cardinality(old) /\ Cardinality(new) \in Nat /\ Cardinality(old) \in Nat
    BY <2>2, FS_Subset, FS_CardinalityType
  <2>4. new # {} /\ Cardinality(new) >= MinFiles
    BY <1>2, <2>2 DEF Rewrites
  <2>5. old # {} /\ Cardinality(old) >= MinFiles
    BY <2>2, <2>3, <2>4, CompactionAssumption
  <2> QED BY <2>2, <2>5 DEF Rewrites
<1> QED BY <1>2

(* With nothing to rewrite, a call of maintenance leaves the files alone.  *)
LEMMA MaintenanceIdle ==
  ASSUME FilesInv, Maintenance, Groups = {}
  PROVE  files' = files /\ empty' \in Nat /\ empty' <= empty
<1>1. PICK split : files' = (files \ UNION {Group(g) : g \in Groups})
                           \cup UNION {Rewrite(g, split[g]) : g \in Groups}
  BY DEF Maintenance, Groups
<1> QED BY <1>1 DEF Maintenance, FilesInv

(* Every step keeps the files and the idleness.                            *)
LEMMA CompactionStep ==
  FilesInv /\ IdleInv /\ [CompactionNext]_compactionVars => FilesInv' /\ IdleInv'
<1> SUFFICES ASSUME FilesInv, IdleInv, [CompactionNext]_compactionVars
             PROVE  FilesInv' /\ IdleInv'
  OBVIOUS
<1>0. (\A g \in 1 .. 3 : ~ Rewrites(g)) <=> Groups = {}
  BY DEF Groups
<1>1. CASE UNCHANGED compactionVars
  <2>1. /\ files' = files /\ empty' = empty /\ caller' = caller
        /\ cleaned_up' = cleaned_up /\ empty' \in Nat /\ empty' <= empty
    BY <1>1 DEF compactionVars, FilesInv
  <2>2. (\A g \in 1 .. 3 : ~ Rewrites(g)) => \A g \in 1 .. 3 : ~ Rewrites(g)'
    BY <2>1, IdleStays
  <2> QED BY <2>1, <2>2 DEF IdleInv, FilesInv, SecondCallIdle
<1>2. CASE WriteOneBatch
  <2>1. PICK ids \in (SUBSET Objects) \ {{}}, deleted \in SUBSET Objects :
          /\ files' = {f \in {Without(f, ids) : f \in files} : f.live # {}}
                       \cup {NewFile(0, ids, deleted)}
          /\ empty' = empty + Cardinality({f \in files : f.live \subseteq ids})
    BY <1>2, Zenon DEF WriteOneBatch
  <2>2. ASSUME NEW f \in files
        PROVE  /\ {"live", "deleted"} \subseteq DOMAIN Without(f, ids)
               /\ Without(f, ids).live = f.live \ ids
    BY DEF Without, FilesInv
  <2>3. {"live", "deleted"} \subseteq DOMAIN NewFile(0, ids, deleted)
        /\ NewFile(0, ids, deleted).live = ids
    BY DEF NewFile
  <2>4. ASSUME NEW f \in files'
        PROVE  {"live", "deleted"} \subseteq DOMAIN f /\ f.live \in (SUBSET Objects) \ {{}}
    <3>1. CASE f = NewFile(0, ids, deleted)
      BY <2>3, <3>1
    <3>2. CASE f # NewFile(0, ids, deleted)
      <4>1. PICK e \in files : f = Without(e, ids) /\ f.live # {}
        BY <2>1, <3>2
      <4>2. e.live \subseteq Objects
        BY DEF FilesInv
      <4> QED BY <2>2, <4>1, <4>2
    <3> QED BY <3>1, <3>2
  <2>5. IsFiniteSet(files')
    <3> DEFINE cut == [f \in files |-> Without(f, ids)]
    <3>1. {Without(f, ids) : f \in files} = {cut[f] : f \in files}
      OBVIOUS
    <3>2. IsFiniteSet({cut[f] : f \in files})
      <4> HIDE DEF cut
      <4> QED BY ImageFinite DEF FilesInv
    <3>3. IsFiniteSet({f \in {Without(f, ids) : f \in files} : f.live # {}})
      BY <3>1, <3>2, FS_Subset
    <3> QED BY <2>1, <3>3, FS_AddElement
  <2>6. empty' \in Nat
    <3>1. IsFiniteSet({f \in files : f.live \subseteq ids})
      BY FS_Subset DEF FilesInv
    <3>2. Cardinality({f \in files : f.live \subseteq ids}) \in Nat
      BY <3>1, FS_CardinalityType
    <3> QED BY <2>1, <3>2 DEF FilesInv
  <2>7. FilesInv'
    BY <2>4, <2>5, <2>6 DEF FilesInv
  <2>8. caller' = "writing"
    BY <1>2 DEF WriteOneBatch
  <2> QED BY <2>7, <2>8 DEF IdleInv, SecondCallIdle
<1>3. CASE MaintainWhileWriting
  <2>1. FilesInv' /\ caller' = "writing"
    BY <1>3, MaintenanceFiles DEF MaintainWhileWriting
  <2> QED BY <2>1 DEF IdleInv, SecondCallIdle
<1>4. CASE WritersDone
  <2>1. FilesInv' /\ caller' = "compacting" /\ cleaned_up' = 1
    BY <1>4 DEF WritersDone, FilesInv
  <2> QED BY <2>1 DEF IdleInv, SecondCallIdle
<1>5. CASE Compact /\ cleaned_up # 0
  <2>1. caller' = "compacting" /\ Maintenance
    BY <1>5 DEF Compact
  <2>2. FilesInv'
    BY <2>1, MaintenanceFiles
  <2>3. ASSUME cleaned_up' = 0 PROVE \A g \in 1 .. 3 : ~ Rewrites(g)'
    <3>1. Groups = {}
      BY <2>1, <2>3, CleanedUp
    <3> QED BY <1>0, <2>1, <3>1, MaintenanceIdle, IdleStays
  <2> QED BY <2>1, <2>2, <2>3 DEF IdleInv, SecondCallIdle
<1>6. CASE Compact /\ cleaned_up = 0
  <2>1. /\ caller = "compacting" /\ caller' = "verifying"
        /\ files' = files /\ empty' = empty /\ empty' \in Nat /\ empty' <= empty
    BY <1>6 DEF Compact, FilesInv
  <2>2. \A g \in 1 .. 3 : ~ Rewrites(g)'
    BY <1>6, <2>1, IdleStays DEF IdleInv
  <2> QED BY <2>1, <2>2 DEF IdleInv, SecondCallIdle, FilesInv
<1>7. CASE Verify
  <2>1. caller = "verifying" /\ caller' = "done" /\ Maintenance
    BY <1>7 DEF Verify
  <2>2. cleaned_up' = 0
    BY <1>0, <2>1, CleanedUp DEF IdleInv
  <2>3. FilesInv'
    BY <2>1, MaintenanceFiles
  <2> QED BY <2>1, <2>2, <2>3 DEF IdleInv, SecondCallIdle
<1> QED BY <1>1, <1>2, <1>3, <1>4, <1>5, <1>6, <1>7 DEF CompactionNext

(* "assert_eq!(cleaned_up_2, 0)" of the benchmark holds for every          *)
(* configuration, every history of batches and every way to split.         *)
THEOREM SecondCallAlwaysIdle == CompactionSpec => []SecondCallIdle
<1>1. CompactionInit => FilesInv /\ IdleInv
  BY FS_EmptySet DEF CompactionInit, FilesInv, IdleInv, SecondCallIdle
<1>2. IdleInv => SecondCallIdle
  BY DEF IdleInv
<1> QED BY <1>1, <1>2, CompactionStep, PTL DEF CompactionSpec

(***************************************************************************)
(* How many files a call of maintenance leaves.                            *)
(***************************************************************************)
(* What some objects take.                                                 *)
Total == CHOOSE sum : Adds(sum, SizeOfObject, SUBSET Objects)

(* There is one, and it splits over its elements.                          *)
LEMMA TotalSplits ==
  /\ Adds(Total, SizeOfObject, SUBSET Objects)
  /\ Total[{}] = 0
  /\ \A s \in SUBSET Objects : Total[s] \in Nat
  /\ \A s \in SUBSET Objects : \A x \in s : Total[s] = SizeOfObject[x] + Total[s \ {x}]
<1>0. IsFiniteSet(Objects)
  BY CompactionAssumption
<1>1. \A x \in Objects : SizeOfObject[x] \in Nat
  BY CompactionAssumption
<1>2. \E sum : Adds(sum, SizeOfObject, SUBSET Objects)
  BY <1>0, AddsExists
<1>3. Adds(Total, SizeOfObject, SUBSET Objects)
  BY <1>2 DEF Total
<1>4. PICK sum : sum = Total
  OBVIOUS
<1>5. Adds(sum, SizeOfObject, SUBSET Objects)
  BY <1>3, <1>4
<1>6. PICK w, S : w = SizeOfObject /\ S = Objects
  OBVIOUS
<1>7. IsFiniteSet(S) /\ (\A x \in S : w[x] \in Nat) /\ Adds(sum, w, SUBSET S)
  BY <1>0, <1>1, <1>5, <1>6
<1>8. /\ sum[{}] = 0
      /\ \A s \in SUBSET S : sum[s] \in Nat
      /\ \A s \in SUBSET S : \A x \in s : sum[s] = w[x] + sum[s \ {x}]
  BY ONLY <1>7, AddsSplit
<1> QED BY <1>3, <1>4, <1>6, <1>8

(* The sums of two sets of objects.                                        *)
LEMMA TotalDisjoint ==
  ASSUME NEW A \in SUBSET Objects, NEW B \in SUBSET Objects, A \cap B = {}
  PROVE  Total[A \cup B] = Total[A] + Total[B]
<1> DEFINE T == {n \in Nat : \E b \in SUBSET B : /\ Cardinality(b) = n
                                                 /\ Total[A \cup b] # Total[A] + Total[b]}
<1>1. \A b \in SUBSET B : IsFiniteSet(b) /\ Cardinality(b) \in Nat
  BY CompactionAssumption, FS_Subset, FS_CardinalityType
<1>2. T \subseteq Nat
  OBVIOUS
<1>3. ASSUME T # {} PROVE FALSE
  <2>1. PICK k \in T : \A n \in T : k <= n
    BY <1>2, <1>3, LeastNumber
  <2>2. PICK b \in SUBSET B : Cardinality(b) = k /\ Total[A \cup b] # Total[A] + Total[b]
    BY <2>1
  <2>3. b # {}
    <3> SUFFICES ASSUME b = {} PROVE FALSE
      OBVIOUS
    <3>1. PICK p \in Nat : p = Total[A]
      BY TotalSplits
    <3>2. A \cup b = A /\ Total[b] = 0
      BY TotalSplits
    <3>3. Total[A \cup b] = p /\ p + Total[b] = p
      BY <3>1, <3>2
    <3> QED BY <2>2, <3>1, <3>3
  <2>4. PICK x \in b : TRUE
    BY <2>3
  <2>5. Cardinality(b \ {x}) = k - 1 /\ k \in Nat \ {0}
    BY <1>1, <2>2, LessOne
  <2>6. k - 1 \notin T
    <3> HIDE DEF T
    <3> QED BY <1>2, <2>1, <2>5
  <2>7. Total[A \cup (b \ {x})] = Total[A] + Total[b \ {x}]
    <3>1. PICK c \in SUBSET B : c = b \ {x}
      OBVIOUS
    <3>2. Cardinality(c) = k - 1 /\ k - 1 \in Nat
      BY <2>5, <3>1
    <3>3. Total[A \cup c] = Total[A] + Total[c]
      BY <2>6, <3>2
    <3> QED BY <3>1, <3>3
  <2> HIDE DEF T
  <2>8. (A \cup b) \ {x} = A \cup (b \ {x}) /\ x \in A \cup b
    OBVIOUS
  <2>9. Total[A \cup b] = SizeOfObject[x] + Total[A \cup (b \ {x})]
    BY <2>8, TotalSplits
  <2>10. Total[b] = SizeOfObject[x] + Total[b \ {x}]
    BY TotalSplits
  <2>11. PICK p \in Nat, q \in Nat, r \in Nat :
           p = Total[A] /\ q = Total[b \ {x}] /\ r = SizeOfObject[x]
    BY TotalSplits, CompactionAssumption
  <2>12. Total[A \cup b] = r + (p + q) /\ Total[b] = r + q
    BY <2>7, <2>9, <2>10, <2>11
  <2> QED BY <2>2, <2>11, <2>12
<1> QED BY <1>1, <1>3

(* More objects take no less, and together no more than apart.             *)
LEMMA TotalBounds ==
  ASSUME NEW A \in SUBSET Objects, NEW B \in SUBSET Objects
  PROVE  /\ A \subseteq B => Total[A] <= Total[B]
         /\ Total[A \cup B] <= Total[A] + Total[B]
<1>1. ASSUME NEW C \in SUBSET Objects, NEW D \in SUBSET C PROVE Total[D] <= Total[C]
  <2>1. Total[D \cup (C \ D)] = Total[D] + Total[C \ D]
    BY TotalDisjoint
  <2>2. D \cup (C \ D) = C
    OBVIOUS
  <2>3. PICK p \in Nat, q \in Nat : p = Total[D] /\ q = Total[C \ D]
    BY TotalSplits
  <2>4. Total[C] = p + q
    BY <2>1, <2>2, <2>3
  <2>5. p <= p + q
    OBVIOUS
  <2> QED BY <2>3, <2>4, <2>5
<1>2. Total[A \cup (B \ A)] = Total[A] + Total[B \ A]
  BY TotalDisjoint
<1>3. A \cup (B \ A) = A \cup B /\ Total[B \ A] <= Total[B]
  BY <1>1
<1>4. PICK p \in Nat, q \in Nat, r \in Nat :
        p = Total[A] /\ q = Total[B] /\ r = Total[B \ A]
  BY TotalSplits
<1>5. Total[A \cup B] = p + r /\ r <= q
  BY <1>2, <1>3, <1>4
<1>6. p + r <= p + q
  BY <1>5
<1> QED BY <1>1, <1>4, <1>5, <1>6

(* DataSize computes such a sum.                                           *)
LEMMA DataSizeIs ==
  ASSUME NEW ids \in SUBSET Objects, NEW deleted
  PROVE  DataSize(ids, deleted) = Total[ids \ deleted]
<1> DEFINE R == ids \ deleted
           Step(g) == [s \in SUBSET R |->
                         IF s = {} THEN 0 ELSE LET x == CHOOSE x \in s : TRUE
                                               IN  SizeOfObject[x] + g[s \ {x}]]
           sum == CHOOSE g : g = Step(g)
<1>1. DataSize(ids, deleted) = sum[R]
  BY DEF DataSize, MapThenSumSet, MapThenFoldSet
<1>2. IsFiniteSet(R) /\ R \in SUBSET Objects
  BY CompactionAssumption, FS_Subset
<1>3. \E g : Adds(g, SizeOfObject, SUBSET R)
  BY <1>2, AddsExists
<1>4. ASSUME NEW g PROVE Adds(g, SizeOfObject, SUBSET R) <=> g = Step(g)
  BY DEF Adds, AnyOf
<1>5. sum = Step(sum)
  <2> HIDE DEF Step
  <2> QED BY <1>3, <1>4
<1>6. PICK f, g : f = sum /\ g = Total
  OBVIOUS
<1> HIDE DEF sum
<1>7. Adds(f, SizeOfObject, SUBSET R) /\ Adds(g, SizeOfObject, SUBSET Objects)
  BY <1>4, <1>5, <1>6, TotalSplits
<1> HIDE DEF R
<1>8. PICK w, S : w = SizeOfObject /\ S = Objects
  OBVIOUS
<1>10. /\ IsFiniteSet(S) /\ R \in SUBSET S /\ \A x \in S : w[x] \in Nat
       /\ \A x \in R : w[x] = w[x] /\ w[x] \in Nat
  BY <1>2, <1>8, CompactionAssumption
<1>11. Adds(f, w, SUBSET R) /\ Adds(g, w, SUBSET S)
  BY <1>7, <1>8
<1>9. f[R] = g[R]
  BY ONLY <1>10, <1>11, AddsSame
<1> QED BY <1>1, <1>6, <1>9 DEF R

(* Files that replace others one for one are no more than those.           *)
LEMMA UnionCount ==
  ASSUME NEW S, IsFiniteSet(S), NEW old, NEW new,
         \A g \in S : /\ IsFiniteSet(old[g]) /\ IsFiniteSet(new[g])
                      /\ Cardinality(new[g]) <= Cardinality(old[g]),
         \A g, h \in S : g # h => old[g] \cap old[h] = {}
  PROVE  Cardinality(UNION {new[g] : g \in S}) <= Cardinality(UNION {old[g] : g \in S})
<1> DEFINE Old(s) == UNION {old[g] : g \in s}
           New(s) == UNION {new[g] : g \in s}
           Good(s) == /\ IsFiniteSet(Old(s)) /\ IsFiniteSet(New(s))
                      /\ Cardinality(New(s)) <= Cardinality(Old(s))
           T == {n \in Nat : \E s \in SUBSET S : Cardinality(s) = n /\ ~ Good(s)}
<1>1. \A s \in SUBSET S : IsFiniteSet(s) /\ Cardinality(s) \in Nat
  BY FS_Subset, FS_CardinalityType
<1>2. T \subseteq Nat
  OBVIOUS
<1>3. ASSUME NEW s \in SUBSET S, NEW x \in s, Good(s \ {x}) PROVE Good(s)
  <2>1. Old(s) = Old(s \ {x}) \cup old[x] /\ New(s) = New(s \ {x}) \cup new[x]
    OBVIOUS
  <2>2. Old(s \ {x}) \cap old[x] = {}
    OBVIOUS
  <2>3. PICK a, b, c, d : a = Old(s \ {x}) /\ b = old[x] /\ c = New(s \ {x}) /\ d = new[x]
    OBVIOUS
  <2>4. /\ IsFiniteSet(a) /\ IsFiniteSet(b) /\ IsFiniteSet(c) /\ IsFiniteSet(d)
        /\ Cardinality(c) <= Cardinality(a) /\ Cardinality(d) <= Cardinality(b)
        /\ a \cap b = {} /\ Old(s) = a \cup b /\ New(s) = c \cup d
    BY <1>3, <2>1, <2>2, <2>3
  <2> HIDE DEF Old, New
  <2>5. /\ IsFiniteSet(a \cup b) /\ IsFiniteSet(c \cup d) /\ IsFiniteSet(c \cap d)
        /\ Cardinality(a \cup b) = Cardinality(a) + Cardinality(b) - Cardinality(a \cap b)
        /\ Cardinality(c \cup d) = Cardinality(c) + Cardinality(d) - Cardinality(c \cap d)
    BY <2>4, FS_Union, FS_Intersection
  <2>6. /\ Cardinality(a) \in Nat /\ Cardinality(b) \in Nat /\ Cardinality(c) \in Nat
        /\ Cardinality(d) \in Nat /\ Cardinality(c \cap d) \in Nat /\ Cardinality(a \cap b) = 0
    BY <2>4, <2>5, FS_CardinalityType, FS_EmptySet
  <2>7. Cardinality(c \cup d) <= Cardinality(a \cup b)
    BY <2>4, <2>5, <2>6
  <2> QED BY <2>4, <2>5, <2>7
<1>4. Good({})
  <2>1. Old({}) = {} /\ New({}) = {}
    OBVIOUS
  <2> QED BY <2>1, FS_EmptySet
<1> HIDE DEF Good
<1>5. ASSUME T # {} PROVE FALSE
  <2>1. PICK k \in T : \A n \in T : k <= n
    BY <1>2, <1>5, LeastNumber
  <2>2. PICK s \in SUBSET S : Cardinality(s) = k /\ ~ Good(s)
    BY <2>1
  <2>3. PICK x \in s : TRUE
    BY <1>4, <2>2
  <2>4. Cardinality(s \ {x}) = k - 1 /\ k \in Nat \ {0}
    BY <1>1, <2>2, LessOne
  <2>5. k - 1 \notin T
    <3> HIDE DEF T
    <3> QED BY <1>2, <2>1, <2>4
  <2>6. Good(s \ {x})
    BY <2>4, <2>5
  <2> QED BY <1>3, <2>2, <2>6
<1> QED BY <1>1, <1>5 DEF Good

(* Files of at least t bytes each.                                         *)
LEMMA TimesUp ==
  ASSUME NEW a \in Nat, NEW b \in Nat, NEW t \in Nat, b <= a + 1
  PROVE  a * t \in Nat /\ b * t <= a * t + t
<1>1. (a + 1) * t = a * t + t /\ a * t \in Nat
  OBVIOUS
<1>2. PICK d \in Nat : a + 1 = b + d
  <2>1. (a + 1) - b \in Nat /\ a + 1 = b + ((a + 1) - b)
    OBVIOUS
  <2> QED BY <2>1
<1>3. (b + d) * t = b * t + d * t /\ d * t \in Nat /\ b * t \in Nat
  OBVIOUS
<1>4. b * t + d * t = a * t + t
  BY <1>1, <1>2, <1>3
<1>5. b * t <= b * t + d * t
  BY <1>3
<1> QED BY <1>1, <1>4, <1>5

(* k files over t bytes out of n files of less than t bytes.               *)
LEMMA TimesLess ==
  ASSUME NEW k \in Nat, NEW n \in Nat \ {0}, NEW t \in Nat \ {0}, k * t <= n * (t - 1)
  PROVE  k + 1 <= n
<1> SUFFICES ASSUME n <= k PROVE FALSE
  OBVIOUS
<1>1. PICK d \in Nat : k = n + d
  <2>1. k - n \in Nat /\ k = n + (k - n)
    OBVIOUS
  <2> QED BY <2>1
<1>2. k * t = n * t + d * t /\ n * (t - 1) = n * t - n /\ n * t \in Nat /\ d * t \in Nat
  BY <1>1
<1> QED BY <1>2

(* A set with one more element.                                            *)
LEMMA OneMore ==
  ASSUME NEW S, IsFiniteSet(S), NEW x
  PROVE  /\ IsFiniteSet(S \cup {x}) /\ Cardinality(S \cup {x}) \in Nat
         /\ Cardinality(S \cup {x}) <= Cardinality(S) + 1
<1>1. Cardinality(S) \in Nat
  BY FS_CardinalityType
<1>2. CASE x \in S
  <2>1. S \cup {x} = S
    BY <1>2
  <2>2. Cardinality(S) <= Cardinality(S) + 1
    BY <1>1
  <2> QED BY <1>1, <2>1, <2>2
<1>3. CASE x \notin S
  BY <1>1, <1>3, FS_AddElement
<1> QED BY <1>2, <1>3

(* Closing a part adds an object to none of the closed parts.              *)
Closed(acc, seen, deleted) ==
  /\ acc \in Splitting /\ IsFiniteSet(acc.closed)
  /\ (UNION acc.closed) \cup acc.open \subseteq seen
  /\ (UNION acc.closed) \cap acc.open = {}
  /\ Cardinality(acc.closed) * TargetFileSize <= Total[(UNION acc.closed) \ deleted]

(* The next item keeps the closed parts over the target.                   *)
LEMMA ClosedStays ==
  ASSUME NEW acc, NEW seen, NEW deleted, Closed(acc, seen, deleted),
         NEW o \in Objects, o \notin seen, NEW next, next = AddItem(acc, o, deleted)
  PROVE  Closed(next, seen \cup {o}, deleted)
<1>1. next \in Splitting
  BY AddItemFacts DEF Closed
<1>2. PICK closed, open : closed = acc.closed /\ open = acc.open
  OBVIOUS
<1>3. /\ closed \subseteq SUBSET Objects /\ open \in SUBSET Objects /\ IsFiniteSet(closed)
      /\ (UNION closed) \cup open \subseteq seen /\ (UNION closed) \cap open = {}
      /\ Cardinality(closed) * TargetFileSize <= Total[(UNION closed) \ deleted]
  BY <1>2 DEF Closed, Splitting
<1>4. CASE DataSize(open, deleted) > TargetFileSize
  <2>1. next.closed = closed \cup {open} /\ next.open = {o}
    BY <1>2, <1>4 DEF AddItem
  <2>2. /\ IsFiniteSet(closed \cup {open}) /\ Cardinality(closed) \in Nat
        /\ Cardinality(closed \cup {open}) \in Nat
        /\ Cardinality(closed \cup {open}) <= Cardinality(closed) + 1
    BY <1>3, OneMore, FS_CardinalityType
  <2>3. UNION (closed \cup {open}) = (UNION closed) \cup open
    OBVIOUS
  <2>4. PICK A \in SUBSET Objects, B \in SUBSET Objects :
          A = (UNION closed) \ deleted /\ B = open \ deleted
    BY <1>3
  <2>5. A \cap B = {} /\ (UNION (closed \cup {open})) \ deleted = A \cup B
    BY <1>3, <2>3, <2>4
  <2>6. Total[A \cup B] = Total[A] + Total[B] /\ Total[A] \in Nat /\ Total[B] \in Nat
    BY <2>5, TotalDisjoint, TotalSplits
  <2>7. PICK t \in Nat : t = TargetFileSize
    BY CompactionAssumption
  <2>8. Total[B] > t
    BY <1>3, <1>4, <2>4, <2>7, DataSizeIs
  <2>9. PICK a \in Nat, b \in Nat : a = Cardinality(closed) /\ b = Cardinality(closed \cup {open})
    BY <2>2
  <2>10. a * t \in Nat /\ b * t <= a * t + t
    BY <2>2, <2>9, TimesUp
  <2>11. a * t <= Total[A]
    BY <1>3, <2>4, <2>7, <2>9
  <2>12. b * t <= Total[A \cup B]
    <3>1. PICK p \in Nat, q \in Nat : p = Total[A] /\ q = Total[B]
      BY <2>6
    <3>2. a * t <= p /\ q > t /\ Total[A \cup B] = p + q
      BY <2>6, <2>8, <2>11, <3>1
    <3>3. b * t \in Nat
      OBVIOUS
    <3>4. PICK m \in Nat, l \in Nat : m = a * t /\ l = b * t
      BY <2>10, <3>3
    <3>5. l \in Nat /\ l <= m + t /\ m <= p
      BY <2>10, <3>2, <3>4
    <3>6. l <= p + q
      BY <3>2, <3>5
    <3> QED BY <3>2, <3>4, <3>6
  <2>13. (UNION (closed \cup {open})) \cup {o} \subseteq seen \cup {o}
         /\ (UNION (closed \cup {open})) \cap {o} = {}
    BY <1>3, <2>3
  <2> QED BY <1>1, <2>1, <2>2, <2>5, <2>7, <2>9, <2>12, <2>13 DEF Closed
<1>5. CASE ~ (DataSize(open, deleted) > TargetFileSize)
  <2>1. next.closed = closed /\ next.open = open \cup {o}
    BY <1>2, <1>5 DEF AddItem, Closed, Splitting
  <2> QED BY <1>1, <1>3, <2>1 DEF Closed
<1> QED BY <1>2, <1>4, <1>5

(* However the items are ordered, all files of a shard but one are over    *)
(* the target.                                                             *)
LEMMA PartsCount ==
  ASSUME NEW L \in SUBSET Objects, L # {}, NEW ids \in SetToSeqs(L), NEW deleted
  PROVE  \E k \in Nat : /\ IsFiniteSet(PartsInOrder(ids, deleted))
                        /\ Cardinality(PartsInOrder(ids, deleted)) <= k + 1
                        /\ k * TargetFileSize <= Total[L \ deleted]
<1>1. IsFiniteSet(L)
  BY CompactionAssumption, FS_Subset
<1>2. PICK n \in Nat \ {0} : n = Cardinality(L)
  BY <1>1, FS_CardinalityType, FS_EmptySet
<1>3. ids \in [1 .. n -> L] /\ \A i, j \in 1 .. n : i # j => ids[i] # ids[j]
  BY <1>2 DEF SetToSeqs
<1>4. ids \in [1 .. n -> Objects]
  BY <1>3
<1>5. PICK all : IsSplit(all, n, ids, deleted)
  BY <1>4, PartsFold
<1> DEFINE Items(s) == {ids[x] : x \in s}
           Good(s) == Closed(all[s], Items(s), deleted)
           T == {m \in Nat : \E s \in SUBSET (1 .. n) : Cardinality(s) = m /\ ~ Good(s)}
<1>6. Good({})
  <2>1. all[{}] = [closed |-> {}, open |-> {}] /\ all[{}] \in Splitting
    BY <1>5 DEF IsSplit
  <2>2. all[{}].closed = {} /\ all[{}].open = {}
    BY <2>1
  <2>3. Cardinality({}) = 0 /\ IsFiniteSet({}) /\ Total[{}] = 0
    BY FS_EmptySet, TotalSplits
  <2>4. 0 * TargetFileSize = 0
    BY CompactionAssumption
  <2>5. UNION {} = {} /\ {} \ deleted = {}
    OBVIOUS
  <2> QED BY <2>1, <2>2, <2>3, <2>4, <2>5 DEF Closed
<1>7. ASSUME NEW s \in SUBSET (1 .. n), NEW x \in s,
             all[s] = AddItem(all[s \ {x}], ids[x], deleted), Good(s \ {x})
      PROVE  Good(s)
  <2>1. ids[x] \in Objects /\ ids[x] \notin Items(s \ {x})
    BY <1>3
  <2>2. Items(s \ {x}) \cup {ids[x]} = Items(s)
    OBVIOUS
  <2>3. PICK acc, seen, o, next :
          acc = all[s \ {x}] /\ seen = Items(s \ {x}) /\ o = ids[x] /\ next = all[s]
    OBVIOUS
  <2>4. /\ Closed(acc, seen, deleted) /\ o \in Objects /\ o \notin seen
        /\ next = AddItem(acc, o, deleted)
    BY <1>7, <2>1, <2>3
  <2>5. Closed(next, seen \cup {o}, deleted)
    BY ONLY <2>4, ClosedStays
  <2> QED BY <2>2, <2>3, <2>5
<1> HIDE DEF Good
<1>8. \A s \in SUBSET (1 .. n) : IsFiniteSet(s) /\ Cardinality(s) \in Nat
  BY IntervalFacts, FS_Subset, FS_CardinalityType
<1>9. ASSUME T # {} PROVE FALSE
  <2>0. T \subseteq Nat
    OBVIOUS
  <2>1. PICK k \in T : \A m \in T : k <= m
    BY <1>9, <2>0, LeastNumber
  <2>2. PICK s \in SUBSET (1 .. n) : Cardinality(s) = k /\ ~ Good(s)
    BY <2>1
  <2>3. PICK x \in s : all[s] = AddItem(all[s \ {x}], ids[x], deleted)
    BY <1>5, <1>6, <2>2 DEF IsSplit
  <2>4. Cardinality(s \ {x}) = k - 1 /\ k \in Nat \ {0}
    BY <1>8, <2>2, LessOne
  <2>5. k - 1 \notin T
    <3> HIDE DEF T
    <3> QED BY <2>0, <2>1, <2>4
  <2>6. Good(s \ {x})
    BY <2>4, <2>5
  <2> QED BY <1>7, <2>2, <2>3, <2>6
<1>10. Good(1 .. n)
  BY <1>8, <1>9
<1>11. PICK closed, open : closed = all[1 .. n].closed /\ open = all[1 .. n].open
  OBVIOUS
<1>12. PartsInOrder(ids, deleted) = closed \cup {open}
  BY <1>5, <1>11 DEF IsSplit
<1>13. /\ IsFiniteSet(closed) /\ UNION closed \subseteq L
       /\ Cardinality(closed) * TargetFileSize <= Total[(UNION closed) \ deleted]
  <2>1. Items(1 .. n) \subseteq L
    BY <1>3
  <2> QED BY <1>10, <1>11, <2>1 DEF Good, Closed
<1>14. PICK k \in Nat : k = Cardinality(closed)
  BY <1>13, FS_CardinalityType
<1>15. IsFiniteSet(closed \cup {open}) /\ Cardinality(closed \cup {open}) <= k + 1
  BY <1>13, <1>14, OneMore
<1>16. k * TargetFileSize <= Total[L \ deleted]
  <2>1. PICK A \in SUBSET Objects, B \in SUBSET Objects :
          A = (UNION closed) \ deleted /\ B = L \ deleted
    BY <1>13
  <2>2. A \subseteq B
    BY <1>13, <2>1
  <2>3. Total[A] <= Total[B] /\ Total[A] \in Nat /\ Total[B] \in Nat
    BY <2>2, TotalBounds, TotalSplits
  <2>4. PICK m \in Nat : m = k * TargetFileSize
    <3>1. k * TargetFileSize \in Nat
      BY CompactionAssumption
    <3> QED BY <3>1
  <2>5. m <= Total[A]
    BY <1>13, <1>14, <2>1, <2>4
  <2>6. m <= Total[B]
    BY <2>3, <2>5
  <2> QED BY <2>1, <2>4, <2>6
<1> QED BY <1>12, <1>15, <1>16

(* Sets of objects of at most t bytes each.                                *)
LEMMA UnionTotal ==
  ASSUME NEW S, IsFiniteSet(S), NEW w, NEW t \in Nat,
         \A x \in S : w[x] \in SUBSET Objects /\ Total[w[x]] <= t
  PROVE  Total[UNION {w[x] : x \in S}] <= Cardinality(S) * t
<1> DEFINE All(s) == UNION {w[x] : x \in s}
           Good(s) == Total[All(s)] <= Cardinality(s) * t
           T == {n \in Nat : \E s \in SUBSET S : Cardinality(s) = n /\ ~ Good(s)}
<1>1. \A s \in SUBSET S : IsFiniteSet(s) /\ Cardinality(s) \in Nat
  BY FS_Subset, FS_CardinalityType
<1>2. T \subseteq Nat
  OBVIOUS
<1>3. ASSUME NEW s \in SUBSET S, NEW x \in s, Good(s \ {x}) PROVE Good(s)
  <2>1. PICK A \in SUBSET Objects, B \in SUBSET Objects : A = All(s \ {x}) /\ B = w[x]
    OBVIOUS
  <2>2. All(s) = A \cup B
    BY <2>1
  <2>3. PICK k \in Nat : k = Cardinality(s \ {x})
    BY <1>1
  <2>4. Cardinality(s) = k + 1
    BY <1>1, <2>3, LessOne
  <2>5. PICK p \in Nat, q \in Nat, r \in Nat :
          p = Total[A] /\ q = Total[B] /\ r = Total[A \cup B]
    BY TotalSplits
  <2>6. r <= p + q /\ q <= t /\ p <= k * t
    BY <1>3, <2>1, <2>3, <2>5, TotalBounds
  <2>7. k * t \in Nat /\ (k + 1) * t = k * t + t
    OBVIOUS
  <2>8. r <= (k + 1) * t
    <3>1. PICK m \in Nat : m = k * t
      BY <2>7
    <3>2. r <= m + t
      BY <2>6, <3>1
    <3> QED BY <2>7, <3>1, <3>2
  <2> QED BY <2>2, <2>4, <2>5, <2>8
<1>4. Good({})
  <2>1. All({}) = {} /\ Total[{}] = 0 /\ Cardinality({}) = 0 /\ 0 * t = 0
    BY TotalSplits, FS_EmptySet
  <2> QED BY <2>1
<1> HIDE DEF Good
<1>5. ASSUME T # {} PROVE FALSE
  <2>1. PICK k \in T : \A n \in T : k <= n
    BY <1>2, <1>5, LeastNumber
  <2>2. PICK s \in SUBSET S : Cardinality(s) = k /\ ~ Good(s)
    BY <2>1
  <2>3. PICK x \in s : TRUE
    BY <1>4, <2>2
  <2>4. Cardinality(s \ {x}) = k - 1 /\ k \in Nat \ {0}
    BY <1>1, <2>2, LessOne
  <2>5. k - 1 \notin T
    <3> HIDE DEF T
    <3> QED BY <1>2, <2>1, <2>4
  <2>6. Good(s \ {x})
    BY <2>4, <2>5
  <2> QED BY <1>3, <2>2, <2>6
<1> QED BY <1>1, <1>5 DEF Good

(* A file is larger than the live data in it.                              *)
Weighed(f) ==
  /\ {"live", "deleted", "size"} \subseteq DOMAIN f
  /\ f.live \in SUBSET Objects /\ f.size \in Nat
  /\ Total[f.live \ f.deleted] + 1 <= f.size

ShelfInv == batches \in Nat /\ \A f \in files : Weighed(f)

(* A file is written with a trailer behind its data.                       *)
LEMMA NewWeighed ==
  ASSUME NEW g, NEW ids \in SUBSET Objects, NEW deleted
  PROVE  Weighed(NewFile(g, ids, deleted))
<1>1. PICK n \in Nat, k \in Nat : n = Total[ids \ deleted] /\ k = Cardinality(ids)
  <2>1. IsFiniteSet(ids) /\ ids \ deleted \in SUBSET Objects
    BY FS_Subset, CompactionAssumption
  <2> QED BY <2>1, TotalSplits, FS_CardinalityType
<1>2. DataSize(ids, deleted) = n
  BY <1>1, DataSizeIs
<1>3. PICK f : f = NewFile(g, ids, deleted)
  OBVIOUS
<1>4. /\ {"live", "deleted", "size"} \subseteq DOMAIN f
      /\ f.live = ids /\ f.deleted = deleted /\ f.size = n + 1 + k
  BY <1>1, <1>2, <1>3 DEF NewFile
<1>5. n + 1 + k \in Nat /\ n + 1 <= n + 1 + k
  OBVIOUS
<1> QED BY <1>1, <1>3, <1>4, <1>5 DEF Weighed

(* Replacing objects only takes from the live data.                        *)
LEMMA WithoutWeighed ==
  ASSUME NEW f, Weighed(f), NEW ids
  PROVE  Weighed(Without(f, ids))
<1>1. PICK e : e = Without(f, ids)
  OBVIOUS
<1>2. /\ {"live", "deleted", "size"} \subseteq DOMAIN e
      /\ e.live = f.live \ ids /\ e.deleted = f.deleted \ ids /\ e.size = f.size
  BY <1>1 DEF Without, Weighed
<1>3. PICK A \in SUBSET Objects, B \in SUBSET Objects :
        A = e.live \ e.deleted /\ B = f.live \ f.deleted
  BY <1>2 DEF Weighed
<1>4. A \subseteq B
  BY <1>2, <1>3
<1>5. Total[A] <= Total[B] /\ Total[A] \in Nat /\ Total[B] \in Nat
  BY <1>4, TotalBounds, TotalSplits
<1>6. f.size \in Nat /\ Total[B] + 1 <= f.size
  BY <1>3 DEF Weighed
<1>7. Total[A] + 1 <= f.size
  BY <1>5, <1>6
<1> QED BY <1>1, <1>2, <1>3, <1>6, <1>7 DEF Weighed

(* With one partition a group of small files becomes no more files than it *)
(* had.                                                                    *)
LEMMA SplitCount ==
  ASSUME \A o \in Objects : PartitionOf[o] = 0,
         NEW group, IsFiniteSet(group), group # {},
         \A f \in group : Weighed(f) /\ f.size <= TargetFileSize,
         LiveOf(group) # {}, NEW split \in Splits(group)
  PROVE  IsFiniteSet(split) /\ Cardinality(split) <= Cardinality(group)
<1>1. PICK L \in SUBSET Objects : L = LiveOf(group)
  BY DEF LiveOf, Weighed
<1>2. PICK D : D = DeletedOf(group)
  OBVIOUS
<1>3. ShardsOf(group) = {L}
  BY <1>1 DEF ShardsOf
<1>4. PICK order \in Orders(group) : split = UNION {PartsInOrder(order[s], D) : s \in {L}}
  BY <1>2, <1>3 DEF Splits
<1>5. order[L] \in SetToSeqs(L)
  BY <1>3 DEF Orders
<1>6. split = PartsInOrder(order[L], D)
  BY <1>4
<1>7. PICK k \in Nat : /\ IsFiniteSet(split) /\ Cardinality(split) <= k + 1
                       /\ k * TargetFileSize <= Total[L \ D]
  <2>1. L # {}
    BY <1>1
  <2> QED BY <1>5, <1>6, <2>1, PartsCount
<1>8. PICK t \in Nat \ {0} : t = TargetFileSize
  BY CompactionAssumption
<1>9. PICK n \in Nat \ {0} : n = Cardinality(group)
  BY FS_CardinalityType, FS_EmptySet
<1> DEFINE w == [f \in group |-> f.live \ f.deleted]
<1>10. \A f \in group : w[f] \in SUBSET Objects /\ Total[w[f]] <= t - 1
  <2> SUFFICES ASSUME NEW f \in group
               PROVE  w[f] \in SUBSET Objects /\ Total[w[f]] <= t - 1
    OBVIOUS
  <2>1. w[f] = f.live \ f.deleted /\ w[f] \in SUBSET Objects
    BY DEF Weighed
  <2>2. Total[w[f]] + 1 <= f.size /\ f.size \in Nat /\ f.size <= t
    BY <1>8, <2>1 DEF Weighed
  <2>3. Total[w[f]] \in Nat
    BY <2>1, TotalSplits
  <2> HIDE DEF w
  <2> QED BY <2>1, <2>2, <2>3
<1>11. L \ D \subseteq UNION {w[f] : f \in group}
  BY <1>1, <1>2 DEF LiveOf, DeletedOf
<1> HIDE DEF w
<1>12. t - 1 \in Nat
  OBVIOUS
<1>13. Total[UNION {w[f] : f \in group}] <= n * (t - 1)
  BY <1>9, <1>10, <1>12, UnionTotal
<1>14. k * t <= n * (t - 1)
  <2>1. PICK A \in SUBSET Objects, B \in SUBSET Objects :
          A = L \ D /\ B = UNION {w[f] : f \in group}
    BY <1>10
  <2>2. A \subseteq B
    BY <1>11, <2>1
  <2>3. PICK p \in Nat, q \in Nat : p = Total[A] /\ q = Total[B]
    BY TotalSplits
  <2>4. p <= q
    BY <2>2, <2>3, TotalBounds
  <2>5. k * t \in Nat /\ n * (t - 1) \in Nat
    BY <1>12
  <2>6. PICK a \in Nat, b \in Nat : a = k * t /\ b = n * (t - 1)
    BY <2>5
  <2>7. a <= p /\ q <= b
    BY <1>7, <1>8, <1>13, <2>1, <2>3, <2>6
  <2>8. a <= b
    BY <2>4, <2>7
  <2> QED BY <2>6, <2>8
<1>15. k + 1 <= n
  BY <1>14, TimesLess
<1>16. Cardinality(split) \in Nat
  BY <1>7, FS_CardinalityType
<1> QED BY <1>7, <1>9, <1>15, <1>16

(* A call leaves no more files than it found.                              *)
LEMMA MaintenanceCount ==
  ASSUME \A o \in Objects : PartitionOf[o] = 0, FilesInv, ShelfInv,
         \A f \in files : f.size <= TargetFileSize, Maintenance
  PROVE  Cardinality(files') + empty' <= FamLen
<1>1. PICK split \in [Groups -> UNION {Splits(Group(g)) : g \in Groups}] :
        /\ \A g \in Groups : split[g] \in Splits(Group(g))
        /\ files' = (files \ UNION {Group(g) : g \in Groups})
                      \cup UNION {Rewrite(g, split[g]) : g \in Groups}
  BY DEF Maintenance, Groups
<1> DEFINE old == [g \in Groups |-> Group(g)]
           new == [g \in Groups |-> Rewrite(g, split[g])]
<1>2. \A g \in Groups : Group(g) \subseteq files /\ Group(g) # {} /\ IsFiniteSet(Group(g))
  <2> SUFFICES ASSUME NEW g \in Groups
               PROVE  Group(g) \subseteq files /\ Group(g) # {} /\ IsFiniteSet(Group(g))
    OBVIOUS
  <2>1. Group(g) \subseteq files
    BY DEF Group
  <2>2. Group(g) # {}
    BY DEF Groups, Rewrites
  <2> QED BY <2>1, <2>2, FS_Subset DEF FilesInv
<1>3. ASSUME NEW g \in Groups
      PROVE  /\ IsFiniteSet(old[g]) /\ IsFiniteSet(new[g])
             /\ Cardinality(new[g]) <= Cardinality(old[g])
  <2>1. PICK group, s : group = Group(g) /\ s = split[g] /\ s \in Splits(group)
    BY <1>1
  <2>2. /\ IsFiniteSet(group) /\ group # {}
        /\ \A f \in group : Weighed(f) /\ f.size <= TargetFileSize
    BY <1>2, <2>1 DEF ShelfInv
  <2>3. LiveOf(group) # {} /\ LiveOf(group) \subseteq Objects
    BY <2>1, GroupsFacts
  <2>4. IsFiniteSet(s) /\ Cardinality(s) <= Cardinality(group)
    BY <2>1, <2>2, <2>3, SplitCount
  <2> DEFINE filled == [p \in s |-> NewFile(g, p, p \cap DeletedOf(group))]
  <2>5. Rewrite(g, s) = {filled[p] : p \in s}
    BY <2>1 DEF Rewrite
  <2>6. \A p, q \in s : filled[p] = filled[q] => p = q
    <3>1. \A p \in s : filled[p].live = p
      BY DEF NewFile
    <3> HIDE DEF filled
    <3> QED BY <3>1
  <2> HIDE DEF filled
  <2>7. IsFiniteSet(Rewrite(g, s)) /\ Cardinality(Rewrite(g, s)) = Cardinality(s)
    BY <2>4, <2>5, <2>6, ImageCardinality
  <2> QED BY <2>1, <2>2, <2>4, <2>7
<1>4. \A g, h \in Groups : g # h => old[g] \cap old[h] = {}
  BY DEF Group
<1>5. UNION {Group(g) : g \in Groups} = UNION {old[g] : g \in Groups}
  OBVIOUS
<1>6. UNION {Rewrite(g, split[g]) : g \in Groups} = UNION {new[g] : g \in Groups}
  OBVIOUS
<1>7. UNION {old[g] : g \in Groups} \subseteq files
  BY <1>2
<1> HIDE DEF old, new
<1>8. Cardinality(UNION {new[g] : g \in Groups}) <= Cardinality(UNION {old[g] : g \in Groups})
  <2>1. PICK S : S = Groups
    OBVIOUS
  <2>2. /\ IsFiniteSet(S)
        /\ \A g \in S : /\ IsFiniteSet(old[g]) /\ IsFiniteSet(new[g])
                        /\ Cardinality(new[g]) <= Cardinality(old[g])
        /\ \A g, h \in S : g # h => old[g] \cap old[h] = {}
    BY <1>3, <1>4, <2>1, GroupsFacts
  <2>3. Cardinality(UNION {new[g] : g \in S}) <= Cardinality(UNION {old[g] : g \in S})
    BY ONLY <2>2, UnionCount
  <2> QED BY <2>1, <2>3
<1>9. PICK F, A, B : /\ F = files /\ A = UNION {old[g] : g \in Groups}
                     /\ B = UNION {new[g] : g \in Groups}
  OBVIOUS
<1>10. IsFiniteSet(F) /\ A \subseteq F /\ files' = (F \ A) \cup B
  BY <1>1, <1>5, <1>6, <1>7, <1>9 DEF FilesInv
<1>11. IsFiniteSet(B)
  <2>1. IsFiniteSet({new[g] : g \in Groups})
    BY GroupsFacts, ImageFinite
  <2>2. \A s \in {new[g] : g \in Groups} : IsFiniteSet(s)
    BY <1>3
  <2> QED BY <1>9, <2>1, <2>2, FS_UNION
<1>12. Cardinality((F \ A) \cup B) <= Cardinality(F)
  <2>1. /\ IsFiniteSet(A) /\ IsFiniteSet(F \ A) /\ IsFiniteSet(F \cap A)
        /\ Cardinality(F \ A) = Cardinality(F) - Cardinality(F \cap A) /\ F \cap A = A
    BY <1>10, FS_Subset, FS_Difference
  <2>2. /\ Cardinality((F \ A) \cup B) =
             Cardinality(F \ A) + Cardinality(B) - Cardinality((F \ A) \cap B)
        /\ IsFiniteSet((F \ A) \cap B)
    BY <1>11, <2>1, FS_Union, FS_Intersection
  <2>3. /\ Cardinality(F) \in Nat /\ Cardinality(A) \in Nat /\ Cardinality(B) \in Nat
        /\ Cardinality((F \ A) \cap B) \in Nat
    BY <1>10, <1>11, <2>1, <2>2, FS_CardinalityType
  <2>4. Cardinality(B) <= Cardinality(A)
    BY <1>8, <1>9
  <2>5. PICK f \in Nat, a \in Nat, b \in Nat, c \in Nat :
          /\ f = Cardinality(F) /\ a = Cardinality(A) /\ b = Cardinality(B)
          /\ c = Cardinality((F \ A) \cap B)
    BY <2>3
  <2>6. Cardinality((F \ A) \cup B) = (f - a) + b - c /\ b <= a
    BY <2>1, <2>2, <2>4, <2>5
  <2>7. (f - a) + b - c <= f
    BY <2>6
  <2> QED BY <2>5, <2>6, <2>7
<1>13. empty' = 0 /\ empty \in Nat
  BY DEF Maintenance, FilesInv
<1>14. Cardinality(files') \in Nat /\ Cardinality(F) \in Nat
  <2>1. IsFiniteSet(files')
    BY MaintenanceFiles DEF FilesInv
  <2> QED BY <1>10, <2>1, FS_CardinalityType
<1>15. Cardinality(files') <= Cardinality(F)
  BY <1>10, <1>12
<1> QED BY <1>9, <1>13, <1>14, <1>15 DEF FamLen

(* Every step keeps the files larger than their data.                      *)
LEMMA ShelfStep ==
  FilesInv /\ ShelfInv /\ [CompactionNext]_compactionVars => ShelfInv'
<1> SUFFICES ASSUME FilesInv, ShelfInv, [CompactionNext]_compactionVars PROVE ShelfInv'
  OBVIOUS
<1>0. batches' \in Nat
  BY DEF ShelfInv, CompactionNext, compactionVars, WriteOneBatch, MaintainWhileWriting,
         WritersDone, Compact, Verify
<1>1. CASE files' = files
  BY <1>0, <1>1 DEF ShelfInv, Weighed
<1>2. CASE WriteOneBatch
  <2>1. PICK ids \in SUBSET Objects, deleted \in SUBSET Objects :
          files' = {f \in {Without(f, ids) : f \in files} : f.live # {}}
                     \cup {NewFile(0, ids, deleted)}
    BY <1>2, Zenon DEF WriteOneBatch
  <2>2. Weighed(NewFile(0, ids, deleted)) /\ \A f \in files : Weighed(Without(f, ids))
    BY NewWeighed, WithoutWeighed DEF ShelfInv
  <2>3. \A f \in files' : Weighed(f)
    BY <2>1, <2>2
  <2> QED BY <1>0, <2>3 DEF ShelfInv, Weighed
<1>3. CASE Maintenance
  <2>1. PICK split \in [Groups -> UNION {Splits(Group(g)) : g \in Groups}] :
          /\ \A g \in Groups : split[g] \in Splits(Group(g))
          /\ files' = (files \ UNION {Group(g) : g \in Groups})
                        \cup UNION {Rewrite(g, split[g]) : g \in Groups}
    BY <1>3 DEF Maintenance, Groups
  <2>2. ASSUME NEW g \in Groups, NEW f \in Rewrite(g, split[g]) PROVE Weighed(f)
    <3>1. PICK group, s : group = Group(g) /\ s = split[g] /\ s \in Splits(group)
      BY <2>1
    <3>2. LiveOf(group) \subseteq Objects
      BY <3>1, GroupsFacts
    <3>3. s \subseteq SUBSET Objects
      BY <3>1, <3>2, SplitFacts
    <3>4. PICK p \in s : f = NewFile(g, p, p \cap DeletedOf(group))
      BY <2>2, <3>1 DEF Rewrite
    <3> QED BY <3>3, <3>4, NewWeighed
  <2>3. \A f \in files' : Weighed(f)
    BY <2>1, <2>2 DEF ShelfInv
  <2> QED BY <1>0, <2>3 DEF ShelfInv, Weighed
<1> QED BY <1>1, <1>2, <1>3
        DEF CompactionNext, compactionVars, MaintainWhileWriting, WritersDone, Compact, Verify

(* Where all objects are in one partition, a call of maintenance over      *)
(* files of at most the target size never leaves more files than it found, *)
(* whatever was written and however the items are ordered.  With several   *)
(* partitions a group may become one file for each of them.                *)
THEOREM FilesDoNotMultiply ==
  ASSUME \A o \in Objects : PartitionOf[o] = 0
  PROVE  CompactionSpec => FilesNeverMultiply
<1> DEFINE Pays == (batches' = batches /\ \A f \in files : f.size <= TargetFileSize)
                     => Cardinality(files') + empty' <= FamLen
<1>1. CompactionInit => FilesInv /\ IdleInv /\ ShelfInv
  BY FS_EmptySet DEF CompactionInit, FilesInv, IdleInv, SecondCallIdle, ShelfInv
<1>2. FilesInv /\ ShelfInv /\ [CompactionNext]_compactionVars => Pays
  <2> SUFFICES ASSUME FilesInv, ShelfInv, [CompactionNext]_compactionVars,
                      batches' = batches, \A f \in files : f.size <= TargetFileSize
               PROVE  Cardinality(files') + empty' <= FamLen
    OBVIOUS
  <2>1. CASE files' = files /\ empty' = empty
    <3>1. FamLen \in Nat /\ Cardinality(files') + empty' = FamLen
      BY <2>1, FS_CardinalityType DEF FamLen, FilesInv
    <3> QED BY <3>1
  <2>2. CASE WriteOneBatch
    <3>1. batches \in Nat /\ batches' = batches + 1
      BY <2>2 DEF WriteOneBatch, ShelfInv
    <3> QED BY <3>1
  <2>3. CASE Maintenance
    BY <2>3, MaintenanceCount
  <2> QED BY <2>1, <2>2, <2>3
          DEF CompactionNext, compactionVars, MaintainWhileWriting, WritersDone, Compact, Verify
<1>3. FilesInv /\ ShelfInv /\ [CompactionNext]_compactionVars => [Pays]_compactionVars
  BY <1>2
<1> QED BY <1>1, <1>3, CompactionStep, ShelfStep, PTL DEF CompactionSpec, FilesNeverMultiply

(***************************************************************************)
(* The contents of storage files.                                          *)
(***************************************************************************)
(* Going up from 1.                                                        *)
LEMMA CountUp ==
  ASSUME NEW n \in Nat, NEW G, 1 \in G, \A i \in 1 .. n - 1 : i \in G => i + 1 \in G
  PROVE  \A i \in 1 .. n : i \in G
<1> DEFINE T == {i \in 1 .. n : i \notin G}
<1>1. T \subseteq Nat
  OBVIOUS
<1>2. ASSUME T # {} PROVE FALSE
  <2>1. PICK k \in T : \A m \in T : k <= m
    BY <1>1, <1>2, LeastNumber
  <2>2. k \in 1 .. n /\ k \notin G /\ k # 1
    BY <2>1
  <2>3. k - 1 \in 1 .. n - 1 /\ k - 1 \in 1 .. n /\ ~ (k <= k - 1) /\ (k - 1) + 1 = k
    BY <2>2
  <2>4. k - 1 \in G
    BY <2>1, <2>3
  <2> QED BY <2>2, <2>3, <2>4
<1> QED BY <1>2

(* The function by which FlattenSeq goes on.                               *)
Flattens(fl, seqs, n) ==
  fl = [i \in 1 .. n |-> IF i = 1 THEN seqs[i] ELSE fl[i - 1] \o seqs[i]]

(* There is such a function.                                               *)
LEMMA FlattensExists ==
  ASSUME NEW n \in Nat \ {0}, NEW seqs
  PROVE  \E fl : Flattens(fl, seqs, n)
<1> DEFINE G == {m \in 1 .. n : \E fl : Flattens(fl, seqs, m)}
<1>1. 1 \in G
  <2>1. Flattens([i \in 1 .. 1 |-> seqs[i]], seqs, 1)
    BY DEF Flattens
  <2> QED BY <2>1
<1>2. ASSUME NEW m \in 1 .. n - 1, m \in G PROVE m + 1 \in G
  <2>1. PICK fl : Flattens(fl, seqs, m)
    BY <1>2
  <2> DEFINE next == [i \in 1 .. m + 1 |-> IF i = 1 THEN seqs[i] ELSE fl[i - 1] \o seqs[i]]
  <2>2. ASSUME NEW i \in 1 .. m PROVE next[i] = fl[i]
    <3>1. i \in 1 .. m + 1
      BY <1>2
    <3> QED BY <2>1, <3>1 DEF Flattens
  <2>3. \A i \in 1 .. m + 1 : i # 1 => i - 1 \in 1 .. m
    BY <1>2
  <2>4. \A i \in 1 .. m + 1 : i # 1 => next[i - 1] = fl[i - 1]
    BY <2>2, <2>3
  <2>5. next = [i \in 1 .. m + 1 |-> IF i = 1 THEN seqs[i] ELSE next[i - 1] \o seqs[i]]
    <3> DEFINE D == 1 .. m + 1
    <3>1. \A i \in D : i # 1 => next[i - 1] = fl[i - 1]
      BY <2>4
    <3>2. next = [i \in D |-> IF i = 1 THEN seqs[i] ELSE fl[i - 1] \o seqs[i]]
      OBVIOUS
    <3> HIDE DEF D, next
    <3>3. next = [i \in D |-> IF i = 1 THEN seqs[i] ELSE next[i - 1] \o seqs[i]]
      BY <3>1, <3>2
    <3> QED BY <3>3 DEF D
  <2> HIDE DEF next
  <2>6. m + 1 \in 1 .. n /\ m + 1 \in Nat
    BY <1>2
  <2>7. Flattens(next, seqs, m + 1)
    BY <2>5 DEF Flattens
  <2> QED BY <2>6, <2>7
<1>3. n \in G
  <2> HIDE DEF G
  <2> QED BY <1>1, <1>2, CountUp
<1> QED BY <1>3

(* FlattenSeq is where that function ends.                                 *)
LEMMA FlattenIs ==
  ASSUME NEW seqs, NEW n \in Nat \ {0}, Len(seqs) = n
  PROVE  \E fl : /\ fl[1] = seqs[1] /\ FlattenSeq(seqs) = fl[n]
                 /\ \A i \in 1 .. n - 1 : fl[i + 1] = fl[i] \o seqs[i + 1]
<1> DEFINE Step(g) == [i \in 1 .. n |-> IF i = 1 THEN seqs[i] ELSE g[i - 1] \o seqs[i]]
           fl == CHOOSE g : g = Step(g)
<1>1. FlattenSeq(seqs) = fl[n]
  BY DEF FlattenSeq
<1>2. \E g : g = Step(g)
  BY FlattensExists DEF Flattens
<1>3. fl = Step(fl)
  <2> HIDE DEF Step
  <2> QED BY <1>2
<1> HIDE DEF fl
<1>4. fl[1] = seqs[1]
  BY <1>3
<1>5. ASSUME NEW i \in 1 .. n - 1 PROVE fl[i + 1] = fl[i] \o seqs[i + 1]
  <2>1. i + 1 \in 1 .. n /\ i + 1 # 1 /\ (i + 1) - 1 = i
    OBVIOUS
  <2> QED BY <1>3, <2>1
<1> QED BY <1>1, <1>4, <1>5

(* A field or a byte, and what a cell holds at least.                      *)
Single == {c \in Seq(Nat) : Len(c) = 1}

Cell == {c \in Seq(Nat) : Len(c) # 0}

(* The sum over fields and bytes tells every one of them.                  *)
LEMMA FlattenSingles ==
  ASSUME NEW seqs \in Seq(Single)
  PROVE  /\ FlattenSeq(seqs) \in Seq(Nat) /\ Len(FlattenSeq(seqs)) = Len(seqs)
         /\ \A j \in 1 .. Len(seqs) : FlattenSeq(seqs)[j] = seqs[j][1]
<1>1. CASE Len(seqs) = 0
  BY <1>1 DEF FlattenSeq
<1>2. CASE Len(seqs) # 0
  <2>1. PICK n \in Nat \ {0} : n = Len(seqs)
    BY <1>2
  <2>2. PICK fl : /\ fl[1] = seqs[1] /\ FlattenSeq(seqs) = fl[n]
                  /\ \A i \in 1 .. n - 1 : fl[i + 1] = fl[i] \o seqs[i + 1]
    BY <2>1, FlattenIs
  <2> DEFINE Good(i) == /\ fl[i] \in Seq(Nat) /\ Len(fl[i]) = i
                        /\ \A j \in 1 .. i : fl[i][j] = seqs[j][1]
             G == {i \in 1 .. n : Good(i)}
  <2>3. \A i \in 1 .. n : seqs[i] \in Seq(Nat) /\ Len(seqs[i]) = 1
    BY <2>1 DEF Single
  <2>4. 1 \in G
    BY <2>2, <2>3
  <2>5. ASSUME NEW i \in 1 .. n - 1, i \in G PROVE i + 1 \in G
    <3>1. PICK a, b : a = fl[i] /\ b = seqs[i + 1]
      OBVIOUS
    <3>2. /\ i + 1 \in 1 .. n /\ b \in Seq(Nat) /\ Len(b) = 1
          /\ a \in Seq(Nat) /\ Len(a) = i
          /\ \A j \in 1 .. i : a[j] = seqs[j][1]
      BY <2>3, <2>5, <3>1
    <3>3. /\ a \o b \in Seq(Nat) /\ Len(a \o b) = i + 1
          /\ \A j \in 1 .. i + 1 : (a \o b)[j] = IF j <= i THEN a[j] ELSE b[j - i]
      <4>1. /\ a \o b \in Seq(Nat) /\ Len(a \o b) = Len(a) + Len(b)
            /\ \A j \in 1 .. Len(a) + Len(b) :
                 (a \o b)[j] = IF j <= Len(a) THEN a[j] ELSE b[j - Len(a)]
        BY <3>2, ConcatProperties
      <4>2. Len(a) + Len(b) = i + 1 /\ Len(a) = i
        BY <3>2
      <4> QED BY <4>1, <4>2
    <3>4. ASSUME NEW j \in 1 .. i + 1 PROVE (a \o b)[j] = seqs[j][1]
      <4>1. CASE j <= i
        BY <3>2, <3>3, <4>1
      <4>2. CASE ~ (j <= i)
        <5>1. j = i + 1 /\ j - i = 1
          BY <4>2
        <5>2. (a \o b)[j] = b[1]
          BY <3>3, <4>2, <5>1
        <5> QED BY <3>1, <5>1, <5>2
      <4> QED BY <4>1, <4>2
    <3>5. fl[i + 1] = a \o b
      BY <2>2, <3>1
    <3> QED BY <3>2, <3>3, <3>4, <3>5
  <2>6. n \in G
    <3> HIDE DEF G
    <3>1. n \in 1 .. n
      BY <2>1
    <3> QED BY <2>4, <2>5, <3>1, CountUp
  <2> QED BY <2>1, <2>2, <2>6
<1> QED BY <1>1, <1>2

(* The first number of the sum is that of the first cell.                  *)
LEMMA FlattenFirst ==
  ASSUME NEW seqs \in Seq(Cell), Len(seqs) # 0
  PROVE  FlattenSeq(seqs)[1] = seqs[1][1]
<1>1. PICK n \in Nat \ {0} : n = Len(seqs)
  OBVIOUS
<1>2. PICK fl : /\ fl[1] = seqs[1] /\ FlattenSeq(seqs) = fl[n]
                /\ \A i \in 1 .. n - 1 : fl[i + 1] = fl[i] \o seqs[i + 1]
  BY <1>1, FlattenIs
<1> DEFINE G == {i \in 1 .. n : fl[i] \in Cell /\ fl[i][1] = seqs[1][1]}
<1>3. \A i \in 1 .. n : seqs[i] \in Cell
  BY <1>1
<1>4. 1 \in G
  BY <1>2, <1>3
<1>5. ASSUME NEW i \in 1 .. n - 1, i \in G PROVE i + 1 \in G
  <2>1. PICK a, b : a = fl[i] /\ b = seqs[i + 1]
    OBVIOUS
  <2>0. i + 1 \in 1 .. n
    OBVIOUS
  <2>2. /\ b \in Seq(Nat) /\ Len(b) \in Nat
        /\ a \in Seq(Nat) /\ Len(a) \in Nat \ {0} /\ a[1] = seqs[1][1]
    <3>1. a \in Cell /\ b \in Cell /\ a[1] = seqs[1][1]
      BY <1>3, <1>5, <2>0, <2>1
    <3> QED BY <3>1 DEF Cell
  <2>3. /\ a \o b \in Seq(Nat) /\ Len(a \o b) = Len(a) + Len(b)
        /\ \A j \in 1 .. Len(a) + Len(b) :
             (a \o b)[j] = IF j <= Len(a) THEN a[j] ELSE b[j - Len(a)]
    BY <2>2, ConcatProperties
  <2>4. (a \o b)[1] = a[1] /\ Len(a \o b) # 0
    <3>1. PICK k \in Nat \ {0}, m \in Nat : k = Len(a) /\ m = Len(b)
      BY <2>2
    <3>2. 1 \in 1 .. k + m /\ 1 <= k /\ k + m # 0
      OBVIOUS
    <3> QED BY <2>3, <3>1, <3>2
  <2>5. fl[i + 1] = a \o b
    BY <1>2, <2>1
  <2> QED BY <2>0, <2>2, <2>3, <2>4, <2>5 DEF Cell
<1>6. n \in G
  <2> HIDE DEF G
  <2>1. n \in 1 .. n
    BY <1>1
  <2> QED BY <1>4, <1>5, <2>1, CountUp
<1> QED BY <1>2, <1>6

(* Pairs one after the other.                                              *)
LEMMA FlattenPairs ==
  ASSUME NEW X, NEW seqs \in Seq(Seq(X)), \A i \in 1 .. Len(seqs) : Len(seqs[i]) = 2
  PROVE  /\ FlattenSeq(seqs) \in Seq(X) /\ Len(FlattenSeq(seqs)) = 2 * Len(seqs)
         /\ \A j \in 1 .. Len(seqs) : /\ FlattenSeq(seqs)[2 * j - 1] = seqs[j][1]
                                      /\ FlattenSeq(seqs)[2 * j] = seqs[j][2]
<1>1. CASE Len(seqs) = 0
  <2>1. seqs = <<>>
    BY <1>1
  <2> QED BY <1>1, <2>1 DEF FlattenSeq
<1>2. CASE Len(seqs) # 0
  <2>1. PICK n \in Nat \ {0} : n = Len(seqs)
    BY <1>2
  <2>2. PICK fl : /\ fl[1] = seqs[1] /\ FlattenSeq(seqs) = fl[n]
                  /\ \A i \in 1 .. n - 1 : fl[i + 1] = fl[i] \o seqs[i + 1]
    BY <2>1, FlattenIs
  <2> DEFINE Good(i) == /\ fl[i] \in Seq(X) /\ Len(fl[i]) = 2 * i
                        /\ \A j \in 1 .. i : fl[i][2 * j - 1] = seqs[j][1] /\ fl[i][2 * j] = seqs[j][2]
             G == {i \in 1 .. n : Good(i)}
  <2>3. \A i \in 1 .. n : seqs[i] \in Seq(X) /\ Len(seqs[i]) = 2
    BY <2>1
  <2>4. 1 \in G
    BY <2>2, <2>3
  <2>5. ASSUME NEW i \in 1 .. n - 1, i \in G PROVE i + 1 \in G
    <3>1. PICK a, b : a = fl[i] /\ b = seqs[i + 1]
      OBVIOUS
    <3>0. i + 1 \in 1 .. n
      BY <2>5
    <3>2. /\ b \in Seq(X) /\ Len(b) = 2
          /\ a \in Seq(X) /\ Len(a) = 2 * i
          /\ \A j \in 1 .. i : a[2 * j - 1] = seqs[j][1] /\ a[2 * j] = seqs[j][2]
      BY <2>3, <2>5, <3>0, <3>1
    <3>3. /\ a \o b \in Seq(X) /\ Len(a \o b) = 2 * i + 2
          /\ \A j \in 1 .. 2 * i + 2 : (a \o b)[j] = IF j <= 2 * i THEN a[j] ELSE b[j - 2 * i]
      <4>1. /\ a \o b \in Seq(X) /\ Len(a \o b) = Len(a) + Len(b)
            /\ \A j \in 1 .. Len(a) + Len(b) :
                 (a \o b)[j] = IF j <= Len(a) THEN a[j] ELSE b[j - Len(a)]
        BY <3>2, ConcatProperties
      <4>2. Len(a) + Len(b) = 2 * i + 2 /\ Len(a) = 2 * i
        BY <3>2
      <4> QED BY <4>1, <4>2
    <3>4. ASSUME NEW j \in 1 .. i + 1
          PROVE  (a \o b)[2 * j - 1] = seqs[j][1] /\ (a \o b)[2 * j] = seqs[j][2]
      <4>1. CASE j <= i
        <5>1. /\ 2 * j - 1 \in 1 .. 2 * i + 2 /\ 2 * j - 1 <= 2 * i
              /\ 2 * j \in 1 .. 2 * i + 2 /\ 2 * j <= 2 * i /\ j \in 1 .. i
          BY <4>1
        <5> QED BY <3>2, <3>3, <5>1
      <4>2. CASE ~ (j <= i)
        <5>1. /\ j = i + 1
              /\ 2 * j - 1 \in 1 .. 2 * i + 2 /\ ~ (2 * j - 1 <= 2 * i) /\ 2 * j - 1 - 2 * i = 1
              /\ 2 * j \in 1 .. 2 * i + 2 /\ ~ (2 * j <= 2 * i) /\ 2 * j - 2 * i = 2
          BY <4>2
        <5>2. (a \o b)[2 * j - 1] = b[1] /\ (a \o b)[2 * j] = b[2]
          BY <3>3, <5>1
        <5> QED BY <3>1, <5>1, <5>2
      <4> QED BY <4>1, <4>2
    <3>5. fl[i + 1] = a \o b
      BY <2>2, <3>1
    <3>6. 2 * (i + 1) = 2 * i + 2
      OBVIOUS
    <3> QED BY <3>0, <3>3, <3>4, <3>5, <3>6
  <2>6. n \in G
    <3> HIDE DEF G
    <3>1. n \in 1 .. n
      BY <2>1
    <3> QED BY <2>4, <2>5, <3>1, CountUp
  <2> QED BY <2>1, <2>2, <2>6
<1> QED BY <1>1, <1>2

(* A sequence is given by its elements.                                    *)
LEMMA IndexedSeq ==
  ASSUME NEW S, NEW n \in Nat, NEW s, DOMAIN s = 1 .. n, s = [i \in DOMAIN s |-> s[i]],
         \A i \in 1 .. n : s[i] \in S
  PROVE  s \in Seq(S) /\ Len(s) = n
<1>1. s \in [1 .. n -> S]
  OBVIOUS
<1>2. s \in Seq(S)
  <2>1. [1 .. n -> S] \in {[1 .. m -> S] : m \in Nat}
    OBVIOUS
  <2>2. s \in UNION {[1 .. m -> S] : m \in Nat}
    BY <1>1, <2>1, Zenon
  <2> QED BY <2>2, SeqDef, Zenon
<1> QED BY <1>2

(* A number makes a cell.                                                  *)
LEMMA Singles == \A k \in Nat : <<k>> \in Single /\ <<k>> \in Cell /\ <<k>>[1] = k
BY DEF Single, Cell

(* The types of what a file is written from.                               *)
FileTypes ==
  /\ DOMAIN objects \subseteq FileIds /\ tombstones \subseteq FileIds
  /\ DOMAIN objects \cap tombstones = {}
  /\ \A o \in DOMAIN objects : objects[o] \in Seq(Nat)
  /\ dict # <<>> => \E d \in Nat : dict = <<<<d>>>>

(* The bytes of an object can be decompressed.                             *)
LEMMA StoredFacts ==
  ASSUME FileTypes, NEW o \in DOMAIN objects
  PROVE  Stored(o) \in Seq(Single) /\ DecompressWith(dict, Stored(o)) = objects[o]
<1>1. PICK v \in Seq(Nat) : v = objects[o]
  BY DEF FileTypes
<1>2. DOMAIN v = 1 .. Len(v) /\ Len(v) \in Nat /\ \A i \in 1 .. Len(v) : v[i] \in Nat
  OBVIOUS
<1>3. CASE dict = <<>>
  <2>1. PICK body : body = Numbers(v)
    OBVIOUS
  <2>2. /\ DOMAIN body = 1 .. Len(v) /\ body = [i \in DOMAIN body |-> body[i]]
        /\ \A i \in 1 .. Len(v) : body[i] = <<v[i]>>
    BY <1>2, <2>1 DEF Numbers
  <2>3. body \in Seq(Single) /\ Len(body) = Len(v)
    <3>1. \A i \in 1 .. Len(v) : body[i] \in Single
      BY <1>2, <2>2, Singles
    <3> QED BY <1>2, <2>2, <3>1, IndexedSeq
  <2>4. [i \in DOMAIN body |-> body[i][1]] = v
    <3>1. \A i \in 1 .. Len(v) : body[i][1] = v[i]
      BY <1>2, <2>2, Singles
    <3> QED BY <1>2, <2>2, <3>1
  <2> QED BY <1>1, <1>3, <2>1, <2>3, <2>4 DEF Stored, DecompressWith
<1>4. CASE dict # <<>>
  <2>1. PICK d \in Nat : dict = <<<<d>>>>
    BY <1>4 DEF FileTypes
  <2>2. PICK tail : tail = [i \in DOMAIN v |-> <<v[i] + d>>]
    OBVIOUS
  <2>3. /\ DOMAIN tail = 1 .. Len(v) /\ tail = [i \in DOMAIN tail |-> tail[i]]
        /\ \A i \in 1 .. Len(v) : tail[i] = <<v[i] + d>> /\ v[i] + d \in Nat
    BY <1>2, <2>2
  <2>4. tail \in Seq(Single) /\ Len(tail) = Len(v)
    <3>1. \A i \in 1 .. Len(v) : tail[i] \in Single
      BY <1>2, <2>3, Singles
    <3> QED BY <1>2, <2>3, <3>1, IndexedSeq
  <2>5. PICK head : head = <<<<Len(v)>>>>
    OBVIOUS
  <2>6. head \in Seq(Single) /\ Len(head) = 1 /\ head[1] = <<Len(v)>>
    BY <1>2, <2>5, Singles
  <2>7. PICK body : body = head \o tail
    OBVIOUS
  <2>8. Stored(o) = body
    BY <1>1, <1>4, <2>1, <2>2, <2>5, <2>7 DEF Stored, Compress
  <2>9. /\ body \in Seq(Single) /\ Len(body) = 1 + Len(v)
        /\ \A i \in 1 .. 1 + Len(v) : body[i] = IF i <= 1 THEN head[i] ELSE tail[i - 1]
    <3>1. /\ body \in Seq(Single) /\ Len(body) = Len(head) + Len(tail)
          /\ \A i \in 1 .. Len(head) + Len(tail) :
               body[i] = IF i <= Len(head) THEN head[i] ELSE tail[i - Len(head)]
      BY <2>4, <2>6, <2>7, ConcatProperties
    <3> QED BY <2>4, <2>6, <3>1
  <2>10. body[1][1] = Len(v)
    BY <1>2, <2>6, <2>9, Singles
  <2>11. ASSUME NEW i \in 1 .. Len(v) PROVE body[i + 1][1] - d = v[i]
    <3>1. i + 1 \in 1 .. 1 + Len(v) /\ ~ (i + 1 <= 1) /\ (i + 1) - 1 = i
      BY <1>2
    <3>2. body[i + 1] = <<v[i] + d>>
      BY <2>3, <2>9, <3>1
    <3>3. body[i + 1][1] = v[i] + d
      BY <2>3, <3>2, Singles
    <3>4. v[i] \in Nat
      BY <1>2
    <3> QED BY <3>3, <3>4
  <2>12. [i \in 1 .. body[1][1] |-> body[i + 1][1] - d] = v
    BY <1>2, <2>10, <2>11
  <2> QED BY <1>1, <1>4, <2>1, <2>8, <2>9, <2>12 DEF DecompressWith
<1> QED BY <1>3, <1>4

(* An object with its header, somewhere in a sequence of cells.            *)
WrittenAt(cells, offset, o, body) ==
  /\ offset \in Nat /\ offset + 3 + Len(body) <= Len(cells)
  /\ cells[offset + 1] = ObjectHash(<<Len(body)>>, <<o>>, body)
  /\ cells[offset + 2] = <<o>> /\ cells[offset + 3] = <<Len(body)>>
  /\ \A i \in 1 .. Len(body) : cells[offset + 3 + i] = body[i]

(* A part of a sequence, element by element.                               *)
LEMMA PartEqual ==
  ASSUME NEW S, NEW s \in Seq(S), NEW begin \in Nat, NEW T, NEW t \in Seq(T),
         begin + Len(t) <= Len(s), \A i \in 1 .. Len(t) : s[begin + i] = t[i]
  PROVE  SubSeq(s, begin + 1, begin + Len(t)) = t
<1>1. PICK n \in Nat : n = Len(t)
  OBVIOUS
<1>2. PICK m \in Nat : m = Len(s) /\ begin + n <= m
  BY <1>1
<1>3. \A i \in begin + 1 .. begin + n : s[i] \in S
  <2>1. \A i \in begin + 1 .. begin + n : i \in 1 .. m
    BY <1>2
  <2> QED BY <1>2, <2>1
<1>4. PICK u : u = SubSeq(s, begin + 1, begin + n)
  OBVIOUS
<1>5. /\ u \in Seq(S)
      /\ Len(u) = IF begin + 1 <= begin + n THEN (begin + n) - (begin + 1) + 1 ELSE 0
      /\ \A i \in 1 .. (begin + n) - (begin + 1) + 1 : u[i] = s[(begin + 1) + i - 1]
  <2>1. begin + 1 \in Int /\ begin + n \in Int
    OBVIOUS
  <2> QED BY <1>3, <1>4, <2>1, SubSeqProperties
<1>6. Len(u) = n /\ \A i \in 1 .. n : u[i] = s[begin + i]
  <2>1. (begin + n) - (begin + 1) + 1 = n /\ \A i \in 1 .. n : (begin + 1) + i - 1 = begin + i
    OBVIOUS
  <2> QED BY <1>5, <2>1
<1>7. \A i \in 1 .. n : u[i] = t[i]
  BY <1>1, <1>6
<1>8. u = [i \in 1 .. n |-> u[i]] /\ t = [i \in 1 .. n |-> t[i]]
  BY <1>1, <1>5, <1>6
<1> QED BY <1>1, <1>4, <1>7, <1>8

(* Reading an object where it was written.                                 *)
LEMMA WrittenRead ==
  ASSUME file \in Seq(Cell), NEW offset, NEW o, NEW body \in Seq(Single),
         WrittenAt(file, offset, o, body)
  PROVE  /\ Intact(offset) /\ HeaderAt(offset).id = <<o>>
         /\ HeaderAt(offset).len[1] = Len(body) /\ BodyAt(offset) = body
         /\ NextOffset(offset) = offset + 3 + Len(body)
<1>1. PICK n \in Nat : n = Len(body)
  OBVIOUS
<1>2. /\ offset \in Nat /\ offset + 3 + n <= Len(file)
      /\ file[offset + 1] = ObjectHash(<<n>>, <<o>>, body)
      /\ file[offset + 2] = <<o>> /\ file[offset + 3] = <<n>>
      /\ \A i \in 1 .. n : file[offset + 3 + i] = body[i]
  BY <1>1 DEF WrittenAt
<1>3. /\ HeaderAt(offset).crc = ObjectHash(<<n>>, <<o>>, body)
      /\ HeaderAt(offset).id = <<o>> /\ HeaderAt(offset).len = <<n>>
  BY <1>2 DEF HeaderAt
<1>4. HeaderAt(offset).len[1] = n
  BY <1>3
<1>5. BodyAt(offset) = body
  <2>1. PICK begin \in Nat : begin = offset + 3 /\ begin + n <= Len(file)
    BY <1>2
  <2>2. SubSeq(file, begin + 1, begin + n) = body
    BY <1>1, <1>2, <2>1, PartEqual
  <2> QED BY <1>4, <2>1, <2>2 DEF BodyAt, Cells, HeaderCells
<1>6. CanRead(offset, offset + 3) /\ CanRead(offset, offset + 3 + n)
  BY <1>2 DEF CanRead
<1>7. Intact(offset)
  BY <1>3, <1>4, <1>5, <1>6 DEF Intact, HeaderCells
<1> QED BY <1>1, <1>3, <1>4, <1>5, <1>7 DEF NextOffset, HeaderCells

(* A field or a byte is told by its number.                                *)
LEMMA SingleFacts ==
  /\ Single \subseteq Cell
  /\ \A c \in Single : c[1] \in Nat /\ c = <<c[1]>>
  /\ \A c, d \in Single : c[1] = d[1] => c = d
<1>1. ASSUME NEW c \in Single
      PROVE  c[1] \in Nat /\ c = <<c[1]>>
  <2>1. c \in Seq(Nat) /\ Len(c) = 1
    BY Zenon DEF Single
  <2>2. c[1] \in Nat
    BY <2>1
  <2>3. <<c[1]>> \in Seq(Nat) /\ Len(<<c[1]>>) = 1 /\ <<c[1]>>[1] = c[1]
    BY <2>2
  <2>4. \A i \in 1 .. Len(c) : c[i] = <<c[1]>>[i]
    BY <2>1, <2>3
  <2> QED BY <2>1, <2>2, <2>3, <2>4, SeqEqual
<1> QED BY <1>1 DEF Single, Cell

(* The cells that a checksum is computed over.                             *)
LEMMA HashedCells ==
  ASSUME NEW S, NEW len \in S, NEW id \in S, NEW body \in Seq(S), NEW s, s = <<len, id>> \o body
  PROVE  /\ s \in Seq(S) /\ Len(s) = 2 + Len(body) /\ s[1] = len /\ s[2] = id
         /\ \A i \in 1 .. Len(body) : s[2 + i] = body[i]
<1>1. PICK head : head = <<len, id>>
  OBVIOUS
<1>2. head \in Seq(S) /\ Len(head) = 2 /\ head[1] = len /\ head[2] = id
  BY <1>1
<1>3. /\ s \in Seq(S) /\ Len(s) = Len(head) + Len(body)
      /\ \A i \in 1 .. Len(head) + Len(body) :
           s[i] = IF i <= Len(head) THEN head[i] ELSE body[i - Len(head)]
  BY <1>1, <1>2, ConcatProperties
<1>4. PICK n \in Nat : n = Len(body)
  OBVIOUS
<1>5. Len(s) = 2 + n /\ \A i \in 1 .. 2 + n : s[i] = IF i <= 2 THEN head[i] ELSE body[i - 2]
  BY <1>2, <1>3, <1>4
<1>6. ASSUME NEW i \in 1 .. n PROVE s[2 + i] = body[i]
  <2>1. 2 + i \in 1 .. 2 + n /\ ~ (2 + i <= 2) /\ (2 + i) - 2 = i
    OBVIOUS
  <2> QED BY <1>5, <2>1
<1> QED BY <1>2, <1>3, <1>4, <1>5, <1>6

(* The checksum of an object tells a wrong length, whatever is read as the *)
(* object then, and a wrong id or byte.                                    *)
LEMMA HashFirst ==
  ASSUME NEW len \in Cell, NEW id \in Cell, NEW body \in Seq(Cell)
  PROVE  ObjectHash(len, id, body)[1] = len[1]
<1>1. PICK s : s = <<len, id>> \o body
  OBVIOUS
<1>2. s \in Seq(Cell) /\ Len(s) = 2 + Len(body) /\ s[1] = len
  BY <1>1, HashedCells
<1>3. Len(s) # 0
  BY <1>2
<1>4. FlattenSeq(s)[1] = s[1][1]
  BY <1>2, <1>3, FlattenFirst
<1> QED BY <1>1, <1>2, <1>4 DEF ObjectHash, Crc

(* With the right length, the checksum tells the id and every byte.        *)
LEMMA HashTells ==
  ASSUME NEW len \in Single, NEW id \in Single, NEW read \in Single,
         NEW body \in Seq(Single), NEW bytes \in Seq(Single), Len(body) = Len(bytes),
         ObjectHash(len, id, body) = ObjectHash(len, read, bytes)
  PROVE  id = read /\ body = bytes
<1>1. PICK n \in Nat : n = Len(body) /\ n = Len(bytes)
  OBVIOUS
<1>2. PICK s, t : s = <<len, id>> \o body /\ t = <<len, read>> \o bytes
  OBVIOUS
<1>3. /\ s \in Seq(Single) /\ Len(s) = 2 + n /\ s[2] = id
      /\ \A i \in 1 .. n : s[2 + i] = body[i]
  BY <1>1, <1>2, HashedCells
<1>4. /\ t \in Seq(Single) /\ Len(t) = 2 + n /\ t[2] = read
      /\ \A i \in 1 .. n : t[2 + i] = bytes[i]
  BY <1>1, <1>2, HashedCells
<1>5. FlattenSeq(s) = FlattenSeq(t)
  BY <1>2 DEF ObjectHash, Crc
<1>6. \A i \in 1 .. 2 + n : s[i][1] = t[i][1] /\ s[i] \in Single /\ t[i] \in Single
  <2>1. \A i \in 1 .. 2 + n : FlattenSeq(s)[i] = s[i][1] /\ FlattenSeq(t)[i] = t[i][1]
    BY <1>3, <1>4, FlattenSingles
  <2> QED BY <1>3, <1>4, <1>5, <2>1
<1>7. \A i \in 1 .. 2 + n : s[i] = t[i]
  BY <1>6, SingleFacts
<1>8. 2 \in 1 .. 2 + n /\ \A i \in 1 .. n : 2 + i \in 1 .. 2 + n
  OBVIOUS
<1>9. id = read /\ \A i \in 1 .. n : body[i] = bytes[i]
  BY <1>3, <1>4, <1>7, <1>8
<1> QED BY <1>1, <1>9, SeqEqual

(* What is left of a file whose end is lost or that has a cell damaged.    *)
Spoilt(cells, whole) ==
  \/ Len(cells) <= Len(whole) /\ \A j \in 1 .. Len(cells) : cells[j] = whole[j]
  \/ /\ Len(cells) = Len(whole)
     /\ \E i \in 1 .. Len(whole) :
          cells[i] \in Single /\ \A j \in 1 .. Len(whole) : j # i => cells[j] = whole[j]

(* An object that passes the check in such a file is the one that was      *)
(* written.                                                                *)
LEMMA ObjectTells ==
  ASSUME NEW whole \in Seq(Cell), file \in Seq(Cell), Spoilt(file, whole),
         NEW offset, NEW o \in Nat, NEW body \in Seq(Single),
         WrittenAt(whole, offset, o, body), Intact(offset)
  PROVE  WrittenAt(file, offset, o, body)
<1>1. PICK n \in Nat, m \in Nat, w \in Nat : n = Len(body) /\ m = Len(file) /\ w = Len(whole)
  OBVIOUS
<1>2. /\ offset \in Nat /\ offset + 3 + n <= w
      /\ whole[offset + 1] = ObjectHash(<<n>>, <<o>>, body)
      /\ whole[offset + 2] = <<o>> /\ whole[offset + 3] = <<n>>
      /\ \A i \in 1 .. n : whole[offset + 3 + i] = body[i]
  BY <1>1 DEF WrittenAt
<1>3. PICK crc, id, len : /\ crc = file[offset + 1] /\ id = file[offset + 2]
                          /\ len = file[offset + 3]
  OBVIOUS
<1>4. /\ offset + 3 <= m /\ offset + 3 + len[1] <= m
      /\ crc = ObjectHash(len, id, BodyAt(offset))
      /\ BodyAt(offset) = SubSeq(file, offset + 3 + 1, offset + 3 + len[1])
  BY <1>1, <1>2, <1>3 DEF Intact, CanRead, HeaderCells, HeaderAt, BodyAt, Cells
<1>5. ASSUME len = <<n>>, id = <<o>>, crc = whole[offset + 1],
             \A i \in 1 .. n : file[offset + 3 + i] = body[i]
      PROVE  WrittenAt(file, offset, o, body)
  <2>1. len[1] = n
    BY <1>5
  <2> QED BY <1>1, <1>2, <1>3, <1>4, <1>5, <2>1 DEF WrittenAt
<1>6. /\ \A i \in {1, 2, 3} : offset + i \in 1 .. m /\ offset + i \in 1 .. w
      /\ \A j \in 1 .. n : offset + 3 + j \in 1 .. w
  <2>1. offset \in Nat /\ offset + 3 <= m /\ offset + 3 + n <= w
    BY <1>2, <1>4
  <2> QED BY <2>1
<1>7. CASE m <= w /\ \A j \in 1 .. m : file[j] = whole[j]
  <2>1. len = <<n>> /\ id = <<o>> /\ crc = whole[offset + 1]
    BY <1>2, <1>3, <1>6, <1>7
  <2>2. offset + 3 + n <= m
    BY <1>4, <2>1
  <2>3. \A i \in 1 .. n : offset + 3 + i \in 1 .. m
    BY <1>2, <2>2
  <2> QED BY <1>2, <1>5, <1>7, <2>1, <2>3
<1>8. CASE m = w /\ \E i \in 1 .. w : /\ file[i] \in Single
                                      /\ \A j \in 1 .. w : j # i => file[j] = whole[j]
  <2>1. PICK i \in 1 .. w : file[i] \in Single /\ \A j \in 1 .. w : j # i => file[j] = whole[j]
    BY <1>8
  <2>2. len \in Single /\ id \in Single
    <3>1. <<n>> \in Single /\ <<o>> \in Single
      BY Singles
    <3> QED BY <1>2, <1>3, <1>6, <2>1, <3>1
  <2>3. CASE len # <<n>>
    <3>1. i = offset + 3
      BY <1>2, <1>3, <1>6, <2>1, <2>3
    <3>2. crc = ObjectHash(<<n>>, <<o>>, body)
      <4>1. offset + 1 # i
        BY <1>2, <3>1
      <4> QED BY <1>2, <1>3, <1>6, <2>1, <4>1
    <3>3. crc[1] = n
      <4>1. <<n>> \in Cell /\ <<o>> \in Cell /\ <<n>>[1] = n
        BY Singles
      <4>2. body \in Seq(Cell)
        BY SingleFacts, SeqMonotonic
      <4> QED BY <3>2, <4>1, <4>2, HashFirst
    <3>4. PICK k \in Nat : k = len[1]
      BY <2>2, SingleFacts
    <3>5. PICK read : read = BodyAt(offset)
      OBVIOUS
    <3>6. read \in Seq(Cell)
      <4>1. \A j \in offset + 3 + 1 .. offset + 3 + k : file[j] \in Cell
        <5>1. \A j \in offset + 3 + 1 .. offset + 3 + k : j \in 1 .. m
          BY <1>2, <1>4, <3>4
        <5> QED BY <1>1, <5>1
      <4>2. offset + 3 + 1 \in Int /\ offset + 3 + k \in Int
        BY <1>2
      <4> QED BY <1>4, <3>4, <3>5, <4>1, <4>2, SubSeqProperties
    <3>7. crc[1] = k
      BY <1>4, <2>2, <3>4, <3>5, <3>6, HashFirst, SingleFacts
    <3>8. len = <<n>>
      BY <2>2, <3>3, <3>4, <3>7, SingleFacts
    <3> QED BY <2>3, <3>8
  <2>4. CASE len = <<n>>
    <3>1. len[1] = n
      BY <2>4
    <3>2. \A j \in 1 .. n : /\ offset + 3 + j \in 1 .. w
                            /\ file[offset + 3 + j] \in Single
      <4> TAKE j \in 1 .. n
      <4>1. offset + 3 + j \in 1 .. w /\ whole[offset + 3 + j] = body[j] /\ body[j] \in Single
        BY <1>1, <1>2, <1>6
      <4> QED BY <2>1, <4>1
    <3>3. PICK read : read = BodyAt(offset)
      OBVIOUS
    <3>4. read \in Seq(Single) /\ Len(read) = n /\ \A j \in 1 .. n : read[j] = file[offset + 3 + j]
      <4>1. PICK begin \in Nat : begin = offset + 3
        BY <1>2
      <4>2. read = SubSeq(file, begin + 1, begin + n)
        BY <1>4, <3>1, <3>3, <4>1
      <4>3. \A j \in begin + 1 .. begin + n : file[j] \in Single
        <5>1. \A j \in begin + 1 .. begin + n : j - begin \in 1 .. n /\ begin + (j - begin) = j
          OBVIOUS
        <5>2. \A j \in 1 .. n : file[begin + j] \in Single
          BY <3>2, <4>1
        <5> QED BY <5>1, <5>2
      <4>4. /\ read \in Seq(Single)
            /\ Len(read) = IF begin + 1 <= begin + n THEN (begin + n) - (begin + 1) + 1 ELSE 0
            /\ \A j \in 1 .. (begin + n) - (begin + 1) + 1 : read[j] = file[(begin + 1) + j - 1]
        <5>1. begin + 1 \in Int /\ begin + n \in Int
          OBVIOUS
        <5> QED BY <4>2, <4>3, <5>1, SubSeqProperties
      <4>5. (begin + n) - (begin + 1) + 1 = n /\ \A j \in 1 .. n : (begin + 1) + j - 1 = begin + j
        OBVIOUS
      <4>6. Len(read) = n
        <5>1. ~ (begin + 1 <= begin + n) => n = 0
          OBVIOUS
        <5> QED BY <4>4, <4>5, <5>1
      <4>7. \A j \in 1 .. n : read[j] = file[begin + j]
        BY <4>4, <4>5
      <4> QED BY <4>1, <4>4, <4>6, <4>7
    <3>5. crc = ObjectHash(<<n>>, id, read)
      BY <1>4, <2>4, <3>3
    <3>6. CASE i = offset + 1
      <4>1. offset + 2 # i /\ \A j \in 1 .. n : offset + 3 + j # i
        BY <1>2, <3>6
      <4>2. id = <<o>> /\ \A j \in 1 .. n : file[offset + 3 + j] = body[j]
        BY <1>2, <1>3, <1>6, <2>1, <3>2, <4>1
      <4>3. read = body
        BY <1>1, <3>4, <4>2, SeqEqual
      <4> QED BY <1>2, <1>5, <2>4, <3>5, <4>2, <4>3
    <3>7. CASE i # offset + 1
      <4>1. crc = whole[offset + 1]
        BY <1>3, <1>6, <2>1, <3>7
      <4>2. <<n>> \in Single /\ <<o>> \in Single
        BY Singles
      <4>3. <<o>> = id /\ body = read
        <5>1. PICK l \in Single, c \in Single : l = <<n>> /\ c = <<o>>
          BY <4>2
        <5>2. ObjectHash(l, c, body) = ObjectHash(l, id, read)
          BY <1>2, <3>5, <4>1, <5>1
        <5>3. Len(body) = Len(read) /\ read \in Seq(Single)
          BY <1>1, <3>4
        <5>4. c = id /\ body = read
          BY <2>2, <5>2, <5>3, HashTells
        <5> QED BY <5>1, <5>4
      <4> QED BY <1>5, <2>4, <3>4, <4>1, <4>3
    <3> QED BY <3>6, <3>7
  <2> QED BY <2>3, <2>4
<1> QED BY <1>1, <1>7, <1>8 DEF Spoilt

(* A trailer, cell by cell.                                                *)
IsTrailer(t, n, ids, locs, d) ==
  /\ t \in Seq(Cell) /\ Len(t) = 3 + 2 * n + Len(d)
  /\ t[1] = Crc(Tail(t)) /\ \A j \in 2 .. Len(t) : t[j] \in Single
  /\ t[2] = <<n>> /\ t[3] = <<Len(d)>>
  /\ \A i \in 1 .. n : t[2 + 2 * i] = <<ids[i]>> /\ t[3 + 2 * i] = <<locs[ids[i]]>>
  /\ \A j \in 1 .. Len(d) : t[3 + 2 * n + j] = d[j]

(* The checksum of a trailer tells every cell behind it.                   *)
LEMMA TailHashed ==
  ASSUME NEW s \in Seq(Cell), Len(s) # 0, \A j \in 2 .. Len(s) : s[j] \in Single
  PROVE  /\ Len(Crc(Tail(s))) = Len(s) - 1
         /\ \A i \in 1 .. Len(s) - 1 : Crc(Tail(s))[i] = s[i + 1][1]
<1>1. PICK n \in Nat \ {0} : n = Len(s)
  OBVIOUS
<1>2. PICK tail : tail = Tail(s)
  OBVIOUS
<1>3. tail \in Seq(Cell) /\ Len(tail) = n - 1 /\ \A i \in 1 .. n - 1 : tail[i] = s[i + 1]
  BY <1>1, <1>2, HeadTailProperties
<1>4. \A i \in 1 .. n - 1 : tail[i] \in Single
  <2>1. \A i \in 1 .. n - 1 : i + 1 \in 2 .. n
    OBVIOUS
  <2> QED BY <1>1, <1>3, <2>1
<1>5. tail \in Seq(Single)
  <2>1. PICK k \in Nat : k = n - 1
    OBVIOUS
  <2>2. DOMAIN tail = 1 .. k /\ tail = [i \in DOMAIN tail |-> tail[i]]
    BY <1>3, <2>1
  <2>3. \A i \in 1 .. k : tail[i] \in Single
    BY <1>4, <2>1
  <2> QED BY <2>1, <2>2, <2>3, IndexedSeq
<1>6. Len(FlattenSeq(tail)) = n - 1 /\ \A i \in 1 .. n - 1 : FlattenSeq(tail)[i] = tail[i][1]
  BY <1>3, <1>5, FlattenSingles
<1> QED BY <1>1, <1>2, <1>3, <1>6 DEF Crc

(* A damaged trailer fails its check.                                      *)
LEMMA TrailerTells ==
  ASSUME NEW n \in Nat, NEW ids, NEW locs, NEW d \in Seq(Single), NEW t,
         IsTrailer(t, n, ids, locs, d),
         NEW buf \in Seq(Cell), Len(buf) # 0, buf[1] = Crc(Tail(buf)), Spoilt(buf, t)
  PROVE  buf = t
<1>1. PICK m \in Nat \ {0}, k \in Nat \ {0} : m = Len(buf) /\ k = Len(t)
  <2>1. PICK l \in Nat : l = Len(d)
    OBVIOUS
  <2>2. 3 + 2 * n + l \in Nat \ {0}
    OBVIOUS
  <2>3. Len(t) \in Nat \ {0}
    BY <2>1, <2>2 DEF IsTrailer
  <2> QED BY <2>3
<1>2. /\ t \in Seq(Cell) /\ t[1] = Crc(Tail(t)) /\ \A j \in 2 .. k : t[j] \in Single
  BY <1>1 DEF IsTrailer
<1>3. Len(t[1]) = k - 1 /\ \A i \in 1 .. k - 1 : t[1][i] = t[i + 1][1]
  BY <1>1, <1>2, TailHashed
<1>4. ASSUME m = k, \A j \in 1 .. k : buf[j] = t[j] PROVE buf = t
  BY <1>1, <1>2, <1>4, SeqEqual
<1>5. CASE m <= k /\ \A j \in 1 .. m : buf[j] = t[j]
  <2>1. \A j \in 2 .. m : buf[j] \in Single
    <3>1. \A j \in 2 .. m : j \in 1 .. m /\ j \in 2 .. k
      BY <1>5
    <3> QED BY <1>2, <1>5, <3>1
  <2>2. Len(buf[1]) = m - 1
    BY <1>1, <2>1, TailHashed
  <2>3. buf[1] = t[1]
    BY <1>5
  <2>4. m = k
    BY <1>3, <2>2, <2>3
  <2> QED BY <1>4, <1>5, <2>4
<1>6. CASE m = k /\ \E i \in 1 .. k : /\ buf[i] \in Single
                                      /\ \A j \in 1 .. k : j # i => buf[j] = t[j]
  <2>1. PICK i \in 1 .. k : buf[i] \in Single /\ \A j \in 1 .. k : j # i => buf[j] = t[j]
    BY <1>6
  <2>2. \A j \in 2 .. k : j \in 1 .. k /\ buf[j] \in Single
    BY <1>2, <2>1
  <2>3. Len(buf[1]) = k - 1 /\ \A j \in 1 .. k - 1 : buf[1][j] = buf[j + 1][1]
    BY <1>1, <1>6, <2>2, TailHashed
  <2>4. CASE i = 1
    <3>1. \A j \in 2 .. k : buf[j] = t[j]
      BY <2>1, <2>2, <2>4
    <3>2. Tail(buf) = Tail(t)
      <4>1. PICK a, b : a = Tail(buf) /\ b = Tail(t)
        OBVIOUS
      <4>2. /\ a \in Seq(Cell) /\ Len(a) = k - 1 /\ \A j \in 1 .. k - 1 : a[j] = buf[j + 1]
            /\ b \in Seq(Cell) /\ Len(b) = k - 1 /\ \A j \in 1 .. k - 1 : b[j] = t[j + 1]
        <5>1. buf # <<>> /\ t # <<>> /\ Len(buf) = k /\ Len(t) = k
          <6>1. Len(buf) # 0 /\ Len(t) # 0 /\ Len(buf) = k /\ Len(t) = k
            BY <1>1, <1>6
          <6>2. Len(<<>>) = 0
            OBVIOUS
          <6> QED BY <6>1, <6>2
        <5>2. a \in Seq(Cell) /\ Len(a) = k - 1 /\ \A j \in 1 .. k - 1 : a[j] = buf[j + 1]
          BY <4>1, <5>1, HeadTailProperties
        <5>3. b \in Seq(Cell) /\ Len(b) = k - 1 /\ \A j \in 1 .. k - 1 : b[j] = t[j + 1]
          BY <1>2, <4>1, <5>1, HeadTailProperties
        <5> QED BY <5>2, <5>3
      <4>3. \A j \in 1 .. k - 1 : j + 1 \in 2 .. k
        OBVIOUS
      <4>4. \A j \in 1 .. k - 1 : a[j] = b[j]
        BY <3>1, <4>2, <4>3
      <4> QED BY <4>1, <4>2, <4>4, SeqEqual
    <3>3. buf[1] = t[1]
      BY <1>2, <3>2
    <3> QED BY <1>4, <1>6, <2>1, <2>4, <3>3
  <2>5. CASE i # 1
    <3>1. 1 \in 1 .. k
      OBVIOUS
    <3>2. buf[1] = t[1]
      BY <2>1, <2>5, <3>1
    <3>3. PICK crc : /\ \A j \in 1 .. k - 1 : crc[j] = buf[j + 1][1]
                     /\ \A j \in 1 .. k - 1 : crc[j] = t[j + 1][1]
      BY <1>3, <2>3, <3>2
    <3>4. ASSUME NEW j \in 2 .. k PROVE buf[j][1] = t[j][1]
      <4>1. PICK l \in 1 .. k - 1 : l + 1 = j
        <5>1. j - 1 \in 1 .. k - 1 /\ (j - 1) + 1 = j
          OBVIOUS
        <5> QED BY <5>1
      <4>2. crc[l] = buf[l + 1][1] /\ crc[l] = t[l + 1][1]
        BY <3>3
      <4> QED BY <4>1, <4>2
    <3>5. \A j \in 2 .. k : buf[j] = t[j]
      BY <1>2, <2>2, <3>4, SingleFacts
    <3>6. \A j \in 1 .. k : j = 1 \/ j \in 2 .. k
      OBVIOUS
    <3> QED BY <1>4, <1>6, <3>2, <3>5, <3>6
  <2> QED BY <2>4, <2>5
<1> QED BY <1>1, <1>5, <1>6 DEF Spoilt

(* What read_trailer_from_buf makes of the cells of a trailer.             *)
ParsedTrailer(buf) ==
  LET offsets == buf[2][1]
      entry(i) == TrailerCells + EntryCells * (i - 1)
  IN  [entries |-> {<<buf[entry(i) + 1][1], buf[entry(i) + 2][1]>> : i \in 1 .. offsets},
       dict |-> SubSeq(buf, entry(offsets + 1) + 1, entry(offsets + 1) + buf[3][1])]

(* The entries and the dictionary come back as they were written.          *)
LEMMA TrailerParsed ==
  ASSUME NEW n \in Nat, NEW ids, NEW locs, NEW d \in Seq(Single), NEW t,
         IsTrailer(t, n, ids, locs, d), \A i \in 1 .. n : ids[i] \in Nat /\ locs[ids[i]] \in Nat
  PROVE  ParsedTrailer(t) = [entries |-> {<<ids[i], locs[ids[i]]>> : i \in 1 .. n}, dict |-> d]
<1>1. PICK l \in Nat : l = Len(d)
  OBVIOUS
<1>2. t[2][1] = n /\ t[3][1] = l
  BY <1>1 DEF IsTrailer
<1>3. ASSUME NEW i \in 1 .. n
      PROVE  t[3 + 2 * (i - 1) + 1][1] = ids[i] /\ t[3 + 2 * (i - 1) + 2][1] = locs[ids[i]]
  <2>1. 3 + 2 * (i - 1) + 1 = 2 + 2 * i /\ 3 + 2 * (i - 1) + 2 = 3 + 2 * i
    OBVIOUS
  <2>2. t[2 + 2 * i] = <<ids[i]>> /\ t[3 + 2 * i] = <<locs[ids[i]]>>
    BY DEF IsTrailer
  <2> QED BY <2>1, <2>2
<1>4. {<<t[3 + 2 * (i - 1) + 1][1], t[3 + 2 * (i - 1) + 2][1]>> : i \in 1 .. n}
        = {<<ids[i], locs[ids[i]]>> : i \in 1 .. n}
  BY <1>3
<1>5. PICK begin \in Nat : begin = 3 + 2 * n
  OBVIOUS
<1>6. SubSeq(t, begin + 1, begin + l) = d
  <2>1. t \in Seq(Cell) /\ begin + l <= Len(t) /\ \A j \in 1 .. l : t[begin + j] = d[j]
    BY <1>1, <1>5 DEF IsTrailer
  <2> QED BY <1>1, <2>1, PartEqual
<1>7. 3 + 2 * ((n + 1) - 1) = begin
  BY <1>5
<1> QED BY <1>1, <1>2, <1>4, <1>6, <1>7 DEF ParsedTrailer, TrailerCells, EntryCells

(* Recovery reads the trailer as it was written or not at all.             *)
LEMMA TrailerRead ==
  ASSUME data \in Seq(Cell), file \in Seq(Cell), dict \in Seq(Single),
         NEW n \in Nat, NEW ids, NEW t, IsTrailer(t, n, ids, locations, dict),
         \A i \in 1 .. n : ids[i] \in Nat /\ locations[ids[i]] \in Nat,
         DOMAIN locations = {ids[i] : i \in 1 .. n},
         metadata = [trailer_offset |-> Len(data), file_size |-> Len(data \o t)],
         Spoilt(file, data \o t), NEW size \in Sizes
  PROVE  /\ ReadTrailer(size) \subseteq {WrittenTrailer}
         /\ file = data \o t => ReadTrailer(size) = {WrittenTrailer}
<1>1. PICK p \in Nat, k \in Nat, m \in Nat : p = Len(data) /\ k = Len(t) /\ m = Len(file)
  BY DEF IsTrailer
<1>2. PICK whole \in Seq(Cell) :
        /\ whole = data \o t /\ Len(whole) = p + k
        /\ \A j \in 1 .. p + k : whole[j] = IF j <= p THEN data[j] ELSE t[j - p]
  <2>1. t \in Seq(Cell)
    BY DEF IsTrailer
  <2>2. /\ data \o t \in Seq(Cell) /\ Len(data \o t) = Len(data) + Len(t)
        /\ \A j \in 1 .. Len(data) + Len(t) :
             (data \o t)[j] = IF j <= Len(data) THEN data[j] ELSE t[j - Len(data)]
    BY <2>1, ConcatProperties
  <2> QED BY <1>1, <2>2
<1>3. \A j \in 1 .. k : p + j \in 1 .. p + k /\ whole[p + j] = t[j]
  <2> TAKE j \in 1 .. k
  <2>1. p + j \in 1 .. p + k /\ ~ (p + j <= p) /\ (p + j) - p = j
    OBVIOUS
  <2> QED BY <1>2, <2>1
<1>4. metadata.trailer_offset = p /\ size \in {p + k, m} /\ size \in Nat
  BY <1>1, <1>2 DEF Sizes
<1>5. k >= 3
  <2>1. PICK l \in Nat : l = Len(dict)
    OBVIOUS
  <2>2. k = 3 + 2 * n + l
    BY <1>1, <2>1 DEF IsTrailer
  <2> QED BY <2>2
<1>6. PICK buf : buf = Cells(p, size)
  OBVIOUS
<1>7. ASSUME p <= size, size <= m
      PROVE  /\ buf \in Seq(Cell) /\ Len(buf) = size - p
             /\ \A j \in 1 .. size - p : p + j \in 1 .. m /\ buf[j] = file[p + j]
  <2>1. \A j \in p + 1 .. size : file[j] \in Cell
    <3>1. \A j \in p + 1 .. size : j \in 1 .. m
      BY <1>4, <1>7
    <3> QED BY <1>1, <3>1
  <2>2. /\ buf \in Seq(Cell)
        /\ Len(buf) = IF p + 1 <= size THEN size - (p + 1) + 1 ELSE 0
        /\ \A j \in 1 .. size - (p + 1) + 1 : buf[j] = file[(p + 1) + j - 1]
    <3>1. p + 1 \in Int /\ size \in Int
      BY <1>4
    <3> QED BY <1>6, <2>1, <3>1, SubSeqProperties DEF Cells
  <2>3. /\ size - (p + 1) + 1 = size - p
        /\ ~ (p + 1 <= size) => size - p = 0
        /\ \A j \in 1 .. size - p : p + j \in 1 .. m /\ (p + 1) + j - 1 = p + j
    BY <1>4, <1>7
  <2> QED BY <2>2, <2>3
<1>8. ASSUME p <= size, size <= m PROVE Spoilt(buf, t)
  <2>1. CASE m <= p + k /\ \A j \in 1 .. m : file[j] = whole[j]
    <3>1. size - p <= k /\ \A j \in 1 .. size - p : j \in 1 .. k
      BY <1>4, <1>8, <2>1
    <3>2. \A j \in 1 .. size - p : buf[j] = t[j]
      BY <1>3, <1>7, <1>8, <2>1, <3>1
    <3> QED BY <1>1, <1>7, <1>8, <3>1, <3>2 DEF Spoilt
  <2>2. CASE m = p + k /\ \E i \in 1 .. p + k :
                file[i] \in Single /\ \A j \in 1 .. p + k : j # i => file[j] = whole[j]
    <3>1. PICK i \in 1 .. p + k : file[i] \in Single /\ \A j \in 1 .. p + k : j # i => file[j] = whole[j]
      BY <2>2
    <3>2. size - p = k
      BY <1>4, <2>2
    <3>3. Len(buf) = k /\ \A j \in 1 .. k : buf[j] = file[p + j]
      BY <1>7, <1>8, <3>2
    <3>4. CASE i <= p
      <4>1. \A j \in 1 .. k : p + j # i
        BY <3>4
      <4>2. \A j \in 1 .. k : buf[j] = t[j]
        BY <1>3, <3>1, <3>3, <4>1
      <4> QED BY <1>1, <3>3, <4>2 DEF Spoilt
    <3>5. CASE ~ (i <= p)
      <4>1. PICK l \in 1 .. k : p + l = i
        <5>1. i - p \in 1 .. k /\ p + (i - p) = i
          BY <3>5
        <5> QED BY <5>1
      <4>2. buf[l] \in Single
        BY <3>1, <3>3, <4>1
      <4>3. \A j \in 1 .. k : j # l => buf[j] = t[j]
        <5>1. \A j \in 1 .. k : j # l => p + j # i
          BY <4>1
        <5> QED BY <1>3, <3>1, <3>3, <5>1
      <4> QED BY <1>1, <3>3, <4>2, <4>3 DEF Spoilt
    <3> QED BY <3>4, <3>5
  <2> QED BY <1>1, <1>2, <2>1, <2>2 DEF Spoilt
<1>9. ASSUME CanRead(p, size), ~ (Len(buf) < 3), buf[1] = Crc(Tail(buf)) PROVE buf = t
  <2>1. p <= size /\ size <= m
    BY <1>1, <1>9 DEF CanRead
  <2>2. buf \in Seq(Cell) /\ Spoilt(buf, t)
    BY <1>7, <1>8, <2>1
  <2>3. Len(buf) # 0
    BY <1>9, <2>2
  <2> QED BY <1>9, <2>2, <2>3, TrailerTells
<1>10. ASSUME buf = t PROVE ParsedTrailer(buf) = WrittenTrailer
  <2>1. PICK locs, d : locs = locations /\ d = dict
    OBVIOUS
  <2>4. /\ d \in Seq(Single) /\ IsTrailer(t, n, ids, locs, d)
        /\ \A i \in 1 .. n : ids[i] \in Nat /\ locs[ids[i]] \in Nat
    BY <2>1
  <2>2. ParsedTrailer(t) = [entries |-> {<<ids[i], locs[ids[i]]>> : i \in 1 .. n}, dict |-> d]
    BY ONLY n \in Nat, <2>4, TrailerParsed
  <2>3. {<<ids[i], locations[ids[i]]>> : i \in 1 .. n} = {<<o, locations[o]>> : o \in DOMAIN locations}
    OBVIOUS
  <2> QED BY <1>10, <2>1, <2>2, <2>3 DEF WrittenTrailer
<1>11. ReadTrailer(size) = IF ~ CanRead(p, size) \/ Len(buf) < 3 \/ buf[1] # Crc(Tail(buf)) THEN {}
                           ELSE {ParsedTrailer(buf)}
  <2>1. ReadTrailer(size)
          = IF \/ ~ CanRead(metadata.trailer_offset, size)
               \/ Len(Cells(metadata.trailer_offset, size)) < 3
               \/ Cells(metadata.trailer_offset, size)[1]
                    # Crc(Tail(Cells(metadata.trailer_offset, size)))
            THEN {} ELSE {ParsedTrailer(Cells(metadata.trailer_offset, size))}
    BY DEF ReadTrailer, ParsedTrailer, Failed, TrailerCells
  <2> QED BY <1>4, <1>6, <2>1
<1>12. ReadTrailer(size) \subseteq {WrittenTrailer}
  BY <1>9, <1>10, <1>11
<1>13. ASSUME file = data \o t PROVE ReadTrailer(size) = {WrittenTrailer}
  <2>1. m = p + k /\ size = p + k /\ file = whole
    BY <1>1, <1>2, <1>4, <1>13
  <2>2. CanRead(p, size) /\ p <= size /\ size <= m /\ size - p = k
    BY <1>1, <2>1 DEF CanRead
  <2>3. buf \in Seq(Cell) /\ Len(buf) = k /\ \A j \in 1 .. k : buf[j] = t[j]
    BY <1>3, <1>7, <2>1, <2>2
  <2>4. buf = t
    <3>1. t \in Seq(Cell)
      BY DEF IsTrailer
    <3> QED BY <1>1, <2>3, <3>1, SeqEqual
  <2>5. ~ (Len(buf) < 3) /\ buf[1] = Crc(Tail(buf))
    BY <1>1, <1>5, <2>4 DEF IsTrailer
  <2> QED BY <1>10, <1>11, <2>2, <2>4, <2>5
<1> QED BY <1>12, <1>13

(* The function by which Walk goes on.  It is well-founded when the loop   *)
(* goes forward.                                                           *)
Walks(steps, end, bad, next) ==
  steps = [x \in Nat |-> IF x >= end THEN {} ELSE IF x \in bad THEN {-1}
                         ELSE {x} \cup steps[next[x]]]

(* There is such a function, for it only goes forward.                     *)
LEMMA WalksExists ==
  ASSUME NEW end \in Nat, NEW bad, NEW next,
         \A x \in Nat : x < end /\ x \notin bad => next[x] \in Nat /\ next[x] > x
  PROVE  \E steps : Walks(steps, end, bad, next)
<1> DEFINE From(m) == {x \in Nat : x + m >= end}
           On(steps, D) == steps = [x \in D |-> IF x >= end THEN {} ELSE IF x \in bad THEN {-1}
                                                ELSE {x} \cup steps[next[x]]]
           T == {m \in Nat : ~ \E steps : On(steps, From(m))}
<1>1. T = {}
  <2> SUFFICES ASSUME T # {} PROVE FALSE
    OBVIOUS
  <2>0. T \subseteq Nat
    OBVIOUS
  <2>1. PICK k \in T : \A n \in T : k <= n
    BY <2>0, LeastNumber
  <2>2. CASE k = 0
    <3>1. \A x \in From(0) : x >= end
      OBVIOUS
    <3>2. On([x \in From(0) |-> {}], From(0))
      BY <3>1
    <3> QED BY <2>1, <2>2, <3>2
  <2>3. CASE k # 0
    <3>1. k - 1 \in Nat /\ k - 1 \notin T /\ k \in Nat
      <4> HIDE DEF T
      <4> QED BY <2>0, <2>1, <2>3
    <3>2. PICK g : On(g, From(k - 1))
      BY <3>1
    <3> DEFINE h == [x \in From(k) |-> IF x >= end THEN {} ELSE IF x \in bad THEN {-1}
                                       ELSE {x} \cup g[next[x]]]
    <3>3. ASSUME NEW x \in From(k), ~ (x >= end), x \notin bad
          PROVE  next[x] \in From(k - 1) /\ next[x] \in From(k)
      <4>1. x \in Nat /\ x + k >= end /\ x < end
        BY <3>3
      <4>2. next[x] \in Nat /\ next[x] > x
        BY <3>3, <4>1
      <4>3. next[x] + (k - 1) >= end /\ next[x] + k >= end
        BY <3>1, <4>1, <4>2
      <4> QED BY <4>2, <4>3
    <3>4. ASSUME NEW x \in From(k - 1) PROVE h[x] = g[x]
      <4>1. x \in From(k)
        BY <3>1
      <4> QED BY <3>2, <4>1
    <3>5. \A x \in From(k) : ~ (x >= end) /\ x \notin bad => h[next[x]] = g[next[x]]
      BY <3>3, <3>4
    <3>6. h = [x \in From(k) |-> IF x >= end THEN {} ELSE IF x \in bad THEN {-1}
                                 ELSE {x} \cup h[next[x]]]
      <4>1. h = [x \in From(k) |-> IF x >= end THEN {} ELSE IF x \in bad THEN {-1}
                                   ELSE {x} \cup g[next[x]]]
        OBVIOUS
      <4> HIDE DEF From, h
      <4> QED BY <3>5, <4>1
    <3> HIDE DEF h
    <3>7. On(h, From(k))
      BY <3>6
    <3> QED BY <2>1, <3>7
  <2> QED BY <2>2, <2>3
<1>2. From(end) = Nat
  OBVIOUS
<1>3. PICK steps : On(steps, From(end))
  BY <1>1
<1>4. On(steps, Nat)
  <2> HIDE DEF From, On
  <2> QED BY <1>2, <1>3
<1> QED BY <1>4 DEF Walks

(* Walk, unfolded once at every offset.                                    *)
LEMMA WalkIs ==
  ASSUME file \in Seq(Cell), metadata.trailer_offset \in Nat
  PROVE  \E steps :
           /\ Walk = steps[0]
           /\ \A x \in Nat : x >= metadata.trailer_offset => steps[x] = {}
           /\ \A x \in Nat : x < metadata.trailer_offset =>
                /\ ~ Intact(x) \/ HeaderAt(x).len[1] >= MaxObjectSize => steps[x] = {-1}
                /\ Intact(x) /\ ~ (HeaderAt(x).len[1] >= MaxObjectSize)
                     => steps[x] = {x} \cup steps[NextOffset(x)]
<1> DEFINE end == metadata.trailer_offset
           Step(g) == [offset \in Nat |->
                         IF offset >= metadata.trailer_offset THEN {}
                         ELSE IF \/ ~ Intact(offset)
                                 \/ HeaderAt(offset).len[1] >= MaxObjectSize
                         THEN {-1}
                         ELSE {offset} \cup g[NextOffset(offset)]]
           steps == CHOOSE g : g = Step(g)
           bad == {x \in Nat : ~ Intact(x) \/ HeaderAt(x).len[1] >= MaxObjectSize}
           next == [x \in Nat |-> NextOffset(x)]
<1>1. Walk = steps[0]
  BY DEF Walk
<1>2. ASSUME NEW x \in Nat, Intact(x) PROVE NextOffset(x) \in Nat /\ NextOffset(x) > x
  <2>1. x + 3 <= Len(file)
    BY <1>2 DEF Intact, CanRead, HeaderCells
  <2>2. x + 3 \in 1 .. Len(file)
    BY <2>1
  <2>3. PICK len \in Cell : len = file[x + 3]
    BY <2>2
  <2>4. len[1] \in Nat
    BY DEF Cell
  <2>5. NextOffset(x) = x + 3 + len[1]
    BY <2>3 DEF NextOffset, HeaderAt, HeaderCells
  <2> QED BY <2>4, <2>5
<1>3. \E g : g = Step(g)
  <2>1. \A x \in Nat : x < end /\ x \notin bad => next[x] \in Nat /\ next[x] > x
    BY <1>2
  <2>2. PICK e, b, n : e \in Nat /\ e = end /\ b = bad /\ n = next
    OBVIOUS
  <2>3. \A x \in Nat : x < e /\ x \notin b => n[x] \in Nat /\ n[x] > x
    BY <2>1, <2>2
  <2>4. PICK g : Walks(g, e, b, n)
    <3>1. e \in Nat
      BY <2>2
    <3> QED BY ONLY <2>3, <3>1, WalksExists
  <2>5. \A x \in Nat : /\ n[x] = NextOffset(x)
                       /\ x \in b <=> (~ Intact(x) \/ HeaderAt(x).len[1] >= MaxObjectSize)
    BY <2>2
  <2>6. g = Step(g)
    BY <2>2, <2>4, <2>5 DEF Walks
  <2> QED BY <2>6
<1>4. steps = Step(steps)
  <2> HIDE DEF Step
  <2> QED BY <1>3
<1> HIDE DEF steps
<1>5. ASSUME NEW x \in Nat
      PROVE  /\ x >= end => steps[x] = {}
             /\ x < end => /\ ~ Intact(x) \/ HeaderAt(x).len[1] >= MaxObjectSize => steps[x] = {-1}
                           /\ Intact(x) /\ ~ (HeaderAt(x).len[1] >= MaxObjectSize)
                                => steps[x] = {x} \cup steps[NextOffset(x)]
  <2>1. steps[x] = IF x >= end THEN {}
                   ELSE IF ~ Intact(x) \/ HeaderAt(x).len[1] >= MaxObjectSize THEN {-1}
                   ELSE {x} \cup steps[NextOffset(x)]
    BY <1>4
  <2>2. x < end => ~ (x >= end)
    OBVIOUS
  <2> QED BY <2>1, <2>2
<1> QED BY <1>1, <1>5

(* The objects of a data section of n cells lie one behind the other.      *)
Tiles(offs, st, n) ==
  /\ \A o \in DOMAIN offs :
       \/ offs[o] + 3 + Len(st[o]) = n
       \/ \E p \in DOMAIN offs : offs[p] = offs[o] + 3 + Len(st[o])
  /\ \A o, p \in DOMAIN offs :
       o # p => \/ offs[o] + 3 + Len(st[o]) <= offs[p]
                \/ offs[p] + 3 + Len(st[p]) <= offs[o]
  /\ n = 0 \/ \E o \in DOMAIN offs : offs[o] = 0

(* What maintenance takes for an object of the file.                       *)
Scanned(o, offset, body) ==
  WrittenAt(file, offset, o, body) /\ ~ (Len(body) >= MaxObjectSize)

(* Maintenance gives up, or finds every object of the batch as it was      *)
(* written.                                                                *)
LEMMA WalkTiles ==
  ASSUME NEW whole \in Seq(Cell), file \in Seq(Cell), Spoilt(file, whole),
         NEW end \in Nat, metadata.trailer_offset = end, NEW st, NEW offs,
         DOMAIN offs \subseteq Nat,
         \A o \in DOMAIN offs : /\ st[o] \in Seq(Single) /\ offs[o] + 3 + Len(st[o]) <= end
                                /\ WrittenAt(whole, offs[o], o, st[o]),
         Tiles(offs, st, end)
  PROVE  /\ \/ -1 \in Walk
            \/ /\ Walk = {offs[o] : o \in DOMAIN offs}
               /\ \A o \in DOMAIN offs : Scanned(o, offs[o], st[o])
         /\ (\A o \in DOMAIN offs : Scanned(o, offs[o], st[o]))
              => Walk = {offs[o] : o \in DOMAIN offs}
<1>1. PICK steps :
        /\ Walk = steps[0]
        /\ \A x \in Nat : x >= end => steps[x] = {}
        /\ \A x \in Nat : x < end =>
             /\ ~ Intact(x) \/ HeaderAt(x).len[1] >= MaxObjectSize => steps[x] = {-1}
             /\ Intact(x) /\ ~ (HeaderAt(x).len[1] >= MaxObjectSize)
                  => steps[x] = {x} \cup steps[NextOffset(x)]
  BY WalkIs
<1> DEFINE Begins == {offs[o] : o \in DOMAIN offs} \cup {end}
           At(b) == {o \in DOMAIN offs : offs[o] >= b}
           Good(b) == /\ \/ -1 \in steps[b]
                         \/ /\ steps[b] = {offs[o] : o \in At(b)}
                            /\ \A o \in At(b) : Scanned(o, offs[o], st[o])
                      /\ (\A o \in At(b) : Scanned(o, offs[o], st[o]))
                           => steps[b] = {offs[o] : o \in At(b)}
           T == {m \in Nat : \E b \in Begins : end - b = m /\ ~ Good(b)}
<1>2. \A o \in DOMAIN offs : /\ offs[o] \in Nat /\ Len(st[o]) \in Nat /\ o \in Nat
                             /\ offs[o] < end /\ offs[o] + 3 + Len(st[o]) \in Nat
  <2> TAKE o \in DOMAIN offs
  <2>1. offs[o] \in Nat /\ Len(st[o]) \in Nat /\ o \in Nat
    BY LenProperties DEF WrittenAt
  <2>2. offs[o] + 3 + Len(st[o]) <= end
    OBVIOUS
  <2> QED BY <2>1, <2>2
<1>3. \A b \in Begins : b \in Nat /\ b <= end /\ end - b \in Nat
  BY <1>2
<1>4. Good(end)
  <2>1. At(end) = {}
    BY <1>2
  <2>2. steps[end] = {}
    BY <1>1
  <2> QED BY <2>1, <2>2
<1>5. ASSUME NEW o \in DOMAIN offs, Good(offs[o] + 3 + Len(st[o])) PROVE Good(offs[o])
  <2>1. PICK b \in Nat, c \in Nat, n \in Nat :
          b = offs[o] /\ n = Len(st[o]) /\ c = b + 3 + n /\ b < end
    BY <1>2
  <2>2. At(b) = {o} \cup At(c)
    <3>1. ASSUME NEW p \in DOMAIN offs, offs[p] >= b, p # o PROVE offs[p] >= c
      <4>1. offs[p] \in Nat /\ Len(st[p]) \in Nat
        BY <1>2
      <4>2. c <= offs[p] \/ offs[p] + 3 + Len(st[p]) <= b
        BY <2>1, <3>1 DEF Tiles
      <4> QED BY <3>1, <4>1, <4>2
    <3>2. \A p \in DOMAIN offs : offs[p] >= c => offs[p] >= b
      BY <1>2, <2>1
    <3>3. o \in At(b)
      BY <1>2, <2>1
    <3> QED BY <3>1, <3>2, <3>3
  <2>3. ASSUME WrittenAt(file, b, o, st[o])
        PROVE  Intact(b) /\ HeaderAt(b).len[1] = n /\ NextOffset(b) = c
    BY <2>1, <2>3, WrittenRead
  <2>4. ASSUME Intact(b) PROVE WrittenAt(file, b, o, st[o])
    BY <1>2, <2>1, <2>4, ObjectTells
  <2>5. CASE ~ Intact(b) \/ HeaderAt(b).len[1] >= MaxObjectSize
    <3>1. steps[b] = {-1}
      BY <1>1, <2>1, <2>5
    <3>2. ~ Scanned(o, b, st[o])
      BY <2>1, <2>3, <2>5 DEF Scanned
    <3>3. o \in At(b)
      BY <2>2
    <3> HIDE DEF At
    <3> QED BY <2>1, <3>1, <3>2, <3>3
  <2>6. CASE Intact(b) /\ ~ (HeaderAt(b).len[1] >= MaxObjectSize)
    <3>1. WrittenAt(file, b, o, st[o])
      BY <2>4, <2>6
    <3>2. Scanned(o, b, st[o]) /\ NextOffset(b) = c
      BY <2>1, <2>3, <2>6, <3>1 DEF Scanned
    <3>3. steps[b] = {b} \cup steps[c]
      BY <1>1, <2>1, <2>6, <3>2
    <3>4. Good(c)
      BY <1>5, <2>1
    <3>5. {offs[p] : p \in At(b)} = {b} \cup {offs[p] : p \in At(c)}
      <4> HIDE DEF At
      <4> QED BY <2>1, <2>2
    <3>6. (\A p \in At(b) : Scanned(p, offs[p], st[p])) <=> \A p \in At(c) : Scanned(p, offs[p], st[p])
      <4> HIDE DEF At
      <4> QED BY <2>1, <2>2, <3>2
    <3>7. Good(b)
      <4> HIDE DEF At
      <4> QED BY <3>3, <3>4, <3>5, <3>6
    <3> QED BY <2>1, <3>7
  <2> QED BY <2>5, <2>6
<1>6. T \subseteq Nat
  OBVIOUS
<1>7. ASSUME T # {} PROVE FALSE
  <2>1. PICK k \in T : \A m \in T : k <= m
    BY <1>6, <1>7, LeastNumber
  <2>2. PICK b \in Begins : end - b = k /\ ~ Good(b)
    BY <2>1
  <2>3. b # end
    BY <1>4, <2>2
  <2>4. PICK o \in DOMAIN offs : b = offs[o]
    BY <2>2, <2>3
  <2>5. PICK c \in Nat : c = offs[o] + 3 + Len(st[o])
    BY <1>2
  <2>6. c \in Begins
    BY <2>5 DEF Tiles
  <2> HIDE DEF Begins, Good
  <2>7. end - c \in Nat /\ end - c < k
    <3> HIDE DEF T
    <3>1. PICK l \in Nat : l = Len(st[o])
      BY <1>2
    <3>2. b \in Nat /\ c = b + 3 + l /\ k \in Nat
      BY <1>2, <1>6, <2>1, <2>4, <2>5, <3>1
    <3>3. end - b = k /\ c <= end
      BY <1>3, <2>2, <2>6
    <3> HIDE DEF At
    <3>4. end - c = k - (3 + l) /\ end - c >= 0
      BY <3>2, <3>3
    <3> QED BY <3>2, <3>4
  <2>8. end - c \notin T
    <3> HIDE DEF T
    <3> QED BY <1>6, <2>1, <2>7
  <2>9. Good(c)
    BY <2>6, <2>7, <2>8
  <2> QED BY <1>5, <2>2, <2>4, <2>5, <2>9
<1>8. 0 \in Begins
  <2>1. CASE end = 0
    BY <2>1
  <2>2. CASE end # 0
    <3>1. PICK o \in DOMAIN offs : offs[o] = 0
      BY <2>2 DEF Tiles
    <3> QED BY <3>1
  <2> QED BY <2>1, <2>2
<1>9. Good(0)
  <2> HIDE DEF Begins, Good
  <2> QED BY <1>3, <1>7, <1>8
<1>10. At(0) = DOMAIN offs
  <2>1. \A o \in DOMAIN offs : offs[o] >= 0
    BY <1>2
  <2> QED BY <2>1
<1> HIDE DEF At
<1> QED BY <1>1, <1>9, <1>10

(* The dictionary in the file.                                             *)
LEMMA DictType ==
  ASSUME FileTypes
  PROVE  dict \in Seq(Single) /\ Len(dict) \in Nat
<1>1. CASE dict = <<>>
  BY <1>1
<1>2. CASE dict # <<>>
  <2>1. PICK d \in Nat : dict = <<<<d>>>>
    BY <1>2 DEF FileTypes
  <2>2. <<d>> \in Single
    BY Singles
  <2> QED BY <2>1, <2>2
<1> QED BY <1>1, <1>2

(* Three sequences one behind the other.                                   *)
LEMMA Joined ==
  ASSUME NEW S, NEW p \in Seq(S), NEW q \in Seq(S), NEW r \in Seq(S), NEW s, s = p \o q \o r
  PROVE  /\ s \in Seq(S) /\ Len(s) = Len(p) + Len(q) + Len(r)
         /\ \A i \in 1 .. Len(p) : s[i] = p[i]
         /\ \A i \in 1 .. Len(q) : s[Len(p) + i] = q[i]
         /\ \A i \in 1 .. Len(r) : s[Len(p) + Len(q) + i] = r[i]
<1>0. p \o q \in Seq(S)
  OBVIOUS
<1>1. PICK pq \in Seq(S) : pq = p \o q
  BY <1>0
<1>2. /\ pq \in Seq(S) /\ Len(pq) = Len(p) + Len(q)
      /\ \A i \in 1 .. Len(p) : pq[i] = p[i]
      /\ \A i \in 1 .. Len(q) : pq[Len(p) + i] = q[i]
  BY <1>1
<1>3. Len(p) \in Nat /\ Len(q) \in Nat /\ Len(r) \in Nat
  OBVIOUS
<1>4. s = pq \o r
  BY <1>1
<1>5. /\ s \in Seq(S) /\ Len(s) = Len(pq) + Len(r)
      /\ \A i \in 1 .. Len(pq) : s[i] = pq[i]
      /\ \A i \in 1 .. Len(r) : s[Len(pq) + i] = r[i]
  BY ONLY <1>4, pq \in Seq(S), r \in Seq(S)
<1>6. \A i \in 1 .. Len(p) : s[i] = p[i]
  BY <1>2, <1>3, <1>5
<1>7. \A i \in 1 .. Len(q) : s[Len(p) + i] = q[i]
  <2> TAKE i \in 1 .. Len(q)
  <2>1. Len(p) + i \in 1 .. Len(pq)
    BY <1>2, <1>3
  <2> QED BY <1>2, <1>5, <2>1
<1> QED BY <1>2, <1>5, <1>6, <1>7

(* write_trailer writes a trailer.                                         *)
LEMMA TrailerIs ==
  ASSUME FileTypes, NEW n \in Nat, NEW ids \in Seq(DOMAIN locations), Len(ids) = n,
         \A i \in 1 .. n : ids[i] \in Nat /\ locations[ids[i]] \in Nat
  PROVE  IsTrailer(TrailerOf(ids), n, ids, locations, dict)
<1>1. PICK pairs : pairs = [i \in DOMAIN ids |-> <<<<ids[i]>>, <<locations[ids[i]]>>>>]
  OBVIOUS
<1>2. DOMAIN ids = 1 .. n
  OBVIOUS
<1>3. \A i \in 1 .. n : /\ <<ids[i]>> \in Single /\ <<locations[ids[i]]>> \in Single
                        /\ pairs[i] = <<<<ids[i]>>, <<locations[ids[i]]>>>>
  BY <1>1, <1>2, Singles
<1>4. pairs \in Seq(Seq(Single)) /\ Len(pairs) = n
  <2>1. ASSUME NEW i \in 1 .. n PROVE pairs[i] \in Seq(Single)
    <3>1. PICK a \in Single, b \in Single : a = <<ids[i]>> /\ b = <<locations[ids[i]]>>
      BY <1>3
    <3>2. pairs[i] = <<a, b>>
      BY <1>3, <3>1
    <3> QED BY <3>2
  <2>2. DOMAIN pairs = 1 .. n /\ pairs = [i \in DOMAIN pairs |-> pairs[i]]
    BY <1>1, <1>2
  <2> QED BY <2>1, <2>2, IndexedSeq
<1>5. \A i \in 1 .. n : /\ Len(pairs[i]) = 2 /\ pairs[i][1] = <<ids[i]>>
                        /\ pairs[i][2] = <<locations[ids[i]]>>
  <2> TAKE i \in 1 .. n
  <2>1. PICK a \in Single, b \in Single : a = <<ids[i]>> /\ b = <<locations[ids[i]]>>
    BY <1>3
  <2>2. pairs[i] = <<a, b>>
    BY <1>3, <2>1
  <2>3. Len(pairs[i]) = 2 /\ pairs[i][1] = a /\ pairs[i][2] = b
    BY <2>2
  <2> QED BY <2>1, <2>3
<1>6. PICK e : e = FlattenSeq(pairs)
  OBVIOUS
<1>7. /\ e \in Seq(Single) /\ Len(e) = 2 * n
      /\ \A j \in 1 .. n : e[2 * j - 1] = <<ids[j]>> /\ e[2 * j] = <<locations[ids[j]]>>
  <2>1. \A i \in 1 .. Len(pairs) : Len(pairs[i]) = 2
    BY <1>4, <1>5
  <2>2. /\ FlattenSeq(pairs) \in Seq(Single) /\ Len(FlattenSeq(pairs)) = 2 * Len(pairs)
        /\ \A j \in 1 .. Len(pairs) : /\ FlattenSeq(pairs)[2 * j - 1] = pairs[j][1]
                                      /\ FlattenSeq(pairs)[2 * j] = pairs[j][2]
    BY <1>4, <2>1, FlattenPairs
  <2> QED BY <1>4, <1>5, <1>6, <2>2
<1>8. PICK h : h = <<<<n>>, <<Len(dict)>>>>
  OBVIOUS
<1>9. dict \in Seq(Single) /\ Len(dict) \in Nat
  BY DictType
<1>10. h \in Seq(Single) /\ Len(h) = 2 /\ h[1] = <<n>> /\ h[2] = <<Len(dict)>>
  <2>1. <<n>> \in Single /\ <<Len(dict)>> \in Single
    BY <1>9, Singles
  <2> QED BY <1>8, <2>1
<1>11. PICK rest : rest = h \o e \o dict
  OBVIOUS
<1>12. /\ rest \in Seq(Single) /\ Len(rest) = 2 + 2 * n + Len(dict)
       /\ \A i \in 1 .. 2 : rest[i] = h[i]
       /\ \A i \in 1 .. 2 * n : rest[2 + i] = e[i]
       /\ \A i \in 1 .. Len(dict) : rest[2 + 2 * n + i] = dict[i]
  <2>1. /\ rest \in Seq(Single) /\ Len(rest) = Len(h) + Len(e) + Len(dict)
        /\ \A i \in 1 .. Len(h) : rest[i] = h[i]
        /\ \A i \in 1 .. Len(e) : rest[Len(h) + i] = e[i]
        /\ \A i \in 1 .. Len(dict) : rest[Len(h) + Len(e) + i] = dict[i]
    <3>1. h \in Seq(Single)
      BY <1>10
    <3>2. e \in Seq(Single)
      BY <1>7
    <3>3. dict \in Seq(Single)
      BY <1>9
    <3> QED BY ONLY <3>1, <3>2, <3>3, <1>11, Joined
  <2> QED BY <1>7, <1>10, <2>1
<1>13. PICK t : t = <<Crc(rest)>> \o rest
  OBVIOUS
<1>14. TrailerOf(ids) = t
  BY <1>1, <1>6, <1>8, <1>11, <1>13 DEF TrailerOf
<1>15. Crc(rest) \in Cell
  <2>1. FlattenSeq(rest) \in Seq(Nat) /\ Len(FlattenSeq(rest)) = Len(rest)
    BY <1>12, FlattenSingles
  <2>2. Len(rest) # 0
    BY <1>9, <1>12
  <2> QED BY <2>1, <2>2 DEF Crc, Cell
<1>16. PICK c \in Cell : c = Crc(rest)
  BY <1>15
<1>17. rest \in Seq(Cell)
  BY <1>12, SingleFacts
<1>18. /\ t \in Seq(Cell) /\ Len(t) = 1 + Len(rest) /\ t[1] = c /\ Tail(t) = rest
       /\ \A i \in 1 .. Len(rest) : t[1 + i] = rest[i]
  <2>1. t = <<c>> \o rest
    BY <1>13, <1>16
  <2>2. <<c>> \in Seq(Cell) /\ Len(<<c>>) = 1 /\ <<c>>[1] = c
    OBVIOUS
  <2>3. /\ t \in Seq(Cell) /\ Len(t) = 1 + Len(rest) /\ t[1] = c
        /\ \A i \in 1 .. Len(rest) : t[1 + i] = rest[i]
    BY <1>17, <2>1, <2>2
  <2>4. Tail(t) = rest
    BY <1>17, <2>3
  <2> QED BY <2>3, <2>4
<1>19. PICK dl \in Nat : dl = Len(dict)
  BY <1>9
<1>20. Len(rest) = 2 + 2 * n + dl /\ Len(t) = 3 + 2 * n + dl
  BY <1>12, <1>18, <1>19
<1>21. \A j \in 2 .. Len(t) : t[j] \in Single
  <2> TAKE j \in 2 .. Len(t)
  <2>1. PICK i \in 1 .. Len(rest) : j = 1 + i
    <3>1. j - 1 \in 1 .. Len(rest) /\ j = 1 + (j - 1)
      BY <1>20
    <3> QED BY <3>1
  <2>2. rest[i] \in Single
    BY <1>12
  <2> QED BY <1>18, <2>1, <2>2
<1>22. t[2] = <<n>> /\ t[3] = <<dl>>
  <2>1. 1 \in 1 .. Len(rest) /\ 2 \in 1 .. Len(rest)
    BY <1>20
  <2>2. t[1 + 1] = rest[1] /\ t[1 + 2] = rest[2]
    BY <1>18, <2>1
  <2> QED BY <1>10, <1>12, <1>19, <2>2
<1>23. \A i \in 1 .. n : t[2 + 2 * i] = <<ids[i]>> /\ t[3 + 2 * i] = <<locations[ids[i]]>>
  <2> TAKE i \in 1 .. n
  <2>1. PICK j \in Nat, m \in Nat : j = 2 * i - 1 /\ m = 2 * i
    OBVIOUS
  <2>2. j \in 1 .. 2 * n /\ m \in 1 .. 2 * n
    BY <2>1
  <2>3. 2 + j \in 1 .. Len(rest) /\ 2 + m \in 1 .. Len(rest)
    BY <1>20, <2>2
  <2>4. t[1 + (2 + j)] = e[j] /\ t[1 + (2 + m)] = e[m]
    BY <1>12, <1>18, <2>2, <2>3
  <2>5. 1 + (2 + j) = 2 + 2 * i /\ 1 + (2 + m) = 3 + 2 * i
    BY <2>1
  <2>6. e[j] = <<ids[i]>> /\ e[m] = <<locations[ids[i]]>>
    BY <1>7, <2>1
  <2> QED BY <2>4, <2>5, <2>6
<1>24. \A j \in 1 .. dl : t[3 + 2 * n + j] = dict[j]
  <2> TAKE j \in 1 .. dl
  <2>1. 2 + 2 * n + j \in 1 .. Len(rest)
    BY <1>20
  <2>2. t[1 + (2 + 2 * n + j)] = dict[j]
    BY <1>12, <1>18, <1>19, <2>1
  <2>3. 1 + (2 + 2 * n + j) = 3 + 2 * n + j
    OBVIOUS
  <2> QED BY <2>2, <2>3
<1> QED BY <1>14, <1>16, <1>18, <1>19, <1>20, <1>21, <1>22, <1>23, <1>24 DEF IsTrailer

(* The trailer lists every object once.                                    *)
LEMMA ListedFacts ==
  ASSUME NEW S, IsFiniteSet(S), NEW ids \in SetToSeqs(S)
  PROVE  /\ Cardinality(S) \in Nat /\ ids \in Seq(S) /\ Len(ids) = Cardinality(S)
         /\ S = {ids[i] : i \in 1 .. Cardinality(S)}
<1>1. PICK n \in Nat : n = Cardinality(S)
  BY FS_CardinalityType
<1>2. ids \in [1 .. n -> S] /\ \A i, j \in 1 .. n : i # j => ids[i] # ids[j]
  BY <1>1 DEF SetToSeqs
<1>3. ids \in Injection(1 .. n, S)
  BY <1>2 DEF Injection, IsInjective
<1>4. Cardinality(1 .. n) = n
  BY IntervalFacts
<1>5. ids \in Surjection(1 .. n, S)
  BY <1>1, <1>3, <1>4, FS_Injection
<1>6. \A o \in S : \E i \in 1 .. n : ids[i] = o
  BY <1>5 DEF Surjection
<1>7. S = {ids[i] : i \in 1 .. n}
  BY <1>2, <1>6
<1>8. ids \in Seq(S) /\ Len(ids) = n
  BY <1>2
<1> QED BY <1>1, <1>7, <1>8

(* Offsets survive the way through a location.                             *)
LEMMA OffsetFacts ==
  ASSUME NEW offset \in Nat
  PROVE  /\ ShiftLocation(offset, FALSE) \in Nat /\ ~ IsDelete(ShiftLocation(offset, FALSE))
         /\ LsnOf(ToAbsolute(ShiftLocation(offset, FALSE), FileLsn)) - FileLsn = offset
<1>1. FileLsn \in Nat
  BY FileAssumption
<1>2. LsnOf(ShiftLocation(offset, FALSE)) = offset /\ ~ IsDelete(ShiftLocation(offset, FALSE))
  BY DEF ShiftLocation, LsnOf, IsDelete
<1>3. ToAbsolute(ShiftLocation(offset, FALSE), FileLsn) = 2 * (offset + FileLsn)
  BY <1>1, <1>2 DEF ToAbsolute, ShiftLocation
<1>4. LsnOf(2 * (offset + FileLsn)) = offset + FileLsn
  BY <1>1 DEF LsnOf
<1>5. ShiftLocation(offset, FALSE) \in Nat
  BY DEF ShiftLocation
<1>6. (offset + FileLsn) - FileLsn = offset
  BY <1>1
<1> QED BY <1>2, <1>3, <1>4, <1>5, <1>6

(* The location of a deletion.                                             *)
LEMMA DeletionFacts ==
  ShiftLocation(0, TRUE) \in Nat /\ IsDelete(ShiftLocation(0, TRUE))
BY DEF ShiftLocation, IsDelete

(* The checksum of an object is a cell.                                    *)
LEMMA HashType ==
  ASSUME NEW o \in Nat, NEW body \in Seq(Single)
  PROVE  ObjectHash(<<Len(body)>>, <<o>>, body) \in Cell
<1>1. PICK len \in Single, id \in Single : len = <<Len(body)>> /\ id = <<o>>
  BY Singles, LenProperties
<1>2. PICK s : s = <<len, id>> \o body
  OBVIOUS
<1>3. s \in Seq(Single) /\ Len(s) = 2 + Len(body)
  BY <1>2, HashedCells
<1>4. FlattenSeq(s) \in Seq(Nat) /\ Len(FlattenSeq(s)) = Len(s)
  BY <1>3, FlattenSingles
<1>5. FlattenSeq(s) \in Cell
  BY <1>3, <1>4, LenProperties DEF Cell
<1> QED BY <1>1, <1>2, <1>5 DEF ObjectHash, Crc

(* What step 1 appends to the data section.                                *)
WithObject(cells, o, body) ==
  cells \o <<ObjectHash(<<Len(body)>>, <<o>>, body), <<o>>, <<Len(body)>>>> \o body

(* The cells with an object appended to them.                              *)
ObjectAdded(cells, more, o, body) ==
  /\ more \in Seq(Cell) /\ Len(more) = Len(cells) + 3 + Len(body)
  /\ \A j \in 1 .. Len(cells) : more[j] = cells[j]
  /\ WrittenAt(more, Len(cells), o, body)

(* What step 1 appends is an object behind what was there.                 *)
LEMMA Appended ==
  ASSUME NEW cells \in Seq(Cell), NEW o \in Nat, NEW body \in Seq(Single), NEW more,
         more = WithObject(cells, o, body)
  PROVE  ObjectAdded(cells, more, o, body)
<1>1. PICK hash \in Cell, id \in Cell, len \in Cell :
        /\ hash = ObjectHash(<<Len(body)>>, <<o>>, body)
        /\ id = <<o>> /\ len = <<Len(body)>>
  BY HashType, Singles, LenProperties
<1>0. <<hash, id, len>> \in Seq(Cell)
  OBVIOUS
<1>2. PICK h \in Seq(Cell) : h = <<hash, id, len>>
  BY <1>0
<1>3. Len(h) = 3 /\ h[1] = hash /\ h[2] = id /\ h[3] = len
  BY <1>2
<1>4. body \in Seq(Cell)
  BY SingleFacts
<1>5. more = cells \o h \o body
  BY <1>1, <1>2 DEF WithObject
<1>6. /\ more \in Seq(Cell) /\ Len(more) = Len(cells) + Len(h) + Len(body)
      /\ \A i \in 1 .. Len(cells) : more[i] = cells[i]
      /\ \A i \in 1 .. Len(h) : more[Len(cells) + i] = h[i]
      /\ \A i \in 1 .. Len(body) : more[Len(cells) + Len(h) + i] = body[i]
  BY ONLY <1>4, <1>5, cells \in Seq(Cell), h \in Seq(Cell), Joined
<1>7. Len(cells) \in Nat /\ Len(body) \in Nat
  BY LenProperties
<1>8. /\ more[Len(cells) + 1] = hash /\ more[Len(cells) + 2] = id
      /\ more[Len(cells) + 3] = len
  BY <1>3, <1>6
<1>9. \A i \in 1 .. Len(body) : more[Len(cells) + 3 + i] = body[i]
  BY <1>3, <1>6
<1>10. Len(more) = Len(cells) + 3 + Len(body)
  BY <1>3, <1>6
<1>11. WrittenAt(more, Len(cells), o, body)
  BY <1>1, <1>7, <1>8, <1>9, <1>10 DEF WrittenAt
<1> QED BY <1>6, <1>10, <1>11 DEF ObjectAdded

(* What is behind an object does not matter.                               *)
LEMMA WrittenStays ==
  ASSUME NEW cells, Len(cells) \in Nat, NEW more, Len(more) \in Nat, Len(cells) <= Len(more),
         \A j \in 1 .. Len(cells) : more[j] = cells[j],
         NEW offset, NEW o, NEW body \in Seq(Single), WrittenAt(cells, offset, o, body)
  PROVE  WrittenAt(more, offset, o, body)
<1>1. Len(body) \in Nat /\ offset \in Nat /\ offset + 3 + Len(body) <= Len(cells)
  BY LenProperties DEF WrittenAt
<1>2. /\ offset + 1 \in 1 .. Len(cells) /\ offset + 2 \in 1 .. Len(cells)
      /\ offset + 3 \in 1 .. Len(cells)
  BY <1>1
<1>3. \A i \in 1 .. Len(body) : offset + 3 + i \in 1 .. Len(cells)
  BY <1>1
<1>4. offset + 3 + Len(body) <= Len(more)
  BY <1>1
<1> QED BY <1>1, <1>2, <1>3, <1>4 DEF WrittenAt

(* The objects still lie one behind the other.                             *)
LEMMA TilesExtends ==
  ASSUME NEW offs, NEW st, NEW n \in Nat, Tiles(offs, st, n),
         \A p \in DOMAIN offs : /\ offs[p] \in Nat /\ Len(st[p]) \in Nat
                                /\ offs[p] + 3 + Len(st[p]) <= n,
         NEW o, o \notin DOMAIN offs, Len(st[o]) \in Nat, NEW more,
         more = [p \in DOMAIN offs \cup {o} |-> IF p = o THEN n ELSE offs[p]]
  PROVE  Tiles(more, st, n + 3 + Len(st[o]))
<1>1. DOMAIN more = DOMAIN offs \cup {o} /\ more[o] = n
  OBVIOUS
<1>2. \A p \in DOMAIN offs : more[p] = offs[p]
  OBVIOUS
<1>0. n + 3 + Len(st[o]) \in Nat
  <2>1. \A k, l \in Nat : k + 3 + l \in Nat
    OBVIOUS
  <2> QED BY <2>1
<1>3. PICK m \in Nat : m = n + 3 + Len(st[o])
  BY <1>0
<1>4. \A p \in DOMAIN more :
        \/ more[p] + 3 + Len(st[p]) = m
        \/ \E q \in DOMAIN more : more[q] = more[p] + 3 + Len(st[p])
  <2> TAKE p \in DOMAIN more
  <2>1. CASE p = o
    BY <1>1, <1>3, <2>1
  <2>2. CASE p \in DOMAIN offs
    <3>1. CASE offs[p] + 3 + Len(st[p]) = n
      BY <1>1, <1>2, <2>2, <3>1
    <3>2. CASE \E q \in DOMAIN offs : offs[q] = offs[p] + 3 + Len(st[p])
      BY <1>1, <1>2, <2>2, <3>2
    <3> QED BY <2>2, <3>1, <3>2 DEF Tiles
  <2> QED BY <1>1, <2>1, <2>2
<1>5. \A p, q \in DOMAIN more :
        p # q => \/ more[p] + 3 + Len(st[p]) <= more[q]
                 \/ more[q] + 3 + Len(st[q]) <= more[p]
  <2> TAKE p, q \in DOMAIN more
  <2>1. CASE p \in DOMAIN offs /\ q \in DOMAIN offs
    BY <1>2, <2>1 DEF Tiles
  <2>2. CASE p = o /\ q \in DOMAIN offs
    BY <1>1, <1>2, <2>2
  <2>3. CASE q = o /\ p \in DOMAIN offs
    BY <1>1, <1>2, <2>3
  <2> QED BY <1>1, <2>1, <2>2, <2>3
<1>6. \E p \in DOMAIN more : more[p] = 0
  BY <1>1, <1>2 DEF Tiles
<1> QED BY <1>3, <1>4, <1>5, <1>6 DEF Tiles

(***************************************************************************)
(* The layout of a file: where the objects of the batch are, and a trailer *)
(* behind them.  The offsets of objects that were not installed are not    *)
(* kept anywhere, so that they have to be guessed.                         *)
(***************************************************************************)
Bodies == [o \in DOMAIN objects |-> Stored(o)]

(* The objects written so far have the offsets offs.                       *)
Layout(offs) ==
  /\ DOMAIN objects \cap DOMAIN locations \subseteq DOMAIN offs
  /\ DOMAIN offs \subseteq DOMAIN objects
  /\ phase = "data" => DOMAIN offs \subseteq DOMAIN locations
  /\ phase \in {"renamed", "damaged"} => DOMAIN offs = DOMAIN objects
  /\ \A o \in DOMAIN offs : WrittenAt(data, offs[o], o, Bodies[o])
  /\ \A o \in DOMAIN offs \cap DOMAIN locations :
       locations[o] = ShiftLocation(offs[o], FALSE)
  /\ Tiles(offs, Bodies, Len(data))

(* The file ends with the trailer t, which lists the n objects ids.        *)
Ended(t, n, ids) ==
  /\ n \in Nat /\ IsTrailer(t, n, ids, locations, dict)
  /\ DOMAIN locations = {ids[i] : i \in 1 .. n}
  /\ metadata = [trailer_offset |-> Len(data), file_size |-> Len(data \o t)]
  /\ file \in Seq(Cell) /\ Spoilt(file, data \o t)
  /\ phase = "renamed" => file = data \o t

(* The inductive invariant of a storage file.                              *)
FileInv ==
  /\ FileTypes /\ phase \in {"data", "refused", "renamed", "damaged"}
  /\ data \in Seq(Cell) /\ DOMAIN locations \subseteq DOMAIN objects \cup tombstones
  /\ \A o \in tombstones \cap DOMAIN locations : locations[o] = ShiftLocation(0, TRUE)
  /\ \E offs : Layout(offs)
  /\ phase \in {"renamed", "damaged"} => \E t, n, ids : Ended(t, n, ids)

(* The bodies of the objects.                                              *)
LEMMA BodiesFacts ==
  ASSUME FileTypes
  PROVE  \A o \in DOMAIN objects : /\ o \in Nat /\ Bodies[o] \in Seq(Single)
                                   /\ Len(Bodies[o]) \in Nat
                                   /\ DecompressWith(dict, Bodies[o]) = objects[o]
<1> TAKE o \in DOMAIN objects
<1>1. Bodies[o] = Stored(o)
  BY DEF Bodies
<1>2. Stored(o) \in Seq(Single) /\ DecompressWith(dict, Stored(o)) = objects[o]
  BY StoredFacts
<1>3. o \in Nat
  BY FileAssumption DEF FileTypes
<1> QED BY <1>1, <1>2, <1>3, LenProperties

(* An empty data section has the layout.                                   *)
LEMMA FileStarts == FileInit => FileInv
<1> SUFFICES ASSUME FileInit PROVE FileInv
  OBVIOUS
<1>1. PICK ids \in (SUBSET FileIds) \ {{}}, deleted \in SUBSET FileIds :
        /\ deleted \subseteq ids /\ objects \in [ids \ deleted -> Values]
        /\ tombstones = deleted /\ locations = [o \in deleted |-> ShiftLocation(0, TRUE)]
  BY DEF FileInit
<1>2. dict # <<>> => \E d \in Nat : dict = <<<<d>>>>
  <2>1. dict \in {<<>>} \cup {<<<<d>>>> : d \in Dictionaries}
    BY DEF FileInit, FromSamples
  <2> QED BY <2>1, FileAssumption
<1>3. FileTypes
  BY <1>1, <1>2, FileAssumption DEF FileTypes
<1>4. PICK offs : offs = [o \in {} |-> 0]
  OBVIOUS
<1>5. data = <<>> /\ phase = "data"
  BY DEF FileInit
<1>6. Layout(offs)
  <2>1. DOMAIN offs = {}
    BY <1>4
  <2>2. DOMAIN objects \cap DOMAIN locations = {}
    BY <1>1
  <2>3. Len(data) = 0
    BY <1>5
  <2>4. Tiles(offs, Bodies, Len(data))
    BY <2>1, <2>3 DEF Tiles
  <2> QED BY <1>5, <2>1, <2>2, <2>4 DEF Layout
<1>7. data \in Seq(Cell)
  BY <1>5
<1> QED BY <1>1, <1>3, <1>5, <1>6, <1>7 DEF FileInv

(* An object goes behind the others, with its offset in the table.         *)
LEMMA FileWriteObject ==
  ASSUME FileInv, NEW o \in FileIds, WriteObject(o)
  PROVE  FileInv'
<1>1. /\ phase = "data" /\ o \in DOMAIN objects /\ o \notin DOMAIN locations
      /\ data' = data \o <<ObjectHash(<<Len(Stored(o))>>, <<o>>, Stored(o)), <<o>>,
                           <<Len(Stored(o))>>>> \o Stored(o)
      /\ locations' = [p \in DOMAIN locations \cup {o} |->
                         IF p = o THEN ShiftLocation(Len(data), FALSE) ELSE locations[p]]
      /\ phase' = phase /\ objects' = objects /\ tombstones' = tombstones /\ dict' = dict
  BY DEF WriteObject, Unwritten
<1>2. FileTypes /\ data \in Seq(Cell)
  BY DEF FileInv
<1>3. PICK offs : Layout(offs)
  BY DEF FileInv
<1>4. PICK st : st = Bodies
  OBVIOUS
<1>5. PICK n \in Nat : n = Len(data)
  BY <1>2, LenProperties
<1>6. \A p \in DOMAIN objects : p \in Nat /\ st[p] \in Seq(Single) /\ Len(st[p]) \in Nat
  BY <1>2, <1>4, BodiesFacts
<1>7. st[o] = Stored(o)
  BY <1>1, <1>4 DEF Bodies
<1>8. PICK cells : cells = data'
  OBVIOUS
<1>9. /\ cells \in Seq(Cell) /\ Len(cells) = n + 3 + Len(st[o])
      /\ \A j \in 1 .. n : cells[j] = data[j]
      /\ WrittenAt(cells, n, o, st[o])
  <2>1. o \in Nat /\ st[o] \in Seq(Single)
    BY <1>1, <1>6
  <2>2. cells = WithObject(data, o, st[o])
    BY <1>1, <1>7, <1>8 DEF WithObject
  <2>3. PICK body \in Seq(Single) : body = st[o]
    BY <2>1
  <2>4. PICK old \in Seq(Cell) : old = data
    BY <1>2
  <2>5. cells = WithObject(old, o, body)
    BY <2>2, <2>3, <2>4
  <2>6. o \in Nat
    BY <2>1
  <2>7. ObjectAdded(old, cells, o, body)
    BY ONLY old \in Seq(Cell), body \in Seq(Single), <2>5, <2>6, Appended
  <2> QED BY <1>5, <2>3, <2>4, <2>7 DEF ObjectAdded
<1>10. PICK more : more = [p \in DOMAIN offs \cup {o} |-> IF p = o THEN n ELSE offs[p]]
  OBVIOUS
<1>11. /\ DOMAIN offs = DOMAIN objects \cap DOMAIN locations /\ o \notin DOMAIN offs
       /\ Tiles(offs, st, n)
       /\ \A p \in DOMAIN offs : WrittenAt(data, offs[p], p, st[p])
       /\ \A p \in DOMAIN offs \cap DOMAIN locations :
            locations[p] = ShiftLocation(offs[p], FALSE)
  BY <1>1, <1>3, <1>4, <1>5 DEF Layout
<1>12. DOMAIN more = DOMAIN offs \cup {o} /\ more[o] = n
  BY <1>10
<1>13. \A p \in DOMAIN offs : more[p] = offs[p]
  BY <1>10, <1>11
<1>14. Tiles(more, st, Len(cells))
  <2>1. \A p \in DOMAIN offs : /\ offs[p] \in Nat /\ Len(st[p]) \in Nat
                               /\ offs[p] + 3 + Len(st[p]) <= n
    BY <1>5, <1>6, <1>11 DEF WrittenAt
  <2>2. Len(st[o]) \in Nat
    BY <1>1, <1>6
  <2>3. Tiles(offs, st, n) /\ o \notin DOMAIN offs
    BY <1>11
  <2>4. Tiles(more, st, n + 3 + Len(st[o]))
    BY ONLY n \in Nat, <1>10, <2>1, <2>2, <2>3, TilesExtends
  <2> QED BY <1>9, <2>4
<1>15. \A p \in DOMAIN more : WrittenAt(cells, more[p], p, st[p])
  <2> TAKE p \in DOMAIN more
  <2>1. CASE p = o
    BY <1>9, <1>12, <2>1
  <2>2. CASE p \in DOMAIN offs
    <3>1. WrittenAt(data, offs[p], p, st[p]) /\ st[p] \in Seq(Single)
      BY <1>6, <1>11, <2>2
    <3>2. Len(data) \in Nat /\ Len(cells) \in Nat /\ Len(data) <= Len(cells)
      <4>1. PICK l \in Nat : l = Len(st[o])
        BY <1>1, <1>6
      <4>2. Len(cells) = n + 3 + l
        BY <1>9, <4>1
      <4> QED BY <1>5, <4>2
    <3>3. \A j \in 1 .. Len(data) : cells[j] = data[j]
      BY <1>5, <1>9
    <3>4. WrittenAt(cells, offs[p], p, st[p])
      BY ONLY <3>1, <3>2, <3>3, WrittenStays
    <3> QED BY <1>13, <2>2, <3>4
  <2> QED BY <1>12, <2>1, <2>2
<1>16. PICK locs : locs = locations'
  OBVIOUS
<1>17. /\ DOMAIN locs = DOMAIN locations \cup {o} /\ locs[o] = ShiftLocation(n, FALSE)
       /\ \A p \in DOMAIN locations : locs[p] = locations[p]
  BY <1>1, <1>5, <1>16
<1>18. \A p \in DOMAIN more \cap DOMAIN locs : locs[p] = ShiftLocation(more[p], FALSE)
  BY <1>11, <1>12, <1>13, <1>17
<1>19. Bodies' = st
  BY <1>1, <1>4 DEF Bodies, Stored
<1>20. Layout(more)'
  <2>1. DOMAIN objects \cap DOMAIN locs \subseteq DOMAIN more /\ DOMAIN more \subseteq DOMAIN objects
        /\ DOMAIN more \subseteq DOMAIN locs
    BY <1>1, <1>11, <1>12, <1>17
  <2> QED BY <1>1, <1>8, <1>14, <1>15, <1>16, <1>18, <1>19, <2>1 DEF Layout
<1>21. FileTypes'
  BY <1>1, <1>2 DEF FileTypes
<1>22. DOMAIN locs \subseteq DOMAIN objects \cup tombstones
  BY <1>1, <1>17 DEF FileInv
<1>23. \A p \in tombstones \cap DOMAIN locs : locs[p] = ShiftLocation(0, TRUE)
  <2>1. o \notin tombstones
    BY <1>1, <1>2 DEF FileTypes
  <2> QED BY <1>17, <2>1 DEF FileInv
<1> QED BY <1>1, <1>8, <1>9, <1>16, <1>20, <1>21, <1>22, <1>23 DEF FileInv

(* The locations of a file: deletions and nothing else have the flag.      *)
LEMMA LocationsNat ==
  ASSUME FileInv
  PROVE  \A o \in DOMAIN locations : /\ o \in Nat /\ o \in FileIds /\ locations[o] \in Nat
                                     /\ IsDelete(locations[o]) <=> o \in tombstones
<1>1. PICK offs : Layout(offs)
  BY DEF FileInv
<1> TAKE o \in DOMAIN locations
<1>2. o \in FileIds /\ o \in Nat
  BY FileAssumption DEF FileInv, FileTypes
<1>3. CASE o \in tombstones
  <2>1. locations[o] = ShiftLocation(0, TRUE)
    BY <1>3 DEF FileInv
  <2> QED BY <1>2, <1>3, <2>1, DeletionFacts
<1>4. CASE o \in DOMAIN objects /\ o \notin tombstones
  <2>1. o \in DOMAIN offs
    BY <1>1, <1>4 DEF Layout
  <2>2. offs[o] \in Nat /\ locations[o] = ShiftLocation(offs[o], FALSE)
    BY <1>1, <2>1 DEF Layout, WrittenAt
  <2> QED BY <1>2, <1>4, <2>2, OffsetFacts
<1> QED BY <1>3, <1>4 DEF FileInv

(* A refused batch writes nothing.                                         *)
LEMMA FileRefuseObject ==
  ASSUME FileInv, NEW o \in FileIds, RefuseObject(o)
  PROVE  FileInv'
<1>1. /\ phase' = "refused" /\ objects' = objects /\ tombstones' = tombstones
      /\ dict' = dict /\ locations' = locations /\ data' = data
  BY DEF RefuseObject
<1>2. PICK offs : Layout(offs)
  BY DEF FileInv
<1>3. Bodies' = Bodies
  BY <1>1 DEF Bodies, Stored
<1>4. Layout(offs)'
  BY <1>1, <1>2, <1>3 DEF Layout
<1>5. FileTypes'
  BY <1>1 DEF FileInv, FileTypes
<1> QED BY <1>1, <1>4, <1>5 DEF FileInv

(* A file lists only what it has, and ends with the trailer.               *)
LEMMA FileWriteTrailer ==
  ASSUME FileInv, WriteTrailer
  PROVE  FileInv'
<1>1. /\ phase = "data" /\ DOMAIN objects \subseteq DOMAIN locations
      /\ phase' = "renamed" /\ objects' = objects /\ tombstones' = tombstones
      /\ dict' = dict /\ data' = data
  BY DEF WriteTrailer, Unwritten
<1>2. PICK installed \in (SUBSET DOMAIN locations) \ {{}} :
        /\ locations' = [o \in installed |-> locations[o]]
        /\ \E ids \in SetToSeqs(installed) : file' = data \o TrailerOf(ids)
        /\ metadata' = [trailer_offset |-> Len(data),
                        file_size |-> Len(data) + TrailerCells
                                      + EntryCells * Cardinality(installed) + Len(dict)]
  BY DEF WriteTrailer
<1>3. PICK ids \in SetToSeqs(installed) : file' = data \o TrailerOf(ids)
  BY <1>2
<1>4. FileTypes /\ data \in Seq(Cell)
  BY DEF FileInv
<1>5. \A o \in DOMAIN locations : o \in Nat /\ o \in FileIds /\ locations[o] \in Nat
  BY LocationsNat
<1>6. IsFiniteSet(installed)
  <2>1. installed \subseteq FileIds
    BY <1>5
  <2> QED BY <2>1, FileAssumption, FS_Subset
<1>7. PICK n \in Nat : n = Cardinality(installed)
  BY <1>6, FS_CardinalityType
<1>8. ids \in Seq(installed) /\ Len(ids) = n /\ installed = {ids[i] : i \in 1 .. n}
  BY <1>6, <1>7, ListedFacts
<1>9. ids \in Seq(DOMAIN locations)
  BY <1>8
<1>10. \A i \in 1 .. n : ids[i] \in Nat /\ locations[ids[i]] \in Nat
  BY <1>5, <1>8
<1>11. PICK t : t = TrailerOf(ids)
  OBVIOUS
<1>12. IsTrailer(t, n, ids, locations, dict)
  BY <1>4, <1>8, <1>9, <1>10, <1>11, TrailerIs
<1>13. PICK locs : locs = locations'
  OBVIOUS
<1>14. DOMAIN locs = installed /\ \A o \in installed : locs[o] = locations[o]
  BY <1>2, <1>13
<1>15. IsTrailer(t, n, ids, locs, dict)
  <2>1. \A i \in 1 .. n : locs[ids[i]] = locations[ids[i]]
    BY <1>8, <1>14
  <2> QED BY <1>12, <2>1 DEF IsTrailer
<1>16. PICK whole : whole = data \o t
  OBVIOUS
<1>17. t \in Seq(Cell) /\ Len(t) = 3 + 2 * n + Len(dict)
  BY <1>12 DEF IsTrailer
<1>18. whole \in Seq(Cell) /\ Len(whole) = Len(data) + Len(t)
  <2>1. PICK old \in Seq(Cell), end \in Seq(Cell) : old = data /\ end = t
    BY <1>4, <1>17
  <2>2. old \o end \in Seq(Cell) /\ Len(old \o end) = Len(old) + Len(end)
    OBVIOUS
  <2> QED BY <1>16, <2>1, <2>2
<1>19. metadata' = [trailer_offset |-> Len(data), file_size |-> Len(whole)]
  <2>1. PICK a \in Nat, b \in Nat : a = Len(data) /\ b = Len(dict)
    BY <1>4, DictType, LenProperties
  <2>2. a + TrailerCells + EntryCells * n + b = a + (3 + 2 * n + b)
    BY DEF TrailerCells, EntryCells
  <2>3. Len(whole) = a + (3 + 2 * n + b)
    BY <1>17, <1>18, <2>1
  <2> QED BY <1>2, <1>7, <2>1, <2>2, <2>3
<1>20. Spoilt(whole, whole)
  BY <1>18, LenProperties DEF Spoilt
<1>21. file' = whole
  BY <1>3, <1>11, <1>16
<1>22. Ended(t, n, ids)'
  <2>1. DOMAIN locs = {ids[i] : i \in 1 .. n}
    BY <1>8, <1>14
  <2> QED BY <1>1, <1>13, <1>15, <1>16, <1>18, <1>19, <1>20, <1>21, <2>1 DEF Ended
<1>23. PICK offs : Layout(offs)
  BY DEF FileInv
<1>24. Bodies' = Bodies
  BY <1>1 DEF Bodies, Stored
<1>25. Layout(offs)'
  <2>1. DOMAIN offs = DOMAIN objects
    BY <1>1, <1>23 DEF Layout
  <2>2. \A o \in DOMAIN offs \cap DOMAIN locs : locs[o] = ShiftLocation(offs[o], FALSE)
    BY <1>14, <1>23 DEF Layout
  <2>3. /\ \A o \in DOMAIN offs : WrittenAt(data, offs[o], o, Bodies[o])
        /\ Tiles(offs, Bodies, Len(data))
    BY <1>23 DEF Layout
  <2> QED BY <1>1, <1>13, <1>24, <2>1, <2>2, <2>3 DEF Layout
<1>26. FileTypes'
  BY <1>1, <1>4 DEF FileTypes
<1>27. DOMAIN locs \subseteq DOMAIN objects \cup tombstones
  BY <1>14 DEF FileInv
<1>28. \A o \in tombstones \cap DOMAIN locs : locs[o] = ShiftLocation(0, TRUE)
  BY <1>14 DEF FileInv
<1> QED BY <1>1, <1>4, <1>13, <1>22, <1>25, <1>26, <1>27, <1>28 DEF FileInv

(* Damage leaves a spoilt file.                                            *)
LEMMA FileDamage ==
  ASSUME FileInv, Damage
  PROVE  FileInv'
<1>1. /\ phase = "renamed" /\ phase' = "damaged" /\ objects' = objects
      /\ tombstones' = tombstones /\ dict' = dict /\ locations' = locations
      /\ data' = data /\ metadata' = metadata
  BY DEF Damage
<1>2. PICK t, n, ids : Ended(t, n, ids)
  BY <1>1 DEF FileInv
<1>3. PICK whole \in Seq(Cell) : whole = data \o t
  BY <1>1, <1>2 DEF Ended
<1>4. file = whole
  BY <1>1, <1>2, <1>3 DEF Ended
<1>5. PICK cells : cells = file'
  OBVIOUS
<1>6. cells \in Seq(Cell) /\ Spoilt(cells, whole)
  <2>1. CASE \E i \in DOMAIN file, k \in DamageCells :
               file' = [file EXCEPT ![i] = <<k>>] /\ file' # file
    <3>1. PICK i \in DOMAIN whole, k \in DamageCells : cells = [whole EXCEPT ![i] = <<k>>]
      BY <1>4, <1>5, <2>1
    <3>2. PICK c \in Single : c = <<k>>
      BY Singles, FileAssumption
    <3>3. cells = [whole EXCEPT ![i] = c] /\ c \in Cell
      BY <3>1, <3>2, SingleFacts
    <3>4. cells \in Seq(Cell) /\ Len(cells) = Len(whole)
      BY <3>3
    <3>5. cells[i] = c /\ \A j \in 1 .. Len(whole) : j # i => cells[j] = whole[j]
      BY <3>3
    <3>6. i \in 1 .. Len(whole)
      OBVIOUS
    <3> QED BY <3>4, <3>5, <3>6 DEF Spoilt
  <2>2. CASE \E length \in 0 .. Len(file) - 1 : file' = SubSeq(file, 1, length)
    <3>1. PICK length \in 0 .. Len(whole) - 1 : cells = SubSeq(whole, 1, length)
      BY <1>4, <1>5, <2>2
    <3>2. length \in Nat /\ length <= Len(whole)
      BY LenProperties
    <3>3. /\ cells \in Seq(Cell) /\ Len(cells) = length
          /\ \A j \in 1 .. length : cells[j] = whole[j]
      BY <3>1, <3>2
    <3> QED BY <3>2, <3>3 DEF Spoilt
  <2> QED BY <2>1, <2>2 DEF Damage
<1>7. Ended(t, n, ids)'
  BY <1>1, <1>2, <1>3, <1>5, <1>6 DEF Ended
<1>8. PICK offs : Layout(offs)
  BY DEF FileInv
<1>9. Bodies' = Bodies
  BY <1>1 DEF Bodies, Stored
<1>10. Layout(offs)'
  BY <1>1, <1>8, <1>9 DEF Layout
<1>11. FileTypes'
  BY <1>1 DEF FileInv, FileTypes
<1> QED BY <1>1, <1>7, <1>10, <1>11 DEF FileInv

(* Nothing changes the layout of a file from outside.                      *)
LEMMA FileStutters ==
  ASSUME FileInv, UNCHANGED fileVars
  PROVE  FileInv'
<1>1. /\ phase' = phase /\ objects' = objects /\ tombstones' = tombstones /\ dict' = dict
      /\ locations' = locations /\ data' = data /\ file' = file /\ metadata' = metadata
  BY DEF fileVars
<1>2. PICK offs : Layout(offs)
  BY DEF FileInv
<1>3. Bodies' = Bodies
  BY <1>1 DEF Bodies, Stored
<1>4. Layout(offs)'
  BY <1>1, <1>2, <1>3 DEF Layout
<1>5. FileTypes'
  BY <1>1 DEF FileInv, FileTypes
<1>6. ASSUME phase \in {"renamed", "damaged"} PROVE \E t, n, ids : Ended(t, n, ids)'
  <2>1. PICK t, n, ids : Ended(t, n, ids)
    BY <1>6 DEF FileInv
  <2>2. Ended(t, n, ids)'
    BY <1>1, <2>1 DEF Ended
  <2> QED BY <2>2
<1> QED BY <1>1, <1>4, <1>5, <1>6 DEF FileInv

(* The layout is kept by every step.                                       *)
THEOREM FileInduction == FileSpec => []FileInv
<1>1. FileInv /\ [FileNext]_fileVars => FileInv'
  <2> SUFFICES ASSUME FileInv, [FileNext]_fileVars PROVE FileInv'
    OBVIOUS
  <2>1. ASSUME NEW o \in FileIds, WriteObject(o) \/ RefuseObject(o) PROVE FileInv'
    BY <2>1, FileWriteObject, FileRefuseObject
  <2>2. CASE WriteTrailer
    BY <2>2, FileWriteTrailer
  <2>3. CASE Damage
    BY <2>3, FileDamage
  <2>4. CASE UNCHANGED fileVars
    BY <2>4, FileStutters
  <2> QED BY <2>1, <2>2, <2>3, <2>4 DEF FileNext
<1> QED BY <1>1, FileStarts, PTL DEF FileSpec

(* A file with a trailer: the cells that were written, and where.          *)
Laid(whole, offs) ==
  /\ whole \in Seq(Cell) /\ file \in Seq(Cell) /\ Spoilt(file, whole)
  /\ phase = "renamed" => file = whole
  /\ metadata.trailer_offset = Len(data) /\ DOMAIN offs = DOMAIN objects
  /\ \A o \in DOMAIN offs : /\ o \in Nat /\ Bodies[o] \in Seq(Single) /\ offs[o] \in Nat
                            /\ offs[o] + 3 + Len(Bodies[o]) <= Len(data)
                            /\ WrittenAt(whole, offs[o], o, Bodies[o])
  /\ \A o \in DOMAIN offs \cap DOMAIN locations :
       locations[o] = ShiftLocation(offs[o], FALSE)
  /\ Tiles(offs, Bodies, Len(data))

(* Every renamed file is such a file.                                      *)
LEMMA FileFound ==
  ASSUME FileInv, phase \in {"renamed", "damaged"}
  PROVE  \E whole, offs : Laid(whole, offs)
<1>1. PICK t, n, ids : Ended(t, n, ids)
  BY DEF FileInv
<1>2. PICK offs : Layout(offs)
  BY DEF FileInv
<1>3. PICK whole : whole = data \o t
  OBVIOUS
<1>4. PICK st : st = Bodies
  OBVIOUS
<1>5. PICK old \in Seq(Cell), end \in Seq(Cell) : old = data /\ end = t
  BY <1>1 DEF FileInv, Ended, IsTrailer
<1>6. /\ whole \in Seq(Cell) /\ Len(whole) = Len(old) + Len(end)
      /\ \A j \in 1 .. Len(old) : whole[j] = old[j]
  <2>1. whole = old \o end
    BY <1>3, <1>5
  <2> QED BY ONLY <2>1, old \in Seq(Cell), end \in Seq(Cell)
<1>7. Len(old) \in Nat /\ Len(whole) \in Nat /\ Len(old) <= Len(whole)
  BY <1>6, LenProperties
<1>8. /\ file \in Seq(Cell) /\ Spoilt(file, whole) /\ (phase = "renamed" => file = whole)
      /\ metadata.trailer_offset = Len(data)
  BY <1>1, <1>3 DEF Ended
<1>9. /\ DOMAIN offs = DOMAIN objects /\ Tiles(offs, st, Len(data))
      /\ \A o \in DOMAIN offs \cap DOMAIN locations :
           locations[o] = ShiftLocation(offs[o], FALSE)
  BY <1>2, <1>4 DEF Layout
<1>10. \A o \in DOMAIN offs : /\ o \in Nat /\ st[o] \in Seq(Single) /\ offs[o] \in Nat
                              /\ offs[o] + 3 + Len(st[o]) <= Len(data)
                              /\ WrittenAt(whole, offs[o], o, st[o])
  <2> TAKE o \in DOMAIN offs
  <2>1. o \in Nat /\ st[o] \in Seq(Single)
    BY <1>4, <1>9, BodiesFacts DEF FileInv
  <2>2. WrittenAt(old, offs[o], o, st[o])
    BY <1>2, <1>4, <1>5 DEF Layout
  <2>3. PICK offset, body : offset = offs[o] /\ body = st[o]
    OBVIOUS
  <2>4. WrittenAt(old, offset, o, body) /\ body \in Seq(Single)
    BY <2>1, <2>2, <2>3
  <2>5. WrittenAt(whole, offset, o, body)
    BY ONLY <1>6, <1>7, <2>4, WrittenStays
  <2>6. offset \in Nat /\ offset + 3 + Len(body) <= Len(old)
    BY <2>4 DEF WrittenAt
  <2> QED BY <1>5, <2>1, <2>3, <2>5, <2>6
<1> QED BY <1>4, <1>6, <1>8, <1>9, <1>10 DEF Laid

(* Recovery reads the installed locations and the dictionary, or fails.    *)
LEMMA TrailersAgree ==
  ASSUME FileInv, phase \in {"renamed", "damaged"}, NEW size \in Sizes
  PROVE  /\ ReadTrailer(size) \subseteq {WrittenTrailer}
         /\ phase = "renamed" => /\ ReadTrailer(size) = {WrittenTrailer}
                                 /\ Len(file) = metadata.file_size
<1>1. PICK t, n, ids : Ended(t, n, ids)
  BY DEF FileInv
<1>2. n \in Nat /\ IsTrailer(t, n, ids, locations, dict)
  BY <1>1 DEF Ended
<1>3. /\ DOMAIN locations = {ids[i] : i \in 1 .. n}
      /\ metadata = [trailer_offset |-> Len(data), file_size |-> Len(data \o t)]
      /\ file \in Seq(Cell) /\ Spoilt(file, data \o t)
      /\ phase = "renamed" => file = data \o t
  BY <1>1 DEF Ended
<1>4. data \in Seq(Cell) /\ dict \in Seq(Single)
  BY DictType DEF FileInv
<1>5. \A i \in 1 .. n : ids[i] \in Nat /\ locations[ids[i]] \in Nat
  BY <1>3, LocationsNat
<1>6. /\ ReadTrailer(size) \subseteq {WrittenTrailer}
      /\ file = data \o t => ReadTrailer(size) = {WrittenTrailer}
  BY <1>2, <1>3, <1>4, <1>5, TrailerRead
<1> QED BY <1>3, <1>6

(* read returns an installed object, or fails.                             *)
LEMMA ObjectsAgree ==
  ASSUME FileInv, phase \in {"renamed", "damaged"}, NEW o \in DOMAIN locations \ tombstones
  PROVE  /\ ReadObject(o, Absolute(o), dict) \subseteq {objects[o]}
         /\ phase = "renamed" => ReadObject(o, Absolute(o), dict) = {objects[o]}
<1>1. PICK whole, offs : Laid(whole, offs)
  BY FileFound
<1>2. o \in DOMAIN objects
  BY DEF FileInv
<1>3. PICK body \in Seq(Single) : body = Bodies[o]
  BY <1>1, <1>2 DEF Laid
<1>4. PICK offset \in Nat : offset = offs[o]
  BY <1>1, <1>2 DEF Laid
<1>5. o \in Nat /\ WrittenAt(whole, offset, o, body) /\ locations[o] = ShiftLocation(offset, FALSE)
  BY <1>1, <1>2, <1>3, <1>4 DEF Laid
<1>6. LsnOf(Absolute(o)) - FileLsn = offset
  BY <1>5, OffsetFacts DEF Absolute
<1>7. DecompressWith(dict, body) = objects[o]
  BY <1>2, <1>3, BodiesFacts DEF FileInv
<1>8. whole \in Seq(Cell) /\ file \in Seq(Cell) /\ Spoilt(file, whole)
  BY <1>1 DEF Laid
<1>9. ASSUME WrittenAt(file, offset, o, body)
      PROVE  ReadObject(o, Absolute(o), dict) = {objects[o]}
  <2>1. Intact(offset) /\ HeaderAt(offset).id = <<o>> /\ BodyAt(offset) = body
    BY <1>8, <1>9, WrittenRead
  <2> QED BY <1>6, <1>7, <2>1 DEF ReadObject
<1>10. CASE WrittenAt(file, offset, o, body)
  BY <1>9, <1>10
<1>11. CASE ~ WrittenAt(file, offset, o, body)
  <2>1. ~ Intact(offset)
    BY <1>5, <1>8, <1>11, ObjectTells
  <2>2. ReadObject(o, Absolute(o), dict) = {}
    BY <1>6, <2>1 DEF ReadObject, Failed
  <2>3. phase # "renamed"
    BY <1>1, <1>5, <1>11 DEF Laid
  <2> QED BY <2>2, <2>3
<1> QED BY <1>10, <1>11

(* Where maintenance finds the objects when it does not give up.           *)
LEMMA WalkAgrees ==
  ASSUME FileInv, phase \in {"renamed", "damaged"}
  PROVE  /\ \E offs : -1 \notin Walk =>
              /\ DOMAIN offs = DOMAIN objects /\ Walk = {offs[o] : o \in DOMAIN objects}
              /\ \A o \in DOMAIN objects :
                   /\ offs[o] \in Nat /\ HeaderAt(offs[o]).id = <<o>>
                   /\ BodyAt(offs[o]) = Bodies[o]
                   /\ o \in DOMAIN locations => locations[o] = ShiftLocation(offs[o], FALSE)
         /\ phase = "renamed" => (-1 \in Walk <=> TooLargeToScan)
<1>1. PICK whole, offs : Laid(whole, offs)
  BY FileFound
<1>2. PICK st : st = Bodies
  OBVIOUS
<1>3. PICK end \in Nat : end = Len(data)
  BY LenProperties DEF FileInv
<1>4. /\ whole \in Seq(Cell) /\ file \in Seq(Cell) /\ Spoilt(file, whole)
      /\ metadata.trailer_offset = end /\ DOMAIN offs \subseteq Nat /\ Tiles(offs, st, end)
      /\ DOMAIN offs = DOMAIN objects
  BY <1>1, <1>2, <1>3 DEF Laid
<1>5. \A o \in DOMAIN offs : /\ st[o] \in Seq(Single) /\ offs[o] + 3 + Len(st[o]) <= end
                             /\ WrittenAt(whole, offs[o], o, st[o])
  BY <1>1, <1>2, <1>3 DEF Laid
<1>6. /\ \/ -1 \in Walk
         \/ /\ Walk = {offs[o] : o \in DOMAIN offs}
            /\ \A o \in DOMAIN offs : Scanned(o, offs[o], st[o])
      /\ (\A o \in DOMAIN offs : Scanned(o, offs[o], st[o]))
           => Walk = {offs[o] : o \in DOMAIN offs}
  BY ONLY <1>4, <1>5, end \in Nat, WalkTiles
<1>7. \A o \in DOMAIN offs : offs[o] \in Nat
  BY <1>1 DEF Laid
<1>8. ASSUME -1 \notin Walk
      PROVE  /\ Walk = {offs[o] : o \in DOMAIN objects}
             /\ \A o \in DOMAIN objects :
                  /\ offs[o] \in Nat /\ HeaderAt(offs[o]).id = <<o>>
                  /\ BodyAt(offs[o]) = Bodies[o]
                  /\ o \in DOMAIN locations => locations[o] = ShiftLocation(offs[o], FALSE)
  <2>1. ASSUME NEW o \in DOMAIN objects
        PROVE  HeaderAt(offs[o]).id = <<o>> /\ BodyAt(offs[o]) = st[o]
    <3>1. WrittenAt(file, offs[o], o, st[o]) /\ st[o] \in Seq(Single)
      BY <1>4, <1>5, <1>6, <1>8 DEF Scanned
    <3>2. PICK offset, body : offset = offs[o] /\ body = st[o]
      OBVIOUS
    <3>3. body \in Seq(Single) /\ WrittenAt(file, offset, o, body)
      BY <3>1, <3>2
    <3>4. HeaderAt(offset).id = <<o>> /\ BodyAt(offset) = body
      BY <1>4, <3>3, WrittenRead
    <3> QED BY <3>2, <3>4
  <2>2. \A o \in DOMAIN objects \cap DOMAIN locations :
          locations[o] = ShiftLocation(offs[o], FALSE)
    BY <1>1 DEF Laid
  <2> QED BY <1>2, <1>4, <1>6, <1>7, <1>8, <2>1, <2>2
<1>9. ASSUME phase = "renamed" PROVE -1 \in Walk <=> TooLargeToScan
  <2>1. \A o \in DOMAIN offs : Scanned(o, offs[o], st[o]) <=> ~ (Len(st[o]) >= MaxObjectSize)
    BY <1>1, <1>5, <1>9 DEF Laid, Scanned
  <2>2. TooLargeToScan <=> \E o \in DOMAIN offs : Len(st[o]) >= MaxObjectSize
    BY <1>2, <1>4 DEF TooLargeToScan, Bodies
  <2>3. \A x \in Nat : x # -1
    OBVIOUS
  <2> QED BY <1>6, <1>7, <2>1, <2>2, <2>3
<1> QED BY <1>4, <1>8, <1>9

(* What maintenance makes of a file.                                       *)
ScanOf(trailer) ==
  [data |-> {<<HeaderAt(offset).id[1], ToAbsolute(ShiftLocation(offset, FALSE), FileLsn),
               DecompressWith(trailer.dict, BodyAt(offset))>> : offset \in Walk},
   deletions |-> {<<e[1], ToAbsolute(e[2], FileLsn)>> :
                    e \in {e \in trailer.entries : IsDelete(e[2])}}]

(* Maintenance fails, or returns that of the trailer that was written.     *)
LEMMA ScanIs ==
  ASSUME FileInv, phase \in {"renamed", "damaged"}, NEW size \in Sizes
  PROVE  /\ \A scan \in ScanFile(size) : -1 \notin Walk /\ scan = ScanOf(WrittenTrailer)
         /\ phase = "renamed" =>
              ScanFile(size) = IF -1 \in Walk THEN Failed ELSE {ScanOf(WrittenTrailer)}
<1>1. /\ ReadTrailer(size) \subseteq {WrittenTrailer}
      /\ phase = "renamed" => /\ ReadTrailer(size) = {WrittenTrailer}
                              /\ Len(file) = metadata.file_size
  BY TrailersAgree
<1>2. ASSUME ReadTrailer(size) # Failed
      PROVE  (CHOOSE t \in ReadTrailer(size) : TRUE) = WrittenTrailer
  <2>1. ReadTrailer(size) = {WrittenTrailer}
    BY <1>1, <1>2 DEF Failed
  <2> QED BY <2>1
<1>3. ScanFile(size) = IF ~ CanRead(0, size) \/ ReadTrailer(size) = Failed \/ -1 \in Walk
                       THEN Failed
                       ELSE {ScanOf(CHOOSE t \in ReadTrailer(size) : TRUE)}
  BY DEF ScanFile, ScanOf
<1>4. phase = "renamed" => CanRead(0, size)
  <2>1. PICK whole, offs : Laid(whole, offs)
    BY FileFound
  <2>2. Len(file) \in Nat
    BY <2>1, LenProperties DEF Laid
  <2> QED BY <1>1, <2>2 DEF CanRead, Sizes
<1> QED BY <1>1, <1>2, <1>3, <1>4 DEF Failed

(* It is what was written.                                                 *)
LEMMA ScansAgree ==
  ASSUME FileInv, phase \in {"renamed", "damaged"}, -1 \notin Walk
  PROVE  ScanShows(ScanOf(WrittenTrailer))
<1>1. PICK offs :
        /\ DOMAIN offs = DOMAIN objects /\ Walk = {offs[o] : o \in DOMAIN objects}
        /\ \A o \in DOMAIN objects :
             /\ offs[o] \in Nat /\ HeaderAt(offs[o]).id = <<o>>
             /\ BodyAt(offs[o]) = Bodies[o]
             /\ o \in DOMAIN locations => locations[o] = ShiftLocation(offs[o], FALSE)
  BY WalkAgrees
<1>2. PICK scan : scan = ScanOf(WrittenTrailer)
  OBVIOUS
<1>3. PICK loc : loc = [o \in DOMAIN objects |-> ToAbsolute(ShiftLocation(offs[o], FALSE), FileLsn)]
  OBVIOUS
<1>4. PICK seen : seen = [o \in DOMAIN objects |-> <<o, loc[o], objects[o]>>]
  OBVIOUS
<1>5. \A o \in DOMAIN objects : seen[o][1] = o /\ seen[o][2] = loc[o] /\ seen[o][3] = objects[o]
  BY <1>4
<1>6. scan.data = {seen[o] : o \in DOMAIN objects}
  <2>1. WrittenTrailer.dict = dict
    BY DEF WrittenTrailer
  <2>2. scan.data = {<<HeaderAt(offset).id[1], ToAbsolute(ShiftLocation(offset, FALSE), FileLsn),
                       DecompressWith(dict, BodyAt(offset))>> : offset \in Walk}
    BY <1>2, <2>1 DEF ScanOf
  <2>3. ASSUME NEW o \in DOMAIN objects
        PROVE  <<HeaderAt(offs[o]).id[1], ToAbsolute(ShiftLocation(offs[o], FALSE), FileLsn),
                 DecompressWith(dict, BodyAt(offs[o]))>> = seen[o]
    <3>1. HeaderAt(offs[o]).id[1] = o
      <4>1. HeaderAt(offs[o]).id = <<o>>
        BY <1>1
      <4>2. <<o>>[1] = o
        OBVIOUS
      <4> QED BY ONLY <4>1, <4>2
    <3>2. DecompressWith(dict, BodyAt(offs[o])) = objects[o]
      BY <1>1, BodiesFacts DEF FileInv
    <3> QED BY <1>3, <1>4, <3>1, <3>2
  <2>4. PICK found : found = [offset \in Walk |->
          <<HeaderAt(offset).id[1], ToAbsolute(ShiftLocation(offset, FALSE), FileLsn),
            DecompressWith(dict, BodyAt(offset))>>]
    OBVIOUS
  <2>5. scan.data = {found[offset] : offset \in Walk}
    BY <2>2, <2>4
  <2>6. \A o \in DOMAIN objects : offs[o] \in Walk /\ found[offs[o]] = seen[o]
    BY <1>1, <2>3, <2>4
  <2> QED BY ONLY <1>1, <2>5, <2>6
<1>7. {<<d[1], d[3]>> : d \in scan.data} = {<<o, objects[o]>> : o \in DOMAIN objects}
  BY <1>5, <1>6
<1>8. Cardinality(scan.data) = Cardinality(DOMAIN objects)
  <2>1. IsFiniteSet(DOMAIN objects)
    BY FileAssumption, FS_Subset DEF FileInv, FileTypes
  <2>2. \A o, p \in DOMAIN objects : seen[o] = seen[p] => o = p
    BY <1>5
  <2> QED BY <1>6, <2>1, <2>2, ImageCardinality
<1>9. \A d \in scan.data : d[1] \in DOMAIN locations => d[2] = Absolute(d[1])
  <2>1. ASSUME NEW o \in DOMAIN objects, o \in DOMAIN locations PROVE loc[o] = Absolute(o)
    BY <1>1, <1>3, <2>1 DEF Absolute
  <2> QED BY <1>5, <1>6, <2>1
<1>10. scan.deletions = {<<o, Absolute(o)>> : o \in tombstones \cap DOMAIN locations}
  <2>1. WrittenTrailer.entries = {<<o, locations[o]>> : o \in DOMAIN locations}
    BY DEF WrittenTrailer
  <2>2. scan.deletions = {<<e[1], ToAbsolute(e[2], FileLsn)>> :
                            e \in {e \in WrittenTrailer.entries : IsDelete(e[2])}}
    BY <1>2 DEF ScanOf
  <2>3. \A o \in DOMAIN locations : IsDelete(locations[o]) <=> o \in tombstones
    BY LocationsNat
  <2>4. {e \in WrittenTrailer.entries : IsDelete(e[2])}
          = {<<o, locations[o]>> : o \in tombstones \cap DOMAIN locations}
    BY <2>1, <2>3
  <2>5. PICK old : old = [o \in tombstones \cap DOMAIN locations |-> <<o, locations[o]>>]
    OBVIOUS
  <2>6. \A o \in tombstones \cap DOMAIN locations :
          <<old[o][1], ToAbsolute(old[o][2], FileLsn)>> = <<o, Absolute(o)>>
    BY <2>5 DEF Absolute
  <2>7. {e \in WrittenTrailer.entries : IsDelete(e[2])}
          = {old[o] : o \in tombstones \cap DOMAIN locations}
    BY <2>4, <2>5
  <2> QED BY ONLY <2>2, <2>6, <2>7
<1> QED BY <1>2, <1>7, <1>8, <1>9, <1>10 DEF ScanShows

(* The three readers of a file agree with what was written.                *)
THEOREM ReadersAlwaysAgree == FileSpec => []ReadersAgree
<1>1. FileInv => ReadersAgree
  <2> SUFFICES ASSUME FileInv, phase = "renamed"
               PROVE  /\ Len(file) = metadata.file_size
                      /\ ReadTrailer(Len(file)) = {WrittenTrailer}
                      /\ \A o \in DOMAIN locations \ tombstones :
                           ReadObject(o, Absolute(o), dict) = {objects[o]}
                      /\ ~ TooLargeToScan =>
                           \E scan \in ScanFile(Len(file)) : ScanShows(scan)
    BY DEF ReadersAgree
  <2>1. Len(file) \in Sizes
    BY DEF Sizes
  <2>2. Len(file) = metadata.file_size /\ ReadTrailer(Len(file)) = {WrittenTrailer}
    BY <2>1, TrailersAgree
  <2>3. \A o \in DOMAIN locations \ tombstones :
          ReadObject(o, Absolute(o), dict) = {objects[o]}
    BY ObjectsAgree
  <2>4. ScanFile(Len(file)) = IF -1 \in Walk THEN Failed ELSE {ScanOf(WrittenTrailer)}
    BY <2>1, ScanIs
  <2>5. -1 \in Walk <=> TooLargeToScan
    BY WalkAgrees
  <2>6. -1 \notin Walk => ScanShows(ScanOf(WrittenTrailer))
    BY ScansAgree
  <2> QED BY <2>2, <2>3, <2>4, <2>5, <2>6
<1> QED BY <1>1, FileInduction, PTL

(* What is left of a damaged file is read as it was written.               *)
THEOREM DamageAlwaysDetected == FileSpec => []DamageDetected
<1>1. FileInv => DamageDetected
  <2> SUFFICES ASSUME FileInv, phase = "damaged", NEW size \in Sizes
               PROVE  /\ \A t \in ReadTrailer(size) : t = WrittenTrailer
                      /\ \A o \in DOMAIN locations \ tombstones :
                           \A v \in ReadObject(o, Absolute(o), dict) : v = objects[o]
                      /\ \A scan \in ScanFile(size) : ScanShows(scan)
    BY DEF DamageDetected
  <2>1. \A t \in ReadTrailer(size) : t = WrittenTrailer
    BY TrailersAgree
  <2>2. \A o \in DOMAIN locations \ tombstones :
          \A v \in ReadObject(o, Absolute(o), dict) : v = objects[o]
    BY ObjectsAgree
  <2>3. \A scan \in ScanFile(size) : -1 \notin Walk /\ scan = ScanOf(WrittenTrailer)
    BY ScanIs
  <2> QED BY <2>1, <2>2, <2>3, ScansAgree
<1> QED BY <1>1, FileInduction, PTL

(***************************************************************************)
(* The key-value store, for every set of keys and values and any number of *)
(* mutations and crashes: its pages can be read, and what was acknowledged *)
(* survives.                                                               *)
(***************************************************************************)
FirstPage == IndexObjectId + 2

FirstIndex == [page |-> FirstPage, max_pid |-> FirstPage]

Pages == [Keys -> KvValues \cup {0}]

KvTypeOK ==
  /\ durable \in [ObjectIds -> Version] /\ visible \in [ObjectIds -> Version]
  /\ current \subseteq Batch /\ writing \subseteq current
  /\ kv \in {"down", "allocate", "up", "writing"}
  /\ index_of \in [0 .. MaxStamp -> {DefaultIndex, FirstIndex}]
  /\ page_of \in [0 .. MaxStamp -> Pages] /\ acknowledged \in Pages

(* On disk there is an index with its page, or neither.                    *)
DiskInv ==
  /\ \A o \in ObjectIds : ~ durable[o].del
  /\ index_of[0] = DefaultIndex
  /\ IF durable[IndexObjectId].stamp = 0 THEN durable[FirstPage].stamp = 0
     ELSE /\ index_of[durable[IndexObjectId].stamp] = FirstIndex
          /\ durable[FirstPage].stamp # 0

(* What can be read is what is durable, or belongs to the batch that is    *)
(* being written, which is later than everything durable.                  *)
ViewInv ==
  /\ \A b, c \in current : b = c
  /\ \A b \in current : \A o \in DOMAIN b.del : ~ b.del[o]
  /\ \A b \in writing : \A o \in ObjectIds : durable[o].stamp < b.stamp
  /\ \A o \in ObjectIds :
       \/ visible[o] = durable[o]
       \/ \E b \in writing : /\ o \in DOMAIN b.del
                             /\ visible[o] = [stamp |-> b.stamp, del |-> FALSE]

(* The batch of allocate_leaf, and that of mutate, before and after it is  *)
(* durable.                                                                *)
Allocating(b) ==
  /\ mutation = {} /\ DOMAIN b.del = {IndexObjectId, FirstPage}
  /\ index_of[b.stamp] = FirstIndex
  /\ page_of[b.stamp] = EmptyPage /\ acknowledged = EmptyPage
  /\ IF b \in writing THEN durable[IndexObjectId].stamp = 0
     ELSE durable[IndexObjectId].stamp = b.stamp /\ durable[FirstPage].stamp = b.stamp

Mutating(b) ==
  /\ DOMAIN b.del = {FirstPage} /\ durable[IndexObjectId].stamp # 0
  /\ \E k \in Keys, v \in KvValues \cup {0} :
       mutation = {<<k, v>>} /\ page_of[b.stamp] = [acknowledged EXCEPT ![k] = v]
  /\ IF b \in writing THEN page_of[durable[FirstPage].stamp] = acknowledged
     ELSE durable[FirstPage].stamp = b.stamp

PhaseInv ==
  /\ kv # "writing" => current = {} /\ mutation = {} /\ acknowledged = DurableLeaf
  /\ kv = "allocate" => index = DefaultIndex /\ durable[IndexObjectId].stamp = 0
  /\ kv = "up" => index = FirstIndex /\ durable[IndexObjectId].stamp # 0
  /\ kv = "writing" => /\ index = FirstIndex /\ current # {}
                       /\ \A b \in current : Allocating(b) \/ Mutating(b)

KvInv == KvTypeOK /\ DiskInv /\ ViewInv /\ PhaseInv

(* The ids are different, and the store may have a first page.             *)
LEMMA KvIds ==
  /\ IndexObjectId \in ObjectIds /\ FirstPage \in ObjectIds
  /\ IndexObjectId # FirstPage /\ FirstPage # 0 /\ IndexObjectId # 0
  /\ FirstIndex # DefaultIndex /\ DefaultIndex.page = 0 /\ FirstIndex.page = FirstPage
  /\ DefaultIndex.max_pid + 1 = FirstPage
BY KvAssumption DEF IndexObjectId, FirstPage, FirstIndex, DefaultIndex

(* What can be read with no batch in progress is what is durable.          *)
LEMMA KvQuiet ==
  ASSUME KvInv, kv # "writing"
  PROVE  visible = durable /\ writing = {}
<1>1. writing = {}
  BY DEF KvInv, KvTypeOK, PhaseInv
<1>2. \A o \in ObjectIds : visible[o] = durable[o]
  BY <1>1 DEF KvInv, ViewInv
<1> QED BY <1>1, <1>2 DEF KvInv, KvTypeOK

(* The leaf that a crash would leave.                                      *)
LEMMA KvLeaf ==
  ASSUME KvInv
  PROVE  DurableLeaf = IF durable[IndexObjectId].stamp = 0 THEN EmptyPage
                       ELSE page_of[durable[FirstPage].stamp]
BY KvIds DEF DurableLeaf, DurableIndex, KvInv, DiskInv

(* A call of write_batch begins: its stamp is above all that is durable.   *)
LEMMA KvStart ==
  ASSUME KvInv, kv # "writing", NEW ids \in SUBSET ObjectIds, ids # {}, StartBatch(ids)
  PROVE  \E b \in Batch :
           /\ b.stamp = NextStamp /\ NextStamp \in 1 .. MaxStamp
           /\ DOMAIN b.del = ids /\ \A o \in DOMAIN b.del : b.del[o] = FALSE
           /\ current' = {b} /\ writing' = {b}
           /\ durable' = durable /\ visible' = visible
           /\ \A o \in ObjectIds : durable[o].stamp < b.stamp
<1>1. NextStamp \in Nat \ {0}
  <2> DEFINE S == {s \in 1 .. MaxStamp :
                     \/ \E o \in ObjectIds : durable[o].stamp >= s \/ visible[o].stamp >= s
                     \/ \E b \in writing : b.stamp >= s}
  <2>1. IsFiniteSet(1 .. MaxStamp)
    BY MaxStampAssumption, FS_Interval
  <2>2. Cardinality(S) \in Nat
    BY <2>1, FS_Subset, FS_CardinalityType
  <2> HIDE DEF S
  <2>3. NextStamp = 1 + Cardinality(S)
    BY DEF NextStamp, S
  <2> QED BY <2>2, <2>3
<1>2. PICK n : n = NextStamp
  OBVIOUS
<1>3. n \in 1 .. MaxStamp
  BY <1>1, <1>2, MaxStampAssumption DEF StartBatch
<1>4. PICK b : b = [stamp |-> n, del |-> [o \in ids |-> FALSE]]
  OBVIOUS
<1>5. b \in Batch
  <2>1. [o \in ids |-> FALSE] \in [ids -> BOOLEAN]
    OBVIOUS
  <2>2. [o \in ids |-> FALSE] \in UNION {[x -> BOOLEAN] : x \in (SUBSET ObjectIds) \ {{}}}
    BY <2>1
  <2> QED BY <1>3, <1>4, <2>2 DEF Batch
<1>6. Begin(b) /\ current' = {b}
  BY <1>2, <1>4 DEF StartBatch
<1>7. writing' = {b} /\ durable' = durable /\ visible' = visible
      /\ \A o \in ObjectIds : durable[o].stamp < b.stamp
  BY <1>6, KvQuiet DEF Begin
<1> QED BY <1>2, <1>3, <1>4, <1>5, <1>6, <1>7

(* The fields of a batch.                                                  *)
LEMMA BatchFields ==
  ASSUME NEW b \in Batch
  PROVE  b.stamp \in 1 .. MaxStamp /\ DOMAIN b.del \subseteq ObjectIds /\ DOMAIN b.del # {}
BY DEF Batch

(* recover reads the index and finds its page, or writes the first one.    *)
LEMMA KvRecovers == KvInv /\ RecoverKv => KvInv'
<1> SUFFICES ASSUME KvInv, RecoverKv PROVE KvInv'
  OBVIOUS
<1>1. visible = durable /\ kv # "writing"
  BY KvQuiet DEF RecoverKv
<1>2. index' = index_of[durable[IndexObjectId].stamp]
      /\ kv' = IF index'.page = 0 THEN "allocate" ELSE "up"
  BY <1>1 DEF RecoverKv
<1>3. UNCHANGED <<storeVars, current, mutation, index_of, page_of, acknowledged>>
  BY DEF RecoverKv
<1>4. IF durable[IndexObjectId].stamp = 0 THEN index' = DefaultIndex ELSE index' = FirstIndex
  BY <1>2 DEF KvInv, DiskInv
<1>5. KvTypeOK' /\ DiskInv' /\ ViewInv'
  BY <1>2, <1>3 DEF KvInv, KvTypeOK, DiskInv, ViewInv, storeVars
<1>6. PhaseInv'
  <2>1. DurableLeaf' = DurableLeaf
    BY <1>3 DEF DurableLeaf, DurableIndex, storeVars
  <2> QED BY <1>1, <1>2, <1>3, <1>4, <2>1, KvIds DEF KvInv, PhaseInv, storeVars
<1> QED BY <1>5, <1>6 DEF KvInv

(* allocate_leaf begins its batch, with the index and the page in it.      *)
LEMMA KvAllocates == KvInv /\ AllocateLeaf => KvInv'
<1> SUFFICES ASSUME KvInv, AllocateLeaf PROVE KvInv'
  OBVIOUS
<1>1. kv = "allocate" /\ index = DefaultIndex /\ durable[IndexObjectId].stamp = 0
  BY DEF AllocateLeaf, KvInv, PhaseInv
<1>2. /\ StartBatch({FirstPage, IndexObjectId}) /\ kv # "writing"
      /\ {FirstPage, IndexObjectId} \in SUBSET ObjectIds /\ {FirstPage, IndexObjectId} # {}
  BY <1>1, KvIds DEF AllocateLeaf
<1>3. PICK b \in Batch :
           /\ b.stamp = NextStamp /\ NextStamp \in 1 .. MaxStamp
           /\ DOMAIN b.del = {FirstPage, IndexObjectId} /\ \A o \in DOMAIN b.del : b.del[o] = FALSE
           /\ current' = {b} /\ writing' = {b}
           /\ durable' = durable /\ visible' = visible
           /\ \A o \in ObjectIds : durable[o].stamp < b.stamp
  BY <1>2, KvStart
<1>4. /\ index' = FirstIndex /\ kv' = "writing" /\ mutation' = mutation
      /\ acknowledged' = acknowledged
      /\ index_of' = [index_of EXCEPT ![b.stamp] = FirstIndex]
      /\ page_of' = [page_of EXCEPT ![b.stamp] = EmptyPage]
  BY <1>1, <1>3, KvIds DEF AllocateLeaf, FirstIndex
<1>5. KvTypeOK'
  <2>1. EmptyPage \in Pages
    BY DEF EmptyPage, Pages
  <2> QED BY <1>3, <1>4, <2>1 DEF KvInv, KvTypeOK
<1>6. visible = durable /\ mutation = {} /\ acknowledged = EmptyPage
  BY <1>1, KvQuiet, KvLeaf DEF KvInv, PhaseInv
<1>7. b.stamp \in Nat /\ b.stamp # 0 /\ 0 \in DOMAIN index_of
      /\ DOMAIN index_of = 0 .. MaxStamp /\ b.stamp \in DOMAIN index_of
      /\ DOMAIN page_of = 0 .. MaxStamp
  BY <1>3, MaxStampAssumption DEF KvInv, KvTypeOK
<1>8. DiskInv' /\ ViewInv'
  BY <1>1, <1>3, <1>4, <1>6, <1>7 DEF KvInv, DiskInv, ViewInv
<1>9. PhaseInv'
  BY <1>1, <1>3, <1>4, <1>6, <1>7 DEF PhaseInv, Allocating
<1> QED BY <1>5, <1>8, <1>9 DEF KvInv

(* mutate begins its batch: the page it has read, with one key changed.    *)
LEMMA KvMutates ==
  ASSUME KvInv, NEW k \in Keys, NEW v \in KvValues \cup {0}, Mutate(k, v)
  PROVE  KvInv'
<1>1. kv = "up" /\ index = FirstIndex /\ durable[IndexObjectId].stamp # 0
  BY DEF Mutate, KvInv, PhaseInv
<1>2. /\ StartBatch({FirstPage}) /\ kv # "writing"
      /\ {FirstPage} \in SUBSET ObjectIds /\ {FirstPage} # {}
  BY <1>1, KvIds DEF Mutate
<1>3. PICK b \in Batch :
           /\ b.stamp = NextStamp /\ NextStamp \in 1 .. MaxStamp
           /\ DOMAIN b.del = {FirstPage} /\ \A o \in DOMAIN b.del : b.del[o] = FALSE
           /\ current' = {b} /\ writing' = {b}
           /\ durable' = durable /\ visible' = visible
           /\ \A o \in ObjectIds : durable[o].stamp < b.stamp
  BY <1>2, KvStart
<1>4. visible = durable /\ acknowledged = page_of[durable[FirstPage].stamp]
  BY <1>1, KvQuiet, KvLeaf DEF KvInv, PhaseInv
<1>5. Leaf = acknowledged
  BY <1>1, <1>4, KvIds DEF Leaf
<1>6. /\ index' = FirstIndex /\ kv' = "writing" /\ mutation' = {<<k, v>>}
      /\ acknowledged' = acknowledged /\ index_of' = index_of
      /\ page_of' = [page_of EXCEPT ![b.stamp] = [acknowledged EXCEPT ![k] = v]]
  BY <1>1, <1>3, <1>5 DEF Mutate
<1>7. KvTypeOK'
  <2>1. [acknowledged EXCEPT ![k] = v] \in Pages
    BY DEF Pages, KvInv, KvTypeOK
  <2> QED BY <1>3, <1>6, <2>1 DEF KvInv, KvTypeOK
<1>8. /\ b.stamp \in DOMAIN page_of /\ durable[FirstPage].stamp \in DOMAIN page_of
      /\ durable[FirstPage].stamp # b.stamp /\ DOMAIN page_of = 0 .. MaxStamp
  BY <1>3, KvIds, MaxStampAssumption DEF KvInv, KvTypeOK, Version
<1>9. DiskInv' /\ ViewInv'
  BY <1>3, <1>4, <1>6 DEF KvInv, DiskInv, ViewInv
<1>10. Mutating(b)'
  <2>1. page_of'[b.stamp] = [acknowledged EXCEPT ![k] = v]
        /\ page_of'[durable[FirstPage].stamp] = acknowledged
    BY <1>4, <1>6, <1>8
  <2> QED BY <1>1, <1>3, <1>6, <2>1 DEF Mutating
<1>11. PhaseInv'
  BY <1>3, <1>6, <1>10 DEF PhaseInv
<1> QED BY <1>7, <1>9, <1>11 DEF KvInv

(* The phases depend on what is durable, not on what can be seen.          *)
LEMMA PhaseFrame ==
  ASSUME PhaseInv, UNCHANGED <<durable, writing, kvVars>>
  PROVE  PhaseInv'
<1>1. UNCHANGED <<durable, writing, kv, index, current, mutation, index_of, page_of, acknowledged>>
  BY DEF kvVars
<1>2. DurableLeaf' = DurableLeaf
  BY <1>1 DEF DurableLeaf, DurableIndex
<1>3. \A b \in current : (Allocating(b) => Allocating(b)') /\ (Mutating(b) => Mutating(b)')
  BY <1>1 DEF Allocating, Mutating
<1> QED BY <1>1, <1>2, <1>3 DEF PhaseInv

(* While the batch is being written the objects in it are as before or as  *)
(* in the batch.                                                           *)
LEMMA KvShows ==
  ASSUME KvInv, NEW b \in writing, NEW o \in DOMAIN b.del, Show(b, o), UNCHANGED kvVars
  PROVE  KvInv'
<1>1. b \in current /\ b \in Batch /\ b.del[o] = FALSE
  BY DEF KvInv, KvTypeOK, ViewInv
<1>2. b.stamp \in 1 .. MaxStamp /\ o \in ObjectIds
  BY <1>1, BatchFields
<1>3. UNCHANGED <<durable, writing, kvVars>> /\ visible' = [visible EXCEPT ![o] = Apply(b, o, visible[o])]
  BY DEF Show
<1>4. Apply(b, o, visible[o]) \in {visible[o], [stamp |-> b.stamp, del |-> FALSE]}
  BY <1>1 DEF Apply
<1>5. KvTypeOK'
  <2>1. [stamp |-> b.stamp, del |-> FALSE] \in Version
    BY <1>2, MaxStampAssumption DEF Version
  <2>2. visible' \in [ObjectIds -> Version]
    BY <1>2, <1>3, <1>4, <2>1 DEF KvInv, KvTypeOK
  <2> QED BY <1>3, <2>2 DEF KvInv, KvTypeOK, kvVars
<1>6. ViewInv'
  <2>1. ASSUME NEW p \in ObjectIds
        PROVE  \/ visible'[p] = durable[p]
               \/ \E c \in writing : /\ p \in DOMAIN c.del
                                     /\ visible'[p] = [stamp |-> c.stamp, del |-> FALSE]
    <3>1. CASE p = o /\ visible'[p] # visible[p]
      BY <1>2, <1>3, <1>4, <3>1 DEF KvInv, KvTypeOK
    <3>2. CASE visible'[p] = visible[p]
      BY <3>2 DEF KvInv, ViewInv
    <3>3. p # o => visible'[p] = visible[p]
      BY <1>3 DEF KvInv, KvTypeOK
    <3> QED BY <3>1, <3>2, <3>3
  <2> QED BY <1>3, <2>1 DEF KvInv, ViewInv, kvVars
<1>7. DiskInv' /\ PhaseInv'
  BY <1>3, PhaseFrame DEF KvInv, DiskInv, kvVars
<1> QED BY <1>5, <1>6, <1>7 DEF KvInv

(* The batch becomes durable: index and page together, or the page alone.  *)
LEMMA KvDurable ==
  ASSUME KvInv, NEW b \in writing, MakeDurable(b), UNCHANGED kvVars
  PROVE  KvInv'
<1>1. /\ b \in current /\ b \in Batch /\ \A o \in DOMAIN b.del : b.del[o] = FALSE
      /\ \A o \in ObjectIds : durable[o].stamp < b.stamp
      /\ writing = {b} /\ kv = "writing" /\ current = {b}
  BY DEF KvInv, KvTypeOK, ViewInv, PhaseInv
<1>2. b.stamp \in 1 .. MaxStamp /\ DOMAIN b.del \subseteq ObjectIds
  BY <1>1, BatchFields
<1>3. UNCHANGED <<visible, kvVars>> /\ writing' = {}
  BY <1>1 DEF MakeDurable
<1>4. ASSUME NEW o \in ObjectIds
      PROVE  /\ durable'[o] = IF o \in DOMAIN b.del THEN [stamp |-> b.stamp, del |-> FALSE]
                              ELSE durable[o]
             /\ visible[o] = durable'[o]
  <2>1. durable'[o] = Apply(b, o, durable[o])
    BY DEF MakeDurable
  <2>2. durable'[o] = IF o \in DOMAIN b.del THEN [stamp |-> b.stamp, del |-> FALSE]
                      ELSE durable[o]
    BY <1>1, <2>1 DEF Apply
  <2>3. visible[o] = durable[o] \/ (o \in DOMAIN b.del /\ visible[o] = [stamp |-> b.stamp, del |-> FALSE])
    BY <1>1 DEF KvInv, ViewInv
  <2>4. CASE o \in DOMAIN b.del
    <3>1. b.stamp <= visible[o].stamp
      BY <2>4 DEF MakeDurable
    <3>2. durable[o].stamp \in Nat /\ durable[o].stamp < b.stamp /\ b.stamp \in Nat
      BY <1>1, <1>2, MaxStampAssumption DEF KvInv, KvTypeOK, Version
    <3>3. visible[o] # durable[o]
      BY <3>1, <3>2
    <3> QED BY <2>2, <2>3, <2>4, <3>3
  <2>5. CASE o \notin DOMAIN b.del
    BY <2>2, <2>3, <2>5
  <2> QED BY <2>2, <2>4, <2>5
<1>5. KvTypeOK'
  <2>1. [stamp |-> b.stamp, del |-> FALSE] \in Version
    BY <1>2, MaxStampAssumption DEF Version
  <2>2. durable' = [o \in ObjectIds |-> Apply(b, o, durable[o])]
    BY DEF MakeDurable
  <2>3. \A o \in ObjectIds : durable'[o] \in Version
    BY <1>4, <2>1 DEF KvInv, KvTypeOK
  <2>4. durable' \in [ObjectIds -> Version]
    BY <2>2, <2>3
  <2> QED BY <1>3, <2>4 DEF KvInv, KvTypeOK, kvVars
<1>6. ViewInv'
  BY <1>3, <1>4 DEF KvInv, ViewInv, kvVars
<1>7. b.stamp # 0 /\ \A o \in ObjectIds : durable[o].del = FALSE
  BY <1>2, MaxStampAssumption DEF KvInv, DiskInv, KvTypeOK, Version
<1>8. CASE Allocating(b)
  <2>1. durable'[IndexObjectId].stamp = b.stamp /\ durable'[FirstPage].stamp = b.stamp
    BY <1>4, <1>8, KvIds DEF Allocating
  <2>2. Allocating(b)'
    BY <1>3, <1>8, <2>1 DEF Allocating, kvVars
  <2>3. DiskInv'
    <3>1. index_of[0] = DefaultIndex /\ index_of[b.stamp] = FirstIndex /\ index_of' = index_of
      BY <1>3, <1>8 DEF Allocating, KvInv, DiskInv, kvVars
    <3>2. \A o \in ObjectIds : ~ durable'[o].del
      BY <1>4, <1>7
    <3> QED BY <1>7, <2>1, <3>1, <3>2 DEF DiskInv
  <2>4. PhaseInv'
    BY <1>1, <1>3, <2>2 DEF KvInv, PhaseInv, kvVars
  <2> QED BY <1>5, <1>6, <2>3, <2>4 DEF KvInv
<1>9. CASE Mutating(b)
  <2>1. durable'[IndexObjectId].stamp = durable[IndexObjectId].stamp
        /\ durable'[FirstPage].stamp = b.stamp
    BY <1>4, <1>9, KvIds DEF Mutating
  <2>2. Mutating(b)'
    BY <1>3, <1>9, <2>1 DEF Mutating, kvVars
  <2>3. DiskInv'
    <3>1. /\ index_of[0] = DefaultIndex /\ index_of' = index_of
          /\ index_of[durable[IndexObjectId].stamp] = FirstIndex
          /\ durable[IndexObjectId].stamp # 0
      BY <1>3, <1>9 DEF Mutating, KvInv, DiskInv, kvVars
    <3>2. \A o \in ObjectIds : ~ durable'[o].del
      BY <1>4, <1>7
    <3> QED BY <1>7, <2>1, <3>1, <3>2 DEF DiskInv
  <2>4. PhaseInv'
    BY <1>1, <1>3, <2>2 DEF KvInv, PhaseInv, kvVars
  <2> QED BY <1>5, <1>6, <2>3, <2>4 DEF KvInv
<1> QED BY <1>1, <1>8, <1>9 DEF KvInv, PhaseInv

(* A mutation that returns acknowledges the page that is now durable.      *)
LEMMA KvReturns == KvInv /\ WriteReturns => KvInv'
<1> SUFFICES ASSUME KvInv, WriteReturns PROVE KvInv'
  OBVIOUS
<1>1. /\ kv = "writing" /\ writing = {} /\ kv' = "up" /\ current' = {} /\ mutation' = {}
      /\ UNCHANGED <<storeVars, index, index_of, page_of>>
      /\ acknowledged' = [k \in Keys |-> IF \E m \in mutation : m[1] = k
                                         THEN (CHOOSE m \in mutation : m[1] = k)[2]
                                         ELSE acknowledged[k]]
  BY DEF WriteReturns, Acknowledge, KvInv, KvTypeOK
<1>2. PICK b \in current : Allocating(b) \/ Mutating(b)
  BY <1>1 DEF KvInv, PhaseInv
<1>3. index = FirstIndex /\ acknowledged \in Pages /\ b \in Batch
  BY <1>1, <1>2 DEF KvInv, PhaseInv, KvTypeOK
<1>4. b.stamp # 0 /\ b.stamp \in 0 .. MaxStamp
  BY <1>3, BatchFields, MaxStampAssumption
<1>5. /\ durable[IndexObjectId].stamp # 0 /\ durable[FirstPage].stamp = b.stamp
      /\ acknowledged' = page_of[b.stamp]
  <2>1. CASE Allocating(b)
    <3>1. mutation = {} /\ acknowledged = EmptyPage /\ page_of[b.stamp] = EmptyPage
          /\ durable[IndexObjectId].stamp = b.stamp /\ durable[FirstPage].stamp = b.stamp
      BY <1>1, <2>1 DEF Allocating
    <3>2. acknowledged' = [k \in Keys |-> acknowledged[k]]
      BY <1>1, <3>1
    <3> QED BY <1>4, <3>1, <3>2 DEF EmptyPage
  <2>2. CASE Mutating(b)
    <3>1. durable[IndexObjectId].stamp # 0 /\ durable[FirstPage].stamp = b.stamp
      BY <1>1, <2>2 DEF Mutating
    <3>2. PICK k \in Keys, v \in KvValues \cup {0} :
            mutation = {<<k, v>>} /\ page_of[b.stamp] = [acknowledged EXCEPT ![k] = v]
      BY <2>2 DEF Mutating
    <3>3. acknowledged' = [j \in Keys |-> IF j = k THEN v ELSE acknowledged[j]]
      <4>1. ASSUME NEW j \in Keys
            PROVE  acknowledged'[j] = IF j = k THEN v ELSE acknowledged[j]
        <5>1. CASE j = k
          <6>1. (CHOOSE m \in mutation : m[1] = j) = <<k, v>>
            BY <3>2, <5>1
          <6>2. \E m \in mutation : m[1] = j
            BY <3>2, <5>1
          <6> QED BY <1>1, <5>1, <6>1, <6>2
        <5>2. CASE j # k
          <6>1. ~ \E m \in mutation : m[1] = j
            BY <3>2, <5>2
          <6> QED BY <1>1, <5>2, <6>1
        <5> QED BY <5>1, <5>2
      <4>2. acknowledged' = [j \in Keys |-> acknowledged'[j]]
        BY <1>1
      <4> QED BY <4>1, <4>2
    <3>4. page_of[b.stamp] = [j \in Keys |-> IF j = k THEN v ELSE acknowledged[j]]
      BY <1>3, <3>2 DEF Pages
    <3> QED BY <3>1, <3>3, <3>4
  <2> QED BY <1>2, <2>1, <2>2
<1>6. acknowledged' \in Pages
  BY <1>4, <1>5 DEF KvInv, KvTypeOK
<1>7. KvTypeOK' /\ DiskInv' /\ ViewInv'
  BY <1>1, <1>6 DEF KvInv, KvTypeOK, DiskInv, ViewInv, storeVars
<1>8. PhaseInv'
  <2>1. DurableLeaf' = DurableLeaf
    BY <1>1 DEF DurableLeaf, DurableIndex, storeVars
  <2>2. DurableLeaf = page_of[b.stamp]
    BY <1>5, KvLeaf
  <2> QED BY <1>1, <1>3, <1>5, <2>1, <2>2 DEF PhaseInv, storeVars
<1> QED BY <1>7, <1>8 DEF KvInv

(* A crash leaves the durable index and page.                              *)
LEMMA KvCrashes == KvInv /\ CrashKv => KvInv'
<1> SUFFICES ASSUME KvInv, CrashKv PROVE KvInv'
  OBVIOUS
<1>1. /\ visible' = durable /\ writing' = {} /\ durable' = durable /\ kv' = "down"
      /\ current' = {} /\ mutation' = {} /\ acknowledged' = DurableLeaf
      /\ UNCHANGED <<index_of, page_of>>
  BY DEF CrashKv, Crash
<1>2. DurableLeaf \in Pages /\ DurableLeaf' = DurableLeaf
  <2>1. EmptyPage \in Pages
    BY DEF EmptyPage, Pages
  <2>2. durable[FirstPage].stamp \in 0 .. MaxStamp
    BY KvIds DEF KvInv, KvTypeOK, Version
  <2>3. DurableLeaf \in Pages
    BY <2>1, <2>2, KvLeaf DEF KvInv, KvTypeOK
  <2> QED BY <1>1, <2>3 DEF DurableLeaf, DurableIndex
<1>3. KvTypeOK' /\ DiskInv' /\ ViewInv'
  BY <1>1, <1>2 DEF KvInv, KvTypeOK, DiskInv, ViewInv
<1>4. PhaseInv'
  BY <1>1, <1>2 DEF PhaseInv
<1> QED BY <1>3, <1>4 DEF KvInv

(* A new store has no index and no page.                                   *)
LEMMA KvStarts == KvInit => KvInv
<1> SUFFICES ASSUME KvInit PROVE KvInv
  OBVIOUS
<1>1. /\ durable = [o \in ObjectIds |-> NeverWritten] /\ visible = durable /\ writing = {}
      /\ kv = "down" /\ current = {} /\ mutation = {} /\ acknowledged = EmptyPage
      /\ index_of = [s \in 0 .. MaxStamp |-> DefaultIndex]
      /\ page_of = [s \in 0 .. MaxStamp |-> EmptyPage]
  BY DEF KvInit, StoreInit
<1>2. NeverWritten \in Version /\ NeverWritten.stamp = 0 /\ NeverWritten.del = FALSE
      /\ EmptyPage \in Pages /\ 0 \in 0 .. MaxStamp
  BY MaxStampAssumption DEF NeverWritten, Version, EmptyPage, Pages
<1>3. KvTypeOK /\ DiskInv /\ ViewInv
  BY <1>1, <1>2, KvIds DEF KvTypeOK, DiskInv, ViewInv
<1>4. DurableLeaf = EmptyPage
  BY <1>1, <1>2, KvIds DEF DurableLeaf, DurableIndex
<1>5. PhaseInv
  BY <1>1, <1>4 DEF PhaseInv
<1> QED BY <1>3, <1>5 DEF KvInv

(* In every reachable state the disk has an index with its page, or        *)
(* neither, and the batch in progress is the only one that can be seen     *)
(* without being durable.                                                  *)
THEOREM KvInduction == KvSpec => []KvInv
<1>1. KvInv /\ [KvNext]_<<storeVars, kvVars>> => KvInv'
  <2> SUFFICES ASSUME KvInv, [KvNext]_<<storeVars, kvVars>> PROVE KvInv'
    OBVIOUS
  <2>1. CASE UNCHANGED <<storeVars, kvVars>>
    <3>1. PhaseInv'
      BY <2>1, PhaseFrame DEF storeVars, KvInv
    <3>2. KvTypeOK' /\ DiskInv' /\ ViewInv'
      BY <2>1 DEF storeVars, kvVars, KvInv, KvTypeOK, DiskInv, ViewInv
    <3> QED BY <3>1, <3>2 DEF KvInv
  <2>2. CASE WriteBatchStep
    BY <2>2, KvShows, KvDurable DEF WriteBatchStep
  <2>3. CASE \E k \in Keys, v \in KvValues \cup {0} : Mutate(k, v)
    BY <2>3, KvMutates
  <2> QED BY <2>1, <2>2, <2>3, KvRecovers, KvAllocates, KvReturns, KvCrashes DEF KvNext
<1> QED BY <1>1, KvStarts, PTL DEF KvSpec

(* The unwraps of get and mutate never fail: a page and the index that     *)
(* names it become durable together, and no crash separates them.          *)
THEOREM PagesAlwaysReadable == KvSpec => []PagesReadable
<1>1. KvInv => PagesReadable
  <2> SUFFICES ASSUME KvInv PROVE PagesReadable
    OBVIOUS
  <2>1. ASSUME kv = "up" PROVE index.page # 0 /\ Present(visible[index.page])
    <3>1. visible = durable /\ index.page = FirstPage
      BY <2>1, KvQuiet, KvIds DEF KvInv, PhaseInv
    <3>2. durable[FirstPage].stamp # 0 /\ ~ durable[FirstPage].del
      BY <2>1, KvIds DEF KvInv, PhaseInv, DiskInv
    <3> QED BY <3>1, <3>2, KvIds DEF Present
  <2>2. ASSUME Present(durable[IndexObjectId]) PROVE Present(durable[DurableIndex.page])
    BY <2>2, KvIds DEF Present, DurableIndex, KvInv, DiskInv
  <2> QED BY <2>1, <2>2 DEF PagesReadable
<1> QED BY <1>1, KvInduction, PTL

(* Whenever the process dies every key has the value that the last         *)
(* mutation to return gave it, except that the mutation in progress may    *)
(* have taken effect.                                                      *)
THEOREM AcknowledgedAlwaysSurvive == KvSpec => []AcknowledgedSurvive
<1>1. KvInv => AcknowledgedSurvive
  <2> SUFFICES ASSUME KvInv, NEW k \in Keys
               PROVE  DurableLeaf[k] \in {acknowledged[k]}
                        \cup {m[2] : m \in {n \in mutation : n[1] = k}}
    BY DEF AcknowledgedSurvive
  <2>1. CASE kv # "writing"
    BY <2>1 DEF KvInv, PhaseInv
  <2>2. CASE kv = "writing"
    <3>1. PICK b \in current : Allocating(b) \/ Mutating(b)
      BY <2>2 DEF KvInv, PhaseInv
    <3>2. CASE Allocating(b)
      <4>1. DurableLeaf = EmptyPage
        BY <3>2, KvLeaf DEF Allocating
      <4> QED BY <3>2, <4>1 DEF Allocating
    <3>3. CASE Mutating(b)
      <4>1. DurableLeaf = page_of[durable[FirstPage].stamp]
        BY <3>3, KvLeaf DEF Mutating
      <4>2. CASE b \in writing
        BY <3>3, <4>1, <4>2 DEF Mutating
      <4>3. CASE b \notin writing
        <5>1. PICK j \in Keys, v \in KvValues \cup {0} :
                mutation = {<<j, v>>} /\ page_of[b.stamp] = [acknowledged EXCEPT ![j] = v]
          BY <3>3 DEF Mutating
        <5>2. DurableLeaf = [acknowledged EXCEPT ![j] = v] /\ acknowledged \in [Keys -> KvValues \cup {0}]
          BY <3>3, <4>1, <4>3, <5>1 DEF Mutating, KvInv, KvTypeOK, Pages
        <5>3. CASE j = k
          <6>1. <<j, v>> \in {n \in mutation : n[1] = k} /\ <<j, v>>[2] = v
            BY <5>1, <5>3
          <6>2. DurableLeaf[k] = v
            BY <5>2, <5>3
          <6> QED BY <6>1, <6>2
        <5>4. CASE j # k
          BY <5>2, <5>4
        <5> QED BY <5>3, <5>4
      <4> QED BY <4>2, <4>3
    <3> QED BY <3>1, <3>2, <3>3
  <2> QED BY <2>1, <2>2
<1> QED BY <1>1, KvInduction, PTL

(* The key-value store stays within what ObjectStore promises: every step  *)
(* of it is a step of the abstract store, with a batch that the store      *)
(* accepts and a stamp above all others, or leaves the store alone.        *)
THEOREM KvUsesStore == KvSpec => StoreSpec
<1>1. KvInv /\ [KvNext]_<<storeVars, kvVars>> => [StoreNext]_storeVars
  <2> SUFFICES ASSUME KvInv, [KvNext]_<<storeVars, kvVars>> PROVE [StoreNext]_storeVars
    OBVIOUS
  <2>1. ASSUME NEW ids \in SUBSET ObjectIds, ids # {}, StartBatch(ids), kv # "writing"
        PROVE  StoreNext
    <3>1. PICK b : b = [stamp |-> NextStamp, del |-> [o \in ids |-> FALSE]]
      OBVIOUS
    <3>2. Begin(b) /\ current' = {b}
      BY <2>1, <3>1 DEF StartBatch
    <3>3. b \in Batch /\ b \in writing'
      BY <2>1, <3>2, KvStart DEF Begin
    <3> QED BY <3>2, <3>3 DEF StoreNext
  <2>2. CASE AllocateLeaf
    <3>1. kv # "writing" /\ StartBatch({FirstPage, IndexObjectId})
      BY <2>2, KvIds DEF AllocateLeaf, KvInv, PhaseInv
    <3> QED BY <2>1, <3>1, KvIds
  <2>3. ASSUME NEW k \in Keys, NEW v \in KvValues \cup {0}, Mutate(k, v) PROVE StoreNext
    <3>1. kv # "writing" /\ StartBatch({FirstPage})
      BY <2>3, KvIds DEF Mutate, KvInv, PhaseInv
    <3> QED BY <2>1, <3>1, KvIds
  <2>4. CASE RecoverKv \/ WriteReturns \/ UNCHANGED <<storeVars, kvVars>>
    BY <2>4 DEF RecoverKv, WriteReturns
  <2>5. CASE WriteBatchStep \/ CrashKv
    BY <2>5 DEF WriteBatchStep, CrashKv, StoreNext
  <2> QED BY <2>2, <2>3, <2>4, <2>5 DEF KvNext
<1>2. KvInit => StoreInit
  BY DEF KvInit
<1> QED BY <1>1, <1>2, KvInduction, PTL DEF KvSpec, StoreSpec
=============================================================================
