-------------------------- MODULE ThreadLocalDict --------------------------
(***************************************************************************)
(* The decompression contexts of one storage file (zstd.rs).               *)
(*                                                                         *)
(* A context holds the file's dictionary and must not be used by two       *)
(* threads at once, although the code declares it Sync.  ThreadLocalDict   *)
(* keeps one raw pointer per thread in a map behind a read-write lock; the *)
(* map is looked up under the read lock, and a thread that finds nothing   *)
(* drops the lock, makes a context, uses it and inserts it under the write *)
(* lock.                                                                   *)
(***************************************************************************)
EXTENDS Naturals, FiniteSets, Functions

CONSTANTS
  Readers,              \* threads that decompress objects of the file
  MaxPanics             \* bound: panics of a context's first use

ASSUME PanicsAssumption == MaxPanics \in Nat

VARIABLES
  at,           \* where each thread is
  tls,          \* the map: thread -> its context
  reading,      \* the threads that hold the read lock
  using,        \* thread -> the context it decompresses with, 0 for none
  made,         \* contexts that became raw pointers so far
  freed,        \* contexts freed
  lost,         \* contexts that a panic left without an owner
  dropped       \* whether the file, and with it the map, was dropped

dictVars == <<at, tls, reading, using, made, freed, lost, dropped>>

DictInit ==
  /\ at = [t \in Readers |-> "idle"]
  /\ tls = [t \in {} |-> 0]
  /\ reading = {} /\ using = [t \in Readers |-> 0]
  /\ made = 0 /\ freed = {} /\ lost = {} /\ dropped = FALSE

Move(t, place) == at' = [at EXCEPT ![t] = place]

(* The RwLock of the standard library: readers do not pass a writer that   *)
(* waits, a writer needs the lock for itself.                              *)
CanReadLock == \A t \in Readers : at[t] # "wait"

CanWriteLock == reading = {}

(* decompress is called.  Whoever calls it holds a reference to the file.  *)
Decompress(t) ==
  /\ at[t] = "idle" /\ ~ dropped
  /\ Move(t, "enter")
  /\ UNCHANGED <<tls, reading, using, made, freed, lost, dropped>>

(* tls.read(): waits for the lock.                                         *)
ReadLock(t) ==
  /\ at[t] = "enter" /\ CanReadLock
  /\ reading' = reading \cup {t}
  /\ Move(t, "lookup")
  /\ UNCHANGED <<tls, using, made, freed, lost, dropped>>

(* Mutation: the map is not asked for this thread's context.               *)
FoundAny(t) ==
  /\ at[t] = "lookup" /\ DOMAIN tls # {}
  /\ using' = [using EXCEPT ![t] = CHOOSE c \in Range(tls) : TRUE]
  /\ Move(t, "use")
  /\ UNCHANGED <<tls, reading, made, freed, lost, dropped>>

(* r_tls.get(&tid): the read lock is held while the context is used.       *)
Found(t) ==
  /\ at[t] = "lookup" /\ t \in DOMAIN tls
  /\ using' = [using EXCEPT ![t] = tls[t]]
  /\ Move(t, "use")
  /\ UNCHANGED <<tls, reading, made, freed, lost, dropped>>

(* The return, or the panic of unwrap: both release the read lock, which a *)
(* panic does not poison.                                                  *)
Used(t) ==
  /\ at[t] = "use"
  /\ using' = [using EXCEPT ![t] = 0]
  /\ reading' = reading \ {t}
  /\ Move(t, "idle")
  /\ UNCHANGED <<tls, made, freed, lost, dropped>>

(* Mutation: the read lock is kept.                                        *)
NotFoundKeepsLock(t) ==
  /\ at[t] = "lookup" /\ t \notin DOMAIN tls
  /\ Move(t, "create")
  /\ UNCHANGED <<tls, reading, using, made, freed, lost, dropped>>

(* Mutation: what the map holds is not looked at.                          *)
NotFoundAlways(t) ==
  /\ at[t] = "lookup"
  /\ reading' = reading \ {t}
  /\ Move(t, "create")
  /\ UNCHANGED <<tls, using, made, freed, lost, dropped>>

(* drop(r_tls).                                                            *)
NotFound(t) ==
  /\ at[t] = "lookup" /\ t \notin DOMAIN tls
  /\ reading' = reading \ {t}
  /\ Move(t, "create")
  /\ UNCHANGED <<tls, using, made, freed, lost, dropped>>

(* DCtx::create and load_dictionary, whose unwrap may panic: the context   *)
(* still belongs to the frame and goes with it.  Else Box::into_raw makes  *)
(* it a raw pointer for the first use.                                     *)
Create(t) ==
  /\ at[t] = "create"
  /\ \/ /\ made' = made + 1
        /\ using' = [using EXCEPT ![t] = made']
        /\ Move(t, "try")
     \/ Move(t, "idle") /\ UNCHANGED <<made, using>>
  /\ UNCHANGED <<tls, reading, freed, lost, dropped>>

(* The first use returns, or its unwrap panics and the raw pointer has no  *)
(* owner any more.                                                         *)
Tried(t) ==
  /\ at[t] = "try"
  /\ \/ Move(t, "insert") /\ UNCHANGED <<using, lost>>
     \/ /\ Cardinality(lost) < MaxPanics
        /\ Move(t, "idle")
        /\ lost' = lost \cup {using[t]}
        /\ using' = [using EXCEPT ![t] = 0]
  /\ UNCHANGED <<tls, reading, made, freed, dropped>>

(* tls.write().insert(tid, diab): waits for the lock, then inserts, and    *)
(* returns.                                                                *)
Wait(t) ==
  /\ at[t] = "insert"
  /\ Move(t, "wait")
  /\ UNCHANGED <<tls, reading, using, made, freed, lost, dropped>>

InsertContext(t) ==
  /\ at[t] = "wait" /\ CanWriteLock
  /\ tls' = [u \in DOMAIN tls \cup {t} |-> IF u = t THEN using[t] ELSE tls[u]]
  /\ using' = [using EXCEPT ![t] = 0]
  /\ Move(t, "idle")
  /\ UNCHANGED <<reading, made, freed, lost, dropped>>

(* Drop: the last reference to the file is gone.                           *)
DropDict ==
  /\ ~ dropped /\ \A t \in Readers : at[t] = "idle"
  /\ dropped' = TRUE
  /\ freed' = freed \cup Range(tls)
  /\ UNCHANGED <<at, tls, reading, using, made, lost>>

DictStep(t) ==
  \/ ReadLock(t) \/ Found(t) \/ Used(t) \/ NotFound(t) \/ Create(t) \/ Tried(t)
  \/ Wait(t) \/ InsertContext(t)

DictNext == (\E t \in Readers : Decompress(t) \/ DictStep(t)) \/ DropDict

(* A thread inside decompress keeps running.                               *)
DictSpec ==
  DictInit /\ [][DictNext]_dictVars /\ \A t \in Readers : WF_dictVars(DictStep(t))

(***************************************************************************)
(* Properties.                                                             *)
(***************************************************************************)
(* "this is not actually used by multiple threads concurrently because     *)
(* access is gated by ThreadId": no context is used by two threads, none   *)
(* is used after it was freed, and a context that a thread is about to     *)
(* insert is not one of the map.                                           *)
ContextsPrivate ==
  /\ \A t, u \in Readers : t # u /\ using[t] # 0 => using[t] # using[u]
  /\ \A t \in Readers : using[t] \notin freed
  /\ \A t \in Readers : at[t] \in {"try", "insert", "wait"} => using[t] \notin Range(tls)

(* The raw pointers: drop frees every context that was ever made, except   *)
(* those lost in a panic, and frees none twice, so no insert replaced one. *)
ContextsFreed ==
  /\ dropped => freed \cup lost = 1 .. made
  /\ IsInjective(tls)

(* decompress returns: no thread waits for ever for the read lock or for   *)
(* the write lock, since one that waits for the write lock holds no read   *)
(* lock, and each needs it once.                                           *)
DecompressReturns == \A t \in Readers : at[t] # "idle" ~> at[t] = "idle"
=============================================================================
