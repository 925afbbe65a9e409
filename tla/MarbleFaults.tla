---------------------------- MODULE MarbleFaults ----------------------------
(***************************************************************************)
(* The store with failing system calls: what write_batch and maintenance   *)
(* do when a call that the code wraps in fallible! or maybe! returns an    *)
(* error, or when an assertion of the write path panics (writepath.rs,     *)
(* gc.rs).  A caller goes on using the store after an error.               *)
(***************************************************************************)
EXTENDS Marble

CONSTANT MaxFaults      \* bound: system calls that fail

ASSUME FaultsAssumption == MaxFaults \in Nat

VARIABLE faults

fvars == <<vars, faults>>

FaultInit == Init /\ faults = 0

Fail == faults < MaxFaults /\ faults' = faults + 1

(* The error propagates: write_batch returns it; maintenance returns it    *)
(* too, which drops its claims and prunes nothing.                         *)
GiveUp(t) ==
  /\ Goto(t, IF t \in sweeping THEN "bail" ELSE "idle")
  /\ batch' = [batch EXCEPT ![t] = EmptyBatch]
  /\ rest' = [rest EXCEPT ![t] = {}]
  /\ base' = [base EXCEPT ![t] = 0]
  /\ failed' = [failed EXCEPT ![t] = {}]
  /\ replaced' = [replaced EXCEPT ![t] = {}]
  /\ queue' = [queue EXCEPT ![t] = {}]
  /\ reading' = [reading EXCEPT ![t] = {}]

(* Writing the temporary file fails, or an object is too large.  The       *)
(* temporary file stays behind until the next recovery.                    *)
StageFails(t) ==
  /\ Fail
  /\ pc[t] = "insert"
  /\ GiveUp(t)
  /\ UNCHANGED <<shared, sweeping, gen, todo, claims, cursor, fam_len, bounds,
                 history>>

(* Reading a file to defragment fails, or its contents are refused.        *)
ReadFails(t) ==
  /\ Fail
  /\ pc[t] = "read"
  /\ GiveUp(t)
  /\ UNCHANGED <<shared, sweeping, gen, todo, claims, cursor, fam_len, bounds,
                 history>>

(* The trailer, its fsync or the rename fails, with locations installed.   *)
CommitFails(t) ==
  /\ Fail
  /\ pc[t] = "install" /\ todo[t] = {} /\ Trailer(t) # {}
  /\ Goto(t, "undo")
  /\ UNCHANGED <<shared, sweeping, gen, batch, rest, inner, maint, bounds, history>>

(* One iteration of the loop that undoes replaced locations.               *)
Undo(t) ==
  /\ pc[t] = "undo"
  /\ \E r \in replaced[t] :
       /\ Cas(r[1], LocationIn(base[t], fams[base[t]].objs, r[1]), r[2])
       /\ replaced' = [replaced EXCEPT ![t] = @ \ {r}]
  /\ UNCHANGED <<fams, next_file_lsn, heap, pc, sweeping, gen, batch, rest, base,
                 todo, failed, maint, bounds, history, faults>>

(* delete_partially_installed_fam, and the error is returned.              *)
Undone(t) ==
  /\ pc[t] = "undo" /\ replaced[t] = {}
  /\ RemoveFam(base[t])
  /\ GiveUp(t)
  /\ UNCHANGED <<location_table, next_file_lsn, heap, sweeping, gen, todo, claims,
                 cursor, fam_len, bounds, history, faults>>

(* Mutation: the claim of the file is leaked.                              *)
StatFailsLeaksClaim(t) ==
  /\ Fail
  /\ pc[t] = "install" /\ todo[t] = {} /\ Trailer(t) # {}
  /\ Rename(t)
  /\ GiveUp(t)
  /\ UNCHANGED <<location_table, fams, next_file_lsn, sweeping, gen, todo, claims,
                 cursor, fam_len, bounds, order>>

(* The file is renamed, and then reading its length fails: the file stays  *)
(* in the map without metadata, and nothing is decremented.                *)
StatFails(t) ==
  /\ Fail
  /\ pc[t] = "install" /\ todo[t] = {} /\ Trailer(t) # {}
  /\ Rename(t)
  /\ ReleaseClaim(base[t])
  /\ GiveUp(t)
  /\ UNCHANGED <<location_table, next_file_lsn, sweeping, gen, todo, claims,
                 cursor, fam_len, bounds, order>>

(* The fsync of the directory fails after the last part of a rewrite,      *)
(* which was written or dropped.  With nothing to rewrite the effect is    *)
(* that of ReadFails; a new batch is complete by then.                     *)
SyncFails(t) ==
  /\ Fail
  /\ rest[t] = {} /\ t \in sweeping
  /\ \/ pc[t] = "unclaim" /\ ReleaseClaim(base[t])
     \/ /\ pc[t] = "install" /\ todo[t] = {} /\ Trailer(t) = {}
        /\ RemoveFam(base[t])
  /\ GiveUp(t)
  /\ UNCHANGED <<location_table, next_file_lsn, heap, sweeping, gen, todo, claims,
                 cursor, fam_len, bounds, history>>

(* decrement_evacuated_fams panics: before it touches a count, or after    *)
(* the count of an empty file was decremented.  Unwinding drops the claim. *)
EvacuatePanics(t) ==
  /\ pc[t] = "evacuate"
  /\ \E r \in replaced[t] :
       /\ ~ EvacuationPasses(t, r[2])
       /\ fams' = [f \in DOMAIN fams |->
                     IF f = base[t] THEN [fams[f] EXCEPT !.claim = FALSE]
                     ELSE IF HasFamFor(fams, r[2]) /\ f = FamFor(fams, r[2])
                     THEN [fams[f] EXCEPT !.live = @ - 1]
                     ELSE fams[f]]
  /\ GiveUp(t)
  /\ UNCHANGED <<location_table, next_file_lsn, heap, sweeping, gen, todo, claims,
                 cursor, fam_len, bounds, history, faults>>

(* Drop of DeferUnclaim when maintenance returns an error.                 *)
Bail(t) ==
  /\ pc[t] = "bail"
  /\ \/ \E f \in claims[t] :
          /\ IF f \in DOMAIN fams THEN ReleaseClaim(f) ELSE UNCHANGED fams
          /\ claims' = [claims EXCEPT ![t] = @ \ {f}]
          /\ UNCHANGED <<pc, sweeping, gen, cursor, fam_len>>
     \/ /\ claims[t] = {}
        /\ Goto(t, "idle")
        /\ sweeping' = sweeping \ {t}
        /\ gen' = [gen EXCEPT ![t] = 0]
        /\ cursor' = [cursor EXCEPT ![t] = 0]
        /\ fam_len' = [fam_len EXCEPT ![t] = 0]
        /\ UNCHANGED <<fams, claims>>
  /\ UNCHANGED <<location_table, next_file_lsn, heap, batch, rest, inner, queue,
                 reading, bounds, history, faults>>

FaultStep(t) ==
  \/ StageFails(t) \/ ReadFails(t) \/ CommitFails(t) \/ Undo(t) \/ Undone(t)
  \/ StatFails(t) \/ SyncFails(t) \/ EvacuatePanics(t) \/ Bail(t)

FaultNext == (Next /\ UNCHANGED faults) \/ \E t \in Threads : FaultStep(t)

FaultSpec == FaultInit /\ [][FaultNext]_fvars
=============================================================================
