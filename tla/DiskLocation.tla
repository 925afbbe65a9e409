---------------------------- MODULE DiskLocation ----------------------------
(***************************************************************************)
(* Addresses of objects (disk_location.rs, NEW_WRITE_BATCH_BIT of lib.rs). *)
(*                                                                         *)
(* A storage file is given a log sequence number (LSN); an object lives at *)
(* LSN + offset.  A DiskLocation packs that address and a deletion flag in *)
(* one non-zero integer, so that locations are compared as integers.  LSNs *)
(* handed to new write batches carry a high bit that LSNs of rewritten     *)
(* (defragmented) files lack: every location of a new batch is greater     *)
(* than every location of a rewritten file.                                *)
(***************************************************************************)
EXTENDS Naturals

CONSTANT
  NewWriteBatchBit      \* NEW_WRITE_BATCH_BIT, 2^62 in the code

ASSUME BitAssumption == NewWriteBatchBit \in Nat \ {0}

(* The content of an empty slot of the location table: DiskLocation is a   *)
(* NonZeroU64 and from_raw(0) is None.                                     *)
Null == 0

(* shift_location: the flag takes the low bit.  The code asserts that no   *)
(* high bit is lost; LSNs stay below 2 * NewWriteBatchBit = 2^63 here.     *)
ShiftLocation(location, is_delete) ==
  2 * location + (IF is_delete THEN 1 ELSE 0)

(* unshift_location, as the two accessors the callers use.                 *)
LsnOf(raw) == raw \div 2

IsDelete(raw) == raw % 2 = 1

(* RelativeDiskLocation::to_absolute: an offset in a file becomes an       *)
(* address once the file's LSN is known.                                   *)
ToAbsolute(relative, base) ==
  ShiftLocation(LsnOf(relative) + base, IsDelete(relative))

(* DiskLocation::new_fam: where a file begins, the key of the file map.    *)
NewFam(lsn) == ShiftLocation(lsn, FALSE)

FamLocations == {f \in Nat : ~ IsDelete(f)}

(* lsn_base | NEW_WRITE_BATCH_BIT, or lsn_base when a file is rewritten;   *)
(* LSN bases stay below the bit, so the bitwise or is an addition.         *)
StampLsn(lsn_base, is_gc) ==
  IF is_gc THEN lsn_base ELSE lsn_base + NewWriteBatchBit

(* lsn & NEW_WRITE_BATCH_MASK: the position of a file in allocation order. *)
MaskLsn(lsn) ==
  IF lsn >= NewWriteBatchBit THEN lsn - NewWriteBatchBit ELSE lsn
=============================================================================
