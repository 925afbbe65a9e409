---------------------------- MODULE StorageFile ----------------------------
(***************************************************************************)
(* The contents of a storage file: how write_batch_inner and write_trailer *)
(* lay it out, and the three ways it is read back.  Recovery reads the     *)
(* trailer (trailer.rs), read goes to one object by its offset             *)
(* (readpath.rs), and maintenance walks through the objects in sequence    *)
(* (gc.rs).  They share the format and nothing else.                       *)
(*                                                                         *)
(* A file is a sequence of cells, one for each field and for each byte of  *)
(* an object.  A cell is a tuple of numbers: <<n>> for a field or a byte,  *)
(* the numbers that were hashed for a checksum, so that checksums do not   *)
(* collide.  Offsets and lengths are in cells, counted from 0 as in the    *)
(* code.                                                                   *)
(***************************************************************************)
EXTENDS DiskLocation, Integers, Sequences, FiniteSets, SequencesExt

CONSTANTS
  FileIds,              \* object ids
  Values,               \* objects: sequences of bytes
  Compressing,          \* whether zstd_compression_level is set
  Dictionaries,         \* what training may return, a positive number each
  MinSamples,           \* 8 in from_samples
  MinAverage,           \* 8 in from_samples
  MaxObjectSize,        \* Config::max_object_size
  FileLsn,              \* where the file begins
  DamageCells           \* what a damaged cell may hold

ASSUME FileAssumption ==
  /\ FileIds \subseteq Nat /\ IsFiniteSet(FileIds) /\ Values \subseteq Seq(Nat)
  /\ Compressing \in BOOLEAN
  /\ Dictionaries \subseteq Nat \ {0}
  /\ MinSamples \in Nat \ {0} /\ MinAverage \in Nat /\ MaxObjectSize \in Nat
  /\ FileLsn \in Nat /\ DamageCells \subseteq Nat

VARIABLES
  phase,        \* "data", "refused", "renamed", "damaged"
  objects,      \* the objects of the batch: id -> value
  tombstones,   \* the deletions of the batch
  dict,         \* dict_bytes_opt: a sequence of cells, empty for none
  locations,    \* new_relative_locations: id -> raw relative location
  data,         \* the cells of the data section so far
  file,         \* the cells of the file once it is renamed
  metadata      \* Metadata: trailer_offset and file_size

fileVars == <<phase, objects, tombstones, dict, locations, data, file, metadata>>

HeaderCells == 3        \* HEADER_LEN: checksum, id, length
TrailerCells == 3       \* checksum, number of entries, length of dictionary
EntryCells == 2         \* id, raw relative location

(* crc32fast, without collisions.                                          *)
Crc(cells) == FlattenSeq(cells)

Numbers(s) == [i \in DOMAIN s |-> <<s[i]>>]

(* Mutation: the id is left out of the checksum.                           *)
ObjectHashWithoutId(len, id, body) == Crc(<<len>> \o body)

(* hash.                                                                   *)
ObjectHash(len, id, body) == Crc(<<len, id>> \o body)

(* zstd: a frame records the decompressed size, and its bytes can be       *)
(* turned back into the object only with the dictionary that made them.    *)
Compress(d, value) ==
  <<<<Len(value)>>>> \o [i \in DOMAIN value |-> <<value[i] + d[1][1]>>]

DecompressWith(d, body) ==
  IF d = <<>> THEN [i \in DOMAIN body |-> body[i][1]]
  ELSE [i \in 1 .. body[1][1] |-> body[i + 1][1] - d[1][1]]

(***************************************************************************)
(* Writing.                                                                *)
(***************************************************************************)
(* from_samples: no dictionary for few or short objects, and none when     *)
(* training fails.                                                         *)
FromSamples(objs) ==
  LET samples == {o \in DOMAIN objs : objs[o] # <<>>}
      total == FoldSet(LAMBDA o, sum : sum + Len(objs[o]), 0, samples)
      n == Cardinality(samples)
  IN  IF n < MinSamples \/ total \div n <= MinAverage THEN {<<>>}
      ELSE {<<>>} \cup {<<<<d>>>> : d \in Dictionaries}

FileInit ==
  /\ phase = "data"
  /\ \E ids \in (SUBSET FileIds) \ {{}} : \E deleted \in SUBSET ids :
       /\ objects \in [ids \ deleted -> Values]
       /\ tombstones = deleted
       /\ locations = [o \in deleted |-> ShiftLocation(0, TRUE)]
  /\ dict \in IF Compressing THEN FromSamples(objects) ELSE {<<>>}
  /\ data = <<>> /\ file = <<>>
  /\ metadata = [trailer_offset |-> 0, file_size |-> 0]

Unwritten == DOMAIN objects \ DOMAIN locations

(* The bytes of an object in the file.                                     *)
Stored(o) == IF dict = <<>> THEN Numbers(objects[o]) ELSE Compress(dict, objects[o])

(* Mutation: the offset is the one behind the object.                      *)
WriteObjectPastEnd(o) ==
  LET body == Stored(o)
      len == <<Len(body)>>
  IN  /\ phase = "data" /\ o \in Unwritten /\ Len(objects[o]) <= MaxObjectSize
      /\ data' = data \o <<ObjectHash(len, <<o>>, body), <<o>>, len>> \o body
      /\ locations' = [p \in DOMAIN locations \cup {o} |->
                         IF p = o THEN ShiftLocation(Len(data'), FALSE) ELSE locations[p]]
      /\ UNCHANGED <<phase, objects, tombstones, dict, file, metadata>>

(* One iteration of step 1 of write_batch_inner.                           *)
WriteObject(o) ==
  LET body == Stored(o)
      len == <<Len(body)>>
  IN  /\ phase = "data" /\ o \in Unwritten /\ Len(objects[o]) <= MaxObjectSize
      /\ data' = data \o <<ObjectHash(len, <<o>>, body), <<o>>, len>> \o body
      /\ locations' = [p \in DOMAIN locations \cup {o} |->
                         IF p = o THEN ShiftLocation(Len(data), FALSE) ELSE locations[p]]
      /\ UNCHANGED <<phase, objects, tombstones, dict, file, metadata>>

(* An object that is too large fails the call.                             *)
RefuseObject(o) ==
  /\ phase = "data" /\ o \in Unwritten /\ Len(objects[o]) > MaxObjectSize
  /\ phase' = "refused"
  /\ UNCHANGED <<objects, tombstones, dict, locations, data, file, metadata>>

(* write_trailer.                                                          *)
TrailerOf(ids) ==
  LET entries == FlattenSeq([i \in DOMAIN ids |-> <<<<ids[i]>>, <<locations[ids[i]]>>>>])
      rest == <<<<Len(ids)>>, <<Len(dict)>>>> \o entries \o dict
  IN  <<Crc(rest)>> \o rest

(* Steps 4 and 5: the trailer lists the objects that were installed, in    *)
(* any order, and the file is renamed.  There is no file without any.      *)
WriteTrailer ==
  /\ phase = "data" /\ Unwritten = {}
  /\ \E installed \in (SUBSET DOMAIN locations) \ {{}} :
       /\ locations' = [o \in installed |-> locations[o]]
       /\ \E ids \in SetToSeqs(installed) : file' = data \o TrailerOf(ids)
       /\ metadata' = [trailer_offset |-> Len(data),
                       file_size |-> Len(data) + TrailerCells
                                     + EntryCells * Cardinality(installed) + Len(dict)]
  /\ phase' = "renamed"
  /\ UNCHANGED <<objects, tombstones, dict, data>>

(* The device damages one cell, or loses the end of the file.              *)
Damage ==
  /\ phase = "renamed"
  /\ \/ \E i \in DOMAIN file, n \in DamageCells :
          file' = [file EXCEPT ![i] = <<n>>] /\ file' # file
     \/ \E length \in 0 .. Len(file) - 1 : file' = SubSeq(file, 1, length)
  /\ phase' = "damaged"
  /\ UNCHANGED <<objects, tombstones, dict, locations, data, metadata>>

FileNext ==
  \/ \E o \in FileIds : WriteObject(o) \/ RefuseObject(o)
  \/ WriteTrailer
  \/ Damage

FileSpec == FileInit /\ [][FileNext]_fileVars

(***************************************************************************)
(* Reading.  A result is empty for an error or a panic, else it has the    *)
(* value as its only element.                                              *)
(***************************************************************************)
Failed == {}

CanRead(begin, end) == begin <= end /\ end <= Len(file)

(* read_range_at, read_exact_at and read_exact.                            *)
Cells(begin, end) == SubSeq(file, begin + 1, end)

(* read_trailer_from_buf of the cells from the trailer's offset on.        *)
ReadTrailer(size) ==
  LET buf == Cells(metadata.trailer_offset, size)
      offsets == buf[2][1]
      entry(i) == TrailerCells + EntryCells * (i - 1)
  IN  IF \/ ~ CanRead(metadata.trailer_offset, size)
         \/ Len(buf) < TrailerCells
         \/ buf[1] # Crc(Tail(buf))
      THEN Failed
      ELSE {[entries |-> {<<buf[entry(i) + 1][1], buf[entry(i) + 2][1]>> : i \in 1 .. offsets},
             dict |-> SubSeq(buf, entry(offsets + 1) + 1,
                             entry(offsets + 1) + buf[3][1])]}

(* The header and the body of the object at an offset.                     *)
HeaderAt(offset) == [crc |-> file[offset + 1], id |-> file[offset + 2],
                     len |-> file[offset + 3]]

BodyAt(offset) ==
  Cells(offset + HeaderCells, offset + HeaderCells + HeaderAt(offset).len[1])

(* Both readers check the sum over what they read.                         *)
Intact(offset) ==
  /\ CanRead(offset, offset + HeaderCells)
  /\ CanRead(offset, offset + HeaderCells + HeaderAt(offset).len[1])
  /\ LET h == HeaderAt(offset) IN h.crc = ObjectHash(h.len, h.id, BodyAt(offset))

(* read: one object by its location, decompressed with the dictionary kept *)
(* for the file.                                                           *)
ReadObject(o, location, d) ==
  LET offset == LsnOf(location) - FileLsn
  IN  IF ~ Intact(offset) \/ HeaderAt(offset).id # <<o>> THEN Failed
      ELSE {DecompressWith(d, BodyAt(offset))}

NextOffset(offset) == offset + HeaderCells + HeaderAt(offset).len[1]

(* Where the loop of maintenance over the data section gets to: the        *)
(* offsets of the objects, ended by -1 when it gives up.                   *)
Walk ==
  LET steps[offset \in Nat] ==
        IF offset >= metadata.trailer_offset THEN {}
        ELSE IF \/ ~ Intact(offset)
                \/ HeaderAt(offset).len[1] >= MaxObjectSize
        THEN {-1}
        ELSE {offset} \cup steps[NextOffset(offset)]
  IN  steps[0]

(* maintenance, before it compares with the location table: the objects of *)
(* the data section with their locations, and the deletions of the         *)
(* trailer.                                                                *)
ScanFile(size) ==
  IF ~ CanRead(0, size) \/ ReadTrailer(size) = Failed \/ -1 \in Walk THEN Failed
  ELSE LET trailer == CHOOSE t \in ReadTrailer(size) : TRUE
       IN  {[data |-> {<<HeaderAt(offset).id[1],
                         ToAbsolute(ShiftLocation(offset, FALSE), FileLsn),
                         DecompressWith(trailer.dict, BodyAt(offset))>> : offset \in Walk},
             deletions |-> {<<e[1], ToAbsolute(e[2], FileLsn)>> :
                              e \in {e \in trailer.entries : IsDelete(e[2])}}]}

(***************************************************************************)
(* Properties.                                                             *)
(***************************************************************************)
Sizes == {metadata.file_size, Len(file)}        \* known while running, found
                                                \* when the store is opened

Absolute(o) == ToAbsolute(locations[o], FileLsn)

WrittenTrailer == [entries |-> {<<o, locations[o]>> : o \in DOMAIN locations},
                   dict |-> dict]

(* The objects of the batch with the location that WriteObject gave them;  *)
(* the trailer leaves out those that were not installed.                   *)
ScanShows(scan) ==
  /\ {<<d[1], d[3]>> : d \in scan.data} = {<<o, objects[o]>> : o \in DOMAIN objects}
  /\ Cardinality(scan.data) = Cardinality(DOMAIN objects)
  /\ \A d \in scan.data : d[1] \in DOMAIN locations => d[2] = Absolute(d[1])
  /\ scan.deletions = {<<o, Absolute(o)>> : o \in tombstones \cap DOMAIN locations}

(* What write_batch accepts and maintenance takes for corrupt.             *)
TooLargeToScan == \E o \in DOMAIN objects : Len(Stored(o)) >= MaxObjectSize

(* What was written is what all three readers find: recovery the installed *)
(* locations and the dictionary, read every installed object at the        *)
(* location that recovery found, maintenance every object of the batch at  *)
(* the same location; and the file has the length that write_batch_inner   *)
(* asserts.  Objects at the size limit are the subject of ScanAccepts.     *)
ReadersAgree ==
  phase = "renamed" =>
    /\ Len(file) = metadata.file_size
    /\ ReadTrailer(Len(file)) = {WrittenTrailer}
    /\ \A o \in DOMAIN locations \ tombstones :
         ReadObject(o, Absolute(o), dict) = {objects[o]}
    /\ ~ TooLargeToScan => \E scan \in ScanFile(Len(file)) : ScanShows(scan)

(* "corrupt object size or configured max_object_size has gone down since  *)
(* this object was written": with neither, maintenance accepts every file  *)
(* that write_batch has written.                                           *)
ScanAccepts == phase = "renamed" => ScanFile(Len(file)) # Failed

(* A damaged cell or a lost tail is never taken for data: each reader      *)
(* either fails or still returns what was written, whichever field was     *)
(* hit, lengths and counts that steer the reader included.                 *)
DamageDetected ==
  phase = "damaged" => \A size \in Sizes :
    /\ \A t \in ReadTrailer(size) : t = WrittenTrailer
    /\ \A o \in DOMAIN locations \ tombstones :
         \A v \in ReadObject(o, Absolute(o), dict) : v = objects[o]
    /\ \A scan \in ScanFile(size) : ScanShows(scan)
=============================================================================
