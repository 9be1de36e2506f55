----------------------------- MODULE RecordStore -----------------------------
(***************************************************************************)
(* firmware-core/src/app/config.rs: the log of records in one flash page.  *)
(* A page is the sequence of its used slots; a slot holds a record, tagged *)
(* with the version of its layout, or what a write that was cut short left *)
(* behind ("torn": the CRC does not match).                                *)
(***************************************************************************)
EXTENDS Naturals, Sequences, FiniteSetsExt

CONSTANT Slots  \* slot_count: PAGE_SIZE / MAX_RECORD_BYTES

ASSUME SlotsAssumption == Slots \in Nat \ {0}

\* One shape for both kinds of slot: a torn one has no version.
NoVersion == 0
Record(version, value) == [version |-> version, value |-> value]
Torn(value) == Record(NoVersion, value)

\* RecordState::Intact
Intact(page) == {i \in DOMAIN page : page[i].version # NoVersion}

\* A mutant of Latest: only records of the wanted version are looked at.
LatestOfVersion(page, version) ==
  LET own == {i \in Intact(page) : page[i].version = version}
  IN  {page[i] : i \in {j \in own : \A k \in own : k <= j}}

(***************************************************************************)
(* scan: the last intact record, as a set with at most one member.  The    *)
(* version asked for has no influence on it.                               *)
(***************************************************************************)
Latest(page, version) ==
  {page[i] : i \in {j \in Intact(page) : \A k \in Intact(page) : k <= j}}

\* load_record: the current record's value if this firmware can decode it, else the default.
Loaded(page, version, default) ==
  IF \E r \in Latest(page, version) : r.version = version
  THEN (CHOOSE r \in Latest(page, version) : r.version = version).value
  ELSE default

\* load_record returns CorruptedData: slots are used and none holds an intact record.
IsCorrupt(page) == page # <<>> /\ Intact(page) = {}

\* A mutant of Writable: a full page is never erased, the last slot is written again.
WritableInPlace(page) == IF Len(page) = Slots THEN SubSeq(page, 1, Slots - 1) ELSE page

\* A mutant of Writable: the erase of a full page is forgotten.
WritableForgotten(page) == page

\* The page the record is appended to: a full page is erased first.
Writable(page) == IF Len(page) = Slots THEN <<>> ELSE page

\* store_record does nothing when the current record is the same already.
IsCurrent(page, record) == record \in Latest(page, record.version)

\* store_record
Stored(page, record) ==
  IF IsCurrent(page, record) THEN page ELSE Append(Writable(page), record)

(***************************************************************************)
(* What a store leaves behind that the flash refuses or that power loss    *)
(* cuts short: the page as it was, the record torn, or, for a page that    *)
(* had to be erased, erased or with undecodable slots.                     *)
(***************************************************************************)
CutShort(page, record) ==
  IF IsCurrent(page, record) THEN {page}
  ELSE {page, Append(Writable(page), Torn(record.value))}
         \cup (IF Len(page) = Slots
               THEN {<<>>, [i \in 1 .. Slots |-> Torn(page[i].value)]} ELSE {})
=============================================================================
