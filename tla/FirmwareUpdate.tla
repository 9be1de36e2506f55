---------------------------- MODULE FirmwareUpdate ----------------------------
(***************************************************************************)
(* The reception of a firmware image: the chunk protocol                   *)
(* (firmware-core/src/app/update.rs) and the writes into the DFU area      *)
(* (firmware/src/bsp.rs).                                                  *)
(*                                                                         *)
(* Sizes are scaled down together: a chunk is 6 bytes in the code, a stage *)
(* 24, a flash word 8, a page 2048.  As there, a chunk is no whole number  *)
(* of words, a stage is, and a page is no whole number of stages.          *)
(***************************************************************************)
EXTENDS Integers, Sequences

CONSTANTS
  ChunkBytes,    \* UPDATE_CHUNK_BYTES
  StageBytes,    \* UPDATE_STAGE_BYTES
  WordBytes,     \* what the flash programs at once
  PageBytes,     \* PAGE_SIZE
  FirmwareBytes, \* FIRMWARE_SIZE, the capacity
  Images,        \* the images a host has
  Length         \* their lengths

ASSUME FirmwareUpdateAssumption ==
  /\ {ChunkBytes, StageBytes, WordBytes, PageBytes, FirmwareBytes} \subseteq Nat \ {0}
  /\ StageBytes % ChunkBytes = 0 /\ StageBytes % WordBytes = 0
  /\ PageBytes % WordBytes = 0 /\ FirmwareBytes % PageBytes = 0
  /\ Length \in [Images -> Nat \ {0}]

\* The content of a byte: erased, padding, or a byte of an image.
Erased == <<"erased", 0>>
Padding == <<"padding", 0>>
ByteOf(image, k) == IF k < Length[image] THEN <<image, k>> ELSE Padding
Contents == {Erased, Padding} \cup (Images \X Nat)

RoundedUp(n, multiple) == ((n + multiple - 1) \div multiple) * multiple
ChunksOf(image) == RoundedUp(Length[image], ChunkBytes) \div ChunkBytes
Chunk(image, counter) ==
  [k \in 1 .. ChunkBytes |-> ByteOf(image, counter * ChunkBytes + k - 1)]

-----------------------------------------------------------------------------
\* FirmwareUpdateState
NoTransfer == [active |-> FALSE, next |-> 0, staged |-> <<>>, offset |-> 0]
Started == [NoTransfer EXCEPT !.active = TRUE]

InSequence(u, counter) == counter = 0 \/ (u.active /\ counter = u.next)
TooLarge(u) == u.offset + Len(u.staged) + ChunkBytes > FirmwareBytes

\* The transfer after an accepted chunk; a full stage is handed over to be written.
Staged(u, counter, chunk) ==
  [u EXCEPT !.next = counter + 1, !.staged = @ \o chunk]
StageFull(u) == Len(u.staged) = StageBytes
StageTaken(u) == [u EXCEPT !.offset = @ + StageBytes, !.staged = <<>>]

\* on_apply: what was received is the image and less than a chunk more
Complete(u, length) ==
  LET received == u.offset + Len(u.staged)
  IN  u.active /\ length > 0 /\ length <= received /\ received - length < ChunkBytes

\* The rest of the stage, padded, in whole words
Flush(u, length) ==
  [k \in 1 .. RoundedUp(length - u.offset, WordBytes) |->
     IF k <= Len(u.staged) THEN u.staged[k] ELSE Padding]

-----------------------------------------------------------------------------
\* Memory::dfu_write and dfu_crc32 on the DFU area

\* A mutant of Reached: only the page a write starts in is erased, and only at its start.
ReachedAtStart(start, end) ==
  {p \in 0 .. FirmwareBytes \div PageBytes - 1 : p * PageBytes = start}

\* The pages that a write reaches first: those that begin inside it.
Reached(start, end) ==
  {p \in 0 .. FirmwareBytes \div PageBytes - 1 : start <= p * PageBytes /\ p * PageBytes < end}

EraseReached(flash, start, end) ==
  [k \in DOMAIN flash |-> IF k \div PageBytes \in Reached(start, end) THEN Erased ELSE flash[k]]

Programmed(flash, start, data) ==
  [k \in DOMAIN flash |->
     IF start <= k /\ k < start + Len(data) THEN data[k - start + 1] ELSE flash[k]]

\* The flash refuses to program a word that is not erased.
Programmable(flash, start, data) ==
  \A k \in start .. start + Len(data) - 1 : flash[k] = Erased

\* A failed write stops before any of its words; the pages it reached are erased.
TornWrites(flash, start, data) ==
  {Programmed(EraseReached(flash, start, start + Len(data)), start, SubSeq(data, 1, n * WordBytes)) :
     n \in 0 .. Len(data) \div WordBytes - 1}

\* dfu_crc32 equals the image's: the first bytes of the area are the image
Holds(flash, image) == \A k \in 0 .. Length[image] - 1 : flash[k] = ByteOf(image, k)
=============================================================================
