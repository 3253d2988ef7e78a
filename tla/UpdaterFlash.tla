---------------------------- MODULE UpdaterFlash ----------------------------
(***************************************************************************)
(* The flash arithmetic of esp32/ftp/updater.c: an image of unknown length   *)
(* arrives in pieces of any length and is written behind sectors erased     *)
(* ahead of it.  Addresses count from the start of the slot, which is the    *)
(* start of a sector.  Which slot it is, and what becomes of the image, is   *)
(* OtaBoot's subject.                                                       *)
(***************************************************************************)
EXTENDS Naturals, FiniteSets

CONSTANTS
  SecSize,      \* SPI_FLASH_SEC_SIZE
  SlotSectors,  \* sectors of a slot: IMG_SIZE_8MB or IMG_SIZE_4MB
  MaxWrite,     \* the longest piece: FTP_BUFFER_SIZE, or what Python passes to ota_write
  MaxOffset     \* bound: how far the counters are followed

ASSUME FlashConstants ==
  /\ SecSize \in Nat \ {0} /\ SlotSectors \in Nat /\ SlotSectors >= 2
  /\ MaxWrite \in Nat /\ MaxOffset \in Nat

VARIABLES
  offset,         \* updater_data.offset, from the start of the slot
  current_chunk,  \* updater_data.current_chunk
  size,           \* boot_info.size
  stored,         \* boot_info.size in flash
  dirty,          \* the bytes that are not erased
  erased,         \* history: sectors erased by this update
  update,         \* no, open, or failed: a call has returned an error
  overwritten,    \* history: a byte was programmed that was not erased
  long            \* history: a piece of this update was longer than a sector

vars == <<offset, current_chunk, size, stored, dirty, erased, update, overwritten, long>>

Sector(address) == address \div SecSize
Bytes(sector) == sector * SecSize .. sector * SecSize + SecSize - 1
Flash == 0 .. MaxOffset + 2 * SecSize

\* An old image fills the slot, and other data lies behind it.
Init ==
  /\ offset = 0 /\ current_chunk = 0
  /\ size = 0 /\ stored \in {0, 1}
  /\ dirty = Flash
  /\ erased = {}
  /\ update = "no"
  /\ overwritten = FALSE /\ long = FALSE

\* updater_start: reads boot_info, then erases two sectors; the counters are set last.
\* It fails after n of the two; before that, the reading may have failed as well.
Start ==
  /\ update' = "open"
  /\ offset' = 0
  /\ erased' = {0, 1}
  /\ dirty' = dirty \ (Bytes(0) \cup Bytes(1))
  /\ size' = 0 /\ current_chunk' = 0
  /\ overwritten' = FALSE /\ long' = FALSE
  /\ UNCHANGED stored

StartFails(n) ==
  /\ update' = "failed"
  /\ offset' = 0
  /\ size' \in {stored, size}
  /\ erased' = 0 .. n - 1
  /\ dirty' = dirty \ UNION {Bytes(s) : s \in 0 .. n - 1}
  /\ overwritten' = FALSE /\ long' = FALSE
  /\ UNCHANGED <<stored, current_chunk>>

\* updater_write: one piece; at most one sector is erased.  Nothing compares the piece with
\* the sector or the image with the slot.
Programs(len) ==
  /\ update # "no"
  /\ \A n \in {offset, size, current_chunk} : n + len <= MaxOffset
  /\ offset' = offset + len
  /\ size' = size + len
  /\ overwritten' = (overwritten \/ dirty \cap (offset .. offset + len - 1) # {})
  /\ long' = (long \/ len > SecSize)

WriteFullLater(len) ==
  /\ Programs(len)
  /\ LET written == dirty \cup (offset .. offset + len - 1)
         full == current_chunk + len > SecSize
         next == Sector(offset' + SecSize)
     IN  /\ current_chunk' = IF full THEN current_chunk + len - SecSize ELSE current_chunk + len
         /\ dirty' = IF full THEN written \ Bytes(next) ELSE written
         /\ erased' = IF full THEN erased \cup {next} ELSE erased
  /\ UNCHANGED <<stored, update>>

Write(len) ==
  /\ Programs(len)
  /\ LET written == dirty \cup (offset .. offset + len - 1)
         full == current_chunk + len >= SecSize
         next == Sector(offset' + SecSize)
     IN  /\ current_chunk' = IF full THEN current_chunk + len - SecSize ELSE current_chunk + len
         /\ dirty' = IF full THEN written \ Bytes(next) ELSE written
         /\ erased' = IF full THEN erased \cup {next} ELSE erased
  /\ UNCHANGED <<stored, update>>

\* The piece is not written, or it is and the erase after it fails.
WriteFails ==
  /\ update # "no"
  /\ update' = "failed"
  /\ UNCHANGED <<offset, current_chunk, size, stored, dirty, erased, overwritten, long>>

EraseFails(len) ==
  /\ Programs(len)
  /\ current_chunk + len >= SecSize
  /\ current_chunk' = current_chunk + len - SecSize
  /\ dirty' = dirty \cup (offset .. offset + len - 1)
  /\ update' = "failed"
  /\ UNCHANGED <<stored, erased>>

\* updater_finish: the boot information, size included, is saved, unless an image is
\* pending verification or the saving fails.
Finish ==
  /\ update # "no"
  /\ update' = "no"
  /\ offset' = 0
  /\ stored' \in {size, stored}
  /\ UNCHANGED <<current_chunk, size, dirty, erased, overwritten, long>>

\* updater_ota_next_slot_address reads boot_info again, in the updater's own copy.
OtaSlot ==
  /\ size' = stored
  /\ UNCHANGED <<offset, current_chunk, stored, dirty, erased, update, overwritten, long>>

Next ==
  \/ Start \/ WriteFails \/ Finish \/ OtaSlot
  \/ \E n \in {0, 1} : StartFails(n)
  \/ \E len \in 0 .. MaxWrite : Write(len) \/ EraseFails(len)

Spec == Init /\ [][Next]_vars

-----------------------------------------------------------------------------
\* Type invariant, with the bounds.
TypeOK ==
  /\ offset \in 0 .. MaxOffset /\ current_chunk \in Nat
  /\ size \in Nat /\ stored \in Nat
  /\ dirty \subseteq Flash
  /\ update \in {"no", "open", "failed"}
  /\ long \in BOOLEAN

\* As long as every call succeeded and no piece was longer than a sector, each piece landed
\* on erased flash only, however the pieces fall on the sectors: updater_write's erase-ahead
\* stays in front of the data.
LandsOnErased == update = "open" /\ ~long => ~overwritten

\* ... and it stays two sectors ahead at most: what an update erases is the image's own
\* sectors and the one that follows.
ErasesAhead == update = "open" /\ ~long => erased = 0 .. Sector(offset) + 1

\* An update erases nothing behind its slot until the image reaches the slot's last sector,
\* whatever the lengths of the pieces and whichever calls failed.
ErasesOwnSlot ==
  update # "no" /\ offset < (SlotSectors - 1) * SecSize => \A s \in erased : s < SlotSectors

\* updater_write's erase-ahead is in time, and the erasing leaves the slot no earlier than
\* an image that reaches the slot's last sector makes it.
ErasedInSlot == LandsOnErased /\ ErasesOwnSlot
=============================================================================
