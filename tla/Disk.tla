-------------------------------- MODULE Disk --------------------------------
(***************************************************************************)
(* What a file system may expect of the flash disk of                       *)
(* esp32/fatfs/src/drivers/sflash_diskio.c: a sector reads as it was last    *)
(* written; a call that fails writes nothing; a power loss costs at most     *)
(* the block that was written last, and nothing once it has been saved.      *)
(* After a failed flash read nothing is promised of the block it was for.    *)
(***************************************************************************)
CONSTANTS
  Sectors,
  BlockOf,   \* the flash block of each sector
  Contents   \* of a sector

VARIABLES
  disk,      \* what the sectors read as
  unsaved,   \* the blocks whose writes may not have reached the flash
  suspect,   \* the blocks of which a flash read has failed
  res        \* what the last call returned

vars == <<disk, unsaved, suspect, res>>

\* The sectors outside S keep their contents.
Kept(S) ==
  \A s \in Sectors : s \notin S /\ BlockOf[s] \notin suspect' => disk'[s] = disk[s]

Init ==
  /\ disk \in [Sectors -> Contents]
  /\ unsaved = {} /\ suspect = {}
  /\ res = [code |-> "RES_OK"]

Read(s) ==
  /\ res' = [code |-> "RES_OK", data |-> disk'[s]]
  /\ Kept({})
  /\ unsaved' \in {unsaved, {}}
  /\ UNCHANGED suspect

Write(s, v) ==
  /\ res' = [code |-> "RES_OK"]
  /\ unsaved' = {BlockOf[s]}
  /\ disk'[s] = v /\ Kept({s})
  /\ UNCHANGED suspect

\* A read or a write of s that fails, in the write-back before it or in the flash read.
Fail(s) ==
  /\ res' = [code |-> "RES_ERROR"]
  /\ Kept({})
  /\ unsaved' \in {unsaved, {}}
  /\ suspect' \in {suspect, suspect \cup {BlockOf[s]}}

\* Saving, which is also what a call out of range does.
Save ==
  /\ res' \in {[code |-> "RES_OK"], [code |-> "RES_PARERR"]}
  /\ Kept({})
  /\ unsaved' \in {unsaved, {}}
  /\ UNCHANGED suspect

PowerLoss ==
  /\ Kept({s \in Sectors : BlockOf[s] \in unsaved})
  /\ unsaved' = {}
  /\ res' = [code |-> "RES_OK"]
  /\ UNCHANGED suspect

Next ==
  \/ Save \/ PowerLoss
  \/ \E s \in Sectors : Read(s) \/ Fail(s) \/ \E v \in Contents : Write(s, v)

Spec == Init /\ [][Next]_vars
=============================================================================
