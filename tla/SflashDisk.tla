----------------------------- MODULE SflashDisk -----------------------------
(***************************************************************************)
(* The flash disk under FatFs, esp32/fatfs/src/drivers/sflash_diskio.c: the  *)
(* flash is erased and programmed by the block, FatFs reads and writes       *)
(* sectors, and one block is cached in RAM and written back when another one *)
(* is wanted, or on request.  Blocks count from sflash_start_address.        *)
(* A call for several sectors is one Read or Write per sector, up to the     *)
(* first that fails: its loops carry nothing else from sector to sector.     *)
(* FatFs makes its calls one at a time (FF_FS_REENTRANT).                    *)
(***************************************************************************)
EXTENDS Integers

CONSTANTS
  PerBlock,   \* SFLASH_SECTORS_PER_BLOCK
  BlockCount, \* SFLASH_BLOCK_COUNT_4MB or _8MB
  Contents    \* of a sector

ASSUME DiskConstants == PerBlock \in Nat \ {0} /\ BlockCount \in Nat \ {0} /\ Contents # {}

VARIABLES
  flash,                   \* the contents of the flash, by sector
  sflash_block_cache,
  sflash_cache_is_dirty,
  sflash_prev_block_addr,  \* the block in the cache
  suspect,                 \* history: blocks of which a flash read has failed
  res                      \* what the last call returned

diskVars == <<flash, sflash_block_cache, sflash_cache_is_dirty, sflash_prev_block_addr,
              suspect, res>>

Sectors == 0 .. BlockCount * PerBlock - 1
Offsets == 0 .. PerBlock - 1
NoBlock == -1   \* UINT32_MAX, the address of no block

Block(sector) == sector \div PerBlock
Secindex(sector) == sector % PerBlock

Dirty == sflash_cache_is_dirty
Hit(s) == sflash_prev_block_addr = Block(s)

DiskInit ==
  /\ flash \in [Sectors -> Contents]
  /\ sflash_block_cache \in [Offsets -> Contents]
  /\ sflash_cache_is_dirty = FALSE
  /\ sflash_prev_block_addr = NoBlock
  /\ suspect = {}
  /\ res = [code |-> "RES_OK"]

\* The flash once sflash_disk_flush has succeeded: the cache is written if it is dirty.
WrittenBack(prev) ==
  [s \in Sectors |-> IF Dirty /\ Block(s) = prev THEN sflash_block_cache[Secindex(s)]
                                                 ELSE flash[s]]

\* The flash when the erase or the write of the cached block does not complete.
Torn ==
  {[s \in Sectors |-> IF Block(s) = sflash_prev_block_addr THEN left[Secindex(s)] ELSE flash[s]] :
     left \in [Offsets -> Contents]}

FlushFails ==
  /\ Dirty
  /\ flash' \in Torn
  /\ UNCHANGED <<sflash_block_cache, sflash_cache_is_dirty, sflash_prev_block_addr, suspect>>

\* The block of sector s as the calls find it in the cache, read from the flash on a miss.
Cached(s) ==
  IF Hit(s) THEN sflash_block_cache
            ELSE [i \in Offsets |-> flash[Block(s) * PerBlock + i]]

\* What a miss does to the flash and to the tag: write back, then take the new address.
EvictTagged(s) ==
  /\ flash' = IF Hit(s) THEN flash ELSE WrittenBack(Block(s))
  /\ sflash_prev_block_addr' = Block(s)

Evict(s) ==
  /\ flash' = IF Hit(s) THEN flash ELSE WrittenBack(sflash_prev_block_addr)
  /\ sflash_prev_block_addr' = Block(s)

\* sflash_disk_read, for one sector
DiskRead(s) ==
  /\ Evict(s)
  /\ sflash_block_cache' = Cached(s)
  /\ sflash_cache_is_dirty' = (Dirty /\ Hit(s))
  /\ res' = [code |-> "RES_OK", data |-> Cached(s)[Secindex(s)]]
  /\ UNCHANGED suspect

\* sflash_disk_write, for one sector
DiskWrite(s, v) ==
  /\ Evict(s)
  /\ sflash_block_cache' = [Cached(s) EXCEPT ![Secindex(s)] = v]
  /\ sflash_cache_is_dirty' = TRUE
  /\ res' = [code |-> "RES_OK"]
  /\ UNCHANGED suspect

\* Either call on a miss: the write-back fails, or the read of the block does, which leaves
\* its address beside whatever the cache then holds.
CallFails(s) ==
  /\ ~Hit(s)
  /\ res' = [code |-> "RES_ERROR"]
  /\ \/ FlushFails
     \/ /\ Evict(s)
        /\ sflash_block_cache' \in [Offsets -> Contents]
        /\ sflash_cache_is_dirty' = FALSE
        /\ suspect' = suspect \cup {Block(s)}

\* sflash_disk_flush: pyb_flash_ioctl drops its result, and so do the calls out of range.
DiskFlush ==
  /\ res' \in {[code |-> "RES_OK"], [code |-> "RES_PARERR"]}
  /\ \/ FlushFails
     \/ /\ flash' = WrittenBack(sflash_prev_block_addr)
        /\ sflash_cache_is_dirty' = FALSE
        /\ UNCHANGED <<sflash_block_cache, sflash_prev_block_addr, suspect>>

\* The power goes, perhaps in the middle of a write-back, and the disk is initialised again.
PowerLoss ==
  /\ flash' \in IF Dirty THEN Torn ELSE {flash}
  /\ sflash_block_cache' \in [Offsets -> Contents]
  /\ sflash_cache_is_dirty' = FALSE
  /\ sflash_prev_block_addr' = NoBlock
  /\ res' = [code |-> "RES_OK"]
  /\ UNCHANGED suspect

DiskNext ==
  \/ \E s \in Sectors : DiskRead(s) \/ CallFails(s) \/ \E v \in Contents : DiskWrite(s, v)
  \/ DiskFlush \/ PowerLoss

DiskSpec == DiskInit /\ [][DiskNext]_diskVars

-----------------------------------------------------------------------------
\* Type invariant of the driver's statics.
DiskTypeOK ==
  /\ flash \in [Sectors -> Contents]
  /\ sflash_block_cache \in [Offsets -> Contents]
  /\ sflash_cache_is_dirty \in BOOLEAN
  /\ sflash_prev_block_addr \in 0 .. BlockCount - 1 \cup {NoBlock}
  /\ Dirty => sflash_prev_block_addr # NoBlock
  /\ suspect \subseteq 0 .. BlockCount - 1

\* A clean cache holds what the flash has for its block, so that leaving it costs nothing.
CleanIsSaved ==
  \A s \in Sectors : Hit(s) /\ ~Dirty /\ Block(s) \notin suspect =>
                       sflash_block_cache[Secindex(s)] = flash[s]

\* What a sector reads as.
View == [s \in Sectors |-> IF Hit(s) THEN sflash_block_cache[Secindex(s)] ELSE flash[s]]

FlashDisk == INSTANCE Disk WITH
  disk <- View,
  unsaved <- IF Dirty THEN {sflash_prev_block_addr} ELSE {},
  BlockOf <- [s \in Sectors |-> Block(s)]

\* sflash_disk_read returns what sflash_disk_write was last given, through write-backs that
\* fail and are repeated; a power loss at any point costs at most one block, the last one
\* written; a failed flash read spoils no block but its own.
ImplementsDisk == FlashDisk!Spec
=============================================================================
