------------------------------ MODULE PartsProofs ------------------------------
(***************************************************************************)
(* Proofs about the parts below the servers and the file system, which      *)
(* share no state: the erase-ahead of UpdaterFlash for every sector size,   *)
(* slot size and sequence of pieces; the block                              *)
(* cache of SflashDisk as a refinement of a disk that has none, for every   *)
(* size; the ring buffer of Fifo as a refinement of a queue, for every      *)
(* size; the working directory of FtpPath, for parameters and paths of any  *)
(* length.                                                                  *)
(***************************************************************************)
EXTENDS UpdaterFlash, SflashDisk, Fifo, FtpPath, SequenceTheorems, WellFoundedInduction, TLAPS

(* The flash writer of the updater. *)

\* Division by the sector size of an address given as sector and position in it.
LEMMA SectorOf ==
  ASSUME NEW q \in Nat, NEW r \in 0 .. SecSize - 1
  PROVE  Sector(q * SecSize + r) = q
  <1> DEFINE n == q * SecSize + r
             d == n \div SecSize
             e == n % SecSize
  <1>1. q * SecSize \in Nat /\ n \in Nat
    BY FlashConstants
  <1>2. d \in Nat /\ e \in 0 .. SecSize - 1 /\ n = d * SecSize + e
    BY <1>1, FlashConstants
  <1>3. ASSUME d < q PROVE FALSE
    <2>1. q = d + 1 + (q - d - 1) /\ q - d - 1 \in Nat
      BY <1>2, <1>3
    <2>2. q * SecSize = d * SecSize + SecSize + (q - d - 1) * SecSize
      BY <2>1, <1>2, FlashConstants
    <2>3. (q - d - 1) * SecSize >= 0
      BY <2>1, FlashConstants
    <2> QED BY <2>2, <2>3, <1>2, FlashConstants
  <1>4. ASSUME d > q PROVE FALSE
    <2>1. d = q + 1 + (d - q - 1) /\ d - q - 1 \in Nat
      BY <1>2, <1>4
    <2>2. d * SecSize = q * SecSize + SecSize + (d - q - 1) * SecSize
      BY <2>1, <1>2, FlashConstants
    <2>3. (d - q - 1) * SecSize >= 0
      BY <2>1, FlashConstants
    <2> QED BY <2>2, <2>3, <1>2, FlashConstants
  <1> QED BY <1>2, <1>3, <1>4 DEF Sector

-----------------------------------------------------------------------------
\* The image's data ends current_chunk bytes into sector k; sectors up to k + 1 have
\* been erased, and nothing has been programmed behind the data since.
Ahead(k) ==
  /\ offset = k * SecSize + current_chunk
  /\ erased = 0 .. k + 1
  /\ \A b \in dirty : b < offset \/ b >= (k + 2) * SecSize

\* The inductive invariant.  A failed call, or a piece longer than a sector, ends the promise
\* until the next updater_start.
FlashInv ==
  /\ TypeOK
  /\ update = "open" /\ ~long =>
       ~overwritten /\ current_chunk < SecSize /\ \E k \in Nat : Ahead(k)

LEMMA InitFlashInv == Init => FlashInv
  <1> SUFFICES ASSUME Init PROVE FlashInv
    OBVIOUS
  <1>1. long \in BOOLEAN
    BY Zenon DEF Init
  <1>2. offset \in 0 .. MaxOffset /\ current_chunk \in Nat /\ size \in Nat /\ stored \in Nat
    BY FlashConstants DEF Init
  <1>3. dirty \subseteq Flash /\ update = "no"
    BY DEF Init
  <1> QED BY Zenon, <1>1, <1>2, <1>3 DEF FlashInv, TypeOK

\* The bytes of sector k are those from its start to the start of the next.
LEMMA SectorBytes ==
  ASSUME NEW k \in Nat
  PROVE  /\ k * SecSize \in Nat
         /\ (k + 1) * SecSize = k * SecSize + SecSize
         /\ (k + 2) * SecSize = k * SecSize + 2 * SecSize
         /\ (k + 3) * SecSize = k * SecSize + 3 * SecSize
         /\ \A b \in Nat : b \in Bytes(k) <=> b >= k * SecSize /\ b < k * SecSize + SecSize
  BY FlashConstants DEF Bytes

LEMMA StartFlashInv == FlashInv /\ Start => FlashInv'
  <1> SUFFICES ASSUME FlashInv, Start PROVE FlashInv'
    OBVIOUS
  <1>1. TypeOK'
    <2>1. long' \in BOOLEAN
      BY Zenon DEF Start
    <2>2. offset' \in 0 .. MaxOffset /\ current_chunk' \in Nat /\ size' \in Nat /\ stored' \in Nat
      BY FlashConstants DEF FlashInv, TypeOK, Start
    <2>3. dirty' \subseteq Flash /\ update' = "open"
      BY DEF FlashInv, TypeOK, Start
    <2> QED BY Zenon, <2>1, <2>2, <2>3 DEF TypeOK
  <1>2. Ahead(0)'
    <2>1. offset' = 0 * SecSize + current_chunk' /\ erased' = 0 .. 0 + 1
      BY FlashConstants DEF Start
    <2>2. ASSUME NEW b \in dirty' PROVE b < offset' \/ b >= (0 + 2) * SecSize
      <3>1. b \in Nat /\ b \notin Bytes(0) /\ b \notin Bytes(1)
        BY DEF Start, FlashInv, TypeOK, Flash
      <3> QED BY <3>1, FlashConstants DEF Bytes
    <2> QED BY <2>1, <2>2 DEF Ahead
  <1>3. ~overwritten' /\ current_chunk' < SecSize
    BY FlashConstants DEF Start
  <1> QED BY <1>1, <1>2, <1>3 DEF FlashInv

LEMMA WriteFlashInv == ASSUME NEW len \in 0 .. MaxWrite PROVE FlashInv /\ Write(len) => FlashInv'
  <1> SUFFICES ASSUME FlashInv, Write(len) PROVE FlashInv'
    OBVIOUS
  <1> DEFINE piece == offset .. offset + len - 1
  <1>0. len \in Nat /\ SecSize \in Nat \ {0} /\ MaxOffset \in Nat
    BY FlashConstants
  <1>1. offset \in Nat /\ offset' = offset + len /\ offset' <= MaxOffset /\ size' = size + len
    BY <1>0 DEF FlashInv, TypeOK, Write, Programs
  <1>2. TypeOK'
    <2>1. current_chunk' \in Nat
      BY <1>0 DEF FlashInv, TypeOK, Write
    <2>2. piece \subseteq Flash
      BY <1>0, <1>1 DEF Flash
    <2>3. dirty' \subseteq Flash
      BY <2>2 DEF FlashInv, TypeOK, Write
    <2>4. long' \in BOOLEAN
      BY DEF Write, Programs
    <2>5. offset' \in 0 .. MaxOffset /\ size' \in Nat /\ stored' \in Nat
      BY <1>0, <1>1 DEF FlashInv, TypeOK, Write
    <2>6. update' \in {"no", "open", "failed"}
      BY DEF FlashInv, TypeOK, Write
    <2> QED BY Zenon, <2>1, <2>3, <2>4, <2>5, <2>6 DEF TypeOK
  <1>3. ASSUME update' = "open", ~long'
        PROVE  ~overwritten' /\ current_chunk' < SecSize /\ \E k \in Nat : Ahead(k)'
    <2>0. update = "open" /\ ~long /\ ~(len > SecSize)
      BY Zenon, <1>3 DEF Write, Programs
    <2>1. update = "open" /\ ~long /\ len <= SecSize
      BY <1>0, <2>0
    <2>2. PICK k \in Nat : Ahead(k)
      BY <2>1 DEF FlashInv
    <2>3. current_chunk \in Nat /\ current_chunk < SecSize /\ dirty \subseteq Nat
      BY <1>0, <2>1 DEF FlashInv, TypeOK, Flash
    <2>4. offset + len <= (k + 2) * SecSize /\ offset = k * SecSize + current_chunk
      BY <1>0, <2>1, <2>2, <2>3, SectorBytes DEF Ahead
    <2>5. dirty \cap piece = {}
      <3> SUFFICES ASSUME NEW b \in dirty, b \in piece PROVE FALSE
        OBVIOUS
      <3>1. b >= offset /\ b < offset + len /\ b \in Nat
        BY <2>3, <1>0, <1>1
      <3>2. b < offset \/ b >= (k + 2) * SecSize
        BY <2>2 DEF Ahead
      <3>3. (k + 2) * SecSize \in Nat
        BY SectorBytes, <1>0
      <3> QED BY <3>1, <3>2, <3>3, <2>4, <1>0, <1>1
    <2>6. ~overwritten'
      BY Zenon, <2>1, <2>5 DEF Write, Programs, FlashInv
    <2>7. CASE current_chunk + len < SecSize
      <3>1. /\ ~(current_chunk + len >= SecSize)
            /\ current_chunk' = current_chunk + len
            /\ dirty' = dirty \cup piece
            /\ erased' = erased
        BY <2>7, <2>3, <1>0 DEF Write
      <3>2. offset' = k * SecSize + current_chunk' /\ erased' = 0 .. k + 1
        BY SMTT(30), <3>1, <2>2, <2>3, <2>4, <1>0, <1>1, SectorBytes DEF Ahead
      <3>3. ASSUME NEW b \in dirty' PROVE b < offset' \/ b >= (k + 2) * SecSize
        BY <3>1, <2>2, <2>3, <1>0, <1>1 DEF Ahead
      <3> QED BY <3>1, <3>2, <3>3, <2>3, <2>6, <2>7 DEF Ahead
    <2>8. CASE current_chunk + len >= SecSize
      <3> DEFINE over == current_chunk + len - SecSize
      <3>1. over \in 0 .. SecSize - 1 /\ offset' = (k + 1) * SecSize + over
        BY <2>8, <2>1, <2>3, <2>4, <1>0, <1>1, SectorBytes
      <3>2. offset' + SecSize = (k + 2) * SecSize + over
        BY <3>1, <1>0, SectorBytes
      <3>3. Sector(offset' + SecSize) = k + 2
        <4>1. k + 2 \in Nat
          OBVIOUS
        <4> QED BY <3>1, <3>2, <4>1, SectorOf
      <3>4. /\ current_chunk' = over
            /\ dirty' = (dirty \cup piece) \ Bytes(k + 2)
            /\ erased' = erased \cup {k + 2}
        BY <2>8, <3>3 DEF Write
      <3>5. erased' = 0 .. (k + 1) + 1
        BY <3>4, <2>2 DEF Ahead
      <3>6. ASSUME NEW b \in dirty' PROVE b < offset' \/ b >= ((k + 1) + 2) * SecSize
        <4>1. b \in Nat /\ b \notin Bytes(k + 2) /\ (b \in dirty \/ b \in piece)
          BY <3>4, <2>3, <1>0, <1>1
        <4>2. CASE b \in piece
          BY <4>2, <1>0, <1>1
        <4>3. CASE b \in dirty
          <5>1. b < offset \/ b >= (k + 2) * SecSize
            BY <4>3, <2>2 DEF Ahead
          <5>2. k + 2 \in Nat /\ ~(b >= (k + 2) * SecSize /\ b < (k + 2) * SecSize + SecSize)
            BY <4>1, SectorBytes
          <5>3. ((k + 1) + 2) * SecSize = (k + 2) * SecSize + SecSize /\ (k + 2) * SecSize \in Nat
            BY SectorBytes, <1>0
          <5> QED BY <5>1, <5>2, <5>3, <4>1, <1>0, <1>1
        <4> QED BY <4>1, <4>2, <4>3
      <3>7. k + 1 \in Nat /\ Ahead(k + 1)'
        BY <3>1, <3>4, <3>5, <3>6 DEF Ahead
      <3>8. current_chunk' < SecSize
        BY <3>1, <3>4, <1>0
      <3> QED BY <3>7, <3>8, <2>6
    <2> QED BY <2>7, <2>8, <2>3, <1>0
  <1> QED BY <1>2, <1>3 DEF FlashInv

\* The other calls: an error ends the promise, and the rest leave the data alone.
LEMMA OthersFlashInv ==
  /\ FlashInv /\ (\E n \in {0, 1} : StartFails(n)) => FlashInv'
  /\ FlashInv /\ (WriteFails \/ Finish \/ OtaSlot \/ UNCHANGED vars) => FlashInv'
  /\ FlashInv /\ (\E len \in 0 .. MaxWrite : EraseFails(len)) => FlashInv'
  <1>1. ASSUME FlashInv, NEW n \in {0, 1}, StartFails(n) PROVE FlashInv'
    <2>1. long' \in BOOLEAN
      BY Zenon, <1>1 DEF StartFails
    <2>2. offset' \in 0 .. MaxOffset /\ current_chunk' \in Nat /\ size' \in Nat /\ stored' \in Nat
      BY <1>1, FlashConstants DEF FlashInv, TypeOK, StartFails
    <2>3. dirty' \subseteq Flash /\ update' = "failed"
      BY <1>1 DEF FlashInv, TypeOK, StartFails
    <2> QED BY Zenon, <2>1, <2>2, <2>3 DEF FlashInv, TypeOK
  <1>2. ASSUME FlashInv, WriteFails PROVE FlashInv'
    BY <1>2 DEF FlashInv, TypeOK, WriteFails
  <1>3. ASSUME FlashInv, Finish PROVE FlashInv'
    BY <1>3, FlashConstants DEF FlashInv, TypeOK, Finish
  <1>4. ASSUME FlashInv, OtaSlot \/ UNCHANGED vars PROVE FlashInv'
    <2>1. TypeOK'
      BY <1>4 DEF FlashInv, TypeOK, OtaSlot, vars
    <2>2. ASSUME NEW k \in Nat, Ahead(k) PROVE Ahead(k)'
      BY <1>4, <2>2 DEF Ahead, OtaSlot, vars
    <2> QED BY <1>4, <2>1, <2>2 DEF FlashInv, OtaSlot, vars
  <1>5. ASSUME FlashInv, NEW len \in 0 .. MaxWrite, EraseFails(len) PROVE FlashInv'
    <2>1. /\ len \in Nat /\ SecSize \in Nat \ {0} /\ MaxOffset \in Nat
          /\ offset \in Nat /\ size \in Nat /\ offset + len <= MaxOffset
      BY <1>5, FlashConstants DEF FlashInv, TypeOK, EraseFails, Programs
    <2>2. dirty' \subseteq Flash
      BY <1>5, <2>1 DEF FlashInv, TypeOK, EraseFails, Flash
    <2>3. current_chunk' \in Nat /\ long' \in BOOLEAN
      BY <1>5, <2>1 DEF FlashInv, TypeOK, EraseFails, Programs
    <2>4. offset' \in 0 .. MaxOffset /\ size' \in Nat
      BY <1>5, <2>1 DEF EraseFails, Programs
    <2> QED BY <1>5, <2>2, <2>3, <2>4 DEF FlashInv, TypeOK, EraseFails
  <1> QED BY <1>1, <1>2, <1>3, <1>4, <1>5

LEMMA NextFlashInv == FlashInv /\ [Next]_vars => FlashInv'
  BY StartFlashInv, WriteFlashInv, OthersFlashInv DEF Next

LEMMA AlwaysFlashInv == Spec => []FlashInv
  BY InitFlashInv, NextFlashInv, PTL DEF Spec

\* For every sector size, and pieces of any lengths up to a sector, an update whose calls
\* all succeeded has programmed only erased bytes, and has erased exactly the sectors of
\* the image and one more (updater_start and updater_write).
THEOREM EraseAhead == Spec => [](LandsOnErased /\ ErasesAhead)
  <1>1. FlashInv => LandsOnErased /\ ErasesAhead
    <2> SUFFICES ASSUME FlashInv, update = "open", ~long PROVE ~overwritten /\ erased = 0 .. Sector(offset) + 1
      BY DEF LandsOnErased, ErasesAhead
    <2>1. PICK k \in Nat : Ahead(k)
      BY DEF FlashInv
    <2>2. current_chunk \in 0 .. SecSize - 1
      BY FlashConstants DEF FlashInv, TypeOK
    <2>3. Sector(offset) = k
      BY <2>1, <2>2, SectorOf DEF Ahead
    <2> QED BY <2>1, <2>3 DEF Ahead, FlashInv
  <1> QED BY <1>1, AlwaysFlashInv, PTL

\* The type invariant: the updater programs and erases only the flash that the bound covers.
THEOREM FlashTypeCorrect == Spec => []TypeOK
  BY AlwaysFlashInv, PTL DEF FlashInv

-----------------------------------------------------------------------------
\* What an update has erased starts no more than a sector behind the image.
NearImage == update # "no" => erased \subseteq Nat /\ \A s \in erased : s * SecSize <= offset + SecSize

LEMMA NextNearImage == FlashInv /\ NearImage /\ [Next]_vars => NearImage'
  <1> SUFFICES ASSUME FlashInv, NearImage, [Next]_vars PROVE NearImage'
    OBVIOUS
  <1>0. SecSize \in Nat \ {0} /\ offset \in Nat
    BY FlashConstants DEF FlashInv, TypeOK
  <1>1. CASE Start
    BY <1>0, <1>1 DEF Start, NearImage
  <1>2. CASE \E n \in {0, 1} : StartFails(n)
    BY <1>0, <1>2 DEF StartFails, NearImage
  <1>3. ASSUME NEW len \in 0 .. MaxWrite, Write(len) \/ EraseFails(len) PROVE NearImage'
    <2> DEFINE next == Sector(offset' + SecSize)
    <2>1. len \in Nat /\ offset' = offset + len /\ update # "no"
      BY <1>3, FlashConstants DEF Write, EraseFails, Programs
    <2>2. next \in Nat /\ next * SecSize <= offset' + SecSize
      BY <1>0, <2>1 DEF Sector
    <2>3. erased' \subseteq erased \cup {next}
      BY Zenon, <1>3 DEF Write, EraseFails
    <2>4. ASSUME NEW s \in erased' PROVE s \in Nat /\ s * SecSize <= offset' + SecSize
      <3>1. CASE s = next
        BY <3>1, <2>2
      <3>2. CASE s \in erased
        <4>1. s \in Nat /\ s * SecSize <= offset + SecSize
          BY <3>2, <2>1 DEF NearImage
        <4>2. s * SecSize \in Nat
          BY <4>1, <1>0
        <4> HIDE DEF next
        <4> QED BY <4>1, <4>2, <2>1, <1>0
      <3> QED BY <3>1, <3>2, <2>3
    <2> QED BY <2>4 DEF NearImage
  <1>4. CASE WriteFails \/ Finish \/ OtaSlot \/ UNCHANGED vars
    BY <1>4 DEF WriteFails, Finish, OtaSlot, vars, NearImage
  <1> QED BY <1>1, <1>2, <1>3, <1>4 DEF Next

\* A sector that starts before the slot's end is one of the slot's.
LEMMA SectorInSlot ==
  ASSUME NEW s \in Nat, s * SecSize < SlotSectors * SecSize
  PROVE  s < SlotSectors
  <1>1. SecSize \in Nat \ {0} /\ SlotSectors \in Nat
    BY FlashConstants
  <1>2. ASSUME s >= SlotSectors PROVE FALSE
    <2>1. s = SlotSectors + (s - SlotSectors) /\ s - SlotSectors \in Nat
      BY <1>1, <1>2
    <2>2. s * SecSize = SlotSectors * SecSize + (s - SlotSectors) * SecSize
      BY <2>1, <1>1
    <2>3. (s - SlotSectors) * SecSize >= 0 /\ SlotSectors * SecSize \in Nat
      BY <2>1, <1>1
    <2> QED BY <2>2, <2>3, <1>1
  <1> QED BY <1>1, <1>2

\* Whatever the pieces, and even when calls fail and are made again, updater_write erases
\* what follows the slot only for an image that has reached the slot's last sector.
THEOREM StaysInSlot == Spec => []ErasesOwnSlot
  <1>1. Init => NearImage
    BY DEF Init, NearImage
  <1>2. FlashInv /\ NearImage => ErasesOwnSlot
    <2> SUFFICES ASSUME FlashInv, NearImage, update # "no",
                        offset < (SlotSectors - 1) * SecSize, NEW s \in erased
                 PROVE  s < SlotSectors
      BY DEF ErasesOwnSlot
    <2>1. /\ SecSize \in Nat \ {0} /\ SlotSectors \in Nat /\ SlotSectors >= 2
          /\ offset \in Nat /\ s \in Nat /\ s * SecSize <= offset + SecSize
      BY FlashConstants DEF FlashInv, TypeOK, NearImage
    <2>2. /\ (SlotSectors - 1) * SecSize \in Nat /\ s * SecSize \in Nat
          /\ SlotSectors * SecSize = (SlotSectors - 1) * SecSize + SecSize
      BY <2>1
    <2>3. s * SecSize < SlotSectors * SecSize
      BY <2>1, <2>2
    <2> QED BY <2>1, <2>3, SectorInSlot
  <1> QED BY <1>1, <1>2, AlwaysFlashInv, NextNearImage, PTL DEF Spec

\* Both at once: the erase-ahead of updater_write is in time and inside the slot.
THEOREM ErasedAheadInSlot == Spec => []ErasedInSlot
  BY EraseAhead, StaysInSlot, PTL DEF ErasedInSlot

-----------------------------------------------------------------------------
(* The flash disk. *)

CacheInv == DiskTypeOK /\ CleanIsSaved

Blocks == 0 .. BlockCount - 1

\* A sector is a position in a block.
LEMMA Division ==
  ASSUME NEW s \in Sectors
  PROVE  /\ Block(s) \in Blocks
         /\ Secindex(s) \in Offsets
         /\ s = Block(s) * PerBlock + Secindex(s)
  <1> DEFINE d == s \div PerBlock
             e == s % PerBlock
  <1>1. BlockCount * PerBlock \in Nat /\ s \in Nat /\ s < BlockCount * PerBlock
    BY DiskConstants DEF Sectors
  <1>2. d \in Nat /\ e \in 0 .. PerBlock - 1 /\ s = d * PerBlock + e
    BY <1>1, DiskConstants
  <1>3. ASSUME d >= BlockCount PROVE FALSE
    <2>1. d = BlockCount + (d - BlockCount) /\ d - BlockCount \in Nat
      BY <1>2, <1>3, DiskConstants
    <2>2. d * PerBlock = BlockCount * PerBlock + (d - BlockCount) * PerBlock
      BY <2>1, DiskConstants
    <2>3. (d - BlockCount) * PerBlock >= 0
      BY <2>1, DiskConstants
    <2> QED BY <2>2, <2>3, <1>1, <1>2, DiskConstants
  <1> QED BY <1>2, <1>3, DiskConstants DEF Block, Secindex, Blocks, Offsets

\* A position in a block is a sector.
LEMMA PositionIsSector ==
  ASSUME NEW b \in Blocks, NEW i \in Offsets
  PROVE  b * PerBlock + i \in Sectors
  <1>1. /\ b * PerBlock \in Nat /\ (BlockCount - 1 - b) * PerBlock \in Nat
        /\ BlockCount * PerBlock = b * PerBlock + (BlockCount - 1 - b) * PerBlock + PerBlock
    BY DiskConstants DEF Blocks
  <1> QED BY <1>1, DiskConstants DEF Sectors, Offsets

\* On a hit and on a miss the cache is filled with what its block reads as.
LEMMA CachedReads ==
  ASSUME DiskTypeOK, NEW s \in Sectors
  PROVE  /\ Cached(s) \in [Offsets -> Contents]
         /\ \A t \in Sectors : Block(t) = Block(s) => Cached(s)[Secindex(t)] = View[t]
  <1>1. CASE Hit(s)
    BY <1>1 DEF Cached, Hit, View, DiskTypeOK
  <1>2. CASE ~Hit(s)
    <2>1. Cached(s) = [i \in Offsets |-> flash[Block(s) * PerBlock + i]]
      BY <1>2 DEF Cached
    <2>2. Cached(s) \in [Offsets -> Contents]
      BY <2>1, PositionIsSector, Division DEF DiskTypeOK
    <2>3. ASSUME NEW t \in Sectors, Block(t) = Block(s)
          PROVE  Cached(s)[Secindex(t)] = View[t]
      <3>1. Cached(s)[Secindex(t)] = flash[t]
        BY <2>1, <2>3, Division
      <3> QED BY <3>1, <2>3, <1>2 DEF View, Hit
    <2> QED BY <2>2, <2>3
  <1> QED BY <1>1, <1>2

\* Leaving a block loses nothing, and leaves the flash of the block gone to as it was.
LEMMA EvictKeeps ==
  ASSUME CacheInv, NEW s \in Sectors, Evict(s)
  PROVE  /\ flash' \in [Sectors -> Contents]
         /\ \A t \in Sectors : Block(t) # Block(s) /\ Block(t) \notin suspect => flash'[t] = View[t]
         /\ \A t \in Sectors : Block(t) = Block(s) => flash'[t] = flash[t]
  <1>1. CASE Hit(s)
    BY <1>1 DEF Evict, Hit, View, CacheInv, DiskTypeOK
  <1>2. CASE ~Hit(s)
    <2>1. flash' = WrittenBack(sflash_prev_block_addr)
      BY <1>2 DEF Evict
    <2>2. \A t \in Sectors : sflash_block_cache[Secindex(t)] \in Contents /\ flash[t] \in Contents
      BY Division DEF CacheInv, DiskTypeOK
    <2>3. \A t \in Sectors : flash'[t] = IF Dirty /\ Block(t) = sflash_prev_block_addr
                                         THEN sflash_block_cache[Secindex(t)] ELSE flash[t]
      BY <2>1 DEF WrittenBack
    <2>4. flash' \in [Sectors -> Contents]
      BY <2>1, <2>2 DEF WrittenBack
    <2>5. ASSUME NEW t \in Sectors, Block(t) # Block(s), Block(t) \notin suspect
          PROVE  flash'[t] = View[t]
      BY <2>3, <2>5 DEF View, Hit, CacheInv, CleanIsSaved
    <2> QED BY <2>3, <2>4, <2>5, <1>2 DEF Hit
  <1> QED BY <1>1, <1>2

\* A write-back that does not complete changes the flash of the cached block only.
LEMMA TornKeeps ==
  ASSUME DiskTypeOK, NEW f \in Torn
  PROVE  /\ f \in [Sectors -> Contents]
         /\ \A t \in Sectors : ~Hit(t) => f[t] = flash[t]
  <1>1. PICK left \in [Offsets -> Contents] :
          f = [s \in Sectors |-> IF Block(s) = sflash_prev_block_addr
                                 THEN left[Secindex(s)] ELSE flash[s]]
    BY DEF Torn
  <1> QED BY <1>1, Division DEF Hit, DiskTypeOK

\* A completed write-back without a change of block changes nothing that can be read.
LEMMA FlushKeeps ==
  ASSUME CacheInv
  PROVE  /\ WrittenBack(sflash_prev_block_addr) \in [Sectors -> Contents]
         /\ \A t \in Sectors : ~Hit(t) => WrittenBack(sflash_prev_block_addr)[t] = flash[t]
         /\ \A t \in Sectors : Hit(t) /\ Block(t) \notin suspect =>
               WrittenBack(sflash_prev_block_addr)[t] = sflash_block_cache[Secindex(t)]
  <1>1. \A t \in Sectors : sflash_block_cache[Secindex(t)] \in Contents /\ flash[t] \in Contents
    BY Division DEF CacheInv, DiskTypeOK
  <1>2. WrittenBack(sflash_prev_block_addr) \in [Sectors -> Contents]
    BY <1>1 DEF WrittenBack
  <1>3. \A t \in Sectors : WrittenBack(sflash_prev_block_addr)[t] =
           IF Dirty /\ Hit(t) THEN sflash_block_cache[Secindex(t)] ELSE flash[t]
    BY DEF WrittenBack, Hit
  <1> QED BY <1>2, <1>3 DEF CacheInv, CleanIsSaved
-----------------------------------------------------------------------------
\* The empty cache is in order.
LEMMA InitCache == DiskInit => CacheInv
  <1> SUFFICES ASSUME DiskInit PROVE CacheInv
    OBVIOUS
  <1>1. DiskTypeOK
    BY ZenonT(30) DEF DiskInit, DiskTypeOK, Dirty
  <1>2. \A t \in Sectors : ~Hit(t)
    BY SMTT(30), Division, DiskConstants DEF DiskInit, Hit, NoBlock, Blocks
  <1> QED BY <1>1, <1>2 DEF CacheInv, CleanIsSaved

\* sflash_disk_read keeps the invariant.
LEMMA ReadInv ==
  ASSUME CacheInv, NEW s \in Sectors, DiskRead(s)
  PROVE  CacheInv'
  <1>1. Evict(s)
    BY DEF DiskRead
  <1>2. DiskTypeOK'
    BY SMTT(30), <1>1, EvictKeeps, CachedReads, Division
    DEF DiskRead, Evict, CacheInv, DiskTypeOK, Dirty, Blocks, NoBlock
  <1>3. ASSUME NEW t \in Sectors, Hit(t)', ~Dirty', Block(t) \notin suspect'
        PROVE  sflash_block_cache'[Secindex(t)] = flash'[t]
    <2>1. Block(t) = Block(s) /\ ~(Dirty /\ Hit(s)) /\ Block(t) \notin suspect
      BY Zenon, <1>3 DEF DiskRead, Evict, Hit, Dirty
    <2>2. sflash_block_cache'[Secindex(t)] = View[t] /\ flash'[t] = flash[t]
      BY Zenon, <1>1, <2>1, CachedReads, EvictKeeps DEF DiskRead, CacheInv
    <2> QED BY Zenon, <2>1, <2>2 DEF View, Hit, CacheInv, CleanIsSaved
  <1> QED BY <1>2, <1>3 DEF CacheInv, CleanIsSaved

\* sflash_disk_write keeps it: the cache is dirty.
LEMMA WriteInv ==
  ASSUME CacheInv, NEW s \in Sectors, NEW v \in Contents, DiskWrite(s, v)
  PROVE  CacheInv'
  <1>1. Evict(s)
    BY DEF DiskWrite
  <1>2. DiskTypeOK'
    BY <1>1, EvictKeeps, CachedReads, Division
    DEF DiskWrite, Evict, CacheInv, DiskTypeOK, Dirty, Blocks, NoBlock
  <1> QED BY Zenon, <1>2 DEF CacheInv, CleanIsSaved, DiskWrite, Dirty

\* A failed write-back keeps it: the cache stays dirty.
LEMMA FlushFailsInv ==
  ASSUME CacheInv, FlushFails
  PROVE  CacheInv'
  BY TornKeeps DEF FlushFails, CacheInv, DiskTypeOK, CleanIsSaved, Dirty

\* A failed call keeps it: the block whose read failed is suspect.
LEMMA FailInv ==
  ASSUME CacheInv, NEW s \in Sectors, CallFails(s)
  PROVE  CacheInv'
  <1>1. CASE FlushFails
    BY <1>1, FlushFailsInv
  <1>2. CASE ~FlushFails
    <2>1. /\ Evict(s) /\ sflash_block_cache' \in [Offsets -> Contents]
          /\ sflash_cache_is_dirty' = FALSE /\ suspect' = suspect \cup {Block(s)}
      BY <1>2 DEF CallFails
    <2>2. /\ sflash_prev_block_addr' \in 0 .. BlockCount - 1
          /\ suspect' \subseteq 0 .. BlockCount - 1
      <3>1. Block(s) \in 0 .. BlockCount - 1 /\ suspect \subseteq 0 .. BlockCount - 1
        BY Division DEF Blocks, CacheInv, DiskTypeOK
      <3> QED BY Zenon, <3>1, <2>1 DEF Evict
    <2>3. DiskTypeOK'
      BY Zenon, <2>1, <2>2, EvictKeeps DEF DiskTypeOK, Dirty
    <2>4. \A t \in Sectors : Hit(t)' => Block(t) \in suspect'
      BY <2>1 DEF Hit, Evict
    <2>5. CleanIsSaved'
      BY Zenon, <2>4 DEF CleanIsSaved
    <2> QED BY <2>3, <2>5 DEF CacheInv
  <1> QED BY <1>1, <1>2

\* sflash_disk_flush keeps it.
LEMMA FlushInv ==
  ASSUME CacheInv, DiskFlush
  PROVE  CacheInv'
  <1>1. CASE FlushFails
    BY <1>1, FlushFailsInv
  <1>2. CASE ~FlushFails
    <2>1. /\ flash' = WrittenBack(sflash_prev_block_addr) /\ sflash_cache_is_dirty' = FALSE
          /\ UNCHANGED <<sflash_block_cache, sflash_prev_block_addr, suspect>>
      BY <1>2 DEF DiskFlush
    <2>2. DiskTypeOK'
      BY Zenon, <2>1, FlushKeeps DEF CacheInv, DiskTypeOK, Dirty
    <2>3. CleanIsSaved'
      BY <2>1, FlushKeeps DEF CleanIsSaved, Hit
    <2> QED BY <2>2, <2>3 DEF CacheInv
  <1> QED BY <1>1, <1>2

\* A power loss empties the cache.
LEMMA PowerLossInv ==
  ASSUME CacheInv, PowerLoss
  PROVE  CacheInv'
  <1>1. flash' \in [Sectors -> Contents]
    BY TornKeeps DEF PowerLoss, CacheInv, DiskTypeOK
  <1>2. \A t \in Sectors : ~Hit(t)'
    BY Division, DiskConstants DEF PowerLoss, Hit, NoBlock, Blocks
  <1> QED BY Zenon, <1>1, <1>2 DEF PowerLoss, CacheInv, DiskTypeOK, CleanIsSaved, Dirty

\* CacheInv is inductive.
LEMMA StepInv == CacheInv /\ [DiskNext]_diskVars => CacheInv'
  <1> SUFFICES ASSUME CacheInv, [DiskNext]_diskVars PROVE CacheInv'
    OBVIOUS
  <1>1. CASE UNCHANGED diskVars
    BY <1>1 DEF diskVars, CacheInv, DiskTypeOK, CleanIsSaved, Hit, Dirty
  <1>2. CASE DiskNext
    BY <1>2, ReadInv, WriteInv, FailInv, FlushInv, PowerLossInv DEF DiskNext
  <1> QED BY <1>1, <1>2

\* A clean cache of sflash_diskio.c always holds what the flash has for its block, unless a
\* flash read of that block has failed: leaving it without a write-back loses nothing.
THEOREM CacheCoherent == DiskSpec => []CleanIsSaved
  BY InitCache, StepInv, PTL DEF DiskSpec, CacheInv

-----------------------------------------------------------------------------
\* After a change of block, the sectors elsewhere read as before, and those of the new block
\* as the cache has them.
LEMMA EvictView ==
  ASSUME CacheInv, NEW s \in Sectors, Evict(s)
  PROVE  /\ \A t \in Sectors : Block(t) # Block(s) /\ Block(t) \notin suspect => View'[t] = View[t]
         /\ \A t \in Sectors : Block(t) = Block(s) => View'[t] = sflash_block_cache'[Secindex(t)]
  <1>1. \A t \in Sectors : Hit(t)' <=> Block(t) = Block(s)
    BY DEF Evict, Hit
  <1>2. \A t \in Sectors : View'[t] = IF Block(t) = Block(s) THEN sflash_block_cache'[Secindex(t)]
                                                             ELSE flash'[t]
    BY <1>1 DEF View
  <1> QED BY Zenon, <1>2, EvictKeeps

\* A write-back, completed or not, changes nothing that can be read.
LEMMA FlushView ==
  ASSUME CacheInv, UNCHANGED <<sflash_block_cache, sflash_prev_block_addr>>,
         \A t \in Sectors : ~Hit(t) => flash'[t] = flash[t]
  PROVE  \A t \in Sectors : View'[t] = View[t]
  BY DEF View, Hit

\* sflash_disk_read returns what the sector reads as.
LEMMA ReadImplements ==
  ASSUME CacheInv, NEW s \in Sectors, DiskRead(s)
  PROVE  FlashDisk!Read(s)
  <1>1. Evict(s) /\ sflash_block_cache' = Cached(s) /\ suspect' = suspect
    BY DEF DiskRead
  <1>2. \A t \in Sectors : Block(t) \notin suspect' => View'[t] = View[t]
    BY Zenon, <1>1, EvictView, CachedReads DEF CacheInv
  <1>3. res' = [code |-> "RES_OK", data |-> View'[s]]
    BY Zenon, <1>1, EvictView DEF DiskRead
  <1>4. (IF Dirty THEN {sflash_prev_block_addr} ELSE {})'
          \in {IF Dirty THEN {sflash_prev_block_addr} ELSE {}, {}}
    BY Zenon DEF DiskRead, Evict, Hit, Dirty
  <1> QED BY Zenon, <1>1, <1>2, <1>3, <1>4 DEF FlashDisk!Read, FlashDisk!Kept

\* sflash_disk_write changes what its sector reads as, and nothing else.
LEMMA WriteImplements ==
  ASSUME CacheInv, NEW s \in Sectors, NEW v \in Contents, DiskWrite(s, v)
  PROVE  FlashDisk!Write(s, v)
  <1>1. Evict(s) /\ sflash_block_cache' = [Cached(s) EXCEPT ![Secindex(s)] = v] /\ suspect' = suspect
    BY DEF DiskWrite
  <1>2. Cached(s) \in [Offsets -> Contents] /\ Secindex(s) \in Offsets
    BY CachedReads, Division DEF CacheInv
  <1>3. View'[s] = v
    BY Zenon, <1>1, <1>2, EvictView
  <1>4. ASSUME NEW t \in Sectors, t # s, Block(t) \notin suspect'
        PROVE  View'[t] = View[t]
    <2>1. CASE Block(t) # Block(s)
      BY Zenon, <1>1, <1>4, <2>1, EvictView
    <2>2. CASE Block(t) = Block(s)
      <3>1. Secindex(t) # Secindex(s) /\ Secindex(t) \in Offsets
        BY SMTT(30), <1>4, <2>2, Division
      <3>2. View'[t] = Cached(s)[Secindex(t)]
        BY ZenonT(30), <1>1, <1>2, <2>2, <3>1, EvictView
      <3> QED BY Zenon, <3>2, <2>2, CachedReads DEF CacheInv
    <2> QED BY SMTT(30), <2>1, <2>2
  <1>5. (IF Dirty THEN {sflash_prev_block_addr} ELSE {})' = {Block(s)}
    BY DEF DiskWrite, Evict, Dirty
  <1> QED BY ZenonT(30), <1>1, <1>3, <1>4, <1>5 DEF FlashDisk!Write, FlashDisk!Kept, DiskWrite

\* A call that fails leaves the sectors as they were, but for the block it could not read.
LEMMA FailImplements ==
  ASSUME CacheInv, NEW s \in Sectors, CallFails(s)
  PROVE  FlashDisk!Fail(s)
  <1>1. CASE FlushFails
    <2>1. \A t \in Sectors : View'[t] = View[t]
      BY Zenon, <1>1, FlushView, TornKeeps DEF FlushFails, CacheInv
    <2> QED BY Zenon, <1>1, <2>1 DEF FlushFails, CallFails, FlashDisk!Fail, FlashDisk!Kept, Dirty
  <1>2. CASE ~FlushFails
    <2>1. Evict(s) /\ sflash_cache_is_dirty' = FALSE /\ suspect' = suspect \cup {Block(s)}
      BY <1>2 DEF CallFails
    <2>2. \A t \in Sectors : Block(t) \notin suspect' => View'[t] = View[t]
      BY SMTT(30), <2>1, EvictView
    <2> QED BY Zenon, <2>1, <2>2 DEF CallFails, FlashDisk!Fail, FlashDisk!Kept, Dirty
  <1> QED BY SMTT(30), <1>1, <1>2

\* sflash_disk_flush changes nothing that can be read, whatever its result.
LEMMA FlushImplements ==
  ASSUME CacheInv, DiskFlush
  PROVE  FlashDisk!Save
  <1>1. UNCHANGED <<sflash_block_cache, sflash_prev_block_addr, suspect>>
    BY SMTT(30) DEF DiskFlush, FlushFails
  <1>2. \A t \in Sectors : ~Hit(t) => flash'[t] = flash[t]
    BY Zenon, TornKeeps, FlushKeeps DEF DiskFlush, FlushFails, CacheInv
  <1>3. \A t \in Sectors : View'[t] = View[t]
    BY <1>1, <1>2, FlushView
  <1>4. (IF Dirty THEN {sflash_prev_block_addr} ELSE {})'
          \in {IF Dirty THEN {sflash_prev_block_addr} ELSE {}, {}}
    BY SMTT(30), <1>1 DEF DiskFlush, FlushFails, Dirty
  <1> QED BY <1>1, <1>3, <1>4 DEF DiskFlush, FlashDisk!Save, FlashDisk!Kept

\* A power loss, in a write-back or not, costs the dirty block at most.
LEMMA PowerLossImplements ==
  ASSUME CacheInv, PowerLoss
  PROVE  FlashDisk!PowerLoss
  <1>1. \A t \in Sectors : View'[t] = flash'[t]
    <2>1. \A t \in Sectors : ~Hit(t)'
      BY Division, DiskConstants DEF PowerLoss, Hit, NoBlock, Blocks
    <2> QED BY <2>1 DEF View
  <1>2. ASSUME NEW t \in Sectors, Block(t) \notin suspect',
               Block(t) \notin (IF Dirty THEN {sflash_prev_block_addr} ELSE {})
        PROVE  flash'[t] = View[t]
    <2>1. CASE Dirty
      BY <1>2, <2>1, TornKeeps DEF PowerLoss, CacheInv, View, Hit
    <2>2. CASE ~Dirty
      BY Zenon, <1>2, <2>2 DEF PowerLoss, CacheInv, CleanIsSaved, View, Hit
    <2> QED BY <2>1, <2>2
  <1>3. \A t \in Sectors : t \notin {u \in Sectors : [x \in Sectors |-> Block(x)][u] \in
                                      (IF Dirty THEN {sflash_prev_block_addr} ELSE {})}
                         => Block(t) \notin (IF Dirty THEN {sflash_prev_block_addr} ELSE {})
    OBVIOUS
  <1> QED BY Zenon, <1>1, <1>2, <1>3 DEF PowerLoss, FlashDisk!PowerLoss, FlashDisk!Kept, Dirty

\* For every block size and number of blocks sflash_diskio.c is a disk: sectors read as they
\* were last written, failed write-backs lose nothing, a power loss costs at most the block
\* written last, a failed flash read at most its own block.
THEOREM CacheIsDisk == DiskSpec => ImplementsDisk
  <1>1. DiskInit => FlashDisk!Init
    <2> SUFFICES ASSUME DiskInit PROVE FlashDisk!Init
      OBVIOUS
    <2>1. View \in [Sectors -> Contents]
      BY Division DEF DiskInit, View
    <2> QED BY <2>1 DEF DiskInit, FlashDisk!Init, Dirty
  <1>2. CacheInv /\ [DiskNext]_diskVars => [FlashDisk!Next]_(FlashDisk!vars)
    <2> SUFFICES ASSUME CacheInv, [DiskNext]_diskVars PROVE [FlashDisk!Next]_(FlashDisk!vars)
      OBVIOUS
    <2>1. CASE UNCHANGED diskVars
      BY Zenon, <2>1 DEF diskVars, FlashDisk!vars, View, Hit, Dirty
    <2>2. CASE DiskNext
      BY <2>2, ReadImplements, WriteImplements, FailImplements, FlushImplements,
         PowerLossImplements DEF DiskNext, FlashDisk!Next
    <2> QED BY <2>1, <2>2
  <1> QED
    BY <1>1, <1>2, InitCache, StepInv, PTL DEF DiskSpec, ImplementsDisk, FlashDisk!Spec

-----------------------------------------------------------------------------
(* The socket fifo. *)

FifoInv == FifoTypeOK /\ PositionsAgree

\* The position of an element is inside the array, and no two elements share one.
LEMMA AtInjective ==
  ASSUME uiFirst \in Positions
  PROVE  /\ \A i \in 1 .. ElementsMax : At(i) \in Positions
         /\ \A i, j \in 1 .. ElementsMax : At(i) = At(j) => i = j
  BY FifoConstants DEF At, Positions

\* The newest element's position steps to the position of the next element.
LEMMA NextPosition ==
  ASSUME FifoTypeOK, PositionsAgree, ~IsFull
  PROVE  Step(uiLast) = At(uiElementCount + 1)
  BY FifoConstants DEF FifoTypeOK, PositionsAgree, IsFull, Step, At, Positions

\* What the calls return is a result and an element.
LEMMA OutsTyped ==
  /\ \A v \in Values \cup {NoValue} : [ok |-> TRUE, val |-> v] \in Outs
  /\ [ok |-> FALSE, val |-> NoValue] \in Outs
  /\ [ok |-> TRUE, val |-> NoValue] \in Outs
  BY DEF Outs

\* FifoInit establishes the inductive invariant.
LEMMA InitFifoInv == FifoInit => FifoInv
  BY FifoConstants, OutsTyped DEF FifoInit, FifoInv, FifoTypeOK, PositionsAgree, Positions, Step

\* After the push there is one element more, at the end, and the others are untouched.
LEMMA PushEffect ==
  ASSUME FifoInv, NEW v \in Values, Push(v), ~IsFull
  PROVE  /\ uiElementCount' = uiElementCount + 1
         /\ uiLast' = At(uiElementCount + 1)
         /\ \A i \in 1 .. uiElementCount + 1 : At(i)' = At(i)
         /\ \A i \in 1 .. uiElementCount : elements'[At(i)] = elements[At(i)]
         /\ elements'[At(uiElementCount + 1)] = v
<1>1. uiElementCount' = uiElementCount + 1 /\ uiLast' = Step(uiLast) /\ uiFirst' = uiFirst
      /\ elements' = [elements EXCEPT ![uiLast'] = v]
  BY Zenon DEF Push, IsFull
<1>2. uiLast' = At(uiElementCount + 1)
  BY <1>1, NextPosition DEF FifoInv
<1>3. uiElementCount + 1 \in 1 .. ElementsMax
  BY FifoConstants DEF FifoInv, FifoTypeOK, IsFull
<1>4. \A i \in 1 .. uiElementCount : At(i) \in Positions /\ At(i) # At(uiElementCount + 1)
  BY <1>3, AtInjective, FifoConstants DEF FifoInv, FifoTypeOK
<1>5. At(uiElementCount + 1) \in Positions
  BY <1>3, AtInjective DEF FifoInv, FifoTypeOK
<1>6. \A i : At(i)' = At(i)
  BY <1>1 DEF At
<1>7. \A i \in 1 .. uiElementCount : elements'[At(i)] = elements[At(i)]
  BY <1>1, <1>2, <1>4 DEF FifoInv, FifoTypeOK
<1>8. elements'[At(uiElementCount + 1)] = v
  BY SMTT(30), <1>1, <1>2, <1>5 DEF FifoInv, FifoTypeOK
<1> QED
  BY <1>1, <1>2, <1>6, <1>7, <1>8

\* After the pop the i-th element is the one that was behind it.
LEMMA PopEffect ==
  ASSUME FifoInv, Pop, ~IsEmpty
  PROVE  /\ uiElementCount' = uiElementCount - 1
         /\ elements' = elements
         /\ \A i \in 1 .. uiElementCount - 1 : At(i)' = At(i + 1)
         /\ out' = [ok |-> TRUE, val |-> elements[At(1)]]
         /\ uiFirst' \in Positions
<1>1. uiElementCount' = uiElementCount - 1 /\ uiFirst' = Step(uiFirst) /\ elements' = elements
      /\ out' = [ok |-> TRUE, val |-> elements[uiFirst]]
  BY DEF Pop, IsEmpty, Returns
<1>2. uiFirst = At(1)
  BY FifoConstants DEF FifoInv, FifoTypeOK, At, Positions
<1>3. ASSUME NEW i \in 1 .. uiElementCount - 1 PROVE At(i)' = At(i + 1)
  BY SMTT(30), <1>1, <1>3, FifoConstants DEF FifoInv, FifoTypeOK, At, Step, Positions
<1>4. uiFirst' \in Positions
  BY <1>1, FifoConstants DEF FifoInv, FifoTypeOK, Step, Positions
<1> QED
  BY SMTT(30), <1>1, <1>2, <1>3, <1>4

\* A call that leaves the buffer alone preserves the inductive invariant.
LEMMA Frame ==
  ASSUME FifoInv, UNCHANGED <<elements, uiFirst, uiLast, uiElementCount>>, out' \in Outs
  PROVE  FifoInv'
<1>1. FifoTypeOK'
  BY DEF FifoInv, FifoTypeOK
<1>2. \A i : At(i)' = At(i)
  BY DEF At
<1>3. PositionsAgree'
  BY <1>2 DEF FifoInv, PositionsAgree, Step, At
<1> QED
  BY <1>1, <1>3 DEF FifoInv

\* FIFO_bPushElement preserves the inductive invariant.
LEMMA PushInv ==
  ASSUME FifoInv, NEW v \in Values, Push(v)
  PROVE  FifoInv'
<1>1. CASE IsFull
  BY Zenon, <1>1, Frame, OutsTyped DEF Push, Returns
<1>2. CASE ~IsFull
  <2>1. /\ uiElementCount' = uiElementCount + 1 /\ uiFirst' = uiFirst
        /\ uiLast' = At(uiElementCount + 1) /\ out' \in Outs
        /\ elements' = [elements EXCEPT ![uiLast'] = v]
    BY Zenon, <1>2, PushEffect, OutsTyped DEF Push, Returns
  <2>2. uiElementCount \in 0 .. ElementsMax - 1 /\ ElementsMax \in Nat \ {0}
    BY <1>2, FifoConstants DEF FifoInv, FifoTypeOK, IsFull
  <2>3. uiLast' \in Positions
    BY SMTT(30), <2>1, <2>2, AtInjective DEF FifoInv, FifoTypeOK
  <2>4. FifoTypeOK'
    BY <2>1, <2>2, <2>3 DEF FifoInv, FifoTypeOK
  <2>5. uiElementCount' > 0 /\ uiLast' = At(uiElementCount)'
    BY <2>1, <2>2 DEF At
  <2>6. ASSUME NEW i \in 1 .. uiElementCount' PROVE elements'[At(i)'] \in Values
    <3>1. i \in 1 .. uiElementCount + 1 /\ At(i)' = At(i)
      BY SMTT(30), <2>1, <2>6, <1>2, PushEffect
    <3>2. CASE i = uiElementCount + 1
      BY SMTT(30), <3>1, <3>2, <1>2, PushEffect
    <3>3. CASE i \in 1 .. uiElementCount
      BY ZenonT(30), <3>1, <3>3, <1>2, PushEffect DEF FifoInv, PositionsAgree
    <3> QED BY <3>1, <3>2, <3>3, <2>2
  <2>7. PositionsAgree'
    BY SMTT(30), <2>5, <2>6, <2>1, <2>2 DEF PositionsAgree
  <2> QED BY <2>4, <2>7 DEF FifoInv
<1> QED BY <1>1, <1>2

\* FIFO_bPopElement preserves the inductive invariant.
LEMMA PopInv ==
  ASSUME FifoInv, Pop
  PROVE  FifoInv'
<1>1. CASE IsEmpty
  BY Zenon, <1>1, Frame, OutsTyped DEF Pop, Returns
<1>2. CASE ~IsEmpty
  <2>1. uiElementCount \in 1 .. ElementsMax /\ ElementsMax \in Nat \ {0}
    BY <1>2, FifoConstants DEF FifoInv, FifoTypeOK, IsEmpty
  <2>2. /\ uiElementCount' = uiElementCount - 1 /\ uiLast' = uiLast
        /\ uiFirst' = Step(uiFirst) /\ elements' = elements
    BY ZenonT(30), <1>2, PopEffect DEF Pop
  <2>3. elements[At(1)] \in Values
    BY <2>1 DEF FifoInv, PositionsAgree
  <2>4. FifoTypeOK'
    BY <1>2, <2>1, <2>2, <2>3, PopEffect, OutsTyped DEF FifoInv, FifoTypeOK
  <2>5. uiLast = At(uiElementCount) /\ uiFirst \in 0 .. ElementsMax - 1
    BY <2>1 DEF FifoInv, FifoTypeOK, PositionsAgree, Positions
  <2>6. uiElementCount' = 0 => Step(uiLast)' = uiFirst'
    BY <2>1, <2>2, <2>5 DEF Step, At
  <2>7. uiElementCount' > 0 => uiLast' = At(uiElementCount)'
    BY <2>1, <2>2, <2>5 DEF Step, At
  <2>8. ASSUME NEW i \in 1 .. uiElementCount' PROVE elements'[At(i)'] \in Values
    <3>1. i \in 1 .. uiElementCount - 1 /\ i + 1 \in 1 .. uiElementCount
      BY <2>8, <2>2, <2>1
    <3> QED
      BY <3>1, <2>2, <1>2, PopEffect DEF FifoInv, PositionsAgree
  <2>9. PositionsAgree'
    BY <2>6, <2>7, <2>8 DEF PositionsAgree
  <2> QED BY <2>4, <2>9 DEF FifoInv
<1> QED BY <1>1, <1>2

\* Peeking and flushing preserve the inductive invariant.
LEMMA OtherInv ==
  ASSUME FifoInv, Peek \/ Flush \/ SocketFlush
  PROVE  FifoInv'
<1>1. CASE Peek
  <2>1. out' \in Outs
    <3>1. ~IsEmpty => elements[uiFirst] \in Values \cup {NoValue}
      BY DEF FifoInv, FifoTypeOK
    <3> QED BY Zenon, <1>1, <3>1, OutsTyped DEF Peek, Returns
  <2> QED BY <1>1, <2>1, Frame DEF Peek
<1>2. CASE Flush
  BY <1>2, FifoConstants, OutsTyped DEF Flush, FifoInv, FifoTypeOK, PositionsAgree, Returns, Step, Positions
<1>3. CASE SocketFlush
  BY SMTT(30), <1>3, FifoConstants, OutsTyped DEF SocketFlush, FifoInv, FifoTypeOK, PositionsAgree, Returns, Step, Positions
<1> QED BY <1>1, <1>2, <1>3

\* Every call preserves the inductive invariant.
LEMMA NextFifoInv == FifoInv /\ [FifoNext]_fifoVars => FifoInv'
<1> SUFFICES ASSUME FifoInv, [FifoNext]_fifoVars PROVE FifoInv'
  OBVIOUS
<1>1. CASE UNCHANGED fifoVars
  BY <1>1, Frame DEF fifoVars, FifoInv, FifoTypeOK
<1>2. CASE FifoNext
  BY <1>2, PushInv, PopInv, OtherInv DEF FifoNext
<1> QED
  BY <1>1, <1>2

\* FIFO_t keeps its positions inside the array and its three counters in step, for every
\* capacity and every sequence of calls.
THEOREM PositionsAlwaysAgree == FifoSpec => [](FifoTypeOK /\ PositionsAgree)
<1>1. FifoSpec => []FifoInv
  BY InitFifoInv, NextFifoInv, PTL DEF FifoSpec
<1> QED
  BY <1>1, PTL DEF FifoInv

-----------------------------------------------------------------------------
\* The elements of the window are a sequence of as many values as were counted.
LEMMA ContentSequence ==
  ASSUME FifoInv
  PROVE  /\ Content \in Seq(Values)
         /\ Len(Content) = uiElementCount
         /\ \A i \in 1 .. uiElementCount : Content[i] = elements[At(i)]
<1>1. uiElementCount \in Nat
  BY FifoConstants DEF FifoInv, FifoTypeOK
<1> QED
  BY <1>1 DEF Content, FifoInv, PositionsAgree

\* Pushing appends to the window's content.
LEMMA PushAppends ==
  ASSUME FifoInv, NEW v \in Values, Push(v), ~IsFull
  PROVE  Content' = Append(Content, v)
<1>1. uiElementCount \in Nat /\ uiElementCount' = uiElementCount + 1
  BY PushEffect, FifoConstants DEF FifoInv, FifoTypeOK
<1>2. Content' = [i \in 1 .. uiElementCount + 1 |-> elements'[At(i)']]
  BY SMTT(30), <1>1 DEF Content
<1>3. ASSUME NEW i \in 1 .. uiElementCount + 1
      PROVE  elements'[At(i)'] = IF i = uiElementCount + 1 THEN v ELSE Content[i]
  BY <1>1, <1>3, PushEffect, ContentSequence
<1>4. /\ Content' \in Seq(Values) /\ Len(Content') = uiElementCount + 1
      /\ \A i \in 1 .. uiElementCount + 1 :
           Content'[i] = IF i = uiElementCount + 1 THEN v ELSE Content[i]
  <2>1. \A i \in 1 .. uiElementCount + 1 : elements'[At(i)'] \in Values
    BY <1>1, <1>3, ContentSequence, ElementOfSeq
  <2> QED BY <1>1, <1>2, <1>3, <2>1
<1>5. /\ Append(Content, v) \in Seq(Values) /\ Len(Append(Content, v)) = uiElementCount + 1
      /\ \A i \in 1 .. uiElementCount + 1 :
           Append(Content, v)[i] = IF i = uiElementCount + 1 THEN v ELSE Content[i]
  BY <1>1, ContentSequence, AppendProperties
<1> QED
  BY ZenonT(30), <1>4, <1>5, SeqEqual

\* Popping removes the first element of the window's content and hands it out.
LEMMA PopTakesHead ==
  ASSUME FifoInv, Pop, ~IsEmpty
  PROVE  Content # <<>> /\ Content' = Tail(Content) /\ elements[At(1)] = Head(Content)
<1>1. uiElementCount \in Nat \ {0} /\ uiElementCount' = uiElementCount - 1 /\ elements' = elements
  BY PopEffect, FifoConstants DEF FifoInv, FifoTypeOK, IsEmpty
<1>2. Content # <<>> /\ elements[At(1)] = Head(Content)
  BY <1>1, ContentSequence
<1>3. Content' = [i \in 1 .. uiElementCount - 1 |-> elements'[At(i)']]
  BY <1>1 DEF Content
<1>4. ASSUME NEW i \in 1 .. uiElementCount - 1
      PROVE  elements'[At(i)'] = Content[i + 1]
  BY <1>1, <1>4, PopEffect, ContentSequence
<1>5. /\ Content' \in Seq(Values) /\ Len(Content') = uiElementCount - 1
      /\ \A i \in 1 .. uiElementCount - 1 : Content'[i] = Content[i + 1]
  <2>1. \A i \in 1 .. uiElementCount - 1 : elements'[At(i)'] \in Values
    BY <1>1, <1>4, ContentSequence, ElementOfSeq
  <2> QED BY <1>1, <1>3, <1>4, <2>1
<1>6. /\ Tail(Content) \in Seq(Values) /\ Len(Tail(Content)) = uiElementCount - 1
      /\ \A i \in 1 .. uiElementCount - 1 : Tail(Content)[i] = Content[i + 1]
  BY <1>1, <1>2, ContentSequence, HeadTailProperties
<1>7. Content' = Tail(Content)
  BY <1>5, <1>6, SeqEqual
<1> QED
  BY <1>2, <1>7

\* A call that leaves the buffer alone leaves the content alone.
LEMMA ContentFrame ==
  ASSUME UNCHANGED <<elements, uiFirst, uiLast, uiElementCount>>
  PROVE  Content' = Content
  BY DEF Content, At

\* Flushing empties the window.
LEMMA ContentEmptied ==
  ASSUME uiElementCount' = 0
  PROVE  Content' = <<>>
  BY DEF Content

\* An empty window is the empty sequence, and only that.
LEMMA ContentEmpty ==
  ASSUME FifoInv
  PROVE  IsEmpty <=> Content = <<>>
  BY ContentSequence DEF IsEmpty

\* Every call of the ring buffer is a call of the queue with the same answer.
LEMMA StepImplements == FifoInv /\ [FifoNext]_fifoVars => [Abstract!Next]_(Abstract!vars)
<1> SUFFICES ASSUME FifoInv, [FifoNext]_fifoVars PROVE [Abstract!Next]_(Abstract!vars)
  OBVIOUS
<1>0. Len(Content) = uiElementCount /\ uiElementCount \in 0 .. ElementsMax /\ ElementsMax \in Nat
  BY Zenon, ContentSequence, FifoConstants DEF FifoInv, FifoTypeOK
<1>1. ASSUME NEW v \in Values, Push(v) PROVE Abstract!Push(v)
  <2>1. CASE IsFull
    BY <1>0, <1>1, <2>1, ContentFrame DEF Push, IsFull, Returns, Abstract!Push, Abstract!Returns
  <2>2. CASE ~IsFull
    BY <1>0, <1>1, <2>2, PushAppends DEF Push, IsFull, Returns, Abstract!Push, Abstract!Returns
  <2> QED BY <2>1, <2>2
<1>2. ASSUME Pop PROVE Abstract!Pop
  <2>1. CASE IsEmpty
    BY ZenonT(30), <1>2, <2>1, ContentFrame, ContentEmpty DEF Pop, Returns, Abstract!Pop, Abstract!Returns
  <2>2. CASE ~IsEmpty
    BY ZenonT(30), <1>2, <2>2, PopTakesHead, PopEffect DEF Abstract!Pop, Abstract!Returns
  <2> QED BY SMTT(30), <2>1, <2>2
<1>3. ASSUME Peek PROVE Abstract!Peek
  <2>1. UNCHANGED Content
    BY <1>3, ContentFrame DEF Peek
  <2>2. ~IsEmpty => Content # <<>> /\ elements[uiFirst] = Head(Content)
    <3>1. uiFirst = At(1)
      BY FifoConstants DEF FifoInv, FifoTypeOK, At, Positions
    <3> QED BY <1>0, <3>1, ContentSequence DEF IsEmpty
  <2> QED
    BY Zenon, <1>3, <2>1, <2>2, ContentEmpty DEF Peek, Returns, Abstract!Peek, Abstract!Returns
<1>4. ASSUME Flush \/ SocketFlush PROVE Abstract!Flush
  BY <1>4, ContentEmptied DEF Flush, SocketFlush, Returns, Abstract!Flush, Abstract!Returns
<1>5. CASE UNCHANGED fifoVars
  BY <1>5, ContentFrame DEF fifoVars, Abstract!vars
<1> QED
  BY <1>1, <1>2, <1>3, <1>4, <1>5 DEF FifoNext, Abstract!Next

\* FIFO_bPushElement, FIFO_bPopElement, FIFO_bPeekElement and the two ways of flushing
\* implement a bounded first-in first-out queue, for every capacity and every element type.
THEOREM FifoIsQueue == FifoSpec => ImplementsQueue
<1>1. FifoInit => Abstract!Init
  BY DEF FifoInit, Abstract!Init, Content
<1> QED
  BY <1>1, InitFifoInv, NextFifoInv, StepImplements, PTL DEF FifoSpec, ImplementsQueue, Abstract!Spec

-----------------------------------------------------------------------------
(* The working directory of an FTP session. *)

\* The characters of a path, as FtpPath abstracts them.
Chars == {Slash, "a"}

\* A set of natural numbers has a least one.
LEMMA Least ==
  ASSUME NEW T \in SUBSET Nat, T # {}
  PROVE  \E x \in T : \A y \in T : x <= y
  <1> DEFINE R == {ss \in Nat \X Nat : ss[1] < ss[2]}
  <1>1. IsWellFoundedOn(R, Nat)
    <2>1. R = OpToRel(<, Nat)
      BY Zenon DEF OpToRel
    <2> QED BY <2>1, NatLessThanWellFounded, Zenon
  <1>2. PICK x \in T : \A y \in T : ~(<<y, x>> \in R)
    <2> HIDE DEF R
    <2> QED BY <1>1, WFMin, Zenon
  <1>3. ASSUME NEW y \in T PROVE x <= y
    <2>1. ~(y < x)
      BY <1>2, Zenon
    <2> QED BY <2>1
  <1> QED BY <1>3

\* Lengths of paths are split this way.
LEMMA Positive == \A n \in Nat : (n >= 1 => n = 1 \/ n > 1) /\ (n > 1 => n > 0 /\ n # 1)
  OBVIOUS

\* Parameters and paths are sequences of characters; a path begins with a separator.
Paths == {p \in Seq(Chars) : Len(p) > 0 /\ p[1] = Slash}

LEMMA ParamsTyped == Params \subseteq Seq(Chars)
  <1> SUFFICES ASSUME NEW dir \in Params PROVE dir \in Seq(Chars)
    OBVIOUS
  <1>1. PICK n \in 0 .. MaxParam : dir \in [1 .. n -> Chars]
    BY Zenon DEF Params, Chars
  <1> QED BY <1>1, PathConstants

\* A path cut behind its first n characters.
LEMMA CutOf ==
  ASSUME NEW p \in Seq(Chars), NEW n \in 0 .. Len(p)
  PROVE  /\ Cut(p, n) \in Seq(Chars) /\ Len(Cut(p, n)) = n
         /\ \A i \in 1 .. n : Cut(p, n)[i] = p[i]
  BY DEF Cut

\* What is in a concatenation.
Concatenates(s, a, b) == /\ s \in Seq(Chars) /\ Len(s) = Len(a) + Len(b)
                         /\ \A i \in 1 .. Len(a) : s[i] = a[i]
                         /\ \A i \in 1 .. Len(b) : s[Len(a) + i] = b[i]

LEMMA Concatenation ==
  ASSUME NEW a \in Seq(Chars), NEW b \in Seq(Chars), NEW s, s = a \o b
  PROVE  Concatenates(s, a, b)
  BY DEF Concatenates

LEMMA RootTyped == Root \in Paths /\ Len(Root) = 1 /\ \A p \in Paths : Len(p) = 1 => p = Root
  <1>1. Root \in Seq(Chars) /\ Len(Root) = 1 /\ Root[1] = Slash
    BY DEF Root, Chars
  <1>2. ASSUME NEW p \in Paths, Len(p) = 1 PROVE p = Root
    BY <1>1, <1>2, SeqEqual DEF Paths
  <1>3. Root \in Paths
    BY <1>1 DEF Paths
  <1> QED BY <1>1, <1>2, <1>3

\* Cutting a path that begins with another gives that one back.
LEMMA CutBack ==
  ASSUME NEW pwd \in Paths, NEW p \in Seq(Chars), Len(p) >= Len(pwd),
         \A i \in 1 .. Len(pwd) : p[i] = pwd[i]
  PROVE  Cut(p, Len(pwd)) = pwd
  <1>1. pwd \in Seq(Chars) /\ Len(pwd) \in 0 .. Len(p)
    BY DEF Paths
  <1>2. /\ Cut(p, Len(pwd)) \in Seq(Chars) /\ Len(Cut(p, Len(pwd))) = Len(pwd)
        /\ \A i \in 1 .. Len(pwd) : Cut(p, Len(pwd))[i] = pwd[i]
    BY Zenon, <1>1, CutOf
  <1> QED BY Zenon, <1>1, <1>2, SeqEqual

\* The separator that ftp_open_child puts between a path and a relative parameter, the path
\* it makes of them, and whether that ends in a separator, which it drops.
Gap(pwd) == IF Len(pwd) > 1 THEN 1 ELSE 0
Join(pwd, dir) == IF Len(pwd) > 1 THEN pwd \o Root \o dir ELSE pwd \o dir
Trails(pwd, dir) == IF Len(dir) > 0 THEN dir[Len(dir)] = Slash ELSE Len(pwd) > 1

LEMMA PathLengths ==
  ASSUME NEW pwd \in Paths, NEW dir \in Seq(Chars)
  PROVE  /\ pwd \in Seq(Chars) /\ Len(pwd) \in Nat /\ Len(pwd) >= 1 /\ Len(dir) \in Nat /\ pwd[1] = Slash
         /\ Gap(pwd) \in Nat /\ (Len(pwd) > 1 => Gap(pwd) = 1) /\ (~(Len(pwd) > 1) => Gap(pwd) = 0)
  <1>1. pwd \in Seq(Chars) /\ Len(pwd) > 0 /\ pwd[1] = Slash
    BY Zenon DEF Paths
  <1>2. Len(pwd) \in Nat /\ Len(dir) \in Nat
    BY <1>1
  <1>3. Len(pwd) >= 1
    BY <1>1, <1>2
  <1>4. Gap(pwd) \in Nat /\ (Len(pwd) > 1 => Gap(pwd) = 1) /\ (~(Len(pwd) > 1) => Gap(pwd) = 0)
    BY DEF Gap
  <1> QED BY Zenon, <1>1, <1>2, <1>3, <1>4

\* ftp_open_child with a relative parameter: the path, a separator unless it is the root,
\* the parameter, ...
Joined(q, pwd, dir) == /\ q \in Seq(Chars) /\ Len(q) = Len(pwd) + Gap(pwd) + Len(dir)
                       /\ \A i \in 1 .. Len(pwd) : q[i] = pwd[i]
                       /\ Len(pwd) > 1 => q[Len(pwd) + 1] = Slash
                       /\ \A i \in 1 .. Len(dir) : q[Len(pwd) + Gap(pwd) + i] = dir[i]

LEMMA JoinedAt ==
  ASSUME NEW pwd \in Paths, NEW dir \in Seq(Chars), NEW q, q = Join(pwd, dir)
  PROVE  Joined(q, pwd, dir)
  <1>1. /\ pwd \in Seq(Chars) /\ Len(pwd) \in Nat /\ Len(dir) \in Nat
        /\ (Len(pwd) > 1 => Gap(pwd) = 1) /\ (~(Len(pwd) > 1) => Gap(pwd) = 0)
    BY Zenon, PathLengths
  <1>2. CASE Len(pwd) > 1
    <2>1. PICK r : r = pwd \o Root
      BY Zenon
    <2>2. Root \in Seq(Chars) /\ Len(Root) = 1 /\ Root[1] = Slash /\ 1 \in 1 .. Len(Root)
      BY DEF Root, Chars
    <2>3. /\ r \in Seq(Chars) /\ Len(r) = Len(pwd) + 1 /\ r[Len(pwd) + 1] = Slash
          /\ \A i \in 1 .. Len(pwd) : r[i] = pwd[i]
      <3>1. Concatenates(r, pwd, Root)
        BY Zenon, <1>1, <2>1, <2>2, Concatenation
      <3> QED BY Zenon, <2>2, <3>1 DEF Concatenates
    <2>4. q = r \o dir
      BY Zenon, <1>2, <2>1 DEF Join
    <2>5. /\ q \in Seq(Chars) /\ Len(q) = Len(r) + Len(dir)
          /\ \A i \in 1 .. Len(r) : q[i] = r[i]
          /\ \A i \in 1 .. Len(dir) : q[Len(r) + i] = dir[i]
      <3>1. Concatenates(q, r, dir)
        BY Zenon, <2>3, <2>4, Concatenation
      <3> QED BY Zenon, <3>1 DEF Concatenates
    <2>6. Len(r) = Len(pwd) + Gap(pwd) /\ Len(pwd) + 1 \in 1 .. Len(r)
      BY <1>1, <1>2, <2>3
    <2>7. ASSUME NEW i \in 1 .. Len(pwd) PROVE q[i] = pwd[i]
      <3>1. i \in 1 .. Len(r)
        BY <1>1, <2>3
      <3> QED BY Zenon, <2>3, <2>5, <3>1
    <2> QED BY Zenon, <2>3, <2>5, <2>6, <2>7 DEF Joined
  <1>3. CASE ~(Len(pwd) > 1)
    <2>1. q = pwd \o dir
      BY Zenon, <1>3 DEF Join
    <2>2. /\ q \in Seq(Chars) /\ Len(q) = Len(pwd) + Len(dir)
          /\ \A i \in 1 .. Len(pwd) : q[i] = pwd[i]
          /\ \A i \in 1 .. Len(dir) : q[Len(pwd) + i] = dir[i]
      <3>1. Concatenates(q, pwd, dir)
        BY Zenon, <1>1, <2>1, Concatenation
      <3> QED BY Zenon, <3>1 DEF Concatenates
    <2>3. Len(pwd) + Gap(pwd) = Len(pwd)
      BY <1>1, <1>3
    <2> QED BY Zenon, <1>3, <2>2, <2>3 DEF Joined
  <1> QED BY Zenon, <1>2, <1>3

\* ... and no separator at the end.
Opened(p, pwd, dir) ==
  /\ p \in Seq(Chars)
  /\ Trails(pwd, dir) => Len(p) = Len(pwd) + Gap(pwd) + Len(dir) - 1
  /\ ~Trails(pwd, dir) => Len(p) = Len(pwd) + Gap(pwd) + Len(dir)
  /\ \A i \in 1 .. Len(pwd) : p[i] = pwd[i]
  /\ Len(pwd) > 1 /\ Len(p) > Len(pwd) => p[Len(pwd) + 1] = Slash
  /\ \A i \in 1 .. Len(dir) : Len(pwd) + Gap(pwd) + i <= Len(p) => p[Len(pwd) + Gap(pwd) + i] = dir[i]

LEMMA OpenRelative ==
  ASSUME NEW pwd \in Paths, NEW dir \in Seq(Chars), ~IsAbsolute(dir), NEW p, p = OpenChild(pwd, dir)
  PROVE  Opened(p, pwd, dir)
  <1>1. /\ Len(pwd) \in Nat /\ Len(pwd) >= 1 /\ Len(dir) \in Nat /\ pwd[1] = Slash
        /\ Gap(pwd) \in Nat /\ (Len(pwd) > 1 => Gap(pwd) = 1) /\ (~(Len(pwd) > 1) => Gap(pwd) = 0)
    BY Zenon, PathLengths
  <1>2. PICK q : q = Join(pwd, dir)
    BY Zenon
  <1>3. /\ q \in Seq(Chars) /\ Len(q) = Len(pwd) + Gap(pwd) + Len(dir)
        /\ \A i \in 1 .. Len(pwd) : q[i] = pwd[i]
        /\ Len(pwd) > 1 => q[Len(pwd) + 1] = Slash
        /\ \A i \in 1 .. Len(dir) : q[Len(pwd) + Gap(pwd) + i] = dir[i]
    <2>1. Joined(q, pwd, dir)
      BY Zenon, <1>2, JoinedAt
    <2> QED BY Zenon, <2>1 DEF Joined
  <1>n. Len(q) \in Nat /\ Len(q) = Len(pwd) + Gap(pwd) + Len(dir)
    BY <1>3
  <1>4. p = IF Len(q) > 1 /\ EndsInSlash(q) THEN Cut(q, Len(q) - 1) ELSE q
    BY Zenon, <1>2 DEF OpenChild, Join
  <1>5. (Len(q) > 1 /\ EndsInSlash(q)) <=> Trails(pwd, dir)
    <2>1. CASE Len(dir) > 0
      <3>1. Len(dir) \in 1 .. Len(dir) /\ Len(q) > 1 /\ Len(q) > 0
        BY <1>1, <1>n, <2>1
      <3>2. q[Len(q)] = dir[Len(dir)]
        BY Zenon, <1>3, <3>1
      <3> QED BY Zenon, <2>1, <3>1, <3>2 DEF EndsInSlash, Trails
    <2>2. CASE ~(Len(dir) > 0)
      <3>1. Trails(pwd, dir) <=> Len(pwd) > 1
        BY Zenon, <2>2 DEF Trails
      <3>2. CASE Len(pwd) > 1
        <4>1. Len(q) = Len(pwd) + 1 /\ Len(q) > 1 /\ Len(q) > 0
          BY <1>1, <1>n, <2>2, <3>2
        <4> QED BY Zenon, <1>3, <3>1, <3>2, <4>1 DEF EndsInSlash
      <3>3. CASE ~(Len(pwd) > 1)
        <4>1. ~(Len(q) > 1)
          BY <1>1, <1>n, <2>2, <3>3
        <4> QED BY Zenon, <3>1, <3>3, <4>1
      <3> QED BY Zenon, <3>2, <3>3
    <2> QED BY Zenon, <2>1, <2>2
  <1>6. CASE Trails(pwd, dir)
    <2>1. p = Cut(q, Len(q) - 1) /\ Len(q) > 1
      BY Zenon, <1>4, <1>5, <1>6
    <2>2. Len(q) - 1 \in 0 .. Len(q) /\ Len(q) - 1 >= Len(pwd)
      <3>1. Len(dir) > 0 \/ Gap(pwd) = 1
        BY Zenon, <1>1, <1>6 DEF Trails
      <3>2. Len(pwd) \in Nat /\ Len(dir) \in Nat /\ Gap(pwd) \in Nat
        BY Zenon, <1>1
      <3> QED BY <1>n, <3>1, <3>2
    <2>3. p \in Seq(Chars) /\ Len(p) = Len(q) - 1 /\ \A i \in 1 .. Len(q) - 1 : p[i] = q[i]
      BY Zenon, <1>3, <2>1, <2>2, CutOf
    <2>4. ASSUME NEW i \in 1 .. Len(pwd) PROVE p[i] = pwd[i]
      <3>1. i \in 1 .. Len(q) - 1
        BY <1>1, <2>2
      <3> QED BY Zenon, <1>3, <2>3, <3>1
    <2>5. ASSUME Len(pwd) > 1, Len(p) > Len(pwd) PROVE p[Len(pwd) + 1] = Slash
      <3>1. Len(pwd) + 1 \in 1 .. Len(q) - 1
        BY <1>1, <2>3, <2>5
      <3> QED BY Zenon, <1>3, <2>3, <2>5, <3>1
    <2>6. ASSUME NEW i \in 1 .. Len(dir), Len(pwd) + Gap(pwd) + i <= Len(p)
          PROVE  p[Len(pwd) + Gap(pwd) + i] = dir[i]
      <3>1. Len(pwd) + Gap(pwd) + i \in 1 .. Len(q) - 1
        BY <1>1, <2>3, <2>6
      <3> QED BY Zenon, <1>3, <2>3, <3>1
    <2>7. Len(p) = Len(pwd) + Gap(pwd) + Len(dir) - 1
      BY <1>1, <1>n, <2>3
    <2> QED BY Zenon, <1>6, <2>3, <2>4, <2>5, <2>6, <2>7 DEF Opened
  <1>7. CASE ~Trails(pwd, dir)
    <2>1. p = q
      BY Zenon, <1>4, <1>5, <1>7
    <2> QED BY Zenon, <1>3, <1>7, <2>1 DEF Opened
  <1> QED BY Zenon, <1>6, <1>7

\* ftp_return_to_previous_path undoes ftp_open_child with a relative parameter.
LEMMA RelativeUndone ==
  ASSUME NEW pwd \in Paths, Proper(pwd), NEW dir \in Seq(Chars), ~IsAbsolute(dir)
  PROVE  ReturnToPreviousPath(OpenChild(pwd, dir), dir) = pwd
  <1>1. PICK p : p = OpenChild(pwd, dir)
    BY Zenon
  <1>2. /\ pwd \in Seq(Chars) /\ Len(pwd) \in Nat /\ Len(pwd) >= 1 /\ Len(dir) \in Nat
        /\ Gap(pwd) \in Nat /\ (Len(pwd) > 1 => Gap(pwd) = 1) /\ (~(Len(pwd) > 1) => Gap(pwd) = 0)
    BY Zenon, PathLengths
  <1>3. /\ p \in Seq(Chars)
        /\ Trails(pwd, dir) => Len(p) = Len(pwd) + Gap(pwd) + Len(dir) - 1
        /\ ~Trails(pwd, dir) => Len(p) = Len(pwd) + Gap(pwd) + Len(dir)
        /\ \A i \in 1 .. Len(pwd) : p[i] = pwd[i]
        /\ Len(pwd) > 1 /\ Len(p) > Len(pwd) => p[Len(pwd) + 1] = Slash
    <2>1. Opened(p, pwd, dir)
      BY Zenon, <1>1, OpenRelative
    <2> QED BY Zenon, <2>1 DEF Opened
  <1>4. PICK newlen : newlen = Len(p) - Len(dir)
    BY Zenon
  <1>5. ReturnToPreviousPath(p, dir) =
          IF newlen > 2 /\ p[newlen] = Slash THEN Cut(p, newlen - 1)
          ELSE IF newlen = 0 THEN Root ELSE Cut(p, newlen)
    BY Zenon, <1>4 DEF ReturnToPreviousPath
  <1>6. ASSUME Len(p) >= Len(pwd) PROVE Cut(p, Len(pwd)) = pwd
    BY Zenon, <1>3, <1>6, CutBack
  <1>7. CASE ~(Len(pwd) > 1)
    <2>1. pwd = Root /\ Len(pwd) = 1
      <3>1. Len(pwd) = 1
        BY Zenon, <1>2, <1>7, Positive
      <3> QED BY Zenon, <3>1, RootTyped
    <2>2. CASE Trails(pwd, dir)
      <3>1. newlen = 0 /\ ~(newlen > 2)
        BY <1>2, <1>3, <1>4, <1>7, <2>1, <2>2
      <3> QED BY Zenon, <1>1, <1>5, <2>1, <3>1
    <2>3. CASE ~Trails(pwd, dir)
      <3>1. newlen = Len(pwd) /\ newlen # 0 /\ ~(newlen > 2) /\ Len(p) >= Len(pwd)
        BY <1>2, <1>3, <1>4, <1>7, <2>1, <2>3
      <3> QED BY Zenon, <1>1, <1>5, <1>6, <3>1
    <2> QED BY Zenon, <2>2, <2>3
  <1>8. CASE Len(pwd) > 1
    <2>1. CASE Trails(pwd, dir)
      <3>1. newlen = Len(pwd) /\ newlen # 0 /\ Len(p) >= Len(pwd) /\ Len(pwd) \in 1 .. Len(pwd)
        BY <1>2, <1>3, <1>4, <1>8, <2>1
      <3>2. p[newlen] # Slash
        <4>1. Len(pwd) > 0 /\ Len(pwd) # 1
          BY Zenon, <1>2, <1>8, Positive
        <4>2. pwd[Len(pwd)] # Slash
          BY Zenon, <4>1 DEF Proper, IsRoot, EndsInSlash
        <4> QED BY Zenon, <1>3, <3>1, <4>2
      <3> QED BY Zenon, <1>1, <1>5, <1>6, <3>1, <3>2
    <2>2. CASE ~Trails(pwd, dir)
      <3>1. newlen = Len(pwd) + 1 /\ newlen > 2 /\ newlen - 1 = Len(pwd) /\ Len(p) > Len(pwd) /\ Len(p) >= Len(pwd)
        BY <1>2, <1>3, <1>4, <1>8, <2>2
      <3> QED BY Zenon, <1>1, <1>3, <1>5, <1>6, <1>8, <3>1
    <2> QED BY Zenon, <2>1, <2>2
  <1> QED BY Zenon, <1>7, <1>8

\* ftp_close_child finds the last separator of a path.
LEMMA LastSlash ==
  ASSUME NEW p \in Seq(Chars), NEW k \in 1 .. Len(p), p[k] = Slash
  PROVE  \E i \in 1 .. Len(p) : p[i] = Slash /\ \A j \in i + 1 .. Len(p) : p[j] # Slash
  <1> DEFINE T == {n \in Nat : n < Len(p) /\ p[Len(p) - n] = Slash}
  <1>1. Len(p) \in Nat /\ Len(p) - k \in T
    OBVIOUS
  <1>2. PICK x \in T : \A y \in T : x <= y
    <2>1. T \in SUBSET Nat /\ T # {}
      BY <1>1
    <2> HIDE DEF T
    <2> QED BY <2>1, Least
  <1>3. x \in Nat /\ x < Len(p) /\ p[Len(p) - x] = Slash
    OBVIOUS
  <1>4. ASSUME NEW j \in Len(p) - x + 1 .. Len(p), p[j] = Slash PROVE FALSE
    <2>1. Len(p) - j \in T /\ Len(p) - j < x
      <3>1. Len(p) - (Len(p) - j) = j /\ Len(p) - j \in Nat /\ Len(p) - j < Len(p) /\ Len(p) - j < x
        BY <1>1, <1>3
      <3> QED BY <3>1, <1>4
    <2> HIDE DEF T
    <2> QED BY <2>1, <1>1, <1>2, <1>3
  <1>5. Len(p) - x \in 1 .. Len(p)
    BY <1>1, <1>3
  <1> QED BY Zenon, <1>3, <1>4, <1>5

\* ftp_close_child cuts there.
LEMMA ClosedAt ==
  ASSUME NEW p \in Seq(Chars), NEW k \in 1 .. Len(p), p[k] = Slash, \A j \in k + 1 .. Len(p) : p[j] # Slash
  PROVE  CloseChild(p) = IF k = 1 THEN Root ELSE Cut(p, k - 1)
  <1> DEFINE L(i) == p[i] = Slash /\ \A j \in i + 1 .. Len(p) : p[j] # Slash
             last == CHOOSE i \in 1 .. Len(p) : L(i)
  <1>1. last \in 1 .. Len(p) /\ L(last)
    BY Zenon
  <1> HIDE DEF last
  <1>2. last = k
    BY <1>1
  <1> QED BY Zenon, <1>2 DEF CloseChild, last

LEMMA CloseTyped == \A p \in Paths : CloseChild(p) \in Paths
  <1> SUFFICES ASSUME NEW p \in Paths PROVE CloseChild(p) \in Paths
    OBVIOUS
  <1>1. p \in Seq(Chars) /\ 1 \in 1 .. Len(p) /\ p[1] = Slash
    BY DEF Paths
  <1>2. PICK i \in 1 .. Len(p) : p[i] = Slash /\ \A j \in i + 1 .. Len(p) : p[j] # Slash
    BY Zenon, <1>1, LastSlash
  <1>3. CloseChild(p) = IF i = 1 THEN Root ELSE Cut(p, i - 1)
    BY <1>1, <1>2, ClosedAt
  <1>4. CASE i = 1
    BY Zenon, <1>3, <1>4, RootTyped
  <1>5. CASE i # 1
    <2>1. i - 1 \in 0 .. Len(p) /\ 1 \in 1 .. i - 1 /\ i - 1 > 0
      BY <1>1, <1>5
    <2>2. Cut(p, i - 1) \in Seq(Chars) /\ Len(Cut(p, i - 1)) = i - 1 /\ Cut(p, i - 1)[1] = p[1]
      BY Zenon, <1>1, <2>1, CutOf
    <2> QED BY Zenon, <1>1, <1>3, <1>5, <2>1, <2>2 DEF Paths
  <1> QED BY <1>4, <1>5

\* ftp_close_child undoes ftp_open_child with a simple name.
LEMMA NameUndone ==
  ASSUME NEW pwd \in Paths, NEW dir \in Seq(Chars), Len(dir) > 0, \A i \in 1 .. Len(dir) : dir[i] # Slash
  PROVE  CloseChild(OpenChild(pwd, dir)) = pwd
  <1>1. /\ Len(pwd) \in Nat /\ Len(pwd) >= 1 /\ Len(dir) \in Nat /\ pwd[1] = Slash
        /\ Gap(pwd) \in Nat /\ (Len(pwd) > 1 => Gap(pwd) = 1) /\ (~(Len(pwd) > 1) => Gap(pwd) = 0)
    BY Zenon, PathLengths
  <1>i. 1 \in 1 .. Len(dir) /\ Len(dir) \in 1 .. Len(dir)
    BY <1>1
  <1>2. ~IsAbsolute(dir)
    BY Zenon, <1>i DEF IsAbsolute
  <1>3. PICK p : p = OpenChild(pwd, dir)
    BY Zenon
  <1>4. /\ p \in Seq(Chars) /\ (~Trails(pwd, dir) => Len(p) = Len(pwd) + Gap(pwd) + Len(dir))
        /\ \A i \in 1 .. Len(pwd) : p[i] = pwd[i]
        /\ Len(pwd) > 1 /\ Len(p) > Len(pwd) => p[Len(pwd) + 1] = Slash
        /\ \A i \in 1 .. Len(dir) : Len(pwd) + Gap(pwd) + i <= Len(p) => p[Len(pwd) + Gap(pwd) + i] = dir[i]
    <2>1. Opened(p, pwd, dir)
      BY Zenon, <1>2, <1>3, OpenRelative
    <2> QED BY Zenon, <2>1 DEF Opened
  <1>l. Len(p) = Len(pwd) + Gap(pwd) + Len(dir)
    BY Zenon, <1>i, <1>4 DEF Trails
  <1>5. ASSUME NEW j \in Len(pwd) + Gap(pwd) + 1 .. Len(p) PROVE p[j] # Slash
    <2>1. PICK k \in Nat : k = Len(pwd) + Gap(pwd)
      BY <1>1
    <2>2. j \in k + 1 .. k + Len(dir) /\ Len(p) = k + Len(dir)
      BY Zenon, <1>l, <2>1
    <2>3. PICK i \in 1 .. Len(dir) : k + i = j
      <3>1. j - k \in 1 .. Len(dir) /\ k + (j - k) = j
        BY <1>1, <2>2
      <3> QED BY Zenon, <3>1
    <2>4. j <= Len(p)
      BY <1>1, <2>2
    <2>5. Len(pwd) + Gap(pwd) + i = j
      BY Zenon, <2>1, <2>3
    <2> QED BY Zenon, <1>4, <2>4, <2>5
  <1>6. PICK k : k = Len(pwd) + Gap(pwd)
    BY Zenon
  <1>7. \A j \in k + 1 .. Len(p) : p[j] # Slash
    BY Zenon, <1>5, <1>6
  <1>8. CASE Len(pwd) > 1
    <2>1. k \in 1 .. Len(p) /\ k = Len(pwd) + 1 /\ k # 1 /\ k - 1 = Len(pwd) /\ Len(p) > Len(pwd) /\ Len(p) >= Len(pwd)
      BY <1>1, <1>4, <1>l, <1>6, <1>8
    <2>2. p[k] = Slash
      BY Zenon, <1>4, <1>8, <2>1
    <2>3. CloseChild(p) = Cut(p, Len(pwd))
      BY Zenon, <1>4, <1>7, <2>1, <2>2, ClosedAt
    <2>4. Cut(p, Len(pwd)) = pwd
      BY Zenon, <1>4, <2>1, CutBack
    <2> QED BY Zenon, <1>3, <2>3, <2>4
  <1>9. CASE ~(Len(pwd) > 1)
    <2>1. k = 1 /\ k \in 1 .. Len(p) /\ Len(pwd) = 1 /\ 1 \in 1 .. Len(pwd)
      BY <1>1, <1>4, <1>l, <1>6, <1>9
    <2>2. p[k] = Slash
      BY Zenon, <1>1, <1>4, <2>1
    <2>3. CloseChild(p) = Root
      BY Zenon, <1>4, <1>7, <2>1, <2>2, ClosedAt
    <2> QED BY Zenon, <1>3, <2>1, <2>3, RootTyped
  <1> QED BY Zenon, <1>8, <1>9

\* A path cut anywhere behind its first character is a path.
LEMMA CutTyped ==
  ASSUME NEW p \in Seq(Chars), NEW n \in 1 .. Len(p), p[1] = Slash
  PROVE  Cut(p, n) \in Paths
  <1>1. n \in 0 .. Len(p) /\ 1 \in 1 .. n /\ n > 0
    OBVIOUS
  <1>2. Cut(p, n) \in Seq(Chars) /\ Len(Cut(p, n)) = n /\ Cut(p, n)[1] = p[1]
    BY Zenon, <1>1, CutOf
  <1> QED BY Zenon, <1>1, <1>2 DEF Paths

\* ftp_open_child leaves a path that begins with a separator.
LEMMA OpenTyped == \A pwd \in Paths, dir \in Seq(Chars) : OpenChild(pwd, dir) \in Paths
  <1> SUFFICES ASSUME NEW pwd \in Paths, NEW dir \in Seq(Chars) PROVE OpenChild(pwd, dir) \in Paths
    OBVIOUS
  <1>1. CASE IsAbsolute(dir)
    <2>1. OpenChild(pwd, dir) = IF Len(dir) > 1 /\ EndsInSlash(dir) THEN Cut(dir, Len(dir) - 1) ELSE dir
      BY <1>1 DEF OpenChild
    <2>2. dir \in Paths /\ dir[1] = Slash /\ Len(dir) \in Nat
      BY <1>1 DEF IsAbsolute, Paths
    <2>3. Len(dir) > 1 => Len(dir) - 1 \in 1 .. Len(dir)
      BY <2>2
    <2> QED BY Zenon, <2>1, <2>2, <2>3, CutTyped
  <1>2. CASE ~IsAbsolute(dir)
    <2>1. PICK p : p = OpenChild(pwd, dir)
      BY Zenon
    <2>2. /\ Len(pwd) \in Nat /\ Len(pwd) >= 1 /\ Len(dir) \in Nat /\ pwd[1] = Slash
          /\ Gap(pwd) \in Nat /\ (Len(pwd) > 1 => Gap(pwd) = 1)
      BY Zenon, PathLengths
    <2>3. /\ p \in Seq(Chars)
          /\ Trails(pwd, dir) => Len(p) = Len(pwd) + Gap(pwd) + Len(dir) - 1
          /\ ~Trails(pwd, dir) => Len(p) = Len(pwd) + Gap(pwd) + Len(dir)
          /\ \A i \in 1 .. Len(pwd) : p[i] = pwd[i]
      <3>1. Opened(p, pwd, dir)
        BY Zenon, <1>2, <2>1, OpenRelative
      <3> QED BY Zenon, <3>1 DEF Opened
    <2>4. Trails(pwd, dir) => Len(dir) > 0 \/ Len(pwd) > 1
      BY Zenon DEF Trails
    <2>5. 1 \in 1 .. Len(pwd) /\ Len(p) > 0
      BY <2>2, <2>3, <2>4
    <2> QED BY Zenon, <2>1, <2>2, <2>3, <2>5 DEF Paths
  <1> QED BY Zenon, <1>1, <1>2

\* A command with a file parameter that does not make newlen wrap leaves a path, also when
\* it does not leave the one it found.
LEMMA ReturnTyped ==
  ASSUME NEW pwd \in Paths, NEW dir \in Seq(Chars), ~Wraps(dir)
  PROVE  ReturnToPreviousPath(OpenChild(pwd, dir), dir) \in Paths
  <1>1. PICK p \in Paths : p = OpenChild(pwd, dir)
    BY Zenon, OpenTyped
  <1>2. p \in Seq(Chars) /\ p[1] = Slash /\ Len(p) \in Nat /\ Len(dir) \in Nat
    BY Zenon, PathLengths
  <1>3. PICK newlen : newlen = Len(p) - Len(dir)
    BY Zenon
  <1>4. newlen \in 0 .. Len(p)
    <2>1. CASE IsAbsolute(dir)
      <3>1. p = dir
        BY Zenon, <1>1, <2>1 DEF OpenChild, Wraps
      <3> QED BY <1>2, <1>3, <3>1
    <2>2. CASE ~IsAbsolute(dir)
      <3>1. Len(pwd) \in Nat /\ Len(pwd) >= 1 /\ Gap(pwd) \in Nat
        BY Zenon, PathLengths
      <3>2. /\ Trails(pwd, dir) => Len(p) = Len(pwd) + Gap(pwd) + Len(dir) - 1
            /\ ~Trails(pwd, dir) => Len(p) = Len(pwd) + Gap(pwd) + Len(dir)
        <4>1. Opened(p, pwd, dir)
          BY Zenon, <1>1, <2>2, OpenRelative
        <4> QED BY Zenon, <4>1 DEF Opened
      <3> QED BY <1>2, <1>3, <3>1, <3>2
    <2> QED BY Zenon, <2>1, <2>2
  <1>5. ReturnToPreviousPath(p, dir) =
          IF newlen > 2 /\ p[newlen] = Slash THEN Cut(p, newlen - 1)
          ELSE IF newlen = 0 THEN Root ELSE Cut(p, newlen)
    BY Zenon, <1>3 DEF ReturnToPreviousPath
  <1>6. (newlen > 2 => newlen - 1 \in 1 .. Len(p)) /\ (newlen # 0 => newlen \in 1 .. Len(p))
    BY <1>2, <1>4
  <1> QED BY ZenonT(30), <1>1, <1>2, <1>5, <1>6, CutTyped, RootTyped

\* ftp_path is never empty and begins with a separator, so ftp_close_child always finds one.
PathInv == path \in Paths

LEMMA AlwaysPathInv == PathSpec => []PathInv
  <1>1. PathInit => PathInv
    BY RootTyped DEF PathInit, PathInv
  <1>2. PathInv /\ [PathNext]_path => PathInv'
    <2> SUFFICES ASSUME PathInv, [PathNext]_path PROVE PathInv'
      OBVIOUS
    <2>1. CASE Cwd
      <3>1. PICK dir \in Params, opens \in BOOLEAN :
              path' = IF OpenChild(path, dir) = Root \/ opens THEN OpenChild(path, dir)
                      ELSE CloseChild(OpenChild(path, dir))
        BY <2>1 DEF Cwd
      <3>2. OpenChild(path, dir) \in Paths
        BY OpenTyped, ParamsTyped DEF PathInv
      <3> QED BY <3>1, <3>2, CloseTyped DEF PathInv
    <2>2. CASE Cdup
      BY <2>2, CloseTyped DEF Cdup, PathInv
    <2>3. CASE FileCommand
      BY <2>3, ReturnTyped, ParamsTyped DEF FileCommand, PathInv
    <2>4. CASE UNCHANGED path
      BY <2>4 DEF PathInv
    <2> QED BY <2>1, <2>2, <2>3, <2>4 DEF PathNext
  <1> QED BY <1>1, <1>2, PTL DEF PathSpec

\* What only borrows the working directory gives it back (ftp_open_child with
\* ftp_return_to_previous_path, or with ftp_close_child after a simple name), for
\* parameters and paths of any length.
THEOREM PathAlwaysRestored == PathSpec => []PathRestored
  <1>1. PathInv => PathRestored
    <2> SUFFICES ASSUME PathInv, Proper(path), NEW dir \in Params
                 PROVE  /\ ~IsAbsolute(dir) => ReturnToPreviousPath(OpenChild(path, dir), dir) = path
                        /\ Len(dir) > 0 /\ (\A i \in 1..Len(dir) : dir[i] # Slash) => CloseChild(OpenChild(path, dir)) = path
      BY Zenon DEF PathRestored
    <2>1. path \in Paths /\ dir \in Seq(Chars)
      BY ParamsTyped DEF PathInv
    <2> QED BY Zenon, <2>1, RelativeUndone, NameUndone
  <1> QED BY <1>1, AlwaysPathInv, PTL
=============================================================================
