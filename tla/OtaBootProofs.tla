--------------------------- MODULE OtaBootProofs ---------------------------
(***************************************************************************)
(* Theorems on OtaBoot for every number of sectors and every set of        *)
(* versions.                                                               *)
(***************************************************************************)
EXTENDS OtaBootInv, TLAPS

USE DEF FACTORY, UPDATE1, UPDATE2, Slots, CHECK, READY, SAFE_BOOT_HW, SAFE_BOOT_SW, FF,
        NoArg, Tasks

(* The values the code assigns are values of the fields.                    *)
LEMMA Values ==
  /\ {FACTORY, UPDATE1, UPDATE2, FF} \subseteq Images
  /\ {CHECK, READY, FF} \subseteq Statuses
  /\ {0, SAFE_BOOT_HW, SAFE_BOOT_SW, FF} \subseteq Flags
BY DEF Images, Statuses, Flags

(* The fixed records are of the types they are used at.                     *)
LEMMA ConstantTypes ==
  /\ ErasedInfo \in BootInfo
  /\ DefaultInfo \in BootInfo
  /\ ZeroInfo \in BootInfo
  /\ Idle \in Jobs
  /\ NoUpdate \in Updater
<1>1. ErasedInfo \in BootInfo /\ DefaultInfo \in BootInfo /\ ZeroInfo \in BootInfo
  BY Values DEF ErasedInfo, DefaultInfo, ZeroInfo, BootInfo
<1>2. Idle \in Jobs
  BY <1>1 DEF Idle, Jobs
<1>3. NoUpdate \in Updater
  BY <1>1, NChunksAssumption DEF NoUpdate, Updater
<1>. QED BY <1>1, <1>2, <1>3

(* The bootloader's decision on a pending image is a boot_info record.      *)
LEMMA ResolveType == ASSUME NEW b \in BootInfo PROVE Resolve(b) \in BootInfo
<1>. DEFINE active == IF b.ActiveImg = UPDATE2 THEN FACTORY ELSE b.ActiveImg
<1>1. active \in Images
  BY Values DEF BootInfo
<1>. HIDE DEF active
<1>2. [b EXCEPT !.ActiveImg = active, !.Status = READY] \in BootInfo
  BY ZenonT(60), <1>1, Values DEF BootInfo
<1>3. [b EXCEPT !.ActiveImg = b.PrevImg, !.PrevImg = active, !.Status = READY] \in BootInfo
  BY ZenonT(60), <1>1, Values DEF BootInfo
<1>. QED BY <1>2, <1>3 DEF Resolve, active

(* Programming the sector a second time yields a boot_info record.          *)
LEMMA ProgramInfoType ==
  ASSUME NEW old \in BootInfo, NEW new \in BootInfo
  PROVE  ProgramInfo(old, new) \in BootInfo
<1>1. \A x, y \in Images : And(x, y) \in Images
  BY DEF And, Images
<1>2. \A x, y \in Statuses : And(x, y) \in Statuses
  BY DEF And, Statuses
<1>3. \A x, y \in Flags : And(x, y) \in Flags
  BY DEF And, Flags
<1>4. (old = new /\ old.crc) \in BOOLEAN
  OBVIOUS
<1>. QED BY <1>1, <1>2, <1>3, <1>4 DEF ProgramInfo, BootInfo

(* The slot the next update goes to is one of the two.                      *)
LEMMA NextSlotType == ASSUME NEW b PROVE NextSlot(b) \in Slots
BY DEF NextSlot

(* A restart leaves RAM in its initial state.                               *)
LEMMA RestartType ==
  ASSUME TypeOK, Restart, info' \in BootInfo, slot' \in [Slots -> [Chunks -> Sector]]
  PROVE  TypeOK'
<1>1. StartOfBoot \in Bootloader
  BY ConstantTypes, Values DEF StartOfBoot, Bootloader
<1>2. [t \in Tasks |-> Idle] \in [Tasks -> Jobs]
  BY ConstantTypes
<1>. QED BY Zenon, <1>1, <1>2, ConstantTypes DEF TypeOK, Restart

(* Closing an update keeps the updater's statics well formed.               *)
LEMMA ClosedType == ASSUME NEW u \in Updater PROVE Closed(u) \in Updater
<1>1. 1 \in 1 .. NChunks + 1 /\ FF \in Slots \cup {FF}
  BY NChunksAssumption
<1>. QED BY ZenonT(60), <1>1 DEF Closed, Updater

(* The two ways the updater's statics are set during an update.             *)
LEMMA UpdaterFields ==
  ASSUME NEW n \in 1 .. NChunks + 1, NEW b \in BootInfo
  PROVE  /\ \A s \in Slots \cup {FF} : [at |-> s, next |-> n, info |-> b] \in Updater
         /\ \A u \in Updater : [u EXCEPT !.next = n, !.info = b] \in Updater
BY ZenonT(60) DEF Updater

(* A rewrite of boot_info that ends leaves the task idle or the device      *)
(* restarting.                                                              *)
LEMMA JobDoneType ==
  ASSUME TypeOK, NEW t \in Tasks, NEW ok \in BOOLEAN, JobDone(t, ok),
         info' \in BootInfo, slot' = slot
  PROVE  TypeOK'
<1>1. CASE Restart
  BY <1>1, RestartType DEF TypeOK
<1>2. CASE /\ job' = [job EXCEPT ![t] = Idle]
           /\ upd' = IF job[t].src = "upd" THEN Closed(upd) ELSE upd
           /\ UNCHANGED <<mode, bl, app, mpInfo, lost>>
  <2>1. upd' \in Updater
    BY <1>2, ClosedType DEF TypeOK
  <2>2. job' \in [Tasks -> Jobs]
    BY <1>2, ConstantTypes DEF TypeOK
  <2>. QED BY <1>2, <2>1, <2>2 DEF TypeOK, app
<1>. QED BY <1>1, <1>2 DEF JobDone

(* A boot_info record with the fields a caller sets is a boot_info record.  *)
LEMMA InfoUpdates ==
  ASSUME NEW b \in BootInfo
  PROVE  /\ [b EXCEPT !.crc = TRUE] \in BootInfo
         /\ [b EXCEPT !.crc = FALSE] \in BootInfo
         /\ \A f \in Flags : [b EXCEPT !.safeboot = f] \in BootInfo
         /\ [b EXCEPT !.PrevImg = b.ActiveImg, !.ActiveImg = OtherImage(b.ActiveImg),
                      !.Status = CHECK, !.crc = TRUE] \in BootInfo
         /\ \A part \in {NoArg, 0, 1} : WithPartition(b, part) \in BootInfo
         /\ \A sb : WithSafeboot(b, sb) \in BootInfo
<1>1. [b EXCEPT !.crc = TRUE] \in BootInfo /\ [b EXCEPT !.crc = FALSE] \in BootInfo
  BY Zenon DEF BootInfo
<1>2. \A f \in Flags : [b EXCEPT !.safeboot = f] \in BootInfo
  BY DEF BootInfo
<1>3. OtherImage(b.ActiveImg) \in Images
  BY Values DEF OtherImage
<1>4. [b EXCEPT !.PrevImg = b.ActiveImg, !.ActiveImg = OtherImage(b.ActiveImg),
                !.Status = CHECK, !.crc = TRUE] \in BootInfo
  BY ZenonT(60), <1>3, Values DEF BootInfo
<1>5. \A part \in {0, 1} :
        [b EXCEPT !.PrevImg = b.ActiveImg, !.ActiveImg = part, !.Status = CHECK] \in BootInfo
  <2>1. \A p \in Images, q \in Images, s \in Statuses :
          [b EXCEPT !.PrevImg = p, !.ActiveImg = q, !.Status = s] \in BootInfo
    BY Zenon DEF BootInfo
  <2>2. b.ActiveImg \in Images /\ CHECK \in Statuses /\ {0, 1} \subseteq Images
    BY Values DEF BootInfo
  <2>. QED BY Zenon, <2>1, <2>2
<1>6. \A part \in {NoArg, 0, 1} : WithPartition(b, part) \in BootInfo
  BY Zenon, <1>5 DEF WithPartition
<1>7. \A sb : WithSafeboot(b, sb) \in BootInfo
  BY <1>2, Values DEF WithSafeboot
<1>. QED BY <1>1, <1>2, <1>4, <1>6, <1>7

(* The same for one caller at a time: storing boot_info, and the two steps  *)
(* of bootmgr().                                                            *)
LEMMA CrcUpdate ==
  ASSUME NEW b \in BootInfo
  PROVE  [b EXCEPT !.crc = TRUE] \in BootInfo /\ [b EXCEPT !.crc = FALSE] \in BootInfo
BY Zenon DEF BootInfo

LEMMA FlagUpdate ==
  ASSUME NEW b \in BootInfo, NEW f \in Flags
  PROVE  [b EXCEPT !.safeboot = f] \in BootInfo
BY DEF BootInfo

LEMMA PartitionUpdate ==
  ASSUME NEW b \in BootInfo, NEW part \in {NoArg, 0, 1}
  PROVE  WithPartition(b, part) \in BootInfo
BY ZenonT(60), InfoUpdates

LEMMA SafebootUpdate ==
  ASSUME NEW b \in BootInfo, NEW sb
  PROVE  WithSafeboot(b, sb) \in BootInfo
BY Zenon, InfoUpdates

(* Each step of the bootloader keeps the types.                             *)
LEMMA BootType == ASSUME TypeOK, Boot PROVE TypeOK'
<1>1. CASE BootRead
  <2>1. bl' \in Bootloader
    <3>1. DefaultInfo \in BootInfo /\ Resolve(info) \in BootInfo /\ info \in BootInfo
      BY ConstantTypes, ResolveType DEF TypeOK
    <3>. QED BY Zenon, <1>1, <3>1 DEF BootRead, TypeOK, Bootloader
  <2>. QED BY <1>1, <2>1 DEF BootRead, TypeOK, flash, app, ram
<1>2. CASE BootErase
  <2>1. bl' \in Bootloader
    BY <1>2 DEF BootErase, TypeOK, Bootloader
  <2>2. info' \in BootInfo
    BY <1>2, ConstantTypes DEF BootErase, TypeOK
  <2>. QED BY <1>2, <2>1, <2>2 DEF BootErase, TypeOK, app, ram
<1>3. CASE BootWrite
  <2>1. bl' \in Bootloader
    BY <1>3 DEF BootWrite, TypeOK, Bootloader
  <2>2. info' \in BootInfo
    <3>1. bl.info \in BootInfo
      BY DEF TypeOK, Bootloader
    <3>2. [bl.info EXCEPT !.crc = TRUE] \in BootInfo
      BY Zenon, <3>1, CrcUpdate
    <3>3. info \in BootInfo
      BY DEF TypeOK
    <3>4. info' = [bl.info EXCEPT !.crc = TRUE] \/ info' = info
      BY <1>3 DEF BootWrite
    <3>. QED BY Zenon, <3>2, <3>3, <3>4
  <2>. QED BY <1>3, <2>1, <2>2 DEF BootWrite, TypeOK, app, ram
<1>4. ASSUME NEW pin \in Pins, BootSafe(pin) PROVE TypeOK'
  <2>. DEFINE stored == bl.info.safeboot
              requested == IF pin = "released" THEN 0 ELSE SAFE_BOOT_HW
              flag == IF requested # stored THEN NextFlag(stored, requested) ELSE stored
              asked == (pin # "released" \/ stored = SAFE_BOOT_SW)
              next == IF requested # stored THEN "erase" ELSE "load"
  <2>1. bl.info \in BootInfo
    BY DEF TypeOK, Bootloader
  <2>2. flag \in Flags
    BY <2>1, Values DEF NextFlag, BootInfo
  <2>3. Selected(bl.info, pin) \in Images
    BY <2>1, Values DEF Selected, BootInfo
  <2>4. asked \in BOOLEAN /\ next \in {"read", "erase", "write", "safe", "load"}
    OBVIOUS
  <2>5. bl' = [bl EXCEPT !.part = Selected(bl.info, pin), !.asked = asked,
                         !.info = [bl.info EXCEPT !.safeboot = flag],
                         !.ret = "load", !.pc = next]
    BY <1>4 DEF BootSafe, TypeOK, Bootloader
  <2>6. [bl.info EXCEPT !.safeboot = flag] \in BootInfo
    BY <2>1, <2>2, FlagUpdate
  <2>. HIDE DEF stored, requested, flag, asked, next
  <2>7. bl' \in Bootloader
    BY Zenon, <2>3, <2>4, <2>5, <2>6 DEF TypeOK, Bootloader
  <2>. QED BY <1>4, <2>7 DEF BootSafe, TypeOK, flash, app, ram
<1>5. CASE BootLoad
  <2>1. bl' \in Bootloader
    BY <1>5, ConstantTypes, Values DEF BootLoad, StartOfBoot, Bootloader
  <2>2. running' \in Slots /\ safe' \in BOOLEAN /\ mpInfo' \in BootInfo
        /\ mode' \in {"boot", "run", "halt"}
    BY Zenon, <1>5 DEF BootLoad, Verifies, TypeOK, app
  <2>. QED BY <1>5, <2>1, <2>2 DEF BootLoad, TypeOK, flash
<1>. QED BY <1>1, <1>2, <1>3, <1>4, <1>5 DEF Boot

(* A slot with new content is a slot.                                       *)
LEMMA SlotType ==
  ASSUME TypeOK, NEW s \in Slots, NEW i \in [Chunks -> Sector], slot' = [slot EXCEPT ![s] = i]
  PROVE  slot' \in [Slots -> [Chunks -> Sector]]
BY DEF TypeOK

(* The places a call of the updater waits at.                               *)
LEMMA CallFields ==
  /\ [Idle EXCEPT !.pc = "first"] \in Jobs
  /\ [Idle EXCEPT !.pc = "ahead"] \in Jobs
  /\ [Idle EXCEPT !.pc = "erase", !.src = "upd"] \in Jobs
  /\ \A j \in Jobs : [j EXCEPT !.pc = "second"] \in Jobs
BY Zenon, ConstantTypes DEF Jobs

(* The updater's copy of boot_info with its size changed.                   *)
LEMMA SizeChanged ==
  ASSUME TypeOK
  PROVE  /\ [upd EXCEPT !.info.crc = FALSE] = [upd EXCEPT !.info = [upd.info EXCEPT !.crc = FALSE]]
         /\ [upd EXCEPT !.info.crc = FALSE] \in Updater
<1>1. upd \in Updater /\ upd.info \in BootInfo
  BY DEF TypeOK, Updater
<1>2. [upd EXCEPT !.info.crc = FALSE] = [upd EXCEPT !.info = [upd.info EXCEPT !.crc = FALSE]]
  BY <1>1 DEF Updater
<1>3. [upd.info EXCEPT !.crc = FALSE] \in BootInfo
  BY Zenon, <1>1, CrcUpdate
<1>4. ASSUME NEW b \in BootInfo PROVE [upd EXCEPT !.info = b] \in Updater
  BY Zenon, <1>1 DEF Updater
<1>. QED BY <1>2, <1>3, <1>4

(* What an erase of a call under way does: the flash driver aborts, or one  *)
(* slot changes and the call goes on or ends.                               *)
LEMMA EraseSteps ==
  ASSUME TypeOK, NEW t \in Tasks, StartFirst(t) \/ StartSecond(t) \/ WriteAhead(t)
  PROVE  /\ mode = "run" /\ job[t].pc \in {"first", "second", "ahead"}
         /\ \/ UNCHANGED flash /\ Restart
            \/ /\ ~Dangerous(upd.at)
               /\ \/ slot' = slot
                  \/ \E i \in [Chunks -> Sector] : slot' = [slot EXCEPT ![upd.at] = i]
               /\ upd' \in {upd, [upd EXCEPT !.info.crc = FALSE]}
               /\ job' \in {[job EXCEPT ![t] = Idle], [job EXCEPT ![t].pc = "second"]}
               /\ UNCHANGED <<info, mode, bl, app, mpInfo, lost>>
<1>. DEFINE img(k) == Erased(slot[upd.at], k)
<1>1. mode = "run" /\ job[t].pc \in {"first", "second", "ahead"}
  BY DEF StartFirst, StartSecond, WriteAhead
<1>2. ASSUME ~Dangerous(upd.at), NEW k PROVE img(k) \in [Chunks -> Sector]
  <2>1. upd.at \in Slots
    BY <1>2 DEF Dangerous, TypeOK, Updater
  <2>. QED BY <2>1 DEF TypeOK, Sector, Erased
<1>4. CASE Dangerous(upd.at)
  <2>1. UNCHANGED flash /\ Restart
    BY Zenon, <1>4 DEF StartFirst, StartSecond, WriteAhead, EraseStep
  <2>. QED BY <1>1, <2>1
<1>5. CASE ~Dangerous(upd.at)
  <2>1. \E k : slot' = slot \/ slot' = [slot EXCEPT ![upd.at] = img(k)]
    <3>1. CASE StartFirst(t)
      <4>1. slot' = slot \/ slot' = [slot EXCEPT ![upd.at] = img(upd.next)]
        BY Zenon, <1>5, <3>1 DEF StartFirst, EraseStep
      <4>. QED BY Zenon, <4>1
    <3>2. CASE StartSecond(t)
      <4>1. slot' = slot \/ slot' = [slot EXCEPT ![upd.at] = img(upd.next + 1)]
        BY Zenon, <1>5, <3>2 DEF StartSecond, EraseStep
      <4>. QED BY Zenon, <4>1
    <3>3. CASE WriteAhead(t)
      <4>1. slot' = slot \/ slot' = [slot EXCEPT ![upd.at] = img(upd.next + 1)]
        BY Zenon, <1>5, <3>3 DEF WriteAhead, EraseStep
      <4>. QED BY Zenon, <4>1
    <3>. QED BY Zenon, <3>1, <3>2, <3>3
  <2>2. upd' \in {upd, [upd EXCEPT !.info.crc = FALSE]}
    BY Zenon, <1>5 DEF StartFirst, StartSecond, WriteAhead, EraseStep
  <2>3. job' \in {[job EXCEPT ![t] = Idle], [job EXCEPT ![t].pc = "second"]}
    BY Zenon, <1>5 DEF StartFirst, StartSecond, WriteAhead, EraseStep
  <2>4. UNCHANGED <<info, mode, bl, app, mpInfo, lost>>
    BY Zenon, <1>5 DEF StartFirst, StartSecond, WriteAhead, EraseStep
  <2>5. slot' = slot \/ \E i \in [Chunks -> Sector] : slot' = [slot EXCEPT ![upd.at] = i]
    <3>1. PICK k : slot' = slot \/ slot' = [slot EXCEPT ![upd.at] = img(k)]
      BY Zenon, <2>1
    <3>2. img(k) \in [Chunks -> Sector]
      BY Zenon, <1>2, <1>5
    <3>. HIDE DEF img
    <3>. QED BY Zenon, <3>1, <3>2
  <2>. QED BY Zenon, <1>1, <1>5, <2>2, <2>3, <2>4, <2>5
<1>. QED BY <1>4, <1>5

(* The erases keep the types.                                               *)
LEMMA EraseType ==
  ASSUME TypeOK, NEW t \in Tasks, StartFirst(t) \/ StartSecond(t) \/ WriteAhead(t)
  PROVE  TypeOK'
<1>1. CASE UNCHANGED flash /\ Restart
  BY <1>1, RestartType DEF TypeOK, flash
<1>2. CASE /\ ~Dangerous(upd.at)
           /\ slot' = slot \/ \E i \in [Chunks -> Sector] : slot' = [slot EXCEPT ![upd.at] = i]
           /\ upd' \in {upd, [upd EXCEPT !.info.crc = FALSE]}
           /\ job' \in {[job EXCEPT ![t] = Idle], [job EXCEPT ![t].pc = "second"]}
           /\ UNCHANGED <<info, mode, bl, app, mpInfo, lost>>
  <2>1. upd.at \in Slots
    BY <1>2 DEF Dangerous, TypeOK, Updater
  <2>2. slot' \in [Slots -> [Chunks -> Sector]]
    BY <1>2, <2>1, SlotType DEF TypeOK
  <2>3. upd' \in Updater
    BY <1>2, SizeChanged DEF TypeOK
  <2>4. job' \in [Tasks -> Jobs]
    <3>1. [job EXCEPT ![t].pc = "second"] = [job EXCEPT ![t] = [job[t] EXCEPT !.pc = "second"]]
      BY DEF TypeOK
    <3>2. [job[t] EXCEPT !.pc = "second"] \in Jobs /\ Idle \in Jobs
      BY Zenon, CallFields, ConstantTypes DEF TypeOK
    <3>. QED BY <1>2, <3>1, <3>2 DEF TypeOK
  <2>. QED BY <1>2, <2>2, <2>3, <2>4 DEF TypeOK, app
<1>. QED BY Zenon, <1>1, <1>2, EraseSteps

(* Each call of the updater keeps the types.                                *)
LEMMA UpdaterType ==
  ASSUME TypeOK, NEW t \in Tasks,
         OtaSlot(t) \/ Start(t) \/ Finish(t) \/ (\E v \in Versions : Write(t, v))
  PROVE  TypeOK'
<1>0. ASSUME NEW r \in SlotAnswers PROVE r.at \in Slots /\ r.info \in BootInfo
  BY <1>0, NextSlotType DEF SlotAnswers, TypeOK, Updater
<1>1. CASE OtaSlot(t)
  <2>1. PICK r \in SlotAnswers : upd' = [upd EXCEPT !.info = r.info]
    BY <1>1 DEF OtaSlot
  <2>2. upd' \in Updater
    BY Zenon, <1>0, <2>1 DEF TypeOK, Updater
  <2>. QED BY <1>1, <2>2 DEF OtaSlot, TypeOK, flash, app
<1>2. CASE Start(t)
  <2>1. PICK r \in SlotAnswers : upd' = [at |-> r.at, next |-> 1, info |-> r.info]
    BY <1>2 DEF Start
  <2>2. 1 \in 1 .. NChunks + 1 /\ r.at \in Slots \cup {FF} /\ r.info \in BootInfo
    BY <1>0, NChunksAssumption
  <2>3. upd' \in Updater
    BY <2>1, <2>2 DEF Updater
  <2>4. job' \in [Tasks -> Jobs]
    BY <1>2, CallFields DEF Start, TypeOK
  <2>. QED BY <1>2, <2>3, <2>4 DEF Start, TypeOK, flash, app
<1>3. CASE Finish(t)
  <2>1. upd.info \in BootInfo
    BY DEF TypeOK, Updater
  <2>2. Closed(upd) \in Updater
    BY ClosedType DEF TypeOK
  <2>. DEFINE b == [upd.info EXCEPT !.PrevImg = upd.info.ActiveImg,
                                    !.ActiveImg = OtherImage(upd.info.ActiveImg),
                                    !.Status = CHECK, !.crc = TRUE]
  <2>3. b \in BootInfo
    BY Zenon, <2>1, InfoUpdates
  <2>4. upd' = [upd EXCEPT !.info = b] \/ upd' = Closed(upd)
    BY <1>3 DEF Finish, TypeOK, Updater
  <2>. HIDE DEF b
  <2>5. upd' \in Updater
    BY <2>2, <2>3, <2>4 DEF TypeOK, Updater
  <2>6. [Idle EXCEPT !.pc = "erase", !.src = "upd"] \in Jobs
    BY CallFields
  <2>7. job' \in [Tasks -> Jobs]
    BY <1>3, <2>6 DEF Finish, TypeOK
  <2>. QED BY <1>3, <2>5, <2>7 DEF Finish, TypeOK, flash, app
<1>4. ASSUME NEW v \in Versions, Write(t, v) PROVE TypeOK'
  <2>1. CASE Dangerous(upd.at)
    BY <1>4, <2>1, RestartType DEF Write, TypeOK, flash
  <2>2. CASE ~Dangerous(upd.at)
    <3>. DEFINE k == upd.next
                img(x) == [slot[upd.at] EXCEPT ![k] = x]
    <3>1. upd.at \in Slots /\ k \in 1 .. NChunks /\ k + 1 \in 1 .. NChunks + 1
      BY <1>4, <2>2, NChunksAssumption DEF Write, Dangerous, TypeOK, Updater
    <3>2. Programmed(slot[upd.at][k], v) \in Sector /\ "garbled" \in Sector
      BY DEF Programmed, Sector
    <3>3. ASSUME NEW x \in Sector PROVE img(x) \in [Chunks -> Sector]
      BY Zenon, <3>1 DEF TypeOK
    <3>4. \/ slot' = [slot EXCEPT ![upd.at] = img(Programmed(slot[upd.at][k], v))]
          \/ slot' = [slot EXCEPT ![upd.at] = img("garbled")]
      BY Zenon, <1>4, <2>2, <3>1 DEF Write, TypeOK
    <3>. HIDE DEF img
    <3>5. \E x \in Sector : slot' = [slot EXCEPT ![upd.at] = img(x)]
      BY Zenon, <3>2, <3>4
    <3>6. slot' \in [Slots -> [Chunks -> Sector]]
      BY <3>1, <3>3, <3>5, SlotType
    <3>7. upd.info \in BootInfo /\ [upd.info EXCEPT !.crc = FALSE] \in BootInfo
      BY Zenon, CrcUpdate DEF TypeOK, Updater
    <3>8. upd' = [upd EXCEPT !.next = k + 1, !.info = [upd.info EXCEPT !.crc = FALSE]]
          \/ upd' = upd
      BY Zenon, <1>4, <2>2 DEF Write, TypeOK, Updater
    <3>9. upd' \in Updater
      <4>1. upd \in Updater
        BY DEF TypeOK
      <4>2. ASSUME NEW n \in 1 .. NChunks + 1, NEW b \in BootInfo
            PROVE  [upd EXCEPT !.next = n, !.info = b] \in Updater
        BY Zenon, <4>1, UpdaterFields
      <4>. HIDE DEF k
      <4>3. [upd EXCEPT !.next = k + 1, !.info = [upd.info EXCEPT !.crc = FALSE]] \in Updater
        BY <3>1, <3>7, <4>2, Zenon
      <4>. QED BY <3>8, <4>1, <4>3, Zenon
    <3>10. job' = job \/ job' = [job EXCEPT ![t] = [Idle EXCEPT !.pc = "ahead"]]
      BY Zenon, <1>4, <2>2 DEF Write
    <3>11. job' \in [Tasks -> Jobs]
      BY <3>10, CallFields DEF TypeOK
    <3>. QED BY Zenon, <1>4, <2>2, <3>6, <3>9, <3>11 DEF Write, TypeOK, app
  <2>. QED BY <2>1, <2>2
<1>. QED BY <1>1, <1>2, <1>3, <1>4

(* The rewrite a call starts is a job.                                      *)
LEMMA JobFields ==
  ASSUME NEW r \in BOOLEAN
  PROVE  /\ [Idle EXCEPT !.pc = "erase", !.src = "mp", !.reset = r] \in Jobs
         /\ [Idle EXCEPT !.pc = "dead"] \in Jobs
         /\ \A b \in BootInfo : [pc |-> "erase", src |-> "own", reset |-> r, own |-> b] \in Jobs
BY Zenon, ConstantTypes DEF Jobs

(* pycom.bootmgr() keeps the types.                                         *)
LEMMA BootmgrType ==
  ASSUME TypeOK, NEW part \in {NoArg, 0, 1, 2}, NEW fs, NEW sb \in SafebootArgs,
         NEW rst \in BOOLEAN, Bootmgr("mp", part, fs, sb, rst)
  PROVE  TypeOK'
<1>. DEFINE m1 == WithPartition(mpInfo, part)
            m2 == WithSafeboot(m1, sb)
            m3 == [m2 EXCEPT !.crc = TRUE]
            partOk == part = NoArg \/ (part <= UPDATE1 /\ mpInfo.ActiveImg # part)
            r == part # NoArg \/ rst
            j == [Idle EXCEPT !.pc = "erase", !.src = "mp", !.reset = r]
<1>1. mpInfo \in BootInfo
  BY DEF TypeOK
<1>2. ASSUME partOk PROVE m1 \in BootInfo /\ m2 \in BootInfo /\ m3 \in BootInfo
  <2>1. part \in {NoArg, 0, 1}
    BY <1>2
  <2>2. m1 \in BootInfo
    BY <1>1, <2>1, PartitionUpdate
  <2>3. m2 \in BootInfo
    BY <2>2, SafebootUpdate
  <2>. QED BY Zenon, <2>2, <2>3, CrcUpdate
<1>3. j \in Jobs
  <2>1. r \in BOOLEAN
    OBVIOUS
  <2>. QED BY Zenon, <2>1, JobFields
<1>4. \/ /\ mpInfo' = mpInfo \/ (partOk /\ mpInfo' \in {m1, m2})
         /\ UNCHANGED <<flash, mode, bl, app, upd, job, lost>>
      \/ /\ partOk /\ mpInfo' = m3 /\ job' = [job EXCEPT !["mp"] = j]
         /\ UNCHANGED <<flash, mode, bl, app, upd, lost>>
      \/ UNCHANGED flash /\ Restart
      \/ UNCHANGED <<flash, mode, bl, app, ram, lost>>
  BY DEF Bootmgr
<1>. HIDE DEF m1, m2, m3, partOk, r, j
<1>5. mpInfo' \in BootInfo \/ Restart
  BY <1>1, <1>2, <1>4 DEF ram
<1>6. job' \in [Tasks -> Jobs] \/ Restart
  BY <1>3, <1>4 DEF ram, TypeOK
<1>7. UNCHANGED flash /\ (Restart \/ UNCHANGED <<mode, bl, app, upd, lost>>)
  BY <1>4 DEF ram
<1>. QED BY <1>5, <1>6, <1>7, RestartType DEF TypeOK, flash, app

(* The erase and the write of boot_info keep the types.                     *)
LEMMA JobType ==
  ASSUME TypeOK, NEW t \in Tasks, JobErase(t) \/ JobWrite(t) PROVE TypeOK'
<1>1. CASE JobErase(t)
  <2>1. CASE info' = ErasedInfo /\ job' = [job EXCEPT ![t].pc = "write"]
             /\ UNCHANGED <<mode, bl, app, upd, mpInfo, lost>>
    <3>1. job' = [job EXCEPT ![t] = [job[t] EXCEPT !.pc = "write"]]
      BY <2>1 DEF TypeOK
    <3>2. [job[t] EXCEPT !.pc = "write"] \in Jobs
      BY DEF TypeOK, Jobs
    <3>3. job' \in [Tasks -> Jobs]
      BY <3>1, <3>2 DEF TypeOK
    <3>. QED BY <1>1, <2>1, <3>3, ConstantTypes DEF JobErase, TypeOK, app
  <2>2. CASE UNCHANGED info /\ JobDone(t, FALSE)
    BY Zenon, <1>1, <2>2, JobDoneType DEF JobErase, TypeOK
  <2>. QED BY Zenon, <1>1, <2>1, <2>2 DEF JobErase
<1>2. CASE JobWrite(t)
  <2>1. Source(job[t]) \in BootInfo
    BY DEF Source, TypeOK, Updater, Jobs
  <2>2. ProgramInfo(info, Source(job[t])) \in BootInfo
    BY <2>1, ProgramInfoType DEF TypeOK
  <2>3. info' \in BootInfo /\ slot' = slot /\ (JobDone(t, TRUE) \/ JobDone(t, FALSE))
    BY Zenon, <1>2, <2>2 DEF JobWrite, TypeOK
  <2>. QED BY Zenon, <2>3, JobDoneType
<1>. QED BY <1>1, <1>2

(* Every reachable state is well typed, for any number of sectors and any   *)
(* versions, also when calls overlap and the flash fails: boot_info, its    *)
(* RAM copies and the slot numbers stay in range.                           *)
THEOREM TypeCorrect == Spec => []TypeOK
<1>1. Init => TypeOK
  <2>. SUFFICES ASSUME Init PROVE TypeOK
    OBVIOUS
  <2>1. slot \in [Slots -> [Chunks -> Sector]]
    BY DEF Init, Sector
  <2>2. bl \in Bootloader
    BY ConstantTypes, Values DEF Init, StartOfBoot, Bootloader
  <2>3. job \in [Tasks -> Jobs]
    BY ConstantTypes DEF Init
  <2>. QED BY Zenon, <2>1, <2>2, <2>3, ConstantTypes DEF Init, TypeOK
<1>2. TypeOK /\ [Next]_vars => TypeOK'
  <2>. SUFFICES ASSUME TypeOK, [Next]_vars PROVE TypeOK'
    OBVIOUS
  <2>1. CASE Boot
    BY <2>1, BootType
  <2>2. CASE Crash
    BY <2>2, RestartType DEF Crash, flash, TypeOK
  <2>3. CASE BootmgrCalls
    BY <2>3, BootmgrType DEF BootmgrCalls
  <2>4. CASE SoftReset
    BY <2>4 DEF SoftReset, TypeOK, flash
  <2>5. ASSUME NEW t \in Tasks, NEW rst \in BOOLEAN, ResetSafe(t, rst) PROVE TypeOK'
    <3>. DEFINE b == [info EXCEPT !.safeboot = SAFE_BOOT_SW, !.crc = TRUE]
                j == [pc |-> "erase", src |-> "own", reset |-> rst, own |-> b]
                dead == [Idle EXCEPT !.pc = "dead"]
    <3>1. b \in BootInfo
      BY ZenonT(60), Values DEF TypeOK, BootInfo
    <3>2. j \in Jobs /\ dead \in Jobs
      BY Zenon, <3>1, JobFields
    <3>3. \/ UNCHANGED flash /\ Restart
          \/ /\ \/ job' = [job EXCEPT !["mp"] = dead, ![t] = j]
                \/ job' = [job EXCEPT !["mp"] = dead]
             /\ UNCHANGED <<flash, mode, bl, app, upd, mpInfo, lost>>
      BY Zenon, <2>5 DEF ResetSafe, flash
    <3>. HIDE DEF b, j, dead
    <3>4. CASE UNCHANGED flash /\ Restart
      BY <3>4, RestartType DEF TypeOK, flash
    <3>5. CASE /\ \/ job' = [job EXCEPT !["mp"] = dead, ![t] = j]
                  \/ job' = [job EXCEPT !["mp"] = dead]
               /\ UNCHANGED <<flash, mode, bl, app, upd, mpInfo, lost>>
      <4>1. job' \in [Tasks -> Jobs]
        BY <3>2, <3>5 DEF TypeOK
      <4>. QED BY <3>5, <4>1 DEF TypeOK, flash, app
    <3>. QED BY <3>3, <3>4, <3>5
  <2>6. CASE UNCHANGED vars
    BY <2>6 DEF vars, TypeOK
  <2>. QED BY <2>1, <2>2, <2>3, <2>4, <2>5, <2>6, UpdaterType, EraseType, JobType DEF Next
<1>. QED BY <1>1, <1>2, PTL DEF Spec
-----------------------------------------------------------------------------
(* The boot invariant.                                                      *)

(* A readable boot_info names an anchor, in every mode.                     *)
LEMMA InfoKept ==
  ASSUME TypeOK, BootInv, InfoValid(info)
  PROVE  \E a \in Slots : Sound(a) /\ Keeps(info, a)
<1>1. info # ErasedInfo
  BY DEF InfoValid, ErasedInfo
<1>2. ASSUME ReadyInfo(info) PROVE \E a \in Slots : Sound(a) /\ Keeps(info, a)
  BY <1>2 DEF ReadyInfo, Sound, Keeps
<1>3. CASE mode = "run"
  BY <1>1, <1>3 DEF BootInv, Anchored, FlashKeeps, KeepsInRun
<1>4. CASE mode = "boot"
  BY <1>1, <1>2, <1>4 DEF BootInv, Booting, InfoOk, TypeOK, Bootloader
<1>5. CASE mode = "halt"
  BY <1>2, <1>5 DEF BootInv
<1>. QED BY <1>3, <1>4, <1>5 DEF TypeOK

(* A restart finds a boot_info that names an anchor, or the FACTORY image,  *)
(* or is recorded as lost.                                                  *)
LEMMA RestartInv ==
  ASSUME TypeOK, Restart,
         InfoValid(info') => \E a \in Slots : (lost \/ ValidImage(slot'[a])) /\ Keeps(info', a)
  PROVE  BootInv'
<1>1. mode' = "boot" /\ bl'.pc = "read"
  BY DEF Restart, StartOfBoot
<1>2. lost => lost'
  BY Zenon DEF Restart
<1>3. ~InfoValid(info') => (lost' \/ ValidImage(slot'[FACTORY]))
  BY Zenon DEF Restart
<1>4. InfoOk'
  BY <1>2, <1>3 DEF InfoOk, Sound, Valid
<1>5. Booting'
  BY <1>1, <1>4 DEF Booting, Restart
<1>. QED BY <1>1, <1>5 DEF BootInv

(* Losing power, or an abort of the flash driver, in any state.             *)
LEMMA CrashInv ==
  ASSUME TypeOK, BootInv, UNCHANGED flash, Restart
  PROVE  BootInv'
<1>1. InfoValid(info) => \E a \in Slots : (lost \/ ValidImage(slot[a])) /\ Keeps(info, a)
  BY InfoKept DEF Sound, Valid
<1>. QED BY <1>1, RestartInv DEF flash

(* Resolving a pending image yields an active image that is sound.          *)
LEMMA ResolveReady ==
  ASSUME TypeOK, NEW a \in Slots, Sound(a), Keeps(info, a), info.Status = CHECK
  PROVE  ReadyInfo(Resolve(info))
<1>. DEFINE active == IF info.ActiveImg = UPDATE2 THEN FACTORY ELSE info.ActiveImg
<1>1. active = OtherSlot(a) /\ info.PrevImg = a
  BY DEF Keeps, Normal
<1>2. active \in Slots
  BY <1>1 DEF OtherSlot
<1>. HIDE DEF active
<1>3. CASE Verifies(active)
  <2>1. Resolve(info) = [info EXCEPT !.ActiveImg = active, !.Status = READY]
    BY <1>3 DEF Resolve, active
  <2>2. /\ Resolve(info).Status = READY /\ Resolve(info).ActiveImg = active
        /\ Resolve(info).PrevImg = a
    BY <1>1, <2>1 DEF TypeOK, BootInfo
  <2>. QED BY <1>2, <1>3, <2>2 DEF ReadyInfo, Sound, Verifies
<1>4. CASE ~Verifies(active)
  <2>1. Resolve(info) = [info EXCEPT !.ActiveImg = info.PrevImg, !.PrevImg = active, !.Status = READY]
    BY <1>4 DEF Resolve, active
  <2>2. /\ Resolve(info).Status = READY /\ Resolve(info).ActiveImg = a
        /\ Resolve(info).PrevImg = active
    BY <1>1, <2>1 DEF TypeOK, BootInfo
  <2>. QED BY <1>2, <2>2 DEF ReadyInfo
<1>. QED BY <1>3, <1>4

(* Each step of the bootloader keeps the boot invariant.                    *)
LEMMA BootKeepsInv == ASSUME TypeOK, BootInv, Serial, Boot PROVE BootInv'
<1>1. CASE BootRead
  <2>1. Booting /\ bl.pc = "read" /\ mode' = "boot" /\ UNCHANGED <<info, slot, lost, upd, job>>
    BY <1>1 DEF BootRead, BootInv, flash, ram
  <2>2. bl \in Bootloader
    BY DEF TypeOK
  <2>3. CASE ~InfoValid(info)
    <3>1. bl'.pc = "erase" /\ bl'.info = DefaultInfo
      BY <1>1, <2>2, <2>3 DEF BootRead, Bootloader
    <3>2. Sound(FACTORY)
      BY <2>1, <2>3 DEF Booting, InfoOk
    <3>3. ReadyInfo(bl.info)'
      BY <2>1, <3>1, <3>2 DEF ReadyInfo, DefaultInfo, Sound, Valid
    <3>. QED BY <2>1, <3>1, <3>3 DEF BootInv, Booting, InfoOk, Sound, Valid
  <2>4. CASE InfoValid(info)
    <3>1. PICK a \in Slots : Sound(a) /\ Keeps(info, a)
      BY <2>4, InfoKept
    <3>2. CASE info.Status = CHECK
      <4>1. bl'.pc = "erase" /\ bl'.info = Resolve(info)
        BY <1>1, <2>2, <2>4, <3>2 DEF BootRead, Bootloader
      <4>2. ReadyInfo(Resolve(info))
        BY <3>1, <3>2, ResolveReady
      <4>3. ReadyInfo(bl.info)'
        BY <2>1, <4>1, <4>2 DEF ReadyInfo, Sound, Valid
      <4>. QED BY Zenon, <2>1, <4>1, <4>3 DEF BootInv, Booting, InfoOk, Sound, Valid
    <3>3. CASE info.Status # CHECK
      <4>1. bl'.pc = "safe" /\ bl'.info = info
        BY <1>1, <2>2, <2>4, <3>3 DEF BootRead, Bootloader
      <4>2. ReadyInfo(info) /\ info.crc
        BY <2>4, <3>1, <3>3 DEF Keeps, ReadyInfo, InfoValid
      <4>3. ReadyInfo(bl.info)' /\ ReadyInfo(info)' /\ info'.crc
        BY <2>1, <4>1, <4>2 DEF ReadyInfo, Sound, Valid
      <4>. QED BY <2>1, <4>1, <4>3 DEF BootInv, Booting
    <3>. QED BY <3>2, <3>3
  <2>. QED BY <2>3, <2>4
<1>2. CASE BootErase
  <2>1. /\ Booting /\ bl.pc = "erase" /\ mode' = "boot" /\ UNCHANGED <<slot, lost, upd, job>>
        /\ info' = ErasedInfo /\ bl' = [bl EXCEPT !.pc = "write"]
    BY <1>2 DEF BootErase, BootInv, ram, Serial
  <2>2. bl'.pc = "write" /\ bl'.info = bl.info
    BY <2>1 DEF TypeOK, Bootloader
  <2>3. ReadyInfo(bl.info)'
    BY <2>1, <2>2 DEF Booting, ReadyInfo, Sound, Valid
  <2>. QED BY <2>1, <2>2, <2>3 DEF BootInv, Booting
<1>3. CASE BootWrite
  <2>1. /\ Booting /\ bl.pc = "write" /\ mode' = "boot" /\ UNCHANGED <<slot, lost, upd, job>>
        /\ info' = [bl.info EXCEPT !.crc = TRUE] /\ bl' = [bl EXCEPT !.pc = bl.ret]
    BY <1>3 DEF BootWrite, BootInv, ram, Serial
  <2>2. bl'.pc \in {"safe", "load"} /\ bl'.info = bl.info /\ bl.info \in BootInfo
    BY <2>1 DEF TypeOK, Bootloader
  <2>3. /\ info'.crc /\ info'.Status = bl.info.Status /\ info'.ActiveImg = bl.info.ActiveImg
        /\ info'.PrevImg = bl.info.PrevImg
    BY <2>1, <2>2 DEF BootInfo
  <2>4. ReadyInfo(bl.info)' /\ ReadyInfo(info)'
    BY <2>1, <2>2, <2>3 DEF Booting, ReadyInfo, Sound, Valid
  <2>. QED BY <2>1, <2>2, <2>3, <2>4 DEF BootInv, Booting
<1>4. ASSUME NEW pin \in Pins, BootSafe(pin) PROVE BootInv'
  <2>1. /\ Booting /\ bl.pc = "safe" /\ mode' = "boot" /\ UNCHANGED <<info, slot, lost, upd, job>>
    BY <1>4 DEF BootSafe, BootInv, flash, ram
  <2>2. /\ bl'.pc \in {"erase", "load"} /\ bl'.info.Status = bl.info.Status
        /\ bl'.info.ActiveImg = bl.info.ActiveImg /\ bl'.info.PrevImg = bl.info.PrevImg
    BY <1>4 DEF BootSafe, TypeOK, Bootloader, BootInfo
  <2>3. ReadyInfo(bl.info)' /\ ReadyInfo(info)' /\ info'.crc
    BY <2>1, <2>2 DEF Booting, ReadyInfo, Sound, Valid
  <2>4. InfoOk'
    <3>1. Sound(info.ActiveImg)' /\ Keeps(info, info.ActiveImg)'
      BY <2>3 DEF ReadyInfo, Keeps
    <3>2. InfoValid(info')
      BY <2>3 DEF ReadyInfo, InfoValid
    <3>. QED BY <3>1, <3>2 DEF InfoOk, Sound
  <2>. QED BY <2>1, <2>2, <2>3, <2>4 DEF BootInv, Booting
<1>5. CASE BootLoad
  <2>1. /\ Booting /\ bl.pc = "load" /\ UNCHANGED <<info, slot, lost, upd, job>>
        /\ ReadyInfo(info) /\ info.crc
    BY <1>5 DEF BootLoad, BootInv, Booting, flash
  <2>2. CASE Verifies(bl.part)
    <3>1. mode' = "run" /\ mpInfo' = info
      BY <1>5, <2>2 DEF BootLoad
    <3>2. \A t \in Tasks : job'[t].pc = "idle"
      BY <2>1 DEF Booting, Idle
    <3>3. upd'.at = FF
      BY <2>1 DEF Booting, NoUpdate
    <3>. DEFINE a == info.ActiveImg
    <3>4. a \in Slots /\ Sound(a)' /\ KeepsInRun(mpInfo, a)' /\ KeepsInRun(info, a)'
      BY <2>1, <3>1 DEF ReadyInfo, Sound, Valid, KeepsInRun, Keeps
    <3>5. a' = a
      BY <2>1
    <3>6. UpdateAway(a)' /\ SavesKeep(a)' /\ FlashKeeps(a)' /\ OneCall'
      <4>1. \A t \in Tasks : ~Busy(t)' /\ ~Saving(t)'
        BY <3>2 DEF Busy, Saving
      <4>2. UpdateAway(a)'
        BY Zenon, <3>3 DEF UpdateAway
      <4>3. FlashKeeps(a)'
        BY <2>1, <3>2, <3>4 DEF FlashKeeps
      <4>. QED BY Zenon, <4>1, <4>2, <4>3 DEF SavesKeep, OneCall
    <3>. QED BY <3>1, <3>4, <3>5, <3>6 DEF BootInv, Anchored
  <2>3. CASE ~Verifies(bl.part)
    <3>1. mode' = "halt"
      BY <1>5, <2>3 DEF BootLoad
    <3>2. ReadyInfo(info)' /\ info'.crc
      BY <2>1 DEF ReadyInfo, Sound, Valid
    <3>3. job' = [t \in Tasks |-> Idle]
      BY <2>1 DEF Booting
    <3>. QED BY Zenon, <3>1, <3>2, <3>3 DEF BootInv
  <2>. QED BY <2>2, <2>3
<1>. QED BY <1>1, <1>2, <1>3, <1>4, <1>5 DEF Boot

(* What is known of the updater when it does not wait for its first erase.  *)
Clear(a) == upd.at # FF => KeepsInRun(upd.info, a) /\ Away(a)

(* A call starts while no other is under way.                               *)
LEMMA ReadyIdle ==
  ASSUME TypeOK, BootInv, Serial, NEW t \in Tasks, Ready(t)
  PROVE  /\ mode = "run"
         /\ \A u \in Tasks : ~Busy(u)
         /\ \E a \in Slots : Anchored(a) /\ info.crc /\ KeepsInRun(info, a) /\ Clear(a)
<1>1. mode = "run" /\ \A u \in Tasks : job[u].pc \in {"idle", "dead"}
  BY DEF Ready, Serial
<1>2. \A u \in Tasks : ~Busy(u)
  BY <1>1 DEF Busy
<1>3. PICK a \in Slots : Anchored(a)
  BY <1>1 DEF BootInv
<1>4. info.crc /\ KeepsInRun(info, a)
  BY <1>1, <1>3 DEF Anchored, FlashKeeps
<1>5. Clear(a)
  <2>1. UpdateAway(a) /\ ~\E u \in Tasks : job[u].pc = "first"
    BY <1>1, <1>3 DEF Anchored
  <2>. QED BY Zenon, <2>1 DEF UpdateAway, Clear
<1>. QED BY <1>1, <1>2, <1>3, <1>4, <1>5

(* A task that saves is busy; with no busy task nothing is saved.           *)
LEMMA SavingBusy == ASSUME NEW t \in Tasks, ~Busy(t) PROVE ~Saving(t)
BY DEF Busy, Saving

(* A step that saves nothing keeps the invariant if it keeps the anchor's   *)
(* image, modpycom's copy and the updater's state in order.                 *)
LEMMA QuietStep ==
  ASSUME TypeOK, NEW a \in Slots, Anchored(a), info.crc, KeepsInRun(info, a),
         mode' = "run", running' = running, lost' = lost, info' = info,
         slot'[a] = slot[a], KeepsInRun(mpInfo, a)', UpdateAway(a)', OneCall',
         \A u \in Tasks : ~Saving(u)'
  PROVE  BootInv'
<1>1. Sound(a)'
  BY DEF Anchored, Sound, Valid
<1>2. SavesKeep(a)'
  BY DEF SavesKeep
<1>3. FlashKeeps(a)'
  <2>1. \A u \in Tasks : job'[u].pc # "write"
    BY DEF Saving
  <2>. QED BY <2>1 DEF FlashKeeps, KeepsInRun
<1>. QED BY <1>1, <1>2, <1>3 DEF BootInv, Anchored

(* The same for a call that is over at once: no task becomes busy.          *)
LEMMA IdleStep ==
  ASSUME TypeOK, NEW a \in Slots, Anchored(a), info.crc, KeepsInRun(info, a),
         \A u \in Tasks : ~Busy(u), job' = job,
         mode' = "run", running' = running, lost' = lost, info' = info,
         slot' = slot, KeepsInRun(mpInfo, a)', Clear(a)'
  PROVE  BootInv'
<1>1. \A u \in Tasks : ~Busy(u)' /\ ~Saving(u)'
  BY Zenon, SavingBusy DEF Busy, Saving
<1>2. OneCall' /\ UpdateAway(a)'
  BY Zenon, <1>1 DEF OneCall, UpdateAway, Clear
<1>. QED BY Zenon, <1>1, <1>2, QuietStep

(* A call that begins a rewrite from a copy that keeps the anchor.          *)
LEMMA SaveStep ==
  ASSUME TypeOK, NEW a \in Slots, Anchored(a), info.crc, KeepsInRun(info, a),
         NEW t \in Tasks,
         mode' = "run", running' = running, lost' = lost, info' = info, slot' = slot,
         KeepsInRun(mpInfo, a)', Clear(a)',
         \A u \in Tasks : Busy(u)' => u = t,
         job'[t].pc = "erase",
         KeepsInRun(Source(job[t]), a)', Source(job[t])'.crc,
         job'[t].src = "upd" => upd'.at # FF /\ upd'.info.Status = CHECK
  PROVE  BootInv'
<1>1. Sound(a)'
  BY DEF Anchored, Sound, Valid
<1>2. \A u \in Tasks : Saving(u)' => u = t
  BY DEF Saving, Busy
<1>3. SavesKeep(a)'
  BY Zenon, <1>2 DEF SavesKeep
<1>4. FlashKeeps(a)'
  <2>1. \A u \in Tasks : job'[u].pc # "write"
    BY SMTT(30), <1>2 DEF Saving
  <2>. QED BY <2>1 DEF FlashKeeps, KeepsInRun
<1>5. OneCall'
  BY Zenon DEF OneCall
<1>6. UpdateAway(a)'
  BY Zenon DEF UpdateAway, Clear
<1>. QED BY <1>1, <1>3, <1>4, <1>5, <1>6 DEF BootInv, Anchored

(* Setting the checksum or the safe boot flag changes no image number.      *)
LEMMA SameImages ==
  ASSUME NEW b \in BootInfo, NEW a \in Slots, KeepsInRun(b, a)
  PROVE  /\ \A x : KeepsInRun([b EXCEPT !.crc = x], a)
         /\ \A x : KeepsInRun([b EXCEPT !.safeboot = x], a)
         /\ \A x, y : KeepsInRun([b EXCEPT !.safeboot = x, !.crc = y], a)
<1>1. ASSUME NEW c, c.Status = b.Status, c.ActiveImg = b.ActiveImg, c.PrevImg = b.PrevImg
      PROVE  KeepsInRun(c, a)
  BY <1>1 DEF KeepsInRun, Keeps
<1>2. \A x : LET c == [b EXCEPT !.crc = x] IN
        c.Status = b.Status /\ c.ActiveImg = b.ActiveImg /\ c.PrevImg = b.PrevImg
  BY DEF BootInfo
<1>3. \A x : LET c == [b EXCEPT !.safeboot = x] IN
        c.Status = b.Status /\ c.ActiveImg = b.ActiveImg /\ c.PrevImg = b.PrevImg
  BY DEF BootInfo
<1>4. \A x, y : LET c == [b EXCEPT !.safeboot = x, !.crc = y] IN
        c.Status = b.Status /\ c.ActiveImg = b.ActiveImg /\ c.PrevImg = b.PrevImg
  BY DEF BootInfo
<1>. QED BY Zenon, <1>1, <1>2, <1>3, <1>4

(* The slot an update goes to is not the anchor, unless the flash driver    *)
(* stops it: a pending UPDATE2 sends the update to the running UPDATE1.     *)
LEMMA NextSlotAway ==
  ASSUME TypeOK, NEW a \in Slots, KeepsInRun(info, a), NextSlot(info) # running
  PROVE  NextSlot(info) = OtherSlot(a)
<1>1. info.ActiveImg \in {FACTORY, UPDATE1, UPDATE2, FF}
  BY DEF TypeOK, BootInfo, Images
<1>2. running \in Slots
  BY DEF TypeOK
<1>. QED BY <1>1, <1>2 DEF KeepsInRun, Keeps, Normal, OtherSlot, NextSlot

(* Each call of the updater keeps the boot invariant.                       *)
LEMMA UpdaterKeepsInv ==
  ASSUME TypeOK, BootInv, Serial, NEW t \in Tasks,
         OtaSlot(t) \/ Start(t) \/ Finish(t) \/ (\E v \in Versions : Write(t, v))
  PROVE  BootInv'
<1>1. Ready(t)
  BY Zenon DEF OtaSlot, Start, Finish, Write
<1>2. mode = "run" /\ \A u \in Tasks : ~Busy(u)
  BY <1>1, ReadyIdle
<1>3. PICK a \in Slots : Anchored(a) /\ info.crc /\ KeepsInRun(info, a) /\ Clear(a)
  BY <1>1, ReadyIdle
<1>4. KeepsInRun(mpInfo, a) /\ Clear(a)
  BY <1>3 DEF Anchored
<1>5. CASE OtaSlot(t)
  <2>1. upd'.at = upd.at /\ upd'.info = info
    BY <1>5 DEF OtaSlot, SlotAnswers, Serial, TypeOK, Updater
  <2>2. UNCHANGED <<info, slot, mode, running, mpInfo, job, lost>>
    BY <1>5 DEF OtaSlot, flash, app
  <2>3. Clear(a)' /\ KeepsInRun(mpInfo, a)'
    BY <1>3, <1>4, <2>1, <2>2 DEF Clear, Away, KeepsInRun
  <2>. QED BY Zenon, <1>2, <1>3, <2>2, <2>3, IdleStep
<1>6. CASE Start(t)
  <2>. DEFINE s == NextSlot(info)
              j == [Idle EXCEPT !.pc = "first"]
  <2>1. /\ upd' = [at |-> s, next |-> 1, info |-> info]
        /\ job' = [job EXCEPT ![t] = j]
        /\ UNCHANGED <<info, slot, mode, running, mpInfo, lost>>
    BY <1>6 DEF Start, SlotAnswers, Serial, flash, app
  <2>2. j.pc = "first"
    BY DEF Idle
  <2>3. s # running => s = OtherSlot(a)
    BY <1>3, NextSlotAway
  <2>. HIDE DEF s, j
  <2>4. job'[t].pc = "first" /\ \A u \in Tasks : u # t => job'[u] = job[u]
    BY <2>1, <2>2 DEF TypeOK
  <2>5. \A u \in Tasks : Busy(u)' => u = t
    BY <1>2, <2>4 DEF Busy
  <2>6. OneCall'
    BY Zenon, <2>5 DEF OneCall
  <2>7. \A u \in Tasks : ~Saving(u)'
    BY <2>4, <2>5 DEF Saving, Busy
  <2>8. UpdateAway(a)' /\ KeepsInRun(mpInfo, a)'
    <3>1. upd'.at = s /\ upd'.info = info
      BY <2>1
    <3>2. KeepsInRun(info, a)' /\ KeepsInRun(mpInfo, a)'
      BY <1>3, <1>4, <2>1 DEF KeepsInRun
    <3>3. KeepsInRun(upd.info, a)'
      BY <2>1, <3>1, <3>2 DEF KeepsInRun
    <3>4. Away(a)' \/ upd'.at = running'
      BY <2>1, <2>3, <3>1 DEF Away
    <3>. QED BY Zenon, <2>4, <3>2, <3>3, <3>4 DEF UpdateAway
  <2>. QED BY Zenon, <1>2, <1>3, <2>1, <2>6, <2>7, <2>8, QuietStep
<1>7. CASE Finish(t)
  <2>1. /\ upd.at # FF /\ upd.at = OtherSlot(a) /\ upd.at # running /\ KeepsInRun(upd.info, a)
    BY <1>4, <1>7 DEF Finish, Clear, Away
  <2>2. UNCHANGED <<info, slot, mode, running, mpInfo, lost>> /\ KeepsInRun(mpInfo, a)'
    BY <1>4, <1>7 DEF Finish, flash, app, KeepsInRun
  <2>3. CASE upd.info.Status = CHECK
    <3>1. upd' = Closed(upd) /\ job' = job
      BY <1>7, <2>3 DEF Finish
    <3>2. upd'.at = FF
      BY <3>1 DEF Closed, TypeOK, Updater
    <3>3. Clear(a)'
      BY <3>2 DEF Clear
    <3>. QED BY Zenon, <1>2, <1>3, <2>2, <3>1, <3>3, IdleStep
  <2>4. CASE upd.info.Status # CHECK
    <3>. DEFINE b == [upd.info EXCEPT !.PrevImg = upd.info.ActiveImg,
                                      !.ActiveImg = OtherImage(upd.info.ActiveImg),
                                      !.Status = CHECK, !.crc = TRUE]
                j == [Idle EXCEPT !.pc = "erase", !.src = "upd"]
    <3>1. upd.info.ActiveImg = a /\ upd.info \in BootInfo
      BY <2>1, <2>4 DEF KeepsInRun, Keeps, TypeOK, Updater
    <3>2. b.PrevImg = a /\ b.ActiveImg = OtherImage(a) /\ b.Status = CHECK /\ b.crc
      BY <3>1 DEF BootInfo
    <3>3. upd' = [upd EXCEPT !.info = b] /\ job' = [job EXCEPT ![t] = j]
      BY <1>7, <2>4 DEF Finish, TypeOK, Updater
    <3>4. j.pc = "erase" /\ j.src = "upd"
      BY DEF Idle
    <3>. HIDE DEF b, j
    <3>5. upd'.at = upd.at /\ upd'.info = b
      BY <3>3 DEF TypeOK, Updater
    <3>6. KeepsInRun(b, a)
      BY <2>1, <3>2 DEF KeepsInRun, Keeps, OtherImage, Normal, OtherSlot, TypeOK
    <3>7. Clear(a)'
      BY <2>1, <2>2, <3>5, <3>6 DEF Clear, Away, KeepsInRun
    <3>8. job'[t] = j /\ \A u \in Tasks : u # t => job'[u] = job[u]
      BY <3>3 DEF TypeOK
    <3>9. \A u \in Tasks : Busy(u)' => u = t
      BY <1>2, <3>8 DEF Busy
    <3>10. Source(job[t])' = b
      BY <3>4, <3>5, <3>8 DEF Source
    <3>11. KeepsInRun(Source(job[t]), a)' /\ Source(job[t])'.crc
      BY <2>2, <3>2, <3>6, <3>10 DEF KeepsInRun
    <3>12. job'[t].pc = "erase" /\ upd'.at # FF /\ upd'.info.Status = CHECK
      BY <2>1, <3>2, <3>4, <3>5, <3>8
    <3>. QED BY <1>2, <1>3, <2>2, <3>7, <3>9, <3>11, <3>12, SaveStep
  <2>. QED BY <2>3, <2>4
<1>8. ASSUME NEW v \in Versions, Write(t, v) PROVE BootInv'
  <2>1. CASE Dangerous(upd.at)
    BY <1>8, <2>1, CrashInv DEF Write
  <2>2. CASE ~Dangerous(upd.at)
    <3>. DEFINE j == [Idle EXCEPT !.pc = "ahead"]
    <3>1. upd.at = OtherSlot(a) /\ upd.at # running /\ KeepsInRun(upd.info, a)
      BY <1>4, <2>2 DEF Dangerous, Clear, Away
    <3>2. /\ \E i : slot' = [slot EXCEPT ![upd.at] = i]
          /\ upd' = [upd EXCEPT !.next = upd.next + 1, !.info = [upd.info EXCEPT !.crc = FALSE]]
          /\ job' = [job EXCEPT ![t] = j]
          /\ UNCHANGED <<info, mode, running, mpInfo, lost>>
      <4>1. slot' = [slot EXCEPT ![upd.at] =
                       [slot[upd.at] EXCEPT ![upd.next] = Programmed(slot[upd.at][upd.next], v)]]
        BY Zenon, <1>8, <2>2 DEF Write, Serial
      <4>2. upd' = [upd EXCEPT !.next = upd.next + 1, !.info = [upd.info EXCEPT !.crc = FALSE]]
        BY <1>8, <2>2 DEF Write, Serial, TypeOK, Updater
      <4>3. job' = [job EXCEPT ![t] = j] /\ UNCHANGED <<info, mode, running, mpInfo, lost>>
        BY Zenon, <1>8, <2>2 DEF Write, Serial, app
      <4>. QED BY Zenon, <4>1, <4>2, <4>3
    <3>3. slot'[a] = slot[a]
      BY <3>1, <3>2 DEF TypeOK, OtherSlot
    <3>4. upd'.at = upd.at /\ upd'.info = [upd.info EXCEPT !.crc = FALSE]
      BY <3>2 DEF TypeOK, Updater
    <3>5. KeepsInRun(upd'.info, a)
      <4>1. upd.info \in BootInfo
        BY DEF TypeOK, Updater
      <4>2. KeepsInRun([upd.info EXCEPT !.crc = FALSE], a)
        BY Zenon, <3>1, <4>1, SameImages
      <4>. QED BY <3>4, <4>2
    <3>6. UpdateAway(a)' /\ KeepsInRun(mpInfo, a)'
      BY <1>4, <3>1, <3>2, <3>4, <3>5 DEF UpdateAway, Away, KeepsInRun
    <3>7. j.pc = "ahead"
      BY DEF Idle
    <3>. HIDE DEF j
    <3>8. job'[t].pc = "ahead" /\ \A u \in Tasks : u # t => job'[u] = job[u]
      BY <3>2, <3>7 DEF TypeOK
    <3>9. \A u \in Tasks : Busy(u)' => u = t
      BY <1>2, <3>8 DEF Busy
    <3>10. OneCall' /\ \A u \in Tasks : ~Saving(u)'
      BY <3>8, <3>9 DEF OneCall, Saving, Busy
    <3>. QED BY Zenon, <1>2, <1>3, <3>2, <3>3, <3>6, <3>10, QuietStep
  <2>. QED BY <2>1, <2>2
<1>. QED BY <1>5, <1>6, <1>7, <1>8

(* The erases of a call under way keep the boot invariant: they go to the   *)
(* slot that is not the anchor, or the flash driver aborts.                 *)
LEMMA EraseKeepsInv ==
  ASSUME TypeOK, BootInv, Serial, NEW t \in Tasks,
         StartFirst(t) \/ StartSecond(t) \/ WriteAhead(t)
  PROVE  BootInv'
<1>1. mode = "run" /\ job[t].pc \in {"first", "second", "ahead"}
  BY EraseSteps
<1>2. PICK a \in Slots : Anchored(a)
  BY <1>1 DEF BootInv
<1>3. CASE UNCHANGED flash /\ Restart
  BY <1>3, CrashInv
<1>4. CASE /\ ~Dangerous(upd.at)
           /\ slot' = slot \/ \E i \in [Chunks -> Sector] : slot' = [slot EXCEPT ![upd.at] = i]
           /\ upd' \in {upd, [upd EXCEPT !.info.crc = FALSE]}
           /\ job' \in {[job EXCEPT ![t] = Idle], [job EXCEPT ![t].pc = "second"]}
           /\ UNCHANGED <<info, mode, bl, app, mpInfo, lost>>
  <2>1. UpdateAway(a) /\ KeepsInRun(mpInfo, a) /\ OneCall /\ FlashKeeps(a)
    BY <1>2 DEF Anchored
  <2>2. Away(a) /\ KeepsInRun(upd.info, a)
    BY <1>4, <2>1 DEF Dangerous, UpdateAway
  <2>3. UNCHANGED <<info, mode, running, mpInfo, lost>>
    BY <1>4 DEF app
  <2>4. slot'[a] = slot[a]
    BY <1>4, <2>2 DEF Away, OtherSlot, TypeOK
  <2>5. \A u \in Tasks : u # t => ~Busy(u)
    BY <1>1, <2>1 DEF OneCall, Busy
  <2>6. info.crc /\ KeepsInRun(info, a)
    <3>1. \A u \in Tasks : job[u].pc # "write"
      BY <1>1, <2>5 DEF Busy
    <3>. QED BY <2>1, <3>1 DEF FlashKeeps
  <2>7. job'[t].pc \in {"idle", "second"} /\ \A u \in Tasks : u # t => job'[u] = job[u]
    BY <1>4 DEF TypeOK, Jobs, Idle
  <2>8. \A u \in Tasks : Busy(u)' => u = t
    BY <2>5, <2>7 DEF Busy
  <2>9. OneCall' /\ \A u \in Tasks : ~Saving(u)'
    BY <2>7, <2>8 DEF OneCall, Saving, Busy
  <2>10. upd'.at = upd.at /\ KeepsInRun(upd'.info, a)
    <3>1. CASE upd' = upd
      BY <2>2, <3>1
    <3>2. CASE upd' = [upd EXCEPT !.info = [upd.info EXCEPT !.crc = FALSE]]
      <4>1. upd.info \in BootInfo
        BY DEF TypeOK, Updater
      <4>2. KeepsInRun([upd.info EXCEPT !.crc = FALSE], a)
        BY Zenon, <2>2, <4>1, SameImages
      <4>. QED BY <3>2, <4>2 DEF TypeOK, Updater
    <3>. QED BY <1>4, <3>1, <3>2, SizeChanged
  <2>11. UpdateAway(a)' /\ KeepsInRun(mpInfo, a)'
    BY <2>1, <2>2, <2>3, <2>10 DEF UpdateAway, Away, KeepsInRun
  <2>. QED BY Zenon, <1>1, <1>2, <2>3, <2>4, <2>6, <2>9, <2>11, QuietStep
<1>. QED BY Zenon, <1>3, <1>4, EraseSteps

(* pycom.bootmgr() keeps the boot invariant: what it leaves in modpycom's   *)
(* copy, also after an argument was refused, keeps the anchor.              *)
LEMMA BootmgrKeepsInv ==
  ASSUME TypeOK, BootInv, Serial, NEW part \in {NoArg, 0, 1, 2}, NEW fs,
         NEW sb \in SafebootArgs, NEW rst \in BOOLEAN, Bootmgr("mp", part, fs, sb, rst)
  PROVE  BootInv'
<1>. DEFINE m1 == WithPartition(mpInfo, part)
            m2 == WithSafeboot(m1, sb)
            m3 == [m2 EXCEPT !.crc = TRUE]
            partOk == part = NoArg \/ (part <= UPDATE1 /\ mpInfo.ActiveImg # part)
            r == part # NoArg \/ rst
            j == [Idle EXCEPT !.pc = "erase", !.src = "mp", !.reset = r]
<1>1. Ready("mp") /\ (part = NoArg \/ mpInfo.Status # CHECK)
  BY DEF Bootmgr, Serial
<1>2. mode = "run" /\ \A u \in Tasks : ~Busy(u)
  BY <1>1, ReadyIdle
<1>3. PICK a \in Slots : Anchored(a) /\ info.crc /\ KeepsInRun(info, a) /\ Clear(a)
  BY <1>1, ReadyIdle
<1>4. KeepsInRun(mpInfo, a) /\ Clear(a) /\ mpInfo \in BootInfo
  BY <1>3 DEF Anchored, TypeOK
<1>5. ASSUME partOk
      PROVE  KeepsInRun(m1, a) /\ KeepsInRun(m2, a) /\ KeepsInRun(m3, a) /\ m3.crc
  <2>1. part \in {NoArg, 0, 1}
    BY <1>5
  <2>2. m1 \in BootInfo
    BY <1>4, <2>1, PartitionUpdate
  <2>3. KeepsInRun(m1, a)
    <3>1. CASE part = NoArg
      BY <1>4, <3>1 DEF WithPartition
    <3>2. CASE part # NoArg
      <4>1. mpInfo.ActiveImg = a /\ part = OtherSlot(a)
        BY <1>1, <1>4, <1>5, <2>1, <3>2 DEF KeepsInRun, Keeps, OtherSlot
      <4>2. m1.Status = CHECK /\ m1.PrevImg = a /\ m1.ActiveImg = part
        BY <1>4, <3>2, <4>1 DEF WithPartition, BootInfo
      <4>. QED BY <4>1, <4>2 DEF KeepsInRun, Keeps, OtherSlot, Normal
    <3>. QED BY <3>1, <3>2
  <2>4. m2 \in BootInfo /\ KeepsInRun(m2, a)
    <3>1. m2 \in BootInfo
      BY SMTT(30), <2>2, SafebootUpdate
    <3>2. \A x : KeepsInRun([m1 EXCEPT !.safeboot = x], a)
      BY ZenonT(30), <2>2, <2>3, SameImages
    <3>. HIDE DEF m1
    <3>. QED BY <2>3, <3>1, <3>2 DEF WithSafeboot
  <2>5. KeepsInRun(m3, a)
    BY Zenon, <2>4, SameImages
  <2>6. m3.crc
    BY <2>4 DEF BootInfo
  <2>. QED BY <2>3, <2>4, <2>5, <2>6
<1>6. j.pc = "erase" /\ j.src = "mp"
  BY DEF Idle
<1>7. \/ /\ mpInfo' = mpInfo \/ (partOk /\ mpInfo' \in {m1, m2})
         /\ UNCHANGED <<flash, mode, bl, app, upd, job, lost>>
      \/ /\ partOk /\ mpInfo' = m3 /\ job' = [job EXCEPT !["mp"] = j]
         /\ UNCHANGED <<flash, mode, bl, app, upd, lost>>
      \/ UNCHANGED flash /\ Restart
      \/ UNCHANGED <<flash, mode, bl, app, ram, lost>>
  BY DEF Bootmgr
<1>. HIDE DEF m1, m2, m3, partOk, r, j
<1>8. CASE UNCHANGED flash /\ Restart
  BY <1>8, CrashInv
<1>9. CASE /\ mpInfo' = mpInfo \/ (partOk /\ mpInfo' \in {m1, m2})
           /\ UNCHANGED <<flash, mode, bl, app, upd, job, lost>>
  <2>1. UNCHANGED <<info, slot, mode, running, upd, job, lost>>
    BY <1>9 DEF flash, app
  <2>2. KeepsInRun(mpInfo', a)
    BY <1>4, <1>5, <1>9
  <2>3. KeepsInRun(mpInfo, a)' /\ Clear(a)'
    BY <1>4, <2>1, <2>2 DEF KeepsInRun, Clear, Away
  <2>. QED BY Zenon, <1>2, <1>3, <2>1, <2>3, IdleStep
<1>10. CASE /\ partOk /\ mpInfo' = m3 /\ job' = [job EXCEPT !["mp"] = j]
            /\ UNCHANGED <<flash, mode, bl, app, upd, lost>>
  <2>1. UNCHANGED <<info, slot, mode, running, upd, lost>>
    BY <1>10 DEF flash, app
  <2>2. KeepsInRun(mpInfo', a) /\ mpInfo'.crc
    BY <1>5, <1>10
  <2>3. KeepsInRun(mpInfo, a)' /\ Clear(a)'
    BY <1>4, <2>1, <2>2 DEF KeepsInRun, Clear, Away
  <2>4. job'["mp"] = j /\ \A u \in Tasks : u # "mp" => job'[u] = job[u]
    BY <1>10 DEF TypeOK
  <2>5. \A u \in Tasks : Busy(u)' => u = "mp"
    BY <1>2, <2>4 DEF Busy
  <2>6. Source(job["mp"])' = mpInfo'
    BY <1>6, <2>4 DEF Source
  <2>7. KeepsInRun(Source(job["mp"]), a)' /\ Source(job["mp"])'.crc
    BY <2>1, <2>2, <2>6 DEF KeepsInRun
  <2>8. job'["mp"].pc = "erase" /\ job'["mp"].src # "upd"
    BY <1>6, <2>4
  <2>. QED BY Zenon, <1>2, <1>3, <2>1, <2>3, <2>5, <2>7, <2>8, SaveStep
<1>11. CASE UNCHANGED <<flash, mode, bl, app, ram, lost>>
  <2>1. UNCHANGED <<info, slot, mode, running, upd, mpInfo, job, lost>>
    BY <1>11 DEF flash, app, ram
  <2>2. KeepsInRun(mpInfo, a)' /\ Clear(a)'
    BY <1>4, <2>1 DEF KeepsInRun, Clear, Away
  <2>. QED BY Zenon, <1>2, <1>3, <2>1, <2>2, IdleStep
<1>. QED BY <1>7, <1>8, <1>9, <1>10, <1>11

(* The reset into safe boot keeps the boot invariant.                       *)
LEMMA ResetSafeKeepsInv ==
  ASSUME TypeOK, BootInv, Serial, NEW t \in Tasks, NEW rst \in BOOLEAN, ResetSafe(t, rst)
  PROVE  BootInv'
<1>. DEFINE b == [info EXCEPT !.safeboot = SAFE_BOOT_SW, !.crc = TRUE]
            j == [pc |-> "erase", src |-> "own", reset |-> rst, own |-> b]
<1>1. Ready(t) /\ t = "servers"
  BY DEF ResetSafe
<1>2. mode = "run" /\ \A u \in Tasks : ~Busy(u)
  BY <1>1, ReadyIdle
<1>3. PICK a \in Slots : Anchored(a) /\ info.crc /\ KeepsInRun(info, a) /\ Clear(a)
  BY <1>1, ReadyIdle
<1>4. UNCHANGED <<info, slot, mode, running, upd, mpInfo, lost>>
  BY Zenon DEF ResetSafe, Serial, flash, app
<1>5. b.crc /\ KeepsInRun(b, a)
  <2>1. info \in BootInfo
    BY DEF TypeOK
  <2>2. b.crc
    BY <2>1 DEF BootInfo
  <2>. QED BY Zenon, <1>3, <2>1, <2>2, SameImages
<1>6. job'["servers"] = j /\ job'["mp"] = [Idle EXCEPT !.pc = "dead"]
  BY <1>1 DEF ResetSafe, Serial, TypeOK
<1>. HIDE DEF b
<1>7. Source(job["servers"])' = b /\ job'["servers"].pc = "erase" /\ job'["servers"].src # "upd"
  BY <1>6 DEF Source
<1>8. job'["mp"].pc = "dead"
  BY <1>6 DEF Idle
<1>9. \A u \in Tasks : Busy(u)' => u = "servers"
  BY <1>8 DEF Busy
<1>10. KeepsInRun(mpInfo, a)' /\ Clear(a)'
  BY <1>3, <1>4 DEF Anchored, KeepsInRun, Clear, Away
<1>11. KeepsInRun(Source(job["servers"]), a)' /\ Source(job["servers"])'.crc
  BY <1>4, <1>5, <1>7 DEF KeepsInRun
<1>. QED BY Zenon, <1>2, <1>3, <1>4, <1>7, <1>9, <1>10, <1>11, SaveStep

(* The erase of boot_info keeps the boot invariant.                         *)
LEMMA JobEraseKeepsInv ==
  ASSUME TypeOK, BootInv, Serial, NEW t \in Tasks, JobErase(t) PROVE BootInv'
<1>1. /\ mode = "run" /\ job[t].pc = "erase" /\ info' = ErasedInfo
      /\ job' = [job EXCEPT ![t].pc = "write"]
      /\ UNCHANGED <<slot, mode, running, upd, mpInfo, lost>>
  BY Zenon DEF JobErase, Serial, app
<1>2. PICK a \in Slots : Anchored(a)
  BY <1>1 DEF BootInv
<1>3. /\ job'[t].pc = "write" /\ job'[t].src = job[t].src /\ job'[t].own = job[t].own
      /\ \A u \in Tasks : u # t => job'[u] = job[u]
  BY <1>1 DEF TypeOK, Jobs
<1>4. Saving(t) /\ OneCall /\ \A u \in Tasks : u # t => ~Busy(u)
  BY <1>1, <1>2 DEF Saving, Anchored, OneCall, Busy
<1>5. \A u \in Tasks : Busy(u)' => u = t
  BY <1>3, <1>4 DEF Busy
<1>6. Source(job[t])' = Source(job[t])
  BY <1>1, <1>3 DEF Source
<1>7. OneCall' /\ \A u \in Tasks : Saving(u)' => u = t
  BY <1>5 DEF OneCall, Saving, Busy
<1>8. SavesKeep(a)'
  <2>1. /\ KeepsInRun(Source(job[t]), a) /\ Source(job[t]).crc
        /\ job[t].src = "upd" => upd.at # FF /\ upd.info.Status = CHECK
    BY <1>2, <1>4 DEF Anchored, SavesKeep
  <2>2. KeepsInRun(Source(job[t]), a)' /\ Source(job[t])'.crc
    BY <1>1, <1>6, <2>1 DEF KeepsInRun
  <2>. QED BY <1>1, <1>3, <1>7, <2>1, <2>2 DEF SavesKeep
<1>9. FlashKeeps(a)'
  BY <1>1, <1>3 DEF FlashKeeps
<1>10. Clear(a)
  <2>1. UpdateAway(a) /\ ~\E u \in Tasks : job[u].pc = "first"
    BY <1>1, <1>2, <1>4 DEF Anchored, Busy
  <2>. QED BY Zenon, <2>1 DEF UpdateAway, Clear
<1>11. Sound(a)' /\ KeepsInRun(mpInfo, a)' /\ UpdateAway(a)'
  BY <1>1, <1>2, <1>10 DEF Anchored, Sound, Valid, KeepsInRun, UpdateAway, Clear, Away
<1>. QED BY <1>1, <1>7, <1>8, <1>9, <1>11 DEF BootInv, Anchored

(* The write of boot_info keeps the boot invariant.                         *)
LEMMA JobWriteKeepsInv ==
  ASSUME TypeOK, BootInv, Serial, NEW t \in Tasks, JobWrite(t) PROVE BootInv'
<1>1. /\ mode = "run" /\ job[t].pc = "write" /\ slot' = slot
      /\ info' = ProgramInfo(info, Source(job[t])) /\ JobDone(t, TRUE)
  BY Zenon DEF JobWrite, Serial
<1>2. PICK a \in Slots : Anchored(a)
  BY <1>1 DEF BootInv
<1>3. info = ErasedInfo
  BY <1>1, <1>2 DEF Anchored, FlashKeeps
<1>4. info' = Source(job[t])
  BY Zenon, <1>1, <1>3 DEF ProgramInfo
<1>5. /\ KeepsInRun(info', a) /\ info'.crc
      /\ \A u \in Tasks : Busy(u) => u = t
  <2>1. SavesKeep(a)
    BY <1>2 DEF Anchored
  <2>2. Saving(t)
    BY <1>1 DEF Saving
  <2>3. KeepsInRun(Source(job[t]), a) /\ Source(job[t]).crc
    BY <2>1, <2>2 DEF SavesKeep
  <2>4. \A u \in Tasks : Busy(u) => u = t
    BY <1>1, <1>2 DEF Anchored, OneCall, Busy
  <2>. QED BY <1>4, <2>3, <2>4
<1>6. CASE Restart
  <2>1. (lost \/ ValidImage(slot'[a])) /\ Keeps(info', a)
    BY <1>1, <1>2, <1>5 DEF Anchored, Sound, Valid, KeepsInRun
  <2>. QED BY <1>6, <2>1, RestartInv
<1>7. CASE /\ job' = [job EXCEPT ![t] = Idle]
           /\ upd' = IF job[t].src = "upd" THEN Closed(upd) ELSE upd
           /\ UNCHANGED <<mode, bl, app, mpInfo, lost>>
  <2>1. job'[t].pc = "idle" /\ \A u \in Tasks : u # t => job'[u] = job[u]
    BY <1>7 DEF TypeOK, Idle
  <2>2. \A u \in Tasks : ~Busy(u)'
    BY <1>5, <2>1 DEF Busy
  <2>3. \A u \in Tasks : job'[u].pc # "write" /\ ~Saving(u)'
    BY <2>2 DEF Saving, Busy
  <2>4. UNCHANGED <<slot, mode, running, mpInfo, lost>>
    BY <1>1, <1>7 DEF app
  <2>5. upd'.at = FF \/ upd' = upd
    BY <1>7 DEF Closed, TypeOK, Updater
  <2>6. Sound(a)' /\ KeepsInRun(mpInfo, a)' /\ UpdateAway(a)' /\ OneCall'
    <3>1. UpdateAway(a) /\ ~\E u \in Tasks : job[u].pc = "first"
      BY <1>1, <1>2, <1>5 DEF Anchored, Busy
    <3>2. Clear(a)
      BY Zenon, <3>1 DEF UpdateAway, Clear
    <3>3. UpdateAway(a)'
      BY <2>4, <2>5, <3>2 DEF UpdateAway, Clear, Away, KeepsInRun
    <3>. QED BY <1>2, <2>2, <2>4, <3>3 DEF Anchored, Sound, Valid, KeepsInRun, OneCall
  <2>7. SavesKeep(a)' /\ FlashKeeps(a)'
    BY Zenon, <1>5, <2>3, <2>4 DEF SavesKeep, FlashKeeps, KeepsInRun
  <2>. QED BY Zenon, <1>1, <2>4, <2>6, <2>7 DEF BootInv, Anchored
<1>. QED BY <1>1, <1>6, <1>7 DEF JobDone

(* One step keeps the boot invariant.                                       *)
LEMMA NextKeepsInv ==
  ASSUME TypeOK, BootInv, Serial, [Next]_vars PROVE BootInv'
<1>1. CASE Boot
  BY <1>1, BootKeepsInv
<1>2. CASE Crash
  BY <1>2, CrashInv DEF Crash
<1>3. CASE BootmgrCalls
  BY <1>3, BootmgrKeepsInv DEF BootmgrCalls
<1>4. CASE SoftReset
  <2>1. mode = "run" /\ \A u \in Tasks : ~Busy(u)
    BY <1>4, ReadyIdle DEF SoftReset
  <2>2. PICK a \in Slots : Anchored(a) /\ info.crc /\ KeepsInRun(info, a) /\ Clear(a)
    BY <1>4, ReadyIdle DEF SoftReset
  <2>3. UNCHANGED <<info, slot, mode, running, upd, job, lost>> /\ mpInfo' = info
    BY <1>4 DEF SoftReset, flash
  <2>4. KeepsInRun(mpInfo, a)' /\ Clear(a)'
    BY Zenon, <2>2, <2>3 DEF KeepsInRun, Clear, Away
  <2>. QED BY Zenon, <2>1, <2>2, <2>3, <2>4, IdleStep
<1>5. CASE UNCHANGED vars
  <2>1. UNCHANGED <<info, slot, mode, bl, running, upd, mpInfo, job, lost>>
    BY <1>5 DEF vars
  <2>2. ASSUME NEW a \in Slots, Anchored(a) PROVE Anchored(a)'
    <3>1. Sound(a)' /\ KeepsInRun(mpInfo, a)'
      BY <2>1, <2>2 DEF Anchored, Sound, Valid, KeepsInRun
    <3>2. UpdateAway(a)' /\ OneCall'
      BY Zenon, <2>1, <2>2 DEF Anchored, UpdateAway, Away, KeepsInRun, OneCall, Busy
    <3>3. SavesKeep(a)'
      BY <2>1, <2>2 DEF Anchored, SavesKeep, Saving, Source, KeepsInRun
    <3>4. FlashKeeps(a)'
      BY Zenon, <2>1, <2>2 DEF Anchored, FlashKeeps, KeepsInRun
    <3>. QED BY <3>1, <3>2, <3>3, <3>4 DEF Anchored
  <2>3. Booting => Booting'
    BY Zenon, <2>1 DEF Booting, Sound, Valid, InfoOk, ReadyInfo
  <2>4. ReadyInfo(info) => ReadyInfo(info)'
    BY <2>1 DEF ReadyInfo, Sound, Valid
  <2>. QED BY <2>1, <2>2, <2>3, <2>4 DEF BootInv
<1>. QED BY <1>1, <1>2, <1>3, <1>4, <1>5, UpdaterKeepsInv, EraseKeepsInv, ResetSafeKeepsInv,
            JobEraseKeepsInv, JobWriteKeepsInv DEF Next

(* While one call at a time uses the updater, the partition is not changed  *)
(* over a pending update and the flash works, some slot always anchors the  *)
(* device: it holds a complete image that every copy of boot_info leads to  *)
(* and that no update writes to, wherever power is lost.                    *)
THEOREM BootInvariant == Serial => (Spec => [](TypeOK /\ BootInv))
<1>. SUFFICES ASSUME Serial PROVE Spec => [](TypeOK /\ BootInv)
  OBVIOUS
<1>1. Init => BootInv
  <2>. SUFFICES ASSUME Init PROVE BootInv
    OBVIOUS
  <2>1. PICK v \in Versions :
          slot = [s \in Slots |-> [c \in Chunks |-> IF s = FACTORY THEN v ELSE "erased"]]
    BY DEF Init
  <2>2. Sound(FACTORY)
    BY <2>1 DEF Sound, Valid, ValidImage
  <2>3. ~InfoValid(info) /\ mode = "boot" /\ bl.pc = "read"
    BY DEF Init, InfoValid, ErasedInfo, StartOfBoot
  <2>4. Booting
    BY <2>2, <2>3 DEF Booting, InfoOk, Init
  <2>. QED BY <2>3, <2>4 DEF BootInv
<1>2. TypeOK /\ BootInv /\ [Next]_vars => BootInv'
  BY NextKeepsInv
<1>. QED BY <1>1, <1>2, TypeCorrect, PTL DEF Spec

(* boot_info always leads the bootloader to a complete image, except after  *)
(* a rewrite of boot_info was cut while FACTORY held none.                  *)
THEOREM StaysBootable == Serial => (Spec => []Bootable)
<1>. SUFFICES ASSUME Serial PROVE Spec => []Bootable
  OBVIOUS
<1>1. TypeOK /\ BootInv => Bootable
  <2>. SUFFICES ASSUME TypeOK, BootInv, ~lost PROVE Bootable
    BY DEF Bootable
  <2>1. CASE InfoValid(info)
    <3>1. PICK a \in Slots : Sound(a) /\ Keeps(info, a)
      BY <2>1, InfoKept
    <3>2. LeadsToImage(info)
      BY <3>1 DEF Sound, Keeps, LeadsToImage, Verifies
    <3>. QED BY <2>1, <3>2 DEF Bootable
  <2>2. CASE ~InfoValid(info)
    <3>1. CASE mode = "run"
      <4>1. PICK a \in Slots : Anchored(a)
        BY <3>1 DEF BootInv
      <4>2. \E t \in Tasks : job[t].pc = "write"
        <5>1. FlashKeeps(a)
          BY <4>1 DEF Anchored
        <5>2. KeepsInRun(info, a) => info.Status # FF
          BY DEF KeepsInRun, Keeps
        <5>. QED BY <2>2, <5>1, <5>2 DEF FlashKeeps, InfoValid
      <4>. QED BY <2>2, <3>1, <4>2 DEF Bootable, Rewriting
    <3>2. CASE mode = "boot"
      <4>1. CASE bl.pc \in {"read", "erase"}
        BY <2>2, <3>2, <4>1 DEF BootInv, Booting, InfoOk, Sound, Bootable
      <4>2. CASE bl.pc = "write"
        BY Zenon, <2>2, <3>2, <4>2 DEF Bootable, Rewriting
      <4>3. CASE bl.pc \in {"safe", "load"}
        BY <2>2, <3>2, <4>3 DEF BootInv, Booting, ReadyInfo, InfoValid
      <4>. QED BY <4>1, <4>2, <4>3 DEF TypeOK, Bootloader
    <3>3. CASE mode = "halt"
      BY <2>2, <3>3 DEF BootInv, ReadyInfo, InfoValid
    <3>. QED BY <3>1, <3>2, <3>3 DEF TypeOK
  <2>. QED BY <2>1, <2>2
<1>. QED BY <1>1, BootInvariant, PTL

(* While the bootloader runs nothing else steps, except a power loss.       *)
LEMMA OnlyBoot ==
  ASSUME mode = "boot", [Next]_vars PROVE Boot \/ Crash \/ UNCHANGED vars
<1>1. ASSUME NEW t \in Tasks, Ready(t) PROVE FALSE
  BY <1>1 DEF Ready
<1>2. ~BootmgrCalls
  <2>1. ASSUME NEW part, NEW fs, NEW sb, NEW rst, Bootmgr("mp", part, fs, sb, rst)
        PROVE  FALSE
    BY <1>1, <2>1, Zenon DEF Bootmgr
  <2>. QED BY <2>1 DEF BootmgrCalls
<1>3. ~SoftReset
  BY <1>1 DEF SoftReset
<1>4. ASSUME NEW t \in Tasks
      PROVE  /\ ~OtaSlot(t) /\ ~Start(t) /\ ~Finish(t) /\ ~JobErase(t) /\ ~JobWrite(t)
             /\ ~StartFirst(t) /\ ~StartSecond(t) /\ ~WriteAhead(t)
             /\ \A v \in Versions : ~Write(t, v)
             /\ \A rst \in BOOLEAN : ~ResetSafe(t, rst)
  <2>1. ~OtaSlot(t) /\ ~Start(t) /\ ~Finish(t)
    BY <1>1 DEF OtaSlot, Start, Finish
  <2>2. ~JobErase(t) /\ ~JobWrite(t) /\ ~StartFirst(t) /\ ~StartSecond(t) /\ ~WriteAhead(t)
    BY Zenon DEF JobErase, JobWrite, StartFirst, StartSecond, WriteAhead
  <2>3. \A v \in Versions : ~Write(t, v)
    BY <1>1 DEF Write
  <2>4. \A rst \in BOOLEAN : ~ResetSafe(t, rst)
    BY <1>1 DEF ResetSafe
  <2>. QED BY <2>1, <2>2, <2>3, <2>4
<1>. QED BY <1>2, <1>3, <1>4 DEF Next

(* A boot that takes the stored active image starts an application, and it  *)
(* starts with the pending image resolved and image numbers in range.       *)
THEOREM BootsAsStored == Serial => (Spec => BootSucceeds /\ StartsResolved)
<1>. SUFFICES ASSUME Serial PROVE Spec => BootSucceeds /\ StartsResolved
  OBVIOUS
<1>1. TypeOK /\ BootInv /\ [Next]_vars
        => [(mode = "boot" /\ bl.pc = "load" /\ mode' = "halt")
              => (lost \/ bl.part # info.ActiveImg)]_vars
  <2>. SUFFICES ASSUME TypeOK, BootInv, [Next]_vars,
                       mode = "boot", bl.pc = "load", mode' = "halt", ~lost,
                       bl.part = info.ActiveImg
                PROVE  FALSE
    OBVIOUS
  <2>1. Verifies(bl.part)
    BY DEF BootInv, Booting, ReadyInfo, Sound, Verifies
  <2>2. CASE Boot
    BY <2>1, <2>2 DEF Boot, BootRead, BootErase, BootWrite, BootSafe, BootLoad
  <2>3. CASE Crash
    BY <2>3 DEF Crash, Restart
  <2>4. CASE UNCHANGED vars
    BY <2>4 DEF vars
  <2>. QED BY <2>2, <2>3, <2>4, OnlyBoot
<1>2. TypeOK /\ BootInv /\ [Next]_vars
        => [(mode = "boot" /\ mode' = "run")
              => /\ InfoValid(info) /\ info.Status = READY
                 /\ info.ActiveImg \in Slots /\ info.PrevImg \in Slots]_vars
  <2>. SUFFICES ASSUME TypeOK, BootInv, [Next]_vars, mode = "boot", mode' = "run"
                PROVE  /\ InfoValid(info) /\ info.Status = READY
                       /\ info.ActiveImg \in Slots /\ info.PrevImg \in Slots
    OBVIOUS
  <2>1. Boot
    BY OnlyBoot DEF vars, Crash, Restart
  <2>2. bl.pc = "load"
    BY <2>1 DEF Boot, BootRead, BootErase, BootWrite, BootSafe, BootLoad
  <2>. QED BY <2>2 DEF BootInv, Booting, ReadyInfo, Sound, InfoValid
<1>3. Spec => BootSucceeds
  BY <1>1, BootInvariant, PTL DEF Spec, BootSucceeds
<1>4. Spec => StartsResolved
  BY <1>2, BootInvariant, PTL DEF Spec, StartsResolved
<1>. QED BY <1>3, <1>4

(* What an update stores in boot_info selects the slot it wrote.            *)
THEOREM UpdateSelectsWritten == Serial => (Spec => SelectsWritten)
<1>. SUFFICES ASSUME Serial PROVE Spec => SelectsWritten
  OBVIOUS
<1>1. TypeOK /\ BootInv /\ [Next]_vars
        => [\A t \in Tasks :
              (job[t].pc = "write" /\ job[t].src = "upd" /\ InfoValid(info'))
                 => info'.Status = CHECK /\ Normal(info'.ActiveImg) = upd.at]_vars
  <2>. SUFFICES ASSUME TypeOK, BootInv, [Next]_vars, NEW t \in Tasks,
                       job[t].pc = "write", job[t].src = "upd", InfoValid(info')
                PROVE  info'.Status = CHECK /\ Normal(info'.ActiveImg) = upd.at
    OBVIOUS
  <2>1. job # [u \in Tasks |-> Idle]
    BY DEF Idle
  <2>2. CASE mode = "run"
    <3>1. PICK a \in Slots : Anchored(a)
      BY <2>2 DEF BootInv
    <3>2. info = ErasedInfo /\ \A u \in Tasks : u # t => ~Busy(u)
      BY <3>1 DEF Anchored, FlashKeeps, OneCall, Busy
    <3>3. ~InfoValid(ErasedInfo)
      BY DEF InfoValid, ErasedInfo
    <3>4. info' # info
      BY <3>2, <3>3
    <3>5. ASSUME NEW u \in Tasks, JobWrite(u) PROVE u = t
      BY <3>2, <3>5 DEF JobWrite, Busy
    <3>6. ASSUME NEW u \in Tasks, JobErase(u) PROVE FALSE
      <4>1. u = t
        BY <3>2, <3>6 DEF JobErase, Busy
      <4>. QED BY <3>6, <4>1 DEF JobErase
    <3>7. JobWrite(t)
      <4>1. ~Boot
        BY Zenon, <2>2 DEF Boot, BootRead, BootErase, BootWrite, BootSafe, BootLoad
      <4>2. ~Crash /\ ~SoftReset /\ ~UNCHANGED vars
        BY <3>4 DEF Crash, SoftReset, flash, vars
      <4>3. ~BootmgrCalls
        <5>1. ASSUME NEW part, NEW fs, NEW sb, NEW rst, Bootmgr("mp", part, fs, sb, rst)
              PROVE  FALSE
          BY <3>4, <5>1, Zenon DEF Bootmgr, flash
        <5>. QED BY <5>1 DEF BootmgrCalls
      <4>4. ASSUME NEW u \in Tasks
            PROVE  /\ ~OtaSlot(u) /\ ~Start(u) /\ ~Finish(u)
                   /\ \A v \in Versions : ~Write(u, v)
                   /\ \A rst \in BOOLEAN : ~ResetSafe(u, rst)
        <5>1. ~OtaSlot(u) /\ ~Start(u) /\ ~Finish(u)
          BY <3>4, Zenon DEF OtaSlot, Start, Finish, flash
        <5>2. \A rst \in BOOLEAN : ~ResetSafe(u, rst)
          BY <3>4, Zenon DEF ResetSafe, flash
        <5>3. \A v \in Versions : ~Write(u, v)
          BY <3>4, Zenon DEF Write, flash
        <5>. QED BY <5>1, <5>2, <5>3
      <4>5. ASSUME NEW u \in Tasks PROVE ~StartFirst(u) /\ ~StartSecond(u) /\ ~WriteAhead(u)
        BY <3>4, <4>5, EraseSteps, Zenon DEF flash
      <4>. QED BY <3>5, <3>6, <4>1, <4>2, <4>3, <4>4, <4>5 DEF Next
    <3>8. info' = upd.info
      <4>1. info' = ProgramInfo(info, Source(job[t]))
        BY Zenon, <3>7 DEF JobWrite, Serial
      <4>2. Source(job[t]) = upd.info
        BY DEF Source
      <4>. QED BY Zenon, <3>2, <4>1, <4>2 DEF ProgramInfo
    <3>9. upd.at # FF /\ upd.info.Status = CHECK
      BY <3>1 DEF Anchored, SavesKeep, Saving
    <3>10. KeepsInRun(upd.info, a) /\ Away(a)
      <4>1. ~\E u \in Tasks : job[u].pc = "first"
        BY <3>2 DEF Busy
      <4>. QED BY Zenon, <3>1, <3>9, <4>1 DEF Anchored, UpdateAway
    <3>. QED BY <3>8, <3>9, <3>10 DEF KeepsInRun, Keeps, Away
  <2>3. CASE mode = "boot"
    BY <2>1, <2>3 DEF BootInv, Booting
  <2>4. CASE mode = "halt"
    BY <2>1, <2>4 DEF BootInv
  <2>. QED BY <2>2, <2>3, <2>4 DEF TypeOK
<1>. QED BY <1>1, BootInvariant, PTL DEF Spec, SelectsWritten

(* Each step of the bootloader keeps the relation between the stored flag   *)
(* and the request.                                                         *)
LEMMA BootKeepsFlag ==
  ASSUME TypeOK, FlagInv, mode = "boot", Boot, mode' = "boot" PROVE FlagInv'
<1>. bl \in Bootloader /\ bl.info \in BootInfo /\ info \in BootInfo
  BY DEF TypeOK, Bootloader
<1>1. CASE BootRead
  <2>1. bl.pc = "read" /\ ~bl.asked /\ info' = info
    BY <1>1 DEF FlagInv, BootRead, flash
  <2>2. CASE ~InfoValid(info)
    <3>1. bl'.pc = "erase" /\ bl'.info = DefaultInfo /\ bl'.asked = bl.asked
      BY <1>1, <2>2 DEF BootRead, Bootloader
    <3>2. bl'.info.safeboot = 0 /\ bl'.asked = FALSE
      <4>1. bl.asked \in BOOLEAN
        BY DEF Bootloader
      <4>2. bl'.info.safeboot = 0
        BY <3>1 DEF DefaultInfo
      <4>. QED BY <2>1, <3>1, <4>1, <4>2
    <3>3. bl'.asked = (bl'.info.safeboot # 0)
      BY Zenon, <3>2
    <3>. QED BY Zenon, <2>1, <3>1, <3>2, <3>3 DEF FlagInv
  <2>3. CASE InfoValid(info) /\ info.Status = CHECK
    <3>1. bl'.pc = "erase" /\ bl'.ret = "safe" /\ bl'.asked = bl.asked
      BY <1>1, <2>3 DEF BootRead, Bootloader
    <3>. QED BY <2>1, <3>1 DEF FlagInv
  <2>4. CASE InfoValid(info) /\ info.Status # CHECK
    <3>1. bl'.pc = "safe" /\ bl'.info = info /\ bl'.asked = bl.asked
      BY <1>1, <2>4 DEF BootRead, Bootloader
    <3>. QED BY Zenon, <2>1, <3>1 DEF FlagInv
  <2>. QED BY <2>2, <2>3, <2>4
<1>2. CASE BootErase
  <2>1. bl.pc = "erase" /\ bl' = [bl EXCEPT !.pc = "write"]
    BY <1>2 DEF BootErase
  <2>2. bl'.pc = "write" /\ bl'.ret = bl.ret /\ bl'.info = bl.info /\ bl'.asked = bl.asked
    BY <2>1 DEF Bootloader
  <2>. QED BY <2>1, <2>2 DEF FlagInv
<1>3. CASE BootWrite
  <2>1. bl.pc = "write" /\ bl' = [bl EXCEPT !.pc = bl.ret] /\ info' = [bl.info EXCEPT !.crc = TRUE]
    BY <1>3 DEF BootWrite
  <2>2. /\ bl'.pc = bl.ret /\ bl'.info = bl.info /\ bl'.asked = bl.asked
        /\ info'.safeboot = bl.info.safeboot /\ bl.ret \in {"safe", "load"}
    BY <2>1 DEF Bootloader, BootInfo
  <2>. QED BY <2>1, <2>2 DEF FlagInv
<1>4. ASSUME NEW pin \in Pins, BootSafe(pin) PROVE FlagInv'
  <2>. DEFINE stored == bl.info.safeboot
              requested == IF pin = "released" THEN 0 ELSE SAFE_BOOT_HW
  <2>1. bl.pc = "safe" /\ info' = info /\ info.safeboot = stored
    BY <1>4 DEF FlagInv, BootSafe, flash
  <2>2. /\ bl'.asked = (pin # "released" \/ stored = SAFE_BOOT_SW)
        /\ bl'.info.safeboot = IF requested # stored THEN NextFlag(stored, requested) ELSE stored
        /\ bl'.ret = "load"
        /\ bl'.pc = IF requested # stored THEN "erase" ELSE "load"
    BY <1>4 DEF BootSafe, Bootloader, BootInfo
  <2>3. bl'.asked = (bl'.info.safeboot # 0)
    BY <2>2 DEF NextFlag
  <2>4. bl'.pc = "load" => info'.safeboot = bl'.info.safeboot
    BY <2>1, <2>2
  <2>. QED BY Zenon, <2>2, <2>3, <2>4 DEF FlagInv
<1>5. CASE BootLoad
  BY <1>5 DEF BootLoad
<1>. QED BY <1>1, <1>2, <1>3, <1>4, <1>5 DEF Boot

(* The application starts in safe mode exactly when the pin was held or a   *)
(* software safe boot had been stored, for any use of the device.           *)
THEOREM SafeBootServedOnce == Spec => SafeBootOnRequest
<1>1. Init => FlagInv
  BY DEF Init, FlagInv, StartOfBoot
<1>2. TypeOK /\ FlagInv /\ [Next]_vars => FlagInv'
  <2>. SUFFICES ASSUME TypeOK, FlagInv, [Next]_vars, mode' = "boot" PROVE FlagInv'
    BY Zenon DEF FlagInv
  <2>1. ASSUME Restart PROVE FlagInv'
    BY Zenon, <2>1 DEF Restart, StartOfBoot, FlagInv
  <2>2. CASE mode = "boot"
    <3>1. CASE Boot
      BY <2>2, <3>1, BootKeepsFlag
    <3>2. CASE Crash
      BY SMTT(30), <2>1, <3>2 DEF Crash
    <3>3. CASE UNCHANGED vars
      BY Zenon, <3>3 DEF vars, FlagInv
    <3>. QED BY <2>2, <3>1, <3>2, <3>3, OnlyBoot
  <2>3. CASE mode # "boot"
    <3>. SUFFICES ASSUME ~Restart PROVE FALSE
      BY SMTT(30), <2>1
    <3>1. ~Boot
      BY Zenon, <2>3 DEF Boot, BootRead, BootErase, BootWrite, BootSafe, BootLoad
    <3>2. ~Crash /\ ~SoftReset /\ ~UNCHANGED vars
      BY <2>3 DEF Crash, SoftReset, vars
    <3>3. ~BootmgrCalls
      <4>1. ASSUME NEW part, NEW fs, NEW sb, NEW rst, Bootmgr("mp", part, fs, sb, rst)
            PROVE  FALSE
        BY <2>3, <4>1, Zenon DEF Bootmgr
      <4>. QED BY <4>1 DEF BootmgrCalls
    <3>4. ASSUME NEW t \in Tasks
          PROVE  /\ ~OtaSlot(t) /\ ~Start(t) /\ ~Finish(t)
                 /\ ~StartFirst(t) /\ ~StartSecond(t) /\ ~WriteAhead(t)
                 /\ \A rst \in BOOLEAN : ~ResetSafe(t, rst)
                 /\ \A v \in Versions : ~Write(t, v)
      <4>1. ~OtaSlot(t) /\ ~Finish(t) /\ \A rst \in BOOLEAN : ~ResetSafe(t, rst)
        BY <2>3 DEF OtaSlot, Finish, ResetSafe
      <4>2. ~Start(t) /\ ~StartFirst(t) /\ ~StartSecond(t) /\ ~WriteAhead(t)
        BY <2>3, EraseSteps DEF Start
      <4>3. \A v \in Versions : ~Write(t, v)
        BY <2>3 DEF Write
      <4>. QED BY <4>1, <4>2, <4>3
    <3>5. ASSUME NEW t \in Tasks PROVE ~JobErase(t) /\ ~JobWrite(t)
      BY <2>3 DEF JobErase, JobWrite, JobDone
    <3>. QED BY <3>1, <3>2, <3>3, <3>4, <3>5 DEF Next
  <2>. QED BY SMTT(30), <2>2, <2>3
<1>3. TypeOK /\ FlagInv /\ [Next]_vars
        => [(mode = "boot" /\ mode' = "run") => safe' = bl.asked]_vars
  <2>. SUFFICES ASSUME TypeOK, FlagInv, [Next]_vars, mode = "boot", mode' = "run"
                PROVE  safe' = bl.asked
    OBVIOUS
  <2>1. Boot
    BY OnlyBoot DEF vars, Crash, Restart
  <2>2. BootLoad
    BY <2>1 DEF Boot, BootRead, BootErase, BootWrite, BootSafe
  <2>. QED BY Zenon, <2>2 DEF BootLoad, FlagInv
<1>. QED BY <1>1, <1>2, <1>3, TypeCorrect, PTL DEF Spec, SafeBootOnRequest
=============================================================================
