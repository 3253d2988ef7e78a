------------------------------ MODULE OtaBoot ------------------------------
(***************************************************************************)
(* Firmware update and boot selection: the updater (esp32/ftp/updater.c),  *)
(* pycom.bootmgr() (esp32/mods/modpycom.c), the reset into safe boot       *)
(* (esp32/hal/esp32_mphal.c) and the second stage bootloader               *)
(* (esp32/bootloader/bootloader.c, bootmgr.c).  They meet in flash: two    *)
(* image slots and one boot_info sector, which is rewritten by an erase    *)
(* followed by a write.  Power may be lost between any two flash steps.    *)
(*                                                                         *)
(* An image is cut into NChunks flash sectors and the clients of the       *)
(* updater write one sector per call (module UpdaterFlash looks at writes  *)
(* of other lengths).                                                      *)
(***************************************************************************)
EXTENDS Naturals, FiniteSets

CONSTANTS NChunks,      \* sectors of an image
          Versions,     \* firmware versions (data an update may carry)
          Overlap,      \* may calls of the two tasks overlap in time?
          Repartition,  \* may scripts give bootmgr() a partition while their
                        \* copy of boot_info has an image pending?
          SafebootArgs, \* values pycom.bootmgr(safeboot=...) is called with
          FlashErrors   \* may a flash erase or write, or a read of boot_info
                        \* by the running application, fail?

ASSUME NChunksAssumption == NChunks \in Nat \ {0}
ASSUME VersionsAssumption == Versions # {} /\ {"erased", "garbled"} \cap Versions = {}
ASSUME SwitchesAssumption == Overlap \in BOOLEAN /\ Repartition \in BOOLEAN /\ FlashErrors \in BOOLEAN
ASSUME ArgsAssumption == SafebootArgs \subseteq {255, 0, 1, 2}

(* The two tasks that reach the updater: the MicroPython thread and the    *)
(* servers task, which runs the FTP and telnet servers.                     *)
Tasks == {"mp", "servers"}

FACTORY == 0
UPDATE1 == 1
UPDATE2 == 2
Slots == {FACTORY, UPDATE1}          \* bootloader_state_t.image[], two entries used
CHECK == 0
READY == 1
SAFE_BOOT_HW == 1
SAFE_BOOT_SW == 2
FF == 255                            \* an erased field: all bits set
NoArg == 255                         \* pycom.bootmgr(): argument not given

Chunks == 1 .. NChunks
Sector == Versions \cup {"erased", "garbled"}

(* boot_info_t.  crc says whether the stored checksum matches the fields;   *)
(* the size field only shows through it.                                    *)
Images == {FACTORY, UPDATE1, UPDATE2, FF}
Statuses == {CHECK, READY, FF}
Flags == {0, SAFE_BOOT_HW, SAFE_BOOT_SW, FF}

BootInfo == [ActiveImg : Images, Status : Statuses, PrevImg : Images,
             safeboot : Flags, crc : BOOLEAN]

ErasedInfo == [ActiveImg |-> FF, Status |-> FF, PrevImg |-> FF,
               safeboot |-> FF, crc |-> FALSE]

DefaultInfo == [ActiveImg |-> FACTORY, Status |-> READY, PrevImg |-> FACTORY,
                safeboot |-> 0, crc |-> TRUE]

(* The application's statics before boot_info was first read into them.     *)
ZeroInfo == [ActiveImg |-> FACTORY, Status |-> CHECK, PrevImg |-> FACTORY,
             safeboot |-> 0, crc |-> FALSE]

(* ota_select_valid                                                        *)
InfoValid(b) == b.Status # FF /\ b.crc

VARIABLES
  info,     \* flash: the boot_info sector
  slot,     \* flash: the sectors of each image slot
  mode,     \* "boot", "run", or "halt" (no application is running)
  bl,       \* bootloader locals; asked: this boot was asked to be a safe boot
  running,  \* the slot the application was loaded from
  safe,     \* the application skips boot.py and main.py
  upd,      \* updater.c statics: slot and next sector of offset, boot_info
  mpInfo,   \* modpycom.c's own boot_info
  job,      \* per task: the call in progress, between two flash steps
  lost      \* history: see Crash

flash == <<info, slot>>
ram   == <<upd, mpInfo, job>>
app   == <<running, safe>>
vars  == <<info, slot, mode, bl, running, safe, upd, mpInfo, job, lost>>

(* What esp_image_verify accepts: every sector belongs to one image.        *)
ValidImage(img) == \E v \in Versions : \A c \in Chunks : img[c] = v
Valid(s) == ValidImage(slot[s])

Idle == [pc |-> "idle", src |-> "own", own |-> ErasedInfo, reset |-> FALSE]
Jobs == [pc : {"idle", "first", "second", "ahead", "erase", "write", "dead"},
         src : {"upd", "mp", "own"}, own : BootInfo, reset : BOOLEAN]

Updater == [at : Slots \cup {FF}, next : 1 .. NChunks + 1, info : BootInfo]
Bootloader == [pc : {"read", "erase", "write", "safe", "load"}, info : BootInfo,
               ret : {"safe", "load"}, part : Images, asked : BOOLEAN]

NoUpdate == [at |-> FF, next |-> 1, info |-> ZeroInfo]
StartOfBoot == [pc |-> "read", info |-> ErasedInfo, ret |-> "load", part |-> FACTORY,
                asked |-> FALSE]

Init ==
  \E v \in Versions :
    /\ info = ErasedInfo
    /\ slot = [s \in Slots |-> [c \in Chunks |-> IF s = FACTORY THEN v ELSE "erased"]]
    /\ mode = "boot"
    /\ bl = StartOfBoot
    /\ running = FACTORY
    /\ safe = FALSE
    /\ upd = NoUpdate
    /\ mpInfo = ErasedInfo
    /\ job = [t \in Tasks |-> Idle]
    /\ lost = FALSE
-----------------------------------------------------------------------------
(* The bootloader: bootloader_main and find_active_image.                   *)

(* Every restart: RAM is lost, the bootloader begins again.  The history    *)
(* variable lost records a restart that finds boot_info unreadable while    *)
(* the FACTORY slot, the fall-back, holds no complete image.                *)
Restart ==
  /\ mode' = "boot"
  /\ bl' = StartOfBoot
  /\ running' = FACTORY
  /\ safe' = FALSE
  /\ upd' = NoUpdate
  /\ mpInfo' = ErasedInfo
  /\ job' = [t \in Tasks |-> Idle]
  /\ lost' = (lost \/ (~InfoValid(info') /\ ~ValidImage(slot'[FACTORY])))

(* Power loss, reset button, watchdog, machine.reset(): at any moment.      *)
Crash == UNCHANGED flash /\ Restart

Verifies(s) == s \in Slots /\ Valid(s)

(* Mutant of Resolve: the image is taken without verification.              *)
ResolveUnverified(b) ==
  [b EXCEPT !.ActiveImg = IF @ = UPDATE2 THEN FACTORY ELSE @, !.Status = READY]

(* The branch of find_active_image for an image in status CHECK.            *)
Resolve(b) ==
  LET active == IF b.ActiveImg = UPDATE2 THEN FACTORY ELSE b.ActiveImg
  IN IF Verifies(active)
     THEN [b EXCEPT !.ActiveImg = active, !.Status = READY]
     ELSE [b EXCEPT !.ActiveImg = b.PrevImg, !.PrevImg = active, !.Status = READY]

BootRead ==
  /\ mode = "boot" /\ bl.pc = "read"
  /\ bl' = IF ~InfoValid(info)
           THEN [bl EXCEPT !.pc = "erase", !.info = DefaultInfo]
           ELSE IF info.Status = CHECK
           THEN [bl EXCEPT !.pc = "erase", !.info = Resolve(info), !.ret = "safe"]
           ELSE [bl EXCEPT !.pc = "safe", !.info = info]
  /\ UNCHANGED <<flash, mode, app, ram, lost>>

(* ota_write_boot_info: erase the sector, then write it.  On an error the   *)
(* bootloader stops in mperror_fatal_error.                                 *)
BootErase ==
  /\ mode = "boot" /\ bl.pc = "erase"
  /\ \/ info' = ErasedInfo /\ bl' = [bl EXCEPT !.pc = "write"] /\ UNCHANGED mode
     \/ FlashErrors /\ mode' = "halt" /\ UNCHANGED <<info, bl>>
  /\ UNCHANGED <<slot, app, ram, lost>>

BootWrite ==
  /\ mode = "boot" /\ bl.pc = "write"
  /\ \/ info' = [bl.info EXCEPT !.crc = TRUE] /\ bl' = [bl EXCEPT !.pc = bl.ret] /\ UNCHANGED mode
     \/ FlashErrors /\ mode' = "halt" /\ UNCHANGED <<info, bl>>
  /\ UNCHANGED <<slot, app, ram, lost>>

(* wait_for_safe_boot: how long the user holds the safe boot pin selects    *)
(* the image for this boot only; boot_info keeps the safeboot flag.         *)
Pins == {"released", "latest", "previous", "factory"}

Selected(b, pin) == CASE pin = "previous" -> b.PrevImg
                      [] pin = "factory"  -> FACTORY
                      [] OTHER            -> b.ActiveImg

(* Mutant of NextFlag: the software request is not kept for the application. *)
NextFlagPlain(stored, requested) == requested

(* The flag to store when the pin's request differs from the stored one: a  *)
(* software request is downgraded, so that it is served once.               *)
NextFlag(stored, requested) ==
  IF stored = SAFE_BOOT_SW THEN SAFE_BOOT_HW ELSE requested

BootSafe(pin) ==
  LET stored == bl.info.safeboot
      requested == IF pin = "released" THEN 0 ELSE SAFE_BOOT_HW
  IN /\ mode = "boot" /\ bl.pc = "safe"
     /\ bl' = [bl EXCEPT !.part = Selected(bl.info, pin),
                         !.asked = (pin # "released" \/ stored = SAFE_BOOT_SW),
                         !.info.safeboot = IF requested # stored
                                           THEN NextFlag(stored, requested) ELSE stored,
                         !.ret = "load",
                         !.pc = IF requested # stored THEN "erase" ELSE "load"]
     /\ UNCHANGED <<flash, mode, app, ram, lost>>

(* get_image_from_partition and unpack_load_app: without a complete image   *)
(* in the selected slot no application starts.  The application's start     *)
(* reads boot_info into modpycom's copy and the safe boot flag.             *)
BootLoad ==
  /\ mode = "boot" /\ bl.pc = "load"
  /\ bl' = StartOfBoot
  /\ IF Verifies(bl.part)
     THEN /\ mode' = "run" /\ running' = bl.part
          /\ safe' = (info.safeboot # 0) /\ mpInfo' = info
     ELSE /\ mode' = "halt" /\ UNCHANGED <<app, mpInfo>>
  /\ UNCHANGED <<flash, upd, job, lost>>
-----------------------------------------------------------------------------
(* The application.                                                         *)

Ready(t) ==
  /\ mode = "run"
  /\ job[t].pc = "idle"
  /\ Overlap \/ \A u \in Tasks : job[u].pc \in {"idle", "dead"}

(* updater_ota_next_slot_address, once boot_info b has been read            *)
NextSlot(b) ==
  IF b.Status = CHECK
  THEN IF b.ActiveImg = FACTORY THEN FACTORY ELSE UPDATE1
  ELSE IF b.ActiveImg = FACTORY THEN UPDATE1 ELSE FACTORY

(* The flash driver aborts on a write below the partitions (offset 0) or    *)
(* into the running image (SPI_FLASH_WRITING_DANGEROUS_REGIONS_ABORTS).     *)
Dangerous(s) == s \in {FF, running}

(* The statics after updater_ota_next_slot_address: boot_info is read into   *)
(* the updater's copy; if that fails the copy stays and UPDATE1 is the answer. *)
SlotAnswers ==
  {[at |-> NextSlot(info), info |-> info]}
    \cup (IF FlashErrors THEN {[at |-> UPDATE1, info |-> upd.info]} ELSE {})

(* pycom.ota_slot()                                                         *)
OtaSlot(t) ==
  /\ Ready(t) /\ t = "mp"
  /\ \E r \in SlotAnswers : upd' = [upd EXCEPT !.info = r.info]
  /\ UNCHANGED <<flash, mode, bl, app, mpInfo, job, lost>>

(* updater_start: offset is set, then the first two sectors are erased, then *)
(* boot_info.size is cleared.  An erase error returns early, with offset     *)
(* already set.                                                              *)
Start(t) ==
  /\ Ready(t)
  /\ \E r \in SlotAnswers : upd' = [at |-> r.at, next |-> 1, info |-> r.info]
  /\ job' = [job EXCEPT ![t] = [Idle EXCEPT !.pc = "first"]]
  /\ UNCHANGED <<flash, mode, bl, app, mpInfo, lost>>

Erased(img, k) == [c \in Chunks |-> IF c = k THEN "erased" ELSE img[c]]

(* One erase of a call under way, of sector k of the slot offset points to   *)
(* at that moment; done says how the call goes on, an error ends it.         *)
EraseStep(t, k, done) ==
  IF Dangerous(upd.at)
  THEN UNCHANGED flash /\ Restart
  ELSE /\ \/ /\ slot' = [slot EXCEPT ![upd.at] = Erased(@, k)]
             /\ done
          \/ /\ FlashErrors
             /\ job' = [job EXCEPT ![t] = Idle]
             /\ UNCHANGED <<slot, upd>>
       /\ UNCHANGED <<info, mode, bl, app, mpInfo, lost>>

StartFirst(t) ==
  /\ mode = "run" /\ job[t].pc = "first"
  /\ EraseStep(t, upd.next, job' = [job EXCEPT ![t].pc = "second"] /\ UNCHANGED upd)

StartSecond(t) ==
  /\ mode = "run" /\ job[t].pc = "second"
  /\ EraseStep(t, upd.next + 1,
               job' = [job EXCEPT ![t] = Idle] /\ upd' = [upd EXCEPT !.info.crc = FALSE])

(* updater_write of one sector: program it and advance, then erase the      *)
(* sector after the next one (WriteAhead).  Programming a sector that was   *)
(* not erased garbles it.                                                   *)
Programmed(old, v) == IF old \in {"erased", v} THEN v ELSE "garbled"

Write(t, v) ==
  /\ Ready(t)
  /\ upd.next <= NChunks
  /\ IF Dangerous(upd.at)
     THEN UNCHANGED flash /\ Restart
     ELSE /\ \/ /\ slot' = [slot EXCEPT ![upd.at][upd.next] = Programmed(@, v)]
                /\ upd' = [upd EXCEPT !.next = @ + 1, !.info.crc = FALSE]
                /\ job' = [job EXCEPT ![t] = [Idle EXCEPT !.pc = "ahead"]]
             \/ /\ FlashErrors      \* the write fails half way
                /\ slot' = [slot EXCEPT ![upd.at][upd.next] = "garbled"]
                /\ UNCHANGED <<upd, job>>
          /\ UNCHANGED <<info, mode, bl, app, mpInfo, lost>>

WriteAhead(t) ==
  /\ mode = "run" /\ job[t].pc = "ahead"
  /\ EraseStep(t, upd.next + 1, job' = [job EXCEPT ![t] = Idle] /\ UNCHANGED upd)

(* updater_finish: with no image pending, select the other image and save   *)
(* boot_info; offset is cleared once that is done (JobDone).                *)
Closed(u) == [u EXCEPT !.at = FF, !.next = 1]

(* Mutant of OtherImage: every update is taken for the UPDATE1 slot's.       *)
OtherImageFixed(img) == UPDATE1

OtherImage(img) == IF img = UPDATE1 THEN UPDATE2 ELSE UPDATE1

Finish(t) ==
  /\ Ready(t)
  /\ upd.at # FF
  /\ IF upd.info.Status # CHECK
     THEN /\ upd' = [upd EXCEPT !.info = [@ EXCEPT !.PrevImg = upd.info.ActiveImg,
                                                   !.ActiveImg = OtherImage(upd.info.ActiveImg),
                                                   !.Status = CHECK,
                                                   !.crc = TRUE]]
          /\ job' = [job EXCEPT ![t] = [Idle EXCEPT !.pc = "erase", !.src = "upd"]]
     ELSE /\ upd' = Closed(upd)
          /\ UNCHANGED job
  /\ UNCHANGED <<flash, mode, bl, app, mpInfo, lost>>
(* pycom.bootmgr(boot_partition, fs_type, safeboot, reset) with at least    *)
(* one argument.  The arguments are checked one after the other and applied *)
(* to modpycom's copy as they are accepted; an argument that is refused     *)
(* raises ValueError and leaves the earlier ones applied in that copy.      *)
(* The file system type is kept in the configuration block and read nowhere *)
(* else here: fs says whether it is given, differs, or is invalid.          *)
(* Mutant of WithPartition: the image to return to is not recorded.          *)
WithPartitionNoPrev(b, part) ==
  IF part = NoArg THEN b ELSE [b EXCEPT !.ActiveImg = part, !.Status = CHECK]

WithPartition(b, part) ==
  IF part = NoArg THEN b
  ELSE [b EXCEPT !.PrevImg = b.ActiveImg, !.ActiveImg = part, !.Status = CHECK]

WithSafeboot(b, sb) ==
  IF sb = NoArg THEN b
  ELSE [b EXCEPT !.safeboot = IF sb = 1 THEN SAFE_BOOT_SW ELSE 0]

Bootmgr(t, part, fs, sb, rst) ==
  LET m1 == WithPartition(mpInfo, part)
      m2 == WithSafeboot(m1, sb)
      partOk == part = NoArg \/ (part <= UPDATE1 /\ mpInfo.ActiveImg # part)
      safeOk == sb = NoArg \/ (sb <= 1 /\ sb # m1.safeboot)
      fsOk   == fs # "invalid"
      save   == part # NoArg \/ sb # NoArg
  IN /\ Ready(t) /\ t = "mp"
     /\ ~(part = NoArg /\ fs = "none" /\ sb = NoArg)
     /\ part = NoArg \/ Repartition \/ mpInfo.Status # CHECK
     /\ \/ /\ ~(partOk /\ safeOk /\ fsOk)
           /\ mpInfo' = IF ~partOk THEN mpInfo ELSE IF ~safeOk THEN m1 ELSE m2
           /\ UNCHANGED <<flash, mode, bl, app, upd, job, lost>>
        \/ /\ partOk /\ safeOk /\ fsOk
           /\ UNCHANGED flash
           /\ IF save
              THEN /\ mpInfo' = [m2 EXCEPT !.crc = TRUE]
                   /\ job' = [job EXCEPT ![t] =
                        [Idle EXCEPT !.pc = "erase", !.src = "mp",
                                     !.reset = part # NoArg \/ rst]]
                   /\ UNCHANGED <<mode, bl, app, upd, lost>>
              ELSE IF fs = "changed" /\ rst THEN Restart
              ELSE UNCHANGED <<mode, bl, app, ram, lost>>

(* mp_hal_reset_safe_and_boot, called by the servers task (Ctrl-F on the    *)
(* UART or over telnet): the MicroPython threads are deleted where they     *)
(* are, boot_info is read, and saved with the software safe boot flag; if   *)
(* the read fails nothing is saved.                                         *)
ResetSafe(t, rst) ==
  /\ Ready(t) /\ t = "servers"
  /\ UNCHANGED flash
  /\ \/ /\ job' = [job EXCEPT !["mp"] = [Idle EXCEPT !.pc = "dead"],
                              ![t] = [pc |-> "erase", src |-> "own", reset |-> rst,
                                      own |-> [info EXCEPT !.safeboot = SAFE_BOOT_SW, !.crc = TRUE]]]
        /\ UNCHANGED <<mode, bl, app, upd, mpInfo, lost>>
     \/ FlashErrors /\ rst /\ Restart
     \/ /\ FlashErrors /\ ~rst
        /\ job' = [job EXCEPT !["mp"] = [Idle EXCEPT !.pc = "dead"]]
        /\ UNCHANGED <<mode, bl, app, upd, mpInfo, lost>>

(* The MicroPython task restarts its interpreter: modpycom_init0 reads      *)
(* boot_info again, the updater's statics survive.                          *)
SoftReset ==
  /\ Ready("mp")
  /\ mpInfo' = info
  /\ safe' = (info.safeboot # 0)
  /\ UNCHANGED <<flash, mode, bl, running, upd, job, lost>>

(* updater_write_boot_info: the sector is erased, then programmed from the  *)
(* caller's copy as it is at that moment.  Bits can only be cleared, so a   *)
(* second write without an erase leaves the conjunction of the two.         *)
And(a, b) == IF a = b \/ b = FF THEN a ELSE IF a = FF THEN b ELSE 0

ProgramInfo(old, new) ==
  IF old = ErasedInfo THEN new
  ELSE [ActiveImg |-> And(old.ActiveImg, new.ActiveImg),
        Status    |-> And(old.Status, new.Status),
        PrevImg   |-> And(old.PrevImg, new.PrevImg),
        safeboot  |-> And(old.safeboot, new.safeboot),
        crc       |-> old = new /\ old.crc]

Source(j) == CASE j.src = "upd" -> upd.info [] j.src = "mp" -> mpInfo [] OTHER -> j.own

(* The caller goes on: updater_finish ignores the result and clears offset, *)
(* bootmgr resets only on success, mp_hal_reset_safe_and_boot in any case.  *)
JobDone(t, ok) ==
  IF job[t].reset /\ (ok \/ job[t].src = "own")
  THEN Restart
  ELSE /\ job' = [job EXCEPT ![t] = Idle]
       /\ upd' = IF job[t].src = "upd" THEN Closed(upd) ELSE upd
       /\ UNCHANGED <<mode, bl, app, mpInfo, lost>>

JobErase(t) ==
  /\ mode = "run" /\ job[t].pc = "erase"
  /\ UNCHANGED slot
  /\ \/ /\ info' = ErasedInfo
        /\ job' = [job EXCEPT ![t].pc = "write"]
        /\ UNCHANGED <<mode, bl, app, upd, mpInfo, lost>>
     \/ FlashErrors /\ UNCHANGED info /\ JobDone(t, FALSE)

JobWrite(t) ==
  /\ mode = "run" /\ job[t].pc = "write"
  /\ UNCHANGED slot
  /\ \/ info' = ProgramInfo(info, Source(job[t])) /\ JobDone(t, TRUE)
     \/ FlashErrors /\ UNCHANGED info /\ JobDone(t, FALSE)

-----------------------------------------------------------------------------
Boot == BootRead \/ BootErase \/ BootWrite \/ (\E pin \in Pins : BootSafe(pin)) \/ BootLoad

BootmgrCalls ==
  \E part \in {NoArg, 0, 1, 2}, sb \in SafebootArgs,
     fs \in {"none", "same", "changed", "invalid"}, rst \in BOOLEAN :
       Bootmgr("mp", part, fs, sb, rst)

Next ==
  \/ Boot
  \/ Crash
  \/ BootmgrCalls
  \/ SoftReset
  \/ \E t \in Tasks :
       \/ OtaSlot(t) \/ Start(t) \/ StartFirst(t) \/ StartSecond(t)
       \/ WriteAhead(t) \/ Finish(t) \/ JobErase(t) \/ JobWrite(t)
       \/ \E v \in Versions : Write(t, v)
       \/ \E rst \in BOOLEAN : ResetSafe(t, rst)

Spec == Init /\ [][Next]_vars
-----------------------------------------------------------------------------
(* Properties                                                               *)

(* The types of the state.                                                  *)
TypeOK ==
  /\ info \in BootInfo
  /\ slot \in [Slots -> [Chunks -> Sector]]
  /\ mode \in {"boot", "run", "halt"}
  /\ bl \in Bootloader
  /\ running \in Slots
  /\ safe \in BOOLEAN
  /\ upd \in Updater
  /\ mpInfo \in BootInfo
  /\ job \in [Tasks -> Jobs]
  /\ lost \in BOOLEAN

Normal(img) == IF img = UPDATE2 THEN FACTORY ELSE img

(* boot_info b leads find_active_image to a complete image.                 *)
LeadsToImage(b) ==
  IF b.Status = READY THEN Verifies(b.ActiveImg)
  ELSE b.Status = CHECK /\ (Verifies(Normal(b.ActiveImg)) \/ Verifies(b.PrevImg))

Rewriting == \/ mode = "boot" /\ bl.pc = "write"
             \/ mode = "run" /\ \E t \in Tasks : job[t].pc = "write"

(* Whatever the application calls, in whatever order, and wherever power is *)
(* lost, boot_info leads the bootloader to a complete image; if boot_info   *)
(* is unreadable the FACTORY slot holds one.  The exception is a boot_info  *)
(* rewrite cut between erase and write while FACTORY is incomplete (lost).  *)
Bootable ==
  \/ lost
  \/ InfoValid(info) /\ LeadsToImage(info)
  \/ ~InfoValid(info) /\ (Valid(FACTORY) \/ Rewriting)

(* A boot that does not take the image selected with the pin starts an      *)
(* application, unless boot_info was lost or the flash failed.              *)
BootSucceeds ==
  [][(mode = "boot" /\ bl.pc = "load" /\ mode' = "halt")
       => (lost \/ bl.part # info.ActiveImg)]_vars

(* The boot_info an update stores selects the slot the update wrote: the    *)
(* slot is chosen at updater_start and the image number at updater_finish,  *)
(* from reads of boot_info that other calls and stores may lie between.     *)
SelectsWritten ==
  [][\A t \in Tasks :
       (job[t].pc = "write" /\ job[t].src = "upd" /\ InfoValid(info'))
          => info'.Status = CHECK /\ Normal(info'.ActiveImg) = upd.at]_vars

(* The application starts in safe mode exactly when the pin was held during *)
(* this boot or a software safe boot was stored before it: the flag goes    *)
(* SW -> HW -> 0 over two boots and is served once.                         *)
SafeBootOnRequest ==
  [][(mode = "boot" /\ mode' = "run") => safe' = bl.asked]_vars

(* The application starts only after the pending image was resolved, with   *)
(* image numbers that are indices of the bootloader's image table.          *)
StartsResolved ==
  [][(mode = "boot" /\ mode' = "run")
       => /\ InfoValid(info) /\ info.Status = READY
          /\ info.ActiveImg \in Slots /\ info.PrevImg \in Slots]_vars

(* updater.c:252, on updater_ota_next_slot_address: "if we still have an    *)
(* image pending for verification, keep overwriting it".                    *)
PendingOverwritten ==
  (mode = "run" /\ InfoValid(info) /\ info.Status = CHECK)
     => NextSlot(info) = Normal(info.ActiveImg)
=============================================================================
