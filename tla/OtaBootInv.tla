----------------------------- MODULE OtaBootInv -----------------------------
(***************************************************************************)
(* The inductive invariant behind Bootable, BootSucceeds and               *)
(* StartsResolved, for calls that do not overlap and flash that works.     *)
(*                                                                         *)
(* While an application runs one slot is the anchor: it holds a complete   *)
(* image, every copy of boot_info (in flash, in modpycom, in the updater,  *)
(* in a rewrite under way) either has it active and ready or has it as the *)
(* image to go back to, and no update writes to it.                        *)
(***************************************************************************)
EXTENDS OtaBoot

(* Serial use: the assumption under which the invariant is inductive.       *)
Serial == ~Overlap /\ ~Repartition /\ ~FlashErrors

OtherSlot(a) == IF a = FACTORY THEN UPDATE1 ELSE FACTORY

Sound(s) == s \in Slots /\ (lost \/ Valid(s))

(* boot_info b boots slot a, or goes back to it if the pending image fails. *)
Keeps(b, a) ==
  \/ b.Status = READY /\ b.ActiveImg = a /\ b.PrevImg \in Slots
  \/ b.Status = CHECK /\ b.PrevImg = a /\ Normal(b.ActiveImg) = OtherSlot(a)

(* UPDATE2 is only ever pending while UPDATE1 runs, so that the flash       *)
(* driver stops an update that would go to the anchor (see NextSlot).       *)
KeepsInRun(b, a) ==
  Keeps(b, a) /\ (b.ActiveImg = UPDATE2 => running = UPDATE1)

Busy(t) == job[t].pc \notin {"idle", "dead"}
Saving(t) == job[t].pc \in {"erase", "write"}

InfoOk ==
  IF InfoValid(info) THEN \E a \in Slots : Sound(a) /\ Keeps(info, a)
  ELSE Sound(FACTORY)

(* What holds while the application runs, with anchor a: one call at a      *)
(* time, an update under way, a rewrite of boot_info under way, boot_info   *)
(* itself.  An update that would go to the running image is stopped at its  *)
(* first erase.                                                             *)
OneCall == \A t, u \in Tasks : Busy(t) /\ Busy(u) => t = u

Away(a) == upd.at = OtherSlot(a) /\ upd.at # running

UpdateAway(a) ==
  upd.at # FF =>
    /\ KeepsInRun(upd.info, a)
    /\ Away(a) \/ (upd.at = running /\ \E t \in Tasks : job[t].pc = "first")

SavesKeep(a) ==
  \A t \in Tasks : Saving(t) =>
    /\ KeepsInRun(Source(job[t]), a) /\ Source(job[t]).crc
    /\ job[t].src = "upd" => upd.at # FF /\ upd.info.Status = CHECK

FlashKeeps(a) ==
  IF \E t \in Tasks : job[t].pc = "write"
  THEN info = ErasedInfo ELSE info.crc /\ KeepsInRun(info, a)

Anchored(a) ==
  /\ Sound(a) /\ OneCall /\ KeepsInRun(mpInfo, a)
  /\ UpdateAway(a) /\ SavesKeep(a) /\ FlashKeeps(a)

ReadyInfo(b) == b.Status = READY /\ Sound(b.ActiveImg) /\ b.PrevImg \in Slots

Booting ==
  /\ upd = NoUpdate
  /\ job = [t \in Tasks |-> Idle]
  /\ bl.pc \in {"read", "erase"} => InfoOk
  /\ bl.pc \in {"erase", "write", "safe"} => ReadyInfo(bl.info)
  /\ bl.pc = "write" => info = ErasedInfo
  /\ bl.pc \in {"safe", "load"} => info.crc /\ ReadyInfo(info)

(* The device can be booted from any state, whatever the copies of boot_info *)
(* in RAM are written back to flash and wherever power is lost.              *)
BootInv ==
  /\ mode = "run"  => \E a \in Slots : Anchored(a)
  /\ mode = "boot" => Booting
  /\ mode = "halt" => info.crc /\ ReadyInfo(info) /\ job = [t \in Tasks |-> Idle]

(* The safe boot flag that reaches the application, for any use: what the   *)
(* bootloader will store, and has stored when it loads, is what was asked.  *)
FlagInv ==
  mode = "boot" =>
    /\ bl.pc = "read" \/ (bl.pc \in {"erase", "write"} /\ bl.ret = "safe") => ~bl.asked
    /\ bl.pc = "safe" => ~bl.asked /\ info.safeboot = bl.info.safeboot
    /\ bl.pc \in {"erase", "write"} /\ bl.ret = "load" => bl.asked = (bl.info.safeboot # 0)
    /\ bl.pc = "load" => bl.asked = (info.safeboot # 0)
=============================================================================
