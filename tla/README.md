# Verification of the Pycom MicroPython firmware

TLA+ models of the ESP32 port of Pycom's MicroPython (`src/esp32`), checked with
TLC on small instances and, where it matters most, proved with TLAPS for every
value of the constants. `PROJECT.json` lists the parts of the system, the runs,
the lines each definition translates, one mutant of the code for every property,
the hazards and the theorems.

## The system

These FreeRTOS tasks matter here. The *MicroPython task* runs the user's program,
the REPL and, after a soft reset, starts both again; *threads* are tasks of their
own that share a lock, the GIL, with it. The *servers task* steps a telnet and an
FTP server in turn, every 2 ms. The *interrupts task* calls Python callbacks that
interrupts have queued, and deletes threads that have ended. The *LoRa task* works
through commands for the radio. Below them are the flash disk and the two-slot
flash with its boot information, read by a second-stage bootloader.

| Part | Code | State | Operations | What is hard |
|---|---|---|---|---|
| Bootloader | `bootloader/bootloader.c`, `bootmgr.c` | boot_info sector, image table | verify the pending image, roll back, safe boot, load | power lost between the erase and the write of boot_info |
| Updater | `ftp/updater.c`, `mods/modpycom.c` | offset, chunk and a RAM copy of boot_info; a second copy in modpycom | start, write, finish, next slot, bootmgr() | two tasks share the statics, stale copies are written back, erase-ahead across sector borders |
| FTP server | `ftp/ftp.c`, `util/socketfifo.c`, `util/fifo.c` | state and substate, five sockets, one file or directory handle, one buffer, a queue of replies | ftp_run, stepped; enable, disable, reset | sends that block, one buffer for commands, data and paths, transfers cut off anywhere |
| Telnet server | `telnet/telnet.c` | login state machine, sockets, ring of received characters | telnet_run, stepped; telnet_rx_char and telnet_tx_strn from Python | the ring is shared without a lock; commands in the text are filtered out; login in ten substates |
| Servers task | `serverstask.c` | flags set by other tasks | start, stop, reset, safe boot | flags served one per loop, in a fixed order; delays instead of handshakes |
| Timer alarms | `mods/machtimer_alarm.c`, `machtimer.c` | sorted list of alarms, one hardware timer | callback(), cancel(), the interrupt | interrupt and Python rearrange the same list; interrupts latched while masked |
| Interrupts task | `util/mpirq.c` | queue, list of GC roots | queue, call, kill, start | queue that drops, objects reachable only through the root list, soft reset waits for the task |
| Threads, GIL | `mpthreadport.c`, `py/modthread.c` | thread list, its mutex, one global entry point | create, start, finish, delete, deinit | a task is created before it is on the list; another task frees it; a soft reset ends threads wherever they are |
| LoRa | `mods/modlora.c`, `drivers/sx127x` | command, receive and callback queues, event bits, the driver's state | send, receive, init, power modes, reset, channel check | interrupts and timer callbacks change the task's state under it; reports that come late |
| Flash disk | `fatfs/src/drivers/sflash_diskio.c` | one cached block, its address, a dirty flag | read, write, flush | write-backs that fail or are cut off, reads that fail after the address was taken |
| LTE, mesh, WLAN, Bluetooth, CoAP, sockets, configuration, pins, buses, crypto, core | see `PROJECT.json` | | | not modelled (below) |

How the parts interact: the FTP server passes what is stored as
`/flash/sys/appimg.bin` to the updater; `pycom.ota_*` and `pycom.bootmgr` reach the updater and boot_info from
the MicroPython task; the bootloader reads what they left. The servers task
enables, resets and steps both servers. A telnet Ctrl-F reaches from the telnet
parser through `mp_hal_reset_safe_and_boot` into WLAN and back to the servers
task. Alarms, every other interrupt source and threads that end share the interrupts
queue; the soft reset ends the interrupts task and the threads, in that order.

## Modules

| Module | Models | Extends |
|---|---|---|
| `OtaBoot` | bootloader, updater, bootmgr(), safe boot, power loss | |
| `OtaBootInv` | its inductive invariant `BootInv` | `OtaBoot` |
| `OtaBootProofs` | its theorems | `OtaBootInv`, TLAPS |
| `UpdaterFlash` | one update, byte by byte and sector by sector | |
| `FtpServer` | `ftp_run` and all it calls | |
| `FtpServerProofs` | its theorems | `FtpServer`, TLAPS |
| `Disk` | what FatFs may expect of the flash disk | |
| `SflashDisk` | the block cache, refining `Disk` | |
| `FtpPath` | the in-place edits of the FTP working directory | |
| `BoundedQueue` | what the socket fifo promises: a bounded queue | |
| `Fifo` | the ring buffer, refining `BoundedQueue` | |
| `PartsProofs` | the theorems of these parts, with the two refinements | `UpdaterFlash`, `SflashDisk`, `Fifo`, `FtpPath`, TLAPS |
| `TelnetInput` | characters from the socket to `telnet_rx_char` | |
| `TelnetInputProofs` | its theorem | `TelnetInput`, TLAPS |
| `Telnet` | the login state machine, sockets and timeout | |
| `ServersTask` | the servers task with `Telnet` and the outline of FTP | `Telnet` |
| `ServersTaskProofs` | its theorems | `ServersTask`, TLAPS |
| `Alarms` | alarm list, timer, interrupt, interrupts task, soft reset | |
| `AlarmsProofs` | its theorems | `Alarms`, TLAPS |
| `Threads` | threads, the GIL, the thread list, their deletion, soft reset | |
| `ThreadsProofs` | its theorems | `Threads`, TLAPS |
| `Lora` | raw LoRa: Python, the LoRa task, the driver, its timers | |
| `LoraProofs` | its theorems | `Lora`, TLAPS |
| `MCParts` | `UpdaterFlash`, `Fifo`, `FtpPath` and `SflashDisk` side by side | those four |
| other `MC...` | the instances that TLC checks | |

Actions carry the names of the functions they translate wherever one action is
one function. Definitions that stand before one they resemble (`ResolveUnverified`
before `Resolve`, say) are the mutants of it that `PROJECT.json` lists: plausible
slips in that code, each of which makes TLC report the property named with it.

### Firmware update and boot: OtaBoot

`OtaBoot` models everything that writes the two image slots or the boot_info
sector. `slot` and `info` are the flash; `upd` and `mpInfo` are the two RAM copies
of boot_info (updater.c, modpycom.c), `job` is a task's call between two flash steps
(the erases of `updater_start` and `updater_write`, the erase and the write of
boot_info) and `bl` holds the locals of the bootloader. Actions:
`Start`, `StartFirst`, `StartSecond`, `Write`, `WriteAhead`, `Finish`, `OtaSlot`,
`Bootmgr`, `ResetSafe`, `SoftReset`, `JobErase`, `JobWrite` in the
application, `BootRead`, `BootErase`, `BootWrite`, `BootSafe`, `BootLoad` in the
bootloader, and `Crash` (power loss, reset) between any two of them, flash writes
included. An image is cut into `NChunks` sectors and is complete when all its
sectors carry the same version. `FACTORY` and `UPDATE2` share a slot, as in the
code. With `FlashErrors` erases, writes and the updater's reads of boot_info may fail:
after a failed read the updater goes to UPDATE1 with the copy it had. Left out: the
partition table, secure boot, encryption of the flash, `updater_verify`, which only
reads, and failing reads of boot_info while the application starts.

Two things are external and modelled from how the code relies on them: image
verification accepts exactly complete images, and the flash driver aborts on
writes into the running image (`CONFIG_SPI_FLASH_WRITING_DANGEROUS_REGIONS_ABORTS`
in the sdkconfig the build uses).

`lost` remembers that power failed between the erase and the write of boot_info
while the FACTORY slot held no complete image: then the bootloader's default does
not boot, and the code has no second copy to fall back to. `Bootable` states that
this one window is the only way to lose the device.

### One update in detail: UpdaterFlash

`updater_start` erases two sectors; each `updater_write` programs a piece and
erases the sector after the next when a sector fills up. `dirty` is the set of
bytes programmed since they were erased, so programming a dirty byte is what must
not happen. `pycom.ota_slot()` may be called at any time and reloads the static
boot_info. Pieces and images have any length, as the code compares neither with
anything; `MaxOffset` only bounds how far the counters are followed. `long`
remembers a piece of more than a sector, with which the erase-ahead falls behind
(both callers in the repository stay below: FTP 512 bytes, `_OTA.py` 50). A write
outside an update is left out: it goes to the start of the flash, where the driver
aborts it.

### FTP server: FtpServer, FtpPath, Fifo

One call of `ftp_run` is two steps: the switch on state and substate, then
`ftp_send_from_fifo` and the closing check. The record `ftp` holds `ftp_data`:
state, substate, the open descriptors, the login, the handle, the queue. A queued
element is the socket it goes to, what it closes and, for data, what the shared
buffer held when it was queued. The client is any sequence of commands; sockets
and files may fail. `Polite` restricts the client to one that opens its data
connection before it asks for a transfer, `Aborts` lets sends fail, `NoMem` lets
the allocation of replies fail. `FtpPath` is about characters: `ftp_open_child`,
`ftp_close_child` and `ftp_return_to_previous_path` edit one string in place.
Parameters that wrap the unsigned length of that last function are left out.

### Telnet and the servers task: TelnetInput, Telnet, ServersTask

`TelnetInput` has the ring of received characters with its byte indices and the
filter of telnet commands; the reader is another task, and the writer's three
reads of the reader's index are three steps. The ring has `BufSize` places instead
of 256. `whole` remembers that no command was split between two receptions. The
text a reader gets is compared with a reference filter of the whole stream. A session
starts as the login phase left it, whose receptions are parsed as well: in either
mode and perhaps inside a command (`start`).

`Telnet` is one `telnet_run` per action: listen, accept, the ten login substates,
the timeout. `ServersTask` composes it with the task's loop and callers that start,
stop and reset; the task is split before and after each write of a shared flag.
Of FTP only enabled, started and listening matter here. `Timely` says that the
delays in `servers_start` and `servers_stop` are long enough for one loop of the
task; the code relies on it and nothing enforces it.

### Alarms and the interrupts task: Alarms

The list, the indices and the timer are changed by the interrupt and by sections
that mask it. An expiry that comes while interrupts are masked stays raised and is
served after the section: `Expire`, the section and `timer_alarm_isr` are separate
actions. Times are relative to the hardware counter. `callback()` is two steps, as
the handler is stored before the section; no other Python runs between, as the
thread holds the GIL. A callback may call any of this again. When the interrupts task
leaves its loop it needs the GIL once more before it is seen to be dead (`Exit`). The soft
reset goes
through `machtimer_deinit`, `mp_irq_kill`, `mp_irq_init0`, `machtimer_init0`.

### Threads: Threads

A task has a place `pc`, from its creation to the release of its memory. The list of
nodes is what the garbage collector walks; `making` is the task that the holder of
`thread_mutex` has created and not yet linked, and may already run: it waits for the
mutex in `mp_thread_start`. The function of a new task is handed over in one global
variable, `entry`. All tasks are pinned to one core, and the model has its
priorities: while the interrupts task can run (`IrqReady`) the others do not, and the
idle task, which frees what deleted itself, runs when all others wait. An ended
thread queues its own deletion. `Restart` is a restart after a fault. `NodeReused`
says what the memory of a node holds that `mp_thread_deinit` has freed and then
reads: the run, and the two theorems that need it, take it as FALSE (see Observations).

### Raw LoRa: Lora

`TASK_LoRa`'s state machine, the commands Python queues for it, the event bits Python
waits for, the driver's own state, its two timers and the queue of their callbacks. A
timer may be started again while the callback of its last expiry is still queued, and
stopping it does not take that callback back. The interrupt for a transmission reports it
at once; the one for a reception sets a flag, and a timer callback that another task runs
reports it later. Such a report may come when the state is no longer the one it was
for: `strayed` remembers that it did (see Observations), or that `ischannel_free`, which
drives the radio from the Python thread, hit a transmission; `CallReturns` is conditional
on it. A turn of the task's loop is one step, except that the
millisecond of listening before a transmission is between `CmdTx` and `Talk`; the time
ischannel_free listens is between `lora_ischannel_free` and `Sensed`. `Pins` says whether
the board can reset the chip. A packet is its number. LoRaWAN is left out: its MAC layer is a vendored library.

### Flash disk: SflashDisk, Disk

The driver caches one block and writes it back when another is wanted, or on request.
`Disk` says what a file system may count on: a sector reads as last written, a failed
call writes nothing, a power loss costs at most the block written last. After a failed
flash read nothing is promised of the block it was for (`suspect`), because the code
does not keep such a promise. The refinement maps a sector to the cache when its block
is there and to the flash otherwise.

## What the runs check

| Run | Instance | Shows |
|---|---|---|
| `ota_serial` | 2 sectors per image, 2 versions, calls one at a time, power loss anywhere; 214 000 states | `Bootable`: boot_info leads to a complete image except after the one named window. `BootSucceeds`: a boot of the stored image starts an application. `SelectsWritten`: what an update stores selects the slot it wrote |
| `ota_hostile` | 1 sector, overlapping calls from two tasks, flash errors, partition changes while an update is pending; 902 000 states | `SafeBootOnRequest`: safe mode exactly on request, once |
| `ota_pending_slot` | as `ota_serial`, smaller | violation: `PendingOverwritten` |
| `parts` | flash writer with sectors of 2 bytes, a slot of 3, pieces of 0 to 3 and failing flash; a fifo of 3 places; parameters of up to 4 characters and paths of up to 8; a disk of 2 blocks of 2 sectors with failures and power loss; 301 000 states | `ErasedInSlot`: pieces land on erased flash and the erase-ahead stays in its slot. `PathRestored`: the in-place edits of the working directory undo each other. `ImplementsQueue`, `ImplementsDisk`: the ring buffer refines `BoundedQueue`, the block cache refines `Disk` |
| `ftp_sessions` | polite client, failing sockets and files, disable and reset anywhere; 305 000 states | `HandlesTracked`, `SoftwareUpdateOnly`, `FreshSession`, `TransferAnswered` (an announced transfer is left only through END_TRANSFER, with its closing reply, or by a reset), `TransferEnds`, `IdleClientDropped` |
| `ftp_rude` | any order of commands, replies that cannot be allocated; 2.5 million states | `QueuedDataIntact`: the block in the shared buffer is not overwritten while it is queued. `RepliesFit`: the queue never overflows. `SocketsTracked` |
| `telnet_input` | ring of 6, ten kinds of text and commands followed by three; 957 000 states | `InputFaithful`: the reader gets exactly the text. `AllRead`: everything is read in the end, however small the free space gets |
| `servers_task` | one caller, one telnet client, Ctrl-F, safe boot; 183 000 states | `CallsTakeEffect`, `LoginNeedsBoth`, `OffIsOff`, `StopsReturn`, `SilentSessionEnds` |
| `alarms` | a periodic alarm of 1 tick and a one-shot one of 2, a queue of 2, soft resets; 147 000 states | `HeapConsistent`, `TimerServesFirst`, `QueuedIsRooted`, `KillEnds`, `FiredIsCalled`, `ArmedFires` |
| `alarms_early` | the same | violation: `NotEarly` |
| `threads` | two threads, a queue of 2, soft resets and faults; 26 000 states | `RootsComplete`: the collector finds all that lives and nothing freed. `EntryKept`: a thread runs its own function. `ResetClean`. `QueuedDeleteDone`: a queued deletion needs no idle task. `ResetEnds` |
| `lora` | queues of 2, up to 3 packets sent, 2 received or one of each, power modes on and tx_only, boards with and without a reset pin; 625 000 states | `OrderKept`: packets go on air and reach Python in order, none twice. `SentWhole`: the radio leaves a transmission with its interrupt, its timeout or a reset, or else for one of two named causes. `CallReturns`: no call waits for ever, unless `strayed` |

Type correctness is proved rather than checked: on its own for `OtaBoot`,
`UpdaterFlash` and `Fifo`, and as part of the inductive invariant of the other
modules that have proofs.

**Bounds.** Everything that is counted in the code against a limit has the limit as
a constant (`TxRetriesMax`, `LoginRetriesMax`, `Timeout`, `DataCycles`, `CmdCycles`,
`FifoMax`, `BufSize`, `QueueLen`, `MaxAlarms`, `CmdLen`, `RxLen`), set to the smallest value at which
both the limit and the way to it occur. Two sectors per image are the least at
which an image can be half written, and two versions the least at which a mixed
image differs from both; the proofs remove both bounds. A ring of 6 wraps in the
middle of every kind of piece and is full, empty and one short of full at both
ends. Two alarms are the least at which one can be served for the other; with two
places for them the refusal of a third alarm does not happen in the run. Two threads
are the least at which one creates another while a third party deletes it; two blocks
the least at which a block is left, another written and the first come back to. Sectors
of 2 bytes give pieces that end before, at and behind a border, and a piece of more than
a sector. `MaxTraffic`
bounds the packets of `Lora`, those sent counted twice and those received three times. At 6 a
behaviour has 3 sent, 2 received, or one of each: 2 sent are the least that can be put in the
wrong order by a busy channel, a third finds the command queue full, 2 received are the least
that can be handed out in the wrong order, and one of each is enough for a reception to be
reported during a transmission. Power mode sleep differs from tx_only only in that
`lora_send` refuses, so the run leaves it out. `MaxOffset`, `MaxParam`, `MaxPath` and `MaxLate` (ticks of an overdue alarm, of which there are
none) keep unbounded counters finite. Every action and every alternative of the
next-state relations happens in some passing run.

**Fairness.** Liveness is stated for what the scheduler and the hardware guarantee:
FreeRTOS runs the servers task, which
never ends and steps each server every second cycle (`WF(Run)`, `WF(Task)`); delays
of callers end; data that TCP has delivered is received in the end (strong fairness,
since the servers task may find nothing in any one cycle); the MicroPython task
keeps reading; the timer counts, a raised interrupt is served once unmasked, the
interrupts task has a higher priority (11) than the threads and the servers (5) and
callbacks return (strong fairness of its steps, since other threads take the GIL in
between). For threads: FreeRTOS runs tasks that are ready, a thread releases the GIL
again and again and the mutex when its section ends; nothing is assumed of the idle
task. For LoRa: its task and the timer task are scheduled, timers elapse, and the
channel is not found busy for ever (strong fairness of `Talk`). Nothing is assumed of
clients, callers of the API, the radio's environment, or power.

**Deadlock** is checked everywhere but in `TelnetInput`, whose sessions end when the
stream has been read, and in `Lora`, where after a stray report a call may wait for good
(see Observations).

**Violations.** `ota_pending_slot`: with an UPDATE2 image pending,
`updater_ota_next_slot_address` returns the UPDATE1 slot, which is the running
one, although its comment promises to overwrite the pending image; the flash
driver then aborts, and the device restarts. `alarms_early`: `remove_alarm` disables the timer so
that the interrupt of a cancelled alarm is "not performed at all", but an interrupt
raised just before stays raised, and the next alarm in the list fires in its place,
early.

## What is proved

All theorems are checked by TLAPS with SMT, Zenon and, for the temporal steps, PTL.

* `OtaBootProofs`, for every number of sectors and every nonempty set of versions.
  `TypeCorrect` and `SafeBootServedOnce` hold with overlapping calls and flash errors.
  `BootInvariant`, `StaysBootable`, `BootsAsStored` and `UpdateSelectsWritten` assume
  `Serial`: calls do not overlap, the flash works, bootmgr() selects no partition
  while an update is pending. `Bootable` is not inductive: it speaks of boot_info in
  flash, and the next write may come from any of the copies in RAM. `BootInv` names an
  *anchor* slot while an application runs: it holds a complete image, every copy of
  boot_info (flash, modpycom, updater, rewrite under way) either has it active or goes
  back to it, and no update writes to it: one that would is stopped by the flash driver
  at its first erase. `SafeBootServedOnce` rests on `FlagInv`, which
  relates the flag stored to what was asked for at every step of a boot.
* `PartsProofs`, the updater, from `FlashConstants` (positive sizes, a slot of two sectors
  at least). `EraseAhead`: every piece lands on erased flash, for every sector size, as long
  as no piece is longer than a sector; the invariant says that the data ends `current_chunk` bytes into
  some sector k, that exactly the sectors up to k + 1 have been erased, and that nothing
  behind the data is dirty up to there. `StaysInSlot`: the erase-ahead does not leave
  the slot before the image reaches its last sector, for pieces of any length, because no
  erased sector starts more than a sector behind the image (`NearImage`).
  `ErasedAheadInSlot` is both together, as the run checks them.
* `PartsProofs`, the cache, for every block size, number of blocks and contents.
  `CacheCoherent`: a clean cache agrees with the flash, outside of suspect blocks.
  `CacheIsDisk`: every step of the driver is a step of `Disk`, or stutters.
* `PartsProofs`, the paths, for names and directories of any length.
  `PathAlwaysRestored`: ftp_return_to_previous_path undoes ftp_open_child for relative
  names, ftp_close_child for simple ones. `PathInv` has that ftp_path begins with a
  separator, so that ftp_close_child finds one.
* `PartsProofs`, the ring, for every capacity and element type. `PositionsAlwaysAgree`: first,
  last and count agree. `FifoIsQueue`: every step of the ring buffer is a step of
  `BoundedQueue` under the mapping that reads the elements from the first position on.
* `TelnetInputProofs`, for every buffer of at least four bytes, every stream of bytes, every
  way of receiving it and every interleaving with the reader. `InputAlwaysFaithful`: what has
  been read and is still in the ring is the prompt and the text received so far, and the
  answers sent are those owed, while the session lasts and no reception has ended inside a
  command (`InputFaithful` has both as premises; see Observations for what happens after).
  There are two inductions. `Follows` is the invariant of the loop in telnet_parse_input:
  after each turn, what the parser has kept in place, its mode and its answers are those of
  the reference filter at the same byte, the bytes ahead are those that arrived, and the
  rest of the buffer is as it was; there is a lemma for each way a turn can go (a character
  kept or filtered, Ctrl-F, an escaped IAC, AYT, an answered and a skipped option, a command
  cut off). `InputInv` is the invariant of the system: `Buffered` says where in the ring the
  unread characters are, and `Room` what the reader's progress leaves true of max_len between
  the three reads of rxRindex, so that a reception overwrites no unread character and never
  makes a full ring look empty. Both the loop and the filter are recursive functions; the
  induction over their arguments is done with sets, by the least place at which a claim
  fails (`Least`, `UpTo`), which needs no operator parameter.
* `ServersTaskProofs`, for every set of callers, any scheduling (`Timely` or not) and all
  limits. `OffAlwaysOff`: while servers_are_enabled() says no, neither server runs or holds
  a socket, and one is enabled only between telnet_enable and the write of the flag; the
  invariant adds that both are off from the moment the task has disabled them, before it
  clears the flags, and that the open telnet sockets are those of the server's state. `LoginAlwaysNeedsBoth`: the invariant says what credentialsValid
  stands for while the password is awaited. `CallsAlwaysTakeEffect`, for one caller and
  `Timely` delays, which are the premises of the property's wording: `Settles` relates the
  request flags, where the caller is in its call and where the task is in its loop.
* `AlarmsProofs`, for any set of alarms, intervals, and limits. `HeapAlwaysConsistent`:
  the list is ordered and every heap_index right; `FirstAlwaysServed`: the timer is set
  for the first alarm or its interrupt is raised. The invariant `AlarmInv` has both also
  while a soft reset masks the interrupt. `QueuedAlwaysRooted`: a queued callback belongs to
  an alarm that the collector finds. `CallbackRooted` says it of every alarm with a
  callback, queued or not, but in the middle of callback() and after one that found no room;
  `NoIsNoAlarm` (the mark for no call in progress is not an alarm) is assumed. `RemoveSound` and
  `InsertSound` show that remove_alarm and insert_alarm keep the list, from lemmas about
  the places that shift;
  that the loop of insert_alarm finds a place needs the least element of a set of
  numbers, which the library's `WFMin` gives without an operator parameter.
* `ThreadsProofs`, for any number of threads and any queue. `ThreadsAgree` is the invariant
  `ThreadInv`: the list holds exactly the tasks that exist but for the one being created,
  whence `RootsAlwaysComplete`; and, as long as ~`NodeReused`, a task that has yet to read
  its function finds its own in ext_thread_entry and mp_thread_deinit has still to visit
  whatever is left, whence `EntryAlwaysKept` and `ResetAlwaysClean`. That the entry is
  kept rests on the priorities: a thread that could overwrite it does not run before the
  interrupts task has read it.
* `LoraProofs`, for queues of any length and any number of packets. `OrderAlwaysKept`
  from `SendInv` (what is queued, at hand or on air was sent, and in order) and
  `ReceiveInv` (a flagged packet is newer than all that were reported).
  `TransmissionsWhole`, from `OnAir`: while the radio transmits the driver says so, and
  lora_obj.state is that of the transmission, of a reset or of a reception reported during
  it, so no command is taken and no timeout of another kind touches the radio.
* `FtpServerProofs`, for all timeouts, retry limits, queue lengths, directories and files.
  For any client and any failures: `DataAlwaysIntact`, `RepliesAlwaysFit` and
  `SocketsAlwaysTracked`. None is inductive alone: that a reply is queued only where there is
  room, and dBuffer written only when no block waits, depends on which sockets are open in
  which state, and that in turn on what the queued replies will close. `FtpInv` has
  `Linked` (which sockets are open in which states) and `Shaped` (the queue is empty, a
  reply, the block in dBuffer, or that block and a reply behind it; 221 is queued in READY
  only). For `Polite` clients, which ask for transfers on an open data connection only,
  `FtpInv` has also `Sess`: a file is open only during a transfer, whose data connection
  stays and whose queued replies close nothing; an update is open only while it is received
  or until the reply that reports its failure has gone out. From it `HandlesAlwaysTracked`,
  `UpdatesKeptApart` and `TransfersAlwaysAnswered`; for other clients TLC finds each of them
  violated (Observations). `SessionsStartFresh` assumes also ~`NoMem`: the reply that closes
  a failed update is the only one that finishes it.

Only model-checked: all liveness (`TransferEnds`, `IdleClientDropped`,
`AllRead`, `StopsReturn`, `SilentSessionEnds`, `KillEnds`, `FiredIsCalled`, `ArmedFires`,
`QueuedDeleteDone`, `ResetEnds`, `CallReturns`), which is out of the prover's reach
together with ENABLED. Every invariant and every action property of the runs that pass has
a theorem.

## Observations

Disagreements between code and documentation, or between two parts of the code, that
came up while modelling and are not among the runs. The properties above are stated so
that they hold beside them, and say so where they are conditional.

* `ftp.c:1224`: RNTO takes the old name from the data buffer, which SIZE, MDTM, PASV and
  every transfer between RNFR and RNTO overwrite.
* `ftp.c:797, 1453`: a listing that is interrupted leaves `ftp_last_dir_idx`, and the next
  one starts in the middle.
* `ftp.c:774, 1176`: STOR of an update image without a data connection leaves special_file set;
  the next file that is stored goes to the updater (`SoftwareUpdateOnly` is checked for
  polite clients).
* `ftp.c:995-996`: a failed update whose 426 or 451 was not queued for want of memory is not
  finished: special_file is cleared without updater_finish (`FreshSession` is checked
  with ~`NoMem`).
* `ftp.c:1559`: the length in `ftp_return_to_previous_path` is unsigned and wraps for an
  absolute parameter that ends in a separator.
* `telnet.c:505-513`: a telnet command that is split between two receptions garbles the
  text around it. The comment at 112 has its characters stored, but only their number is
  kept: the next reception is written over them, and as many characters in front of it are
  parsed in their place (`InputFaithful` is conditional on `whole`).
* `help.c:51`: Ctrl-F is said to do a hard reset; from telnet, `telnet.c:541` and
  `esp32_mphal.c:236` tear everything down and do not reset.
* `serverstask.c:152`: with two tasks that stop and start the servers, servers_stop may
  poll for ever, as it does not raise do_disable again (`StopsReturn` has one caller).
* `updater.c:251`: `pycom.ota_slot()` during an update reloads boot_info, and the size
  counted so far is replaced by the stored one; the comment of `updater_verify` (181) says
  that the last image "has the lenght boot_info.size".
* `updater.c:168`: updater_finish does not look at the result of storing boot_info.
* `updater.c:105`: an upload over FTP and `pycom.ota_*` at the same time share the updater's
  statics: a second `Finish` between the erase and the write of the first stores a
  boot_info that selects another slot, and a slot may hold parts of both images
  (`Bootable` and `SelectsWritten` are checked for calls that do not overlap).
* `modpycom.c:86`: bootmgr() with an UPDATE2 image pending stores image number 2 as the
  one to go back to, which is no entry of the bootloader's table (excluded by `Serial`).
* `machtimer_alarm.c:251-263`: callback() on an alarm that is armed clears the new handler
  with the old one, so the alarm is armed without one; so does callback(None), which
  `docs/library/machine.Timer.rst:112` says disables the alarm.
* `machtimer_alarm.c:157-160`: a one-shot alarm that is set again in its own callback, or
  while it is queued, loses its new handler when the callback returns.
* `machtimer_alarm.c:288`: cancel() of an alarm that is queued takes it off the list of
  registered objects, so it may be collected before `alarm_handler` looks at its handler
  (`QueuedIsRooted` is about alarms whose callback is still to be called).
* `machtimer_alarm.c:216`: intervals in ms or us are computed in 32 bits and wrap above
  about 107 s.
* `mpirq.c:178`: the NULL that ends the interrupts task is dropped when the queue is full,
  and the soft reset then waits for ever (`KillEnds` starts from the NULL being queued).
* `ftp.c:1057`: a CWD to a/b that is refused leaves the working directory at a.
* `ftp.c:1532`: a file command with an absolute name, as in RETR /flash/a, leaves the working
  directory at the root, because the name has replaced it (`PathRestored` is about relative
  names).
* `updater.c`: pieces of more than a sector, which `pycom.ota_write` accepts, outrun the
  erase-ahead, and nothing compares an image with its slot: one that reaches the slot's last
  sector makes the updater erase what follows the slot. Only `tools/size_check.sh` keeps
  images below that (both are premises of `ErasedInSlot`).

Threads:

* `mpthreadport.c:152`: "Execution will only reach this point when TASK_Interrupts task is
  being deleted at the moment" is not so: with the queue full, or the interrupts task
  waiting for the GIL, the thread goes on and deletes itself; the queued deletion then
  comes for a task that may have been freed (`DeleteFreed`).
* `mp_thread_deinit` follows the next pointer of a node after the deletion has freed it;
  if the memory was given to someone else in between, the walk goes astray
  (`NodeReused`).

LoRa:

* A reception is reported by a timer callback and not at the interrupt. Reported during a
  transmission it sets the state to RX_DONE: the task goes back to listening, the
  transmission is cut off and a blocking sender waits for ever. Reported during sleep or
  after `lora.reset()` it undoes the one and makes the other hang. `strayed` marks all of
  these. (`modlora.c:981` says "no activity detected on Lora, so send the pack now".)
* `modlora.c:2333`: `ischannel_free` does not ask the LoRa task. Over a transmission it puts the
  chip to receive and then to sleep and stops the timeout of the transmission: neither TxDone
  nor the timeout comes, the task stays in TX and takes no command any more, and only
  `lora.reset()` helps. It leaves an always-on radio asleep. With a time of 0 the
  counter wraps (`sx1272.c:255`).
* After a timeout of a transmission lora_send returns the length although the error bit is set.
* The completion bits are shared by all calls, so one thread's call may return on another's.
* `modlora.c:993`: a packet that finds the channel busy goes back to the queue without a
  time limit, so TASK_LoRa blocks for good when Python has filled the queue meanwhile.
* `Radio.Send` overwrites the size, and setting up a reception zeroes the buffer, of a
  packet that was received and not yet reported.
* `modlora.c:1618`: recvfrom of the rest of a packet reports the port of an uninitialised
  variable; the port stored with the rest is not used.
* `modlora.c:2413-2433`: lora_send_cmd may raise while the GIL is released.
* TX_ONLY leaves the receiver on after the first transmission; a pending init and
  power_mode() write the power mode out of order.

Flash disk:

* `sflash_diskio.c:92, 128`: the address of a block is taken before the block is read. When
  the read fails, the next call finds a hit, returns RES_OK with the contents of another
  block, and a later write-back stores them (`suspect`).
* `pybflash.c:75-76`: the result of sflash_disk_flush is dropped, so f_sync reports success
  when the write-back failed.
* The locks in the driver are comments. FatFs locks per volume; `Flash.readblocks` and
  `writeblocks` from Python do not go through it.

Code that is not modelled, as far as it was read:

* `modlte.c:430`: a second thread that calls init() while the modem is being connected
  waits for the semaphore with the GIL held, and the first needs the GIL to give it.
* `modusocket.c:444`: socket_connect over a thread of its own raises its errors before it
  takes the GIL again.

## Not modelled, and why

`PROJECT.json` names every part with its reason. In short:

* LTE, WLAN, Bluetooth, mesh, CoAP, Sigfox, sockets: these are the handlers of events and
  the wrappers of calls of libraries and modems that are not in the repository. Which events
  follow which call, in which order and under which locks, would have to be invented, and
  every property would rest on the invention.
* LoRaWAN: the MAC layer is Semtech's, vendored; what the port adds around it is one
  callback per confirmation.
* Configuration, RTC, watchdog, pins, buses, crypto, Python's queue and lock objects:
  sequential code under the GIL, register access, or a thin layer on FreeRTOS.
* littlefs and FatFs, the MicroPython core, the other ports: vendored.

The repository has some 577 000 lines of code, of which the models translate about 3 600
(0.6 %). 226 000 of them are vendored libraries (`lib`), 192 000 other ports (`ports`),
52 000 the interpreter (`py`) and 43 000 drivers, most of them of radio chips and their
MACs. The port itself, `esp32`, has 49 000 lines, a good part of them drivers of pins and
buses, littlefs, and the wrappers of libraries named above. Of the files in
the table at the top, which hold the concurrent and the fault-tolerant parts of the port,
the models have every operation that changes state except where `PROJECT.json` says
"partly".

## If this is taken further

1. LTE against a written account of the modem's answers: each command gets its own
   answer or a timeout, over soft resets and suspend.
2. LoRaWAN joining and confirmations, on the state machine of `Lora`.
