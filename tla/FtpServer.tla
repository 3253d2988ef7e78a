----------------------------- MODULE FtpServer -----------------------------
(***************************************************************************)
(* The FTP server of esp32/ftp/ftp.c: ftp_run, called once per cycle of    *)
(* the servers task, with everything it calls.                             *)
(*                                                                         *)
(* One call of ftp_run is three steps: the switch on the state ("main"),   *)
(* the switch on the data connection's substate ("sub"), and the           *)
(* transmission of one queued element followed by the check of the data    *)
(* socket ("send").  Between two calls the servers task may enable,        *)
(* disable or reset the server.                                            *)
(*                                                                         *)
(* Sockets are open or closed.  Replies and data blocks are abstracted to  *)
(* what the code does when they have been sent; ftp_data.dBuffer to a tag  *)
(* that names its content, because queued data blocks point into it.       *)
(***************************************************************************)
EXTENDS Naturals, Sequences

CONSTANTS
  DataCycles,    \* FTP_DATA_TIMEOUT_MS / FTP_CYCLE_TIME_MS
  CmdCycles,     \* servers_get_timeout() / FTP_CYCLE_TIME_MS
  TxRetriesMax,  \* FTP_TX_RETRIES_MAX
  FifoMax,       \* FTP_SOCKETFIFO_ELEMENTS_MAX
  DirLen,        \* entries of a listed directory
  BufEntries,    \* entries that fit in dBuffer
  FileBlocks,    \* bound: data blocks of one transfer
  Polite,        \* the client asks for transfers only on an open data connection
  Aborts,        \* sockets fail, the servers task disables and resets the server
  FsErrors,      \* file system calls and the updater fail
  NoMem          \* pvPortMalloc fails in ftp_send_reply

ASSUME FtpConstants ==
  /\ {DataCycles, CmdCycles, TxRetriesMax, DirLen} \subseteq Nat
  /\ {FifoMax, BufEntries, FileBlocks} \subseteq Nat \ {0}
  /\ {Polite, Aborts, FsErrors, NoMem} \subseteq BOOLEAN

VARIABLES
  ftp,    \* ftp_data, the socket fifo and ftp_last_dir_idx
  phase,  \* the part of ftp_run that comes next
  store   \* what the last accepted STOR names: "none", "file" or "update"

vars == <<ftp, phase, store>>

Transfers == {"LISTING", "FILE_TX", "FILE_RX"}
States == {"DISABLED", "START", "READY", "END_TRANSFER"} \cup Transfers
SubStates == {"DISCONNECTED", "LISTEN_FOR_DATA", "DATA_CONNECTED"}
HandleCap == 2    \* bound: handles counted as left open

Tags == {"none", "text", "from", "rx"} \X {0}
          \cup {"block"} \X (1..FileBlocks) \cup {"list"} \X (0..DirLen)

\* Either way when failures of this kind are part of the configuration.
May(failures) == IF failures THEN BOOLEAN ELSE {TRUE}

Init ==
  /\ ftp = [state |-> "DISABLED", sub |-> "DISCONNECTED", enabled |-> FALSE,
            lc |-> FALSE, ld |-> FALSE, c |-> FALSE, d |-> FALSE,
            open |-> "nothing", handles |-> 0, special |-> FALSE, upd |-> "closed",
            user |-> FALSE, pass |-> FALSE, txRetries |-> 0,
            dtimeout |-> 0, ctimeout |-> 0, fifo |-> <<>>, dBuffer |-> <<"none", 0>>,
            root |-> FALSE, vol |-> 0, idx |-> 0, listed |-> 0, blk |-> 0]
  /\ phase = "main"
  /\ store = "none"

-----------------------------------------------------------------------------
\* Helpers of the handlers: the server's data after the call.

Opened(f, kind) == [f EXCEPT !.open = kind,
                             !.handles = IF @ < HandleCap THEN @ + 1 ELSE @]

CloseFiles(f) == [f EXCEPT !.open = "nothing",
                           !.handles = IF f.open = "nothing" THEN @ ELSE @ - 1]

UpdaterFinish(f) == [f EXCEPT !.special = FALSE, !.upd = "closed"]

CloseOnErrorKeepingUpdate(f) == CloseFiles(f)

CloseOnErrorLeavingFile(f) == IF f.special THEN UpdaterFinish(f) ELSE f

CloseOnError(f) == IF f.special THEN UpdaterFinish(CloseFiles(f)) ELSE CloseFiles(f)

CloseCmdData(f) == CloseOnError([f EXCEPT !.c = FALSE, !.d = FALSE])

ResetKeepingFifo(f) ==
  [CloseCmdData([f EXCEPT !.lc = FALSE, !.ld = FALSE])
     EXCEPT !.state = "START", !.sub = "DISCONNECTED", !.vol = 0]

Reset(f) ==
  [CloseCmdData([f EXCEPT !.lc = FALSE, !.ld = FALSE])
     EXCEPT !.state = "START", !.sub = "DISCONNECTED", !.vol = 0, !.fifo = <<>>]

Push(f, e) == IF Len(f.fifo) < FifoMax THEN [f EXCEPT !.fifo = Append(@, e)] ELSE f

\* What ftp_send_reply may leave behind: the reply queued, or lost with its memory.
\* closes: "none"; "data" for 426, 451 and 550; "all" for 221.
Reply(f, closes) ==
  {IF queued THEN Push(f, [sd |-> "c", closes |-> closes, tag |-> <<"none", 0>>]) ELSE f
     : queued \in May(NoMem)}

\* ftp_send_data queues a pointer to dBuffer, whose content is named by the tag.
SendData(f, tag) ==
  Push([f EXCEPT !.dBuffer = tag], [sd |-> "d", closes |-> "none", tag |-> tag])

EndTransfer(f, closes) == Reply([f EXCEPT !.state = "END_TRANSFER"], closes)

-----------------------------------------------------------------------------
\* The switch on the state.

Main(outcomes) == phase = "main" /\ ftp' \in outcomes /\ phase' = "sub"

WaitForEnabled ==
  /\ ftp.state = "DISABLED"
  /\ Main({IF ftp.enabled THEN [ftp EXCEPT !.state = "START"] ELSE ftp})
  /\ UNCHANGED store

CreateListeningSocket ==
  /\ ftp.state = "START"
  /\ \E created \in May(Aborts) :
       Main({IF created THEN [ftp EXCEPT !.lc = TRUE, !.state = "READY"]
                        ELSE [ftp EXCEPT !.lc = FALSE]})
  /\ UNCHANGED store

Accepting == ftp.state = "READY" /\ ~ftp.c /\ ftp.sub = "DISCONNECTED"

WaitForConnection ==
  /\ Accepting
  /\ Main(Reply([ftp EXCEPT !.c = TRUE, !.txRetries = 0, !.ctimeout = 0,
                            !.user = FALSE, !.pass = FALSE], "none")
            \cup {ftp} \cup (IF Aborts THEN {Reset(ftp)} ELSE {}))
  /\ UNCHANGED store

ProcessingAnytime ==
  /\ ftp.state = "READY"
  /\ ftp.c
  /\ ftp.sub # "LISTEN_FOR_DATA"

Processing ==
  /\ ftp.state = "READY"
  /\ ftp.fifo = <<>>
  /\ ftp.c
  /\ ftp.sub # "LISTEN_FOR_DATA"

\* READY, but the reply queue is not empty or a data connection is awaited.
ReadyIdle ==
  /\ ftp.state = "READY"
  /\ ~Accepting /\ ~Processing
  /\ Main({ftp})
  /\ UNCHANGED store

NoCommandForever ==
  /\ Processing
  /\ Main({[ftp EXCEPT !.ctimeout = 0]})
  /\ UNCHANGED store

\* ctimeout is counted no further than it is compared.
NoCommand ==
  /\ Processing
  /\ LET f == [ftp EXCEPT !.ctimeout = IF @ > CmdCycles + 1 THEN @ ELSE @ + 1]
     IN  Main(IF ftp.ctimeout > CmdCycles THEN Reply(f, "all") ELSE {f})
  /\ UNCHANGED store

CommandSocketClosed ==
  /\ Processing
  /\ Main({CloseCmdData(ftp)})
  /\ UNCHANGED store

\* USER, PASS and QUIT need no login; every other command is answered 332.
NeedsLogin ==
  /\ Processing
  /\ ~ftp.pass
  /\ Main(Reply(ftp, "none"))
  /\ UNCHANGED store

User ==
  /\ Processing
  /\ \E right \in BOOLEAN : Main(Reply([ftp EXCEPT !.user = @ \/ right], "none"))
  /\ UNCHANGED store

Pass ==
  /\ Processing
  /\ \E right \in BOOLEAN :
       Main(Reply([ftp EXCEPT !.pass = @ \/ (right /\ ftp.user)], "none"))
  /\ UNCHANGED store

Quit ==
  /\ Processing
  /\ Main(Reply(ftp, "all"))
  /\ UNCHANGED store

LoggedIn == Processing /\ ftp.pass

\* FEAT, SYST, CDUP, CWD, PWD, XPWD, TYPE, DELE, RMD, MKD, NOOP, unknown commands.
PlainCommand ==
  /\ LoggedIn
  /\ Main(Reply(ftp, "none"))
  /\ UNCHANGED store

\* CWD, SIZE, MDTM, LIST, DELE, RMD, MKD, RNFR or RNTO when the file system refuses.
RefusedCommand ==
  /\ LoggedIn
  /\ Main(Reply(ftp, "data"))
  /\ UNCHANGED store

\* SIZE and MDTM format their answer in dBuffer.
SizeOrMdtm ==
  /\ LoggedIn
  /\ Main(Reply([ftp EXCEPT !.dBuffer = <<"text", 0>>], "none"))
  /\ UNCHANGED store

\* RNFR leaves the old path in dBuffer, where RNTO reads it.
Rnfr ==
  /\ LoggedIn
  /\ Main(Reply([ftp EXCEPT !.dBuffer = <<"from", 0>>], "none"))
  /\ UNCHANGED store

Rnto ==
  /\ LoggedIn
  /\ Main(Reply(ftp, "none"))
  /\ UNCHANGED store

PasvKeepingData ==
  /\ LoggedIn
  /\ Main(Reply([ftp EXCEPT !.sub = "LISTEN_FOR_DATA", !.ld = TRUE,
                            !.dtimeout = 0, !.dBuffer = <<"text", 0>>], "none"))
  /\ UNCHANGED store

Pasv ==
  /\ LoggedIn
  /\ LET f == [ftp EXCEPT !.d = FALSE, !.sub = "DISCONNECTED"] IN
     \E created \in May(Aborts) :
       Main(Reply(IF f.ld \/ created
                    THEN [f EXCEPT !.sub = "LISTEN_FOR_DATA", !.ld = TRUE,
                                   !.dtimeout = 0, !.dBuffer = <<"text", 0>>]
                    ELSE f, "none"))
  /\ UNCHANGED store

Asks == LoggedIn /\ (Polite => ftp.d)

List ==
  /\ Asks
  /\ \E root \in BOOLEAN :
       LET f == [ftp EXCEPT !.state = "LISTING", !.root = root, !.listed = 0]
       IN  Main(Reply(IF root THEN f ELSE Opened(f, "dir"), "none"))
  /\ UNCHANGED store

Retr ==
  /\ Asks
  /\ \E ok \in May(FsErrors) :
       Main(IF ok THEN Reply(Opened([ftp EXCEPT !.state = "FILE_TX", !.blk = 0], "file"), "none")
                  ELSE EndTransfer(ftp, "data"))
  /\ UNCHANGED store

StorFile ==
  /\ Asks
  /\ \E ok \in May(FsErrors) :
       /\ Main(IF ok THEN Reply(Opened([ftp EXCEPT !.state = "FILE_RX", !.blk = 0], "file"), "none")
                     ELSE EndTransfer(ftp, "data"))
       /\ store' = IF ok THEN "file" ELSE store

\* STOR to the update path: updater_start, or updater_finish when it fails.
StorUpdate ==
  /\ Asks
  /\ \E ok \in May(FsErrors) :
       /\ Main(IF ok THEN Reply([ftp EXCEPT !.state = "FILE_RX", !.blk = 0,
                                            !.special = TRUE, !.upd = "open"], "none")
                     ELSE EndTransfer([ftp EXCEPT !.upd = "closed"], "data"))
       /\ store' = IF ok THEN "update" ELSE store

ContinueEnd ==
  /\ ftp.state = "END_TRANSFER"
  /\ Main({ftp})
  /\ UNCHANGED store

-----------------------------------------------------------------------------
\* Continued transfers: each waits for an empty queue.

Sending(state) == ftp.state = state /\ ftp.fifo = <<>>

QueueBusy ==
  /\ ftp.state \in Transfers
  /\ ftp.fifo # <<>>
  /\ Main({ftp})
  /\ UNCHANGED store

\* ftp_list_dir of the root: all volumes at once, then none.
ListRoot ==
  /\ Sending("LISTING")
  /\ ftp.root
  /\ LET f == [ftp EXCEPT !.ctimeout = 0] IN
     Main(IF f.vol = 0 THEN {SendData([f EXCEPT !.vol = 1], <<"list", 0>>)}
                       ELSE EndTransfer([f EXCEPT !.vol = 0], "none"))
  /\ UNCHANGED store

\* The rest of the directory is read, or it is no longer open, or reading it fails.
ListLast(f, n) ==
  LET g == [CloseFiles(f) EXCEPT !.idx = 0, !.listed = @ + n] IN
  IF n > 0 THEN {SendData(g, <<"list", g.listed>>)} ELSE EndTransfer(g, "none")

\* No room for the next entry: close, open again, resume at ftp_last_dir_idx.
ListPart(f) ==
  LET g == [CloseFiles(f) EXCEPT !.idx = @ + BufEntries, !.listed = @ + BufEntries] IN
  {SendData(IF reopened THEN Opened(g, "dir") ELSE g, <<"list", g.listed>>)
     : reopened \in May(FsErrors)}

Minus(m, n) == IF m > n THEN m - n ELSE 0

ListDirOutcomes(f) ==
  LET left == IF f.open = "dir" THEN Minus(DirLen, f.idx) ELSE 0 IN
  IF left > BufEntries THEN ListPart(f) ELSE ListLast(f, left)

ListDir ==
  /\ Sending("LISTING")
  /\ ~ftp.root
  /\ LET f == [ftp EXCEPT !.ctimeout = 0] IN
     Main(ListDirOutcomes(f) \cup (IF FsErrors THEN ListLast(f, 0) ELSE {}))
  /\ UNCHANGED store

ReadFileWithoutWaiting ==
  /\ ftp.state = "FILE_TX"
  /\ LET f == [ftp EXCEPT !.ctimeout = 0, !.blk = @ + 1] IN
     /\ ftp.blk < FileBlocks
     /\ Main({SendData(f, <<"block", f.blk>>)}
               \cup EndTransfer(SendData(CloseFiles(f), <<"block", f.blk>>), "none"))
  /\ UNCHANGED store

\* ftp_read_file: a full block, the short last block, an empty one, or an error.
ReadFile ==
  /\ Sending("FILE_TX")
  /\ LET f == [ftp EXCEPT !.ctimeout = 0]
         next == [f EXCEPT !.blk = @ + 1] IN
     \/ /\ f.blk < FileBlocks
        /\ Main({SendData(next, <<"block", next.blk>>)}
                  \cup EndTransfer(SendData(CloseFiles(next), <<"block", next.blk>>), "none"))
     \/ Main(EndTransfer(CloseFiles(f), "none"))
     \/ FsErrors /\ Main(EndTransfer(CloseFiles(f), "data"))
  /\ UNCHANGED store

\* A block arrives: updater_write or ftp_write_file, which closes the file on error.
ReceiveBlock ==
  /\ Sending("FILE_RX")
  /\ ftp.blk < FileBlocks
  /\ LET f == [ftp EXCEPT !.dtimeout = 0, !.ctimeout = 0, !.blk = @ + 1,
                          !.dBuffer = <<"rx", 0>>] IN
     \E ok \in May(FsErrors) :
       Main(IF ok THEN {f}
            ELSE EndTransfer(IF f.special THEN f ELSE CloseFiles(f), "data"))
  /\ UNCHANGED store

ReceiveNothingForever ==
  /\ Sending("FILE_RX")
  /\ Main({ftp})
  /\ UNCHANGED store

ReceiveNothing ==
  /\ Sending("FILE_RX")
  /\ LET f == [ftp EXCEPT !.dtimeout = @ + 1] IN
     Main(IF ftp.dtimeout > DataCycles THEN EndTransfer(CloseFiles(f), "data") ELSE {f})
  /\ UNCHANGED store

\* The client closed the data connection: the end of the file.
ReceiveEnd ==
  /\ Sending("FILE_RX")
  /\ Main(EndTransfer(CloseFiles(IF ftp.special THEN UpdaterFinish(ftp) ELSE ftp), "none"))
  /\ UNCHANGED store

-----------------------------------------------------------------------------
\* The switch on the substate of the data connection.

Sub(f) == phase = "sub" /\ ftp' = f /\ phase' = "send" /\ UNCHANGED store

SubIdle ==
  /\ \/ ftp.sub = "DISCONNECTED"
     \/ ftp.sub = "DATA_CONNECTED" /\ ftp.state # "READY"
  /\ Sub(ftp)

DataAccepted ==
  /\ ftp.sub = "LISTEN_FOR_DATA"
  /\ Sub([ftp EXCEPT !.d = TRUE, !.dtimeout = 0, !.sub = "DATA_CONNECTED"])

DataNotAccepted(f) ==
  Sub(IF f.dtimeout > DataCycles
        THEN [f EXCEPT !.dtimeout = 0, !.ld = FALSE, !.sub = "DISCONNECTED"]
        ELSE [f EXCEPT !.dtimeout = @ + 1])

DataAwaited ==
  /\ ftp.sub = "LISTEN_FOR_DATA"
  /\ \/ DataNotAccepted(ftp)
     \/ Aborts /\ DataNotAccepted(Reset(ftp))

DataUnusedAnyState ==
  /\ ftp.sub = "DATA_CONNECTED"
  /\ LET f == [ftp EXCEPT !.dtimeout = IF @ > DataCycles + 1 THEN @ ELSE @ + 1] IN
     Sub(IF ftp.dtimeout > DataCycles
           THEN CloseOnError([f EXCEPT !.ld = FALSE, !.d = FALSE, !.sub = "DISCONNECTED"])
           ELSE f)

DataUnused ==
  /\ ftp.sub = "DATA_CONNECTED"
  /\ ftp.state = "READY"
  /\ LET f == [ftp EXCEPT !.dtimeout = @ + 1] IN
     Sub(IF ftp.dtimeout > DataCycles
           THEN CloseOnError([f EXCEPT !.ld = FALSE, !.d = FALSE, !.sub = "DISCONNECTED"])
           ELSE f)

-----------------------------------------------------------------------------
\* ftp_send_from_fifo, and the check of the data socket that ends ftp_run.

Settled(f) ==
  IF ~f.d /\ f.state \in Transfers \cup {"END_TRANSFER"}
    THEN [f EXCEPT !.sub = "DISCONNECTED", !.state = "READY"]
    ELSE f

Send(f) == phase = "send" /\ ftp' = Settled(f) /\ phase' = "main" /\ UNCHANGED store

Popped(f) == [f EXCEPT !.fifo = Tail(@)]

HeadOpen == ftp.fifo # <<>> /\ (IF Head(ftp.fifo).sd = "c" THEN ftp.c ELSE ftp.d)

\* The element has gone out; some replies close sockets behind them.
Sent(f, closes) ==
  LET g == [Popped(f) EXCEPT !.txRetries = 0] IN
  CASE closes = "none" -> g
    [] closes = "data" -> CloseOnError([g EXCEPT !.d = FALSE])
    [] closes = "all"  -> CloseOnError([g EXCEPT !.d = FALSE, !.ld = FALSE, !.c = FALSE,
                                                 !.sub = "DISCONNECTED"])

\* An element for a socket that is closed would be dropped.
SendElement ==
  /\ ftp.fifo # <<>>
  /\ Send(IF HeadOpen THEN Sent(ftp, Head(ftp.fifo).closes) ELSE Popped(ftp))

\* send would block: tried again in the next cycle, TxRetriesMax times.
SendBlocked ==
  /\ HeadOpen
  /\ LET f == [ftp EXCEPT !.txRetries = @ + 1] IN
     /\ Aborts \/ f.txRetries <= TxRetriesMax
     /\ Send(IF f.txRetries <= TxRetriesMax THEN f ELSE Reset(f))

SendFails ==
  /\ Aborts
  /\ HeadOpen
  /\ Send(Reset([ftp EXCEPT !.txRetries = @ + 1]))

SendNothing ==
  /\ ftp.fifo = <<>>
  /\ Send(IF ftp.state = "END_TRANSFER" /\ ftp.d
            THEN [ftp EXCEPT !.ld = FALSE, !.d = FALSE, !.special = FALSE]
            ELSE ftp)

-----------------------------------------------------------------------------
\* Called by the servers task between two cycles.

Enable ==
  /\ phase = "main"
  /\ ftp' = [ftp EXCEPT !.enabled = TRUE]
  /\ UNCHANGED <<phase, store>>

Disable ==
  /\ Aborts /\ phase = "main"
  /\ ftp' = [Reset(ftp) EXCEPT !.enabled = FALSE, !.state = "DISABLED"]
  /\ UNCHANGED <<phase, store>>

ServersReset ==
  /\ Aborts /\ phase = "main"
  /\ ftp.enabled
  /\ ftp' = Reset(ftp)
  /\ UNCHANGED <<phase, store>>

Command ==
  NeedsLogin \/ User \/ Pass \/ Quit \/ PlainCommand \/ RefusedCommand \/ SizeOrMdtm
    \/ Rnfr \/ Rnto \/ Pasv \/ List \/ Retr \/ StorFile \/ StorUpdate

Transfer ==
  QueueBusy \/ ListRoot \/ ListDir \/ ReadFile \/ ReceiveBlock \/ ReceiveNothing \/ ReceiveEnd

Run ==
  \/ WaitForEnabled \/ CreateListeningSocket \/ WaitForConnection \/ ReadyIdle
  \/ NoCommand \/ CommandSocketClosed \/ Command \/ ContinueEnd \/ Transfer
  \/ SubIdle \/ DataAccepted \/ DataAwaited \/ DataUnused
  \/ SendElement \/ SendBlocked \/ SendFails \/ SendNothing

Next == Run \/ Enable \/ Disable \/ ServersReset

Spec == Init /\ [][Next]_vars

\* The servers task calls ftp_run in every second cycle of its endless loop.
FairSpec == Spec /\ WF_vars(Run)

-----------------------------------------------------------------------------
\* A data block waiting in the socket fifo is a pointer into dBuffer: nothing that
\* ftp_run does while it waits may write to dBuffer (ftp_send_data, and every command
\* or transfer step that uses dBuffer).
QueuedDataIntact ==
  \A i \in 1..Len(ftp.fifo) : ftp.fifo[i].sd = "d" => ftp.fifo[i].tag = ftp.dBuffer

\* ftp_send_reply discards a reply when the fifo is full: that never happens, because
\* at most one block and one reply are queued at any time.
RepliesFit == Len(ftp.fifo) <= 2

\* accept and socket overwrite the descriptors they are given: c_sd, d_sd and lc_sd are
\* closed whenever ftp_run is about to open a socket in their place, sockets are open only
\* in the states that close them again, and what is queued goes to an open socket.
SocketsTracked ==
  /\ ftp.state \in {"DISABLED", "START"} => ~(ftp.lc \/ ftp.ld \/ ftp.c \/ ftp.d)
  /\ ftp.sub = "LISTEN_FOR_DATA" => ftp.ld /\ ~ftp.d /\ ftp.state = "READY"
  /\ ftp.sub = "DISCONNECTED" => ~ftp.d
  /\ phase = "main" /\ ftp.state \in Transfers => ftp.d
  /\ \A i \in 1..Len(ftp.fifo) : IF ftp.fifo[i].sd = "c" THEN ftp.c ELSE ftp.d

\* A client that has just been accepted finds nothing of the session before it: no queued
\* reply, no data connection, no login, no file handle and no open update.
FreshSession ==
  [][ (~ftp.c /\ ftp'.c) => /\ Len(ftp'.fifo) <= 1 /\ ~ftp'.d /\ ~ftp'.user /\ ~ftp'.pass
                            /\ ftp'.open = "nothing" /\ ~ftp'.special /\ ftp'.upd = "closed" ]_vars

\* Every handle ftp_run opened is the one e_open names, so that closing it closes all.
HandlesTracked == ftp.handles = IF ftp.open = "nothing" THEN 0 ELSE 1

\* While a file is received, special_file says whether the client named the update path:
\* the bytes of a user file never reach updater_write, nor those of an update a file.
SoftwareUpdateOnly == ftp.state = "FILE_RX" => (ftp.special <=> store = "update")

\* A transfer that was announced with 150 is answered: ftp_run leaves it through
\* END_TRANSFER, where the closing reply is queued, or the server is reset.
TransferAnswered ==
  [][ ftp.state \in Transfers /\ ftp'.state # ftp.state
        => ftp'.state \in {"END_TRANSFER", "START", "DISABLED"} ]_vars

\* Every transfer ends: whatever the client and the network do, ftp_run goes back to
\* waiting for a command or starts all over again.
TransferEnds ==
  (ftp.state \in Transfers \cup {"END_TRANSFER"})
    ~> (ftp.state \in {"READY", "START", "DISABLED"})

\* A client that sends no more commands is disconnected: no combination of pending
\* replies, half-open data connections and transfers keeps it connected for ever.
IdleClientDropped == []<><<Command>>_vars \/ (ftp.c ~> ~ftp.c)
=============================================================================
