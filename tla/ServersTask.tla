----------------------------- MODULE ServersTask -----------------------------
(***************************************************************************)
(* esp32/serverstask.c: the task that steps the telnet and FTP servers, and *)
(* the calls other tasks make on it.  Callers only set flags; the task acts *)
(* on them at the top of its loop.  Telnet is the module of that name; of   *)
(* the FTP server (FtpServer) only enabled, running and listening matter    *)
(* here.  The task is broken where another task may run: before, between    *)
(* and after its writes of the shared flags.                                *)
(***************************************************************************)
EXTENDS Telnet

CONSTANTS
  Callers,     \* tasks that call servers_start, servers_stop and servers_reset
  Timely,      \* a caller's delay lets the servers task go round its loop
  CtrlF        \* a telnet client may type Ctrl-F

ASSUME ServersConstants == Timely \in BOOLEAN /\ CtrlF \in BOOLEAN

VARIABLES
  servers,     \* servers_data: enabled, do_enable, do_disable, do_reset, reset_and_safe_boot
  ftp,         \* the FTP server: enabled, and state in DISABLED, START, READY
  pc,          \* where the servers task is
  cycle,       \* whose turn it is: telnet's when TRUE
  caller,      \* where each caller is
  seen,        \* 0, 1 after the task has read the flags a caller set, 2 when it has acted on them
  last,        \* history: the latest of servers_start and servers_stop
  halted       \* Ctrl-F: the MicroPython task and its threads are deleted

vars == <<telnet, sockets, attempt, servers, ftp, pc, cycle, caller, seen, last, halted>>

Init ==
  /\ TelnetInit
  /\ servers = [enabled |-> FALSE, do_enable |-> FALSE, do_disable |-> FALSE,
                do_reset |-> FALSE, reset_and_safe_boot |-> FALSE]
  /\ ftp = [enabled |-> FALSE, state |-> "DISABLED"]
  /\ pc = "loop"
  /\ cycle = FALSE
  /\ caller = [c \in Callers |-> "idle"]
  /\ seen = [c \in Callers |-> 0]
  /\ last = "stop"
  /\ halted = FALSE

-----------------------------------------------------------------------------
\* The servers task.
telnetVars == <<telnet, sockets, attempt>>
callerVars == <<caller, last, halted>>

DisableTelnet ==
  /\ telnet' = Disable(telnet)
  /\ sockets' = sockets \ Tracked(telnet)
  /\ UNCHANGED attempt

\* Callers in a delay; the pass over the flags, and then its effect, count for them
\* (nothing is counted when delays promise nothing).
Waiting(c) == caller[c] \in {"starting", "stopping", "stopped"}
FlagsRead == seen' = [c \in Callers |-> IF Timely /\ Waiting(c) /\ seen[c] = 0 THEN 1 ELSE seen[c]]
FlagsServed == seen' = [c \in Callers |-> IF seen[c] = 1 THEN 2 ELSE seen[c]]

FtpDisabled == [enabled |-> FALSE, state |-> "DISABLED"]

\* Top of the loop: do_enable goes before do_disable, do_disable before do_reset.
DoEnable ==
  /\ pc = "loop" /\ servers.do_enable
  /\ telnet' = Enable(telnet)
  /\ pc' = "enable_ftp"
  /\ FlagsRead
  /\ UNCHANGED <<sockets, attempt, servers, ftp, cycle, callerVars>>

EnableFtp ==
  /\ pc = "enable_ftp"
  /\ ftp' = [ftp EXCEPT !.enabled = TRUE]
  /\ pc' = "set_enabled"
  /\ UNCHANGED <<telnetVars, servers, cycle, seen, callerVars>>

SetEnabled ==
  /\ pc = "set_enabled"
  /\ servers' = [servers EXCEPT !.enabled = TRUE]
  /\ pc' = "clear_enable"
  /\ UNCHANGED <<telnetVars, ftp, cycle, seen, callerVars>>

ClearEnable ==
  /\ pc = "clear_enable"
  /\ servers' = [servers EXCEPT !.do_enable = FALSE]
  /\ pc' = "run"
  /\ UNCHANGED <<telnetVars, ftp, cycle, seen, callerVars>>

\* telnet_disable and ftp_disable
DoDisable ==
  /\ pc = "loop" /\ ~servers.do_enable /\ servers.do_disable
  /\ DisableTelnet
  /\ ftp' = FtpDisabled
  /\ pc' = "clear_disable"
  /\ FlagsRead
  /\ UNCHANGED <<servers, cycle, callerVars>>

KeepDisable ==
  /\ pc = "clear_disable"
  /\ pc' = "clear_enabled"
  /\ UNCHANGED <<telnetVars, servers, ftp, cycle, seen, callerVars>>

ClearDisable ==
  /\ pc = "clear_disable"
  /\ servers' = [servers EXCEPT !.do_disable = FALSE]
  /\ pc' = "clear_enabled"
  /\ UNCHANGED <<telnetVars, ftp, cycle, seen, callerVars>>

KeepEnabled ==
  /\ pc = "clear_enabled"
  /\ pc' = "run"
  /\ UNCHANGED <<telnetVars, servers, ftp, cycle, seen, callerVars>>

ClearEnabled ==
  /\ pc = "clear_enabled"
  /\ servers' = [servers EXCEPT !.enabled = FALSE]
  /\ pc' = "run"
  /\ UNCHANGED <<telnetVars, ftp, cycle, seen, callerVars>>

\* telnet_reset and ftp_reset, if enabled; and all user sockets are closed.
DoResetAlways ==
  /\ pc = "loop" /\ ~servers.do_enable /\ ~servers.do_disable /\ servers.do_reset
  /\ servers' = [servers EXCEPT !.do_reset = FALSE]
  /\ telnet' = Reset(telnet)
  /\ sockets' = sockets \ Tracked(telnet)
  /\ ftp' = [ftp EXCEPT !.state = "START"]
  /\ pc' = "run"
  /\ FlagsRead
  /\ UNCHANGED <<attempt, cycle, callerVars>>

DoReset ==
  /\ pc = "loop" /\ ~servers.do_enable /\ ~servers.do_disable /\ servers.do_reset
  /\ servers' = [servers EXCEPT !.do_reset = FALSE]
  /\ \/ /\ servers.enabled
        /\ telnet' = Reset(telnet)
        /\ sockets' = sockets \ Tracked(telnet)
        /\ ftp' = [ftp EXCEPT !.state = "START"]
     \/ ~servers.enabled /\ UNCHANGED <<telnet, sockets, ftp>>
  /\ pc' = "run"
  /\ FlagsRead
  /\ UNCHANGED <<attempt, cycle, callerVars>>

NothingToDo ==
  /\ pc = "loop" /\ ~servers.do_enable /\ ~servers.do_disable /\ ~servers.do_reset
  /\ pc' = "run"
  /\ FlagsRead
  /\ UNCHANGED <<telnetVars, servers, ftp, cycle, callerVars>>

\* ftp_run as far as it matters here: start when enabled, listen, start over.
FtpRun ==
  \/ /\ ftp.state = "DISABLED"
     /\ ftp' = [ftp EXCEPT !.state = IF ftp.enabled THEN "START" ELSE "DISABLED"]
  \/ ftp.state = "START" /\ \E s \in {"START", "READY"} : ftp' = [ftp EXCEPT !.state = s]
  \/ ftp.state = "READY" /\ \E s \in {"START", "READY"} : ftp' = [ftp EXCEPT !.state = s]

RunServer ==
  /\ pc = "run"
  /\ \/ cycle /\ TelnetRun /\ UNCHANGED ftp
     \/ ~cycle /\ FtpRun /\ UNCHANGED telnetVars
  /\ FlagsServed
  /\ pc' = "end"
  /\ UNCHANGED <<servers, cycle, callerVars>>

\* Ctrl-F in telnet_parse_input: mp_hal_reset_safe_and_boot(false) deletes every
\* MicroPython task and stops WLAN and with it the servers, from this task.
RunCtrlF ==
  /\ CtrlF /\ ~halted
  /\ pc = "run" /\ cycle /\ telnet.state = "LOGGED_IN"
  /\ \/ /\ servers.enabled
        /\ DisableTelnet
        /\ ftp' = FtpDisabled
        /\ servers' = [servers EXCEPT !.enabled = FALSE]
     \/ ~servers.enabled /\ UNCHANGED <<telnetVars, ftp, servers>>
  /\ halted' = TRUE
  /\ caller' = [c \in Callers |-> "deleted"]
  /\ pc' = "end"
  /\ UNCHANGED <<cycle, seen, last>>

\* The rest of the loop; the delay lets other tasks run.
EndCycle ==
  /\ pc = "end" /\ ~servers.reset_and_safe_boot
  /\ cycle' = ~cycle
  /\ pc' = "loop"
  /\ UNCHANGED <<telnetVars, servers, ftp, seen, callerVars>>

\* mp_hal_reset_safe_and_boot(true): the board restarts.
SafeBoot ==
  /\ pc = "end" /\ servers.reset_and_safe_boot
  /\ pc' = "restart"
  /\ UNCHANGED <<telnetVars, servers, ftp, cycle, seen, callerVars>>

Restart ==
  /\ pc = "restart"
  /\ telnet' = [state |-> "DISABLED", substate |-> "WELCOME", enabled |-> FALSE,
                sd |-> FALSE, n_sd |-> FALSE, txRetries |-> 0, loginRetries |-> 0,
                credentialsValid |-> FALSE, timeout |-> 0]
  /\ sockets' = {} /\ attempt' = {}
  /\ servers' = [enabled |-> FALSE, do_enable |-> FALSE, do_disable |-> FALSE,
                 do_reset |-> FALSE, reset_and_safe_boot |-> FALSE]
  /\ ftp' = FtpDisabled
  /\ pc' = "loop" /\ cycle' = FALSE
  /\ caller' = [c \in Callers |-> "idle"] /\ seen' = [c \in Callers |-> 0]
  /\ last' = "stop" /\ halted' = FALSE

-----------------------------------------------------------------------------
\* The callers.  mp_hal_delay_ms lets the servers task run; how far is Timely's matter.
taskVars == <<telnetVars, ftp, pc, cycle, halted>>
Delayed(c) == Timely => seen[c] = 2

\* servers_start, and wlan_servers_start when the servers are off.
Start(c) ==
  /\ caller[c] = "idle"
  /\ servers' = [servers EXCEPT !.do_enable = TRUE]
  /\ caller' = [caller EXCEPT ![c] = "starting"]
  /\ seen' = [seen EXCEPT ![c] = 0]
  /\ last' = "start"
  /\ UNCHANGED taskVars

StartReturns(c) ==
  /\ caller[c] = "starting" /\ Delayed(c)
  /\ caller' = [caller EXCEPT ![c] = "idle"]
  /\ UNCHANGED <<servers, seen, last, taskVars>>

\* servers_stop from another task, and wlan_servers_stop when the servers are on.
Stop(c) ==
  /\ caller[c] = "idle"
  /\ servers' = [servers EXCEPT !.do_disable = TRUE]
  /\ caller' = [caller EXCEPT ![c] = "stopping"]
  /\ seen' = [seen EXCEPT ![c] = 0]
  /\ last' = "stop"
  /\ UNCHANGED taskVars

\* while (servers_are_enabled())
StopPolls(c) ==
  /\ caller[c] = "stopping" /\ Delayed(c)
  /\ caller' = [caller EXCEPT ![c] = IF servers.enabled THEN "stopping" ELSE "stopped"]
  /\ seen' = [seen EXCEPT ![c] = 0]
  /\ UNCHANGED <<servers, last, taskVars>>

StopReturns(c) ==
  /\ caller[c] = "stopped" /\ Delayed(c)
  /\ caller' = [caller EXCEPT ![c] = "idle"]
  /\ UNCHANGED <<servers, seen, last, taskVars>>

\* servers_reset, and servers_reset_and_safe_boot from the UART's receive callback.
RequestReset(c) ==
  /\ caller[c] = "idle" /\ ~servers.do_reset
  /\ servers' = [servers EXCEPT !.do_reset = TRUE]
  /\ UNCHANGED <<caller, seen, last, taskVars>>

RequestSafeBoot ==
  /\ ~servers.reset_and_safe_boot
  /\ servers' = [servers EXCEPT !.reset_and_safe_boot = TRUE]
  /\ UNCHANGED <<caller, seen, last, taskVars>>

Task ==
  \/ DoEnable \/ EnableFtp \/ SetEnabled \/ ClearEnable
  \/ DoDisable \/ ClearDisable \/ ClearEnabled \/ DoReset \/ NothingToDo
  \/ RunServer \/ RunCtrlF \/ EndCycle \/ SafeBoot \/ Restart

Waits(c) == StartReturns(c) \/ StopPolls(c) \/ StopReturns(c)
Calls(c) == Start(c) \/ Stop(c) \/ RequestReset(c)

Next == Task \/ RequestSafeBoot \/ \E c \in Callers : Waits(c) \/ Calls(c)

Spec == Init /\ [][Next]_vars

\* The servers task never ends and FreeRTOS schedules it; delays end.
FairSpec == Spec /\ WF_vars(Task) /\ \A c \in Callers : WF_vars(Waits(c))

-----------------------------------------------------------------------------
AllOff == ~telnet.enabled /\ telnet.state = "DISABLED" /\ sockets = {} /\ ftp = FtpDisabled

\* While servers_are_enabled() says no, neither server runs or holds a socket, also after a
\* servers_reset and between the task's writes of the flags; and a server may have been
\* enabled only when the task is about to say so, at the end of the same turn of its flags.
OffIsOff ==
  ~servers.enabled =>
     /\ telnet.state = "DISABLED" /\ ftp.state = "DISABLED" /\ sockets = {}
     /\ telnet.enabled => pc \in {"enable_ftp", "set_enabled"}
     /\ ftp.enabled => pc = "set_enabled"

\* With one caller, and delays long enough for the servers task to go round its loop, a
\* call has had its effect when it returns: after servers_stop everything is off, after
\* servers_start the servers are on and no stale flag turns them off again.
CallsTakeEffect ==
  (\A c \in Callers : caller[c] = "idle") =>
     /\ servers.enabled = (last = "start")
     /\ last = "stop" => AllOff

\* servers_stop returns: its loop on servers_are_enabled() ends.
StopsReturn == \A c \in Callers : caller[c] = "stopping" ~> caller[c] # "stopping"

\* A telnet session in which nothing is received does not last: telnet_run counts the
\* cycles since the last reception, in every substate and whatever send does.
SilentSessionEnds == []<>(~InSession(telnet) \/ telnet.timeout <= 1)
=============================================================================
