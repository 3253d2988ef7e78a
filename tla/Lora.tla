-------------------------------- MODULE Lora --------------------------------
(***************************************************************************)
(* Raw LoRa (esp32/mods/modlora.c with drivers/sx127x/sx1272/sx1272.c): a   *)
(* Python thread hands commands to TASK_LoRa through xCmdQueue and waits    *)
(* for bits of LoRaEvents.  Interrupts of the radio and of its timers       *)
(* change lora_obj.state under the task.  A transmission is reported by     *)
(* the interrupt itself; a reception is only flagged there and reported     *)
(* later, by a timer callback that TASK_LoRa_Timer runs.                    *)
(* lora.ischannel_free() drives the radio from the Python thread itself.    *)
(*                                                                         *)
(* TASK_LoRa has a higher priority than Python: a turn of its loop is one   *)
(* step, but for the listening before a transmission, which takes a         *)
(* millisecond.  The driver's other delays are left out, except those of    *)
(* ischannel_free.  A packet is its number; its bytes are left out.         *)
(***************************************************************************)
EXTENDS Naturals, Sequences

CONSTANTS
  CmdLen,    \* LORA_CMD_QUEUE_SIZE_MAX
  RxLen,     \* LORA_DATA_QUEUE_SIZE_MAX
  CbLen,     \* LORA_CB_QUEUE_SIZE_MAX
  Pins,      \* values of micropy_lpwan_use_reset_pin: boards with and without a reset pin
  Modes,     \* the power modes a program uses, of on, tx_only and sleep
  MaxTraffic \* bound: of the packets sent, counted twice, and those received, counted thrice

ASSUME LoraConstants ==
  /\ CmdLen \in Nat \ {0} /\ RxLen \in Nat \ {0} /\ CbLen \in Nat \ {0} /\ Pins \subseteq BOOLEAN
  /\ MaxTraffic \in Nat
  /\ "on" \in Modes /\ Modes \subseteq {"on", "tx_only", "sleep"}

VARIABLES
  state,    \* lora_obj.state
  pwr,      \* lora_obj.pwr_mode
  reset,    \* lora_obj.reset
  cmds,     \* xCmdQueue
  hand,     \* task_cmd_data while the task listens before talking, or nothing
  bits,     \* LoRaEvents
  chip,     \* the radio: off (in reset), sleep, standby, rx or tx
  driver,   \* SX1272.Settings.State: idle, rx or tx
  modem,    \* the modem of the chip (RFLR_OPMODE_LONGRANGEMODE): lora or fsk
  txTimer,  \* TxTimeoutTimer is on the list of timers
  irqTimer, \* RadioIrqFlagsTimer is on the list of timers
  cbs,      \* xCbQueue: callbacks of elapsed timers, timeout or flags
  flag,     \* SX1272.irqFlags, a subset of done and error
  buffer,   \* the packet in RxTxBuffer
  rxq,      \* xRxQueue
  partial,  \* lora_partial_rx_packet: the packet with bytes left, or 0
  call,     \* where Python is in its call
  cmd,      \* the command of that call
  wait,     \* what the call does after its command is queued: no, bits or reset
  sent,     \* history: packets handed to xCmdQueue so far
  aired,    \* history: the last packet given to the radio
  heard,    \* history: packets received so far
  given,    \* history: the last packet Python got bytes of
  strayed   \* history: a report or a channel check hit a state it was not meant for

radio == <<chip, driver, modem, txTimer, irqTimer, cbs, flag>>
queues == <<cmds, hand, rxq, partial>>
caller == <<call, cmd, wait>>
past == <<sent, aired, heard, given>>
vars == <<state, pwr, reset, bits, buffer, strayed, radio, queues, caller, past>>

Nothing == [op |-> "none"]
Completed == "LORA_STATUS_COMPLETED"
Error == "LORA_STATUS_ERROR"
ResetDone == "LORA_STATUS_RESET_DONE"

Init ==
  /\ state = "noinit" /\ pwr = "on" /\ reset = FALSE
  /\ cmds = <<>> /\ hand = Nothing /\ rxq = <<>> /\ partial = 0
  /\ bits = {}
  /\ chip = "off" /\ driver = "idle" /\ modem = "fsk"
  /\ txTimer = FALSE /\ irqTimer = FALSE /\ cbs = <<>> /\ flag = {} /\ buffer = 0
  /\ call = "idle" /\ cmd = Nothing /\ wait = "no"
  /\ sent = 0 /\ aired = 0 /\ heard = 0 /\ given = 0
  /\ strayed = FALSE

Traffic == 2 * sent + 3 * heard

-----------------------------------------------------------------------------
(* The radio driver. *)

\* TimerStart puts a timer on the list, also while a callback of its last expiry is queued;
\* TimerStop takes it off the list, but no callback out of xCbQueue.
TimerStart == TRUE
TimerStop == FALSE

\* Radio.Sleep
Sleeps ==
  /\ chip' = "sleep" /\ driver' = "idle"
  /\ txTimer' = TimerStop
  /\ UNCHANGED <<modem, irqTimer, cbs, flag>>

\* Radio.Rx without a timeout
SetRx == chip' = "rx" /\ driver' = "rx"

\* Radio.Sleep, then Radio.Rx
Listens ==
  /\ SetRx
  /\ txTimer' = TimerStop
  /\ UNCHANGED <<modem, irqTimer, cbs, flag>>

\* Radio.Init, which initialises both timers, and lora_radio_setup
Configured(mode) ==
  /\ modem' = "lora"
  /\ chip' = IF mode = "on" THEN "rx" ELSE "sleep"
  /\ driver' = IF mode = "on" THEN "rx" ELSE "idle"
  /\ txTimer' = TimerStop /\ irqTimer' = TimerStop /\ flag' = {}
  /\ UNCHANGED cbs

\* Radio.Send
Sends ==
  /\ chip' = "tx" /\ driver' = "tx"
  /\ txTimer' = TimerStart
  /\ UNCHANGED <<modem, irqTimer, cbs, flag>>

-----------------------------------------------------------------------------
(* Interrupts and timer callbacks. *)

\* SX1272OnDioIrq, transmission: OnTxDone is called in the interrupt.
OnTxDone ==
  /\ chip = "tx" /\ driver = "tx" /\ modem = "lora"
  /\ chip' = "standby" /\ driver' = "idle"
  /\ txTimer' = TimerStop
  /\ state' = "tx_done"
  /\ strayed' = (strayed \/ state # "tx")
  /\ UNCHANGED <<pwr, reset, bits, buffer, modem, irqTimer, cbs, flag, queues, caller, past>>

\* SX1272OnDioIrq, reception: the packet is read and flagged, its report is left to
\* RadioIrqFlagsTimer.
Heard(what) ==
  /\ chip = "rx" /\ driver = "rx" /\ modem = "lora"
  /\ Traffic + 3 <= MaxTraffic
  /\ heard' = heard + 1
  /\ flag' = flag \cup {what}
  /\ buffer' = IF what = "done" THEN heard + 1 ELSE buffer
  /\ irqTimer' = TimerStart
  /\ UNCHANGED <<state, pwr, reset, bits, strayed, chip, driver, modem, txTimer, cbs, queues, caller, sent, aired, given>>

\* TimerIrqHandler: an elapsed timer leaves the list; its callback goes to xCbQueue, unless
\* that is full.
Elapse(callback) == cbs' = IF Len(cbs) < CbLen THEN Append(cbs, callback) ELSE cbs

Tick ==
  /\ \/ txTimer /\ txTimer' = FALSE /\ Elapse("timeout") /\ UNCHANGED irqTimer
     \/ irqTimer /\ irqTimer' = FALSE /\ Elapse("flags") /\ UNCHANGED txTimer
  /\ UNCHANGED <<state, pwr, reset, bits, buffer, strayed, chip, driver, modem, flag, queues, caller, past>>

\* TASK_LoRa_Timer takes the next callback.
Callback(callback) == cbs # <<>> /\ Head(cbs) = callback /\ cbs' = Tail(cbs)

\* States in which the report of a reception finds the task listening
Listening == {"idle", "rx", "rx_done", "rx_error", "rx_timeout"}

\* SX1272RadioFlagsIrq with OnRxDone and OnRxError
RadioFlagsIrq ==
  /\ Callback("flags")
  /\ flag' = {}
  /\ state' = CASE "error" \in flag -> "rx_error" [] flag = {"done"} -> "rx_done" [] OTHER -> state
  /\ rxq' = IF "done" \in flag /\ Len(rxq) < RxLen THEN Append(rxq, buffer) ELSE rxq
  /\ strayed' = (strayed \/ (flag # {} /\ state \notin Listening))
  /\ UNCHANGED <<pwr, reset, bits, buffer, chip, driver, modem, txTimer, irqTimer, cmds, hand, partial, caller, past>>

\* SX1272OnTimeoutIrq with OnRxTimeout and OnTxTimeout: a transmission that did not end has
\* the chip initialised again, the LoRa modem restored with the type of network.
OnTimeoutIrq ==
  /\ Callback("timeout")
  /\ driver' = "idle"
  /\ IF driver = "tx"
     THEN chip' = "sleep" /\ modem' = "lora" /\ txTimer' = TimerStop
     ELSE UNCHANGED <<chip, modem, txTimer>>
  /\ state' = CASE driver = "rx" -> "rx_timeout" [] driver = "tx" -> "tx_timeout" [] OTHER -> state
  /\ strayed' = (strayed \/ (driver = "tx" /\ state # "tx") \/ (driver = "rx" /\ state \notin Listening))
  /\ UNCHANGED <<pwr, reset, bits, buffer, irqTimer, flag, queues, caller, past>>

-----------------------------------------------------------------------------
(* TASK_LoRa. *)

ReadyWhileTx == state \in {"noinit", "idle", "rx", "sleep", "reset", "tx"}

\* States in which the task takes commands
Ready == state \in {"noinit", "idle", "rx", "sleep", "reset"}

\* Radio.Reset resets the chip, where the board has a pin for that; the driver's own
\* variables stay.
TaskReset ==
  /\ hand = Nothing /\ reset
  /\ reset' = FALSE
  /\ state' = "reset"
  /\ \E pin \in Pins : IF pin THEN chip' = "off" /\ modem' = "fsk" ELSE UNCHANGED <<chip, modem>>
  /\ UNCHANGED <<pwr, bits, buffer, strayed, driver, txTimer, irqTimer, cbs, flag, queues, caller, past>>

Takes(op) ==
  /\ hand = Nothing /\ ~reset /\ Ready
  /\ cmds # <<>> /\ Head(cmds).op = op
  /\ cmds' = Tail(cmds)

CmdInitForgetsReset ==
  /\ Takes("init")
  /\ LET mode == Head(cmds).mode IN pwr' = mode /\ Configured(mode)
  /\ state' = "idle"
  /\ bits' = bits \cup {Completed} \cup (IF state' = "reset" THEN {ResetDone} ELSE {})
  /\ UNCHANGED <<reset, buffer, strayed, hand, rxq, partial, caller, past>>

CmdInit ==
  /\ Takes("init")
  /\ LET mode == Head(cmds).mode IN pwr' = mode /\ Configured(mode)
  /\ state' = "idle"
  /\ bits' = bits \cup {Completed} \cup (IF state = "reset" THEN {ResetDone} ELSE {})
  /\ UNCHANGED <<reset, buffer, strayed, hand, rxq, partial, caller, past>>

CmdSleep ==
  /\ Takes("sleep")
  /\ Sleeps
  /\ state' = "sleep"
  /\ bits' = bits \cup {Completed}
  /\ UNCHANGED <<pwr, reset, buffer, strayed, hand, rxq, partial, caller, past>>

CmdWakeUp ==
  /\ Takes("wake_up")
  /\ SetRx /\ UNCHANGED <<modem, txTimer, irqTimer, cbs, flag>>
  /\ state' = "rx"
  /\ bits' = bits \cup {Completed}
  /\ UNCHANGED <<pwr, reset, buffer, strayed, hand, rxq, partial, caller, past>>

\* E_LORA_CMD_TX: lora_lbt_is_free begins to listen.
CmdTx ==
  /\ Takes("tx")
  /\ hand' = Head(cmds)
  /\ UNCHANGED <<state, pwr, reset, bits, buffer, strayed, radio, rxq, partial, caller, past>>

\* The channel is free.
Talk ==
  /\ hand # Nothing
  /\ Sends
  /\ state' = "tx"
  /\ hand' = Nothing
  /\ aired' = hand.id
  /\ UNCHANGED <<pwr, reset, bits, buffer, strayed, cmds, rxq, partial, caller, sent, heard, given>>

\* The channel is busy: the command goes back to the front of the queue.
BusyToBack ==
  /\ hand # Nothing /\ driver = "rx"
  /\ Len(cmds) < CmdLen
  /\ cmds' = Append(cmds, hand)
  /\ hand' = Nothing
  /\ UNCHANGED <<state, pwr, reset, bits, buffer, strayed, radio, rxq, partial, caller, past>>

Busy ==
  /\ hand # Nothing /\ driver = "rx"
  /\ Len(cmds) < CmdLen
  /\ cmds' = <<hand>> \o cmds
  /\ hand' = Nothing
  /\ UNCHANGED <<state, pwr, reset, bits, buffer, strayed, radio, rxq, partial, caller, past>>

\* After a reception the radio is put to sleep to clear its buffer, whatever it does.
TaskRx ==
  /\ hand = Nothing /\ ~reset /\ state \in {"rx_done", "rx_error", "rx_timeout"}
  /\ Listens
  /\ state' = "rx"
  /\ UNCHANGED <<pwr, reset, bits, buffer, strayed, queues, caller, past>>

TaskTx ==
  /\ hand = Nothing /\ ~reset /\ state \in {"tx_done", "tx_timeout"}
  /\ Listens
  /\ state' = "rx"
  /\ bits' = bits \cup {IF state = "tx_done" THEN Completed ELSE Error}
  /\ UNCHANGED <<pwr, reset, buffer, strayed, queues, caller, past>>

TASK_LoRa == TaskReset \/ CmdInit \/ CmdSleep \/ CmdWakeUp \/ CmdTx \/ Talk \/ Busy \/ TaskRx \/ TaskTx

-----------------------------------------------------------------------------
(* Python: one thread uses the radio.  It has the lowest priority: it does not run  *)
(* while the task listens.                                                         *)

Calls(c, w) ==
  /\ call = "idle" /\ hand = Nothing
  /\ cmd' = c /\ wait' = w

\* Bits left by earlier commands are cleared before the command is queued.
ClearBits == bits' = bits \ {Completed, Error} /\ call' = "push"

Returns == call' = "idle" /\ cmd' = Nothing /\ wait' = "no"

\* lora_send, from lora_socket_send
lora_send ==
  /\ state # "noinit" /\ pwr # "sleep" /\ Traffic + 2 <= MaxTraffic
  /\ \E w \in {"no", "bits"} : Calls([op |-> "tx", id |-> sent + 1], w)
  /\ ClearBits
  /\ UNCHANGED <<state, pwr, reset, buffer, strayed, radio, queues, past>>

\* LoRa() and init(), with any power mode; frequency(), sf() and the other setters, which
\* send the whole configuration again, its power mode included.
lora_init ==
  /\ \E mode \in Modes : Calls([op |-> "init", mode |-> mode], "bits")
  /\ ClearBits
  /\ UNCHANGED <<state, pwr, reset, buffer, strayed, radio, queues, past>>

lora_power_mode ==
  /\ state # "noinit"
  /\ \E mode \in Modes :
       /\ pwr' = mode
       /\ Calls([op |-> IF mode = "on" THEN "wake_up" ELSE "sleep"], "bits")
  /\ call' = "clear"
  /\ UNCHANGED <<state, reset, bits, buffer, strayed, radio, queues, past>>

\* lora_reset empties xCmdQueue and has the radio reset before it is configured again.
lora_reset ==
  /\ state # "noinit"
  /\ Calls([op |-> "init", mode |-> pwr], "reset")
  /\ call' = "clear"
  /\ cmds' = <<>> /\ reset' = TRUE
  /\ UNCHANGED <<state, pwr, bits, buffer, strayed, radio, hand, rxq, partial, past>>

Clear ==
  /\ call = "clear" /\ hand = Nothing
  /\ ClearBits
  /\ UNCHANGED <<state, pwr, reset, buffer, strayed, cmd, wait, radio, queues, past>>

Push ==
  /\ call = "push" /\ hand = Nothing
  /\ Len(cmds) < CmdLen
  /\ cmds' = Append(cmds, cmd)
  /\ sent' = IF cmd.op = "tx" THEN cmd.id ELSE sent
  /\ IF wait = "no" THEN Returns ELSE call' = "bits" /\ cmd' = Nothing /\ UNCHANGED wait
  /\ UNCHANGED <<state, pwr, reset, bits, buffer, strayed, radio, hand, rxq, partial, aired, heard, given>>

\* xQueueSend of a socket with a timeout gives up; the packet is not sent.
PushFails ==
  /\ call = "push" /\ hand = Nothing
  /\ cmd.op = "tx" /\ Len(cmds) = CmdLen
  /\ Returns
  /\ UNCHANGED <<state, pwr, reset, bits, buffer, strayed, radio, queues, past>>

\* xEventGroupWaitBits clears the bits it waited for.  LORA_STATUS_ERROR makes
\* lora_send_cmd raise, so lora_reset does not wait for its second bit.
WaitBits ==
  /\ call = "bits" /\ hand = Nothing
  /\ bits \cap {Completed, Error} # {}
  /\ bits' = bits \ {Completed, Error}
  /\ IF wait = "reset" /\ Error \notin bits THEN call' = "reset" /\ UNCHANGED <<cmd, wait>> ELSE Returns
  /\ UNCHANGED <<state, pwr, reset, buffer, strayed, radio, queues, past>>

WaitReset ==
  /\ call = "reset" /\ hand = Nothing
  /\ ResetDone \in bits
  /\ bits' = bits \ {ResetDone}
  /\ Returns
  /\ UNCHANGED <<state, pwr, reset, buffer, strayed, radio, queues, past>>

\* lora.ischannel_free(): SX1272IsChannelFree makes the radio receive, whatever it does.
lora_ischannel_free ==
  /\ state # "noinit"
  /\ Calls(Nothing, "no")
  /\ call' = "sense"
  /\ chip' = "rx" /\ modem' = "lora"
  /\ IF modem = "lora" THEN UNCHANGED <<driver, txTimer>> ELSE driver' = "idle" /\ txTimer' = TimerStop
  /\ strayed' = (strayed \/ chip = "tx")
  /\ UNCHANGED <<state, pwr, reset, bits, buffer, irqTimer, cbs, flag, queues, past>>

\* ... senses the carrier for some milliseconds, and puts the radio to sleep.
Sensed ==
  /\ call = "sense" /\ hand = Nothing
  /\ Sleeps
  /\ Returns
  /\ strayed' = (strayed \/ driver = "tx")
  /\ UNCHANGED <<state, pwr, reset, bits, buffer, queues, past>>

\* lora_recv: bytes of the packet at hand, or of the next one; more may be left.
lora_recv ==
  /\ call = "idle" /\ hand = Nothing
  /\ \/ /\ partial # 0
        /\ partial' \in {partial, 0}
        /\ UNCHANGED <<rxq, given>>
     \/ /\ partial = 0 /\ rxq # <<>>
        /\ rxq' = Tail(rxq)
        /\ partial' \in {Head(rxq), 0}
        /\ given' = Head(rxq)
  /\ UNCHANGED <<state, pwr, reset, bits, buffer, strayed, radio, cmds, hand, caller, sent, aired, heard>>

Waits == Clear \/ Push \/ PushFails \/ WaitBits \/ WaitReset \/ Sensed
Python ==
  lora_send \/ lora_init \/ lora_power_mode \/ lora_reset \/ lora_ischannel_free \/ lora_recv \/ Waits

Interrupts == OnTxDone \/ Heard("done") \/ Heard("error") \/ Tick
Callbacks == RadioFlagsIrq \/ OnTimeoutIrq

Next == TASK_LoRa \/ Python \/ Interrupts \/ Callbacks

Spec == Init /\ [][Next]_vars

\* The tasks are scheduled and timers elapse; nobody occupies the channel for ever.
FairSpec ==
  /\ Spec
  /\ WF_vars(TASK_LoRa) /\ SF_vars(Talk)
  /\ WF_vars(Callbacks) /\ WF_vars(Tick)
  /\ WF_vars(Waits)

-----------------------------------------------------------------------------
\* The commands xCmdQueue holds
Commands == [op : {"sleep", "wake_up"}] \cup [op : {"init"}, mode : Modes] \cup [op : {"tx"}, id : Nat]

SendOrder ==
  /\ \A i, j \in DOMAIN cmds : i < j /\ cmds[i].op = "tx" /\ cmds[j].op = "tx" => cmds[i].id < cmds[j].id
  /\ \A i \in DOMAIN cmds : cmds[i].op = "tx" =>
       /\ aired < cmds[i].id
       /\ hand # Nothing => hand.id < cmds[i].id
  /\ hand # Nothing => aired < hand.id

ReceiveOrder ==
  /\ \A i, j \in DOMAIN rxq : i < j => rxq[i] < rxq[j]
  /\ \A i \in DOMAIN rxq : given < rxq[i]

\* Packets go on air in the order of the sends and at most once each, although a busy
\* channel sends the command back to the queue behind Python's back; and lora_recv
\* hands out received packets in their order, none twice.
OrderKept == SendOrder /\ ReceiveOrder

\* The order with what makes it inductive: a packet queued, at hand or on air was sent, and
\* the one a call is about to queue is the next one.
SendInv ==
  /\ SendOrder
  /\ cmds \in Seq(Commands)
  /\ hand \in Commands \cup {Nothing} /\ (hand # Nothing => hand.op = "tx")
  /\ cmd \in Commands \cup {Nothing} /\ (call \in {"clear", "push"} => cmd \in Commands)
  /\ cmd.op = "tx" => cmd.id = sent + 1
  /\ sent \in Nat /\ aired \in 0..sent
  /\ \A i \in DOMAIN cmds : cmds[i].op = "tx" => cmds[i].id <= sent
  /\ hand # Nothing => hand.id <= sent
  /\ pwr \in Modes

\* A flagged packet is newer than all that were reported.
ReceiveInv ==
  /\ ReceiveOrder
  /\ rxq \in Seq(Nat) /\ heard \in Nat /\ buffer \in 0..heard /\ given \in 0..heard
  /\ \A i \in DOMAIN rxq : rxq[i] <= heard
  /\ "done" \in flag => given < buffer /\ \A i \in DOMAIN rxq : rxq[i] < buffer

\* Every call returns, unless a report of the radio changed a state it was not meant for
\* (a reception reported during a transmission or a reset), or the program looked for a free
\* channel over a transmission of its own.
CallReturns == call # "idle" ~> (call = "idle" \/ strayed)

\* The radio leaves a transmission with its interrupt, its timeout or lora.reset().  Two things
\* alone cut one short: a packet heard before it is reported during it, and the task takes
\* the report for its end; or the program itself looks for a free channel while it sends.
SentWhole ==
  [][chip = "tx" /\ chip' # "tx" =>
       \/ state' \in {"tx_done", "tx_timeout"} \/ "reset" \in {state, state'}
       \/ state \in {"rx_done", "rx_error"}
       \/ "sense" \in {call, call'}]_vars
=============================================================================
