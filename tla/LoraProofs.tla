----------------------------- MODULE LoraProofs -----------------------------
(***************************************************************************)
(* The order of raw LoRa packets, proved for queues of any length and any   *)
(* number of packets.  Sends and receptions share no variable of the two    *)
(* inductive invariants, so each is proved on its own.                      *)
(***************************************************************************)
EXTENDS Lora, TLAPS

\* A command that transmits has a number.
LEMMA TxNumbered == \A c \in Commands : c.op = "tx" => c.id \in Nat
  BY DEF Commands

LEMMA NothingIsNoCommand == Nothing \notin Commands /\ Nothing.op # "tx"
  BY DEF Nothing, Commands

\* What taking a command off the queue leaves: later commands, in their order.
LEMMA TailOf ==
  ASSUME NEW S, NEW q \in Seq(S), q # <<>>
  PROVE  /\ Head(q) \in S /\ Head(q) = q[1] /\ 1 \in DOMAIN q
         /\ Tail(q) \in Seq(S)
         /\ \A i \in DOMAIN Tail(q) : i + 1 \in DOMAIN q /\ i \in Nat /\ 1 < i + 1 /\ Tail(q)[i] = q[i + 1]
  OBVIOUS

LEMMA AppendTo ==
  ASSUME NEW S, NEW q \in Seq(S), NEW e \in S
  PROVE  /\ Append(q, e) \in Seq(S)
         /\ \A i \in DOMAIN Append(q, e) :
              i \in Nat /\ ((i \in DOMAIN q /\ Append(q, e)[i] = q[i]) \/ (i = Len(q) + 1 /\ Append(q, e)[i] = e))
         /\ \A i \in DOMAIN q : i < Len(q) + 1
<1>1. Append(q, e) \in Seq(S) /\ Len(Append(q, e)) = Len(q) + 1 /\ Len(q) \in Nat
  OBVIOUS
<1>2. DOMAIN Append(q, e) = 1..(Len(q) + 1) /\ DOMAIN q = 1..Len(q)
  BY <1>1
<1>3. ASSUME NEW i \in 1..(Len(q) + 1)
      PROVE  (i \in 1..Len(q) /\ Append(q, e)[i] = q[i]) \/ (i = Len(q) + 1 /\ Append(q, e)[i] = e)
  BY <1>1
<1>4. \A i \in 1..Len(q) : i < Len(q) + 1
  BY <1>1
<1>5. \A i \in 1..(Len(q) + 1) : i \in Nat
  BY <1>1
<1> QED
  BY <1>1, <1>2, <1>3, <1>4, <1>5, Zenon

LEMMA InFrontOf ==
  ASSUME NEW S, NEW q \in Seq(S), NEW e \in S
  PROVE  /\ <<e>> \o q \in Seq(S)
         /\ \A i \in DOMAIN (<<e>> \o q) :
              i \in Nat /\ ((i = 1 /\ (<<e>> \o q)[i] = e) \/ (i > 1 /\ i - 1 \in DOMAIN q /\ (<<e>> \o q)[i] = q[i - 1]))
<1>1. <<e>> \in Seq(S) /\ Len(<<e>>) = 1 /\ Len(q) \in Nat
  OBVIOUS
<1>2. <<e>> \o q \in Seq(S) /\ Len(<<e>> \o q) = Len(q) + 1
  BY <1>1
<1>3. DOMAIN (<<e>> \o q) = 1..(Len(q) + 1) /\ DOMAIN q = 1..Len(q)
  BY <1>2
<1>4. ASSUME NEW i \in 1..(Len(q) + 1)
      PROVE  (i = 1 /\ (<<e>> \o q)[i] = e) \/ (i > 1 /\ i - 1 \in 1..Len(q) /\ (<<e>> \o q)[i] = q[i - 1])
  BY <1>1
<1>5. \A i \in 1..(Len(q) + 1) : i \in Nat
  BY <1>1
<1> QED
  BY <1>2, <1>3, <1>4, <1>5, Zenon

-----------------------------------------------------------------------------
(* Sends *)

\* A command taken off the queue: the rest keeps its order.
LEMMA SendTake ==
  ASSUME SendInv, hand = Nothing, cmds # <<>>, cmds' = Tail(cmds), hand' = Nothing,
         UNCHANGED <<caller, sent, aired>>, pwr' \in Modes
  PROVE  SendInv'
<1>1. /\ cmds' \in Seq(Commands)
      /\ \A i \in DOMAIN cmds' : i + 1 \in DOMAIN cmds /\ i \in Nat /\ cmds'[i] = cmds[i + 1]
  BY TailOf DEF SendInv
<1>2. ASSUME NEW i \in DOMAIN cmds', NEW j \in DOMAIN cmds', i < j, cmds'[i].op = "tx", cmds'[j].op = "tx"
      PROVE  cmds'[i].id < cmds'[j].id
  <2>1. i + 1 \in DOMAIN cmds /\ j + 1 \in DOMAIN cmds /\ i + 1 < j + 1
    BY <1>1, <1>2
  <2> QED
    BY <1>1, <1>2, <2>1, Zenon DEF SendInv, SendOrder
<1>3. ASSUME NEW i \in DOMAIN cmds', cmds'[i].op = "tx" PROVE aired' < cmds'[i].id
  BY <1>1, <1>3, Zenon DEF SendInv, SendOrder
<1>4. SendOrder'
  BY <1>2, <1>3, Zenon DEF SendOrder, Nothing
<1> QED
  BY <1>1, <1>4 DEF SendInv, caller

\* E_LORA_CMD_TX: the first command is older than the rest.
LEMMA SendTx ==
  ASSUME SendInv, CmdTx
  PROVE  SendInv'
<1>1. /\ Head(cmds) \in Commands /\ Head(cmds) = cmds[1] /\ 1 \in DOMAIN cmds
      /\ cmds' \in Seq(Commands)
      /\ \A i \in DOMAIN cmds' : i + 1 \in DOMAIN cmds /\ i \in Nat /\ 1 < i + 1 /\ cmds'[i] = cmds[i + 1]
  BY TailOf DEF SendInv, CmdTx, Takes
<1>2. hand' = cmds[1] /\ hand'.op = "tx" /\ UNCHANGED <<call, cmd, sent, aired, pwr>>
  BY <1>1 DEF CmdTx, Takes, caller, past
<1>3. SendOrder'
  BY <1>1, <1>2 DEF SendInv, SendOrder
<1> QED
  BY <1>1, <1>2, <1>3 DEF SendInv

\* The channel is busy: the command at hand is older than all in the queue.
LEMMA SendBusy ==
  ASSUME SendInv, Busy
  PROVE  SendInv'
<1>1. hand \in Commands /\ hand.op = "tx" /\ hand.id \in Nat /\ hand' = Nothing
  BY TxNumbered DEF SendInv, Busy
<1>2. /\ cmds' \in Seq(Commands)
      /\ \A i \in DOMAIN cmds' :
           i \in Nat /\ ((i = 1 /\ cmds'[i] = hand) \/ (i > 1 /\ i - 1 \in DOMAIN cmds /\ cmds'[i] = cmds[i - 1]))
  BY <1>1, InFrontOf DEF SendInv, Busy
<1>3. UNCHANGED <<call, cmd, sent, aired, pwr>>
  BY DEF Busy, caller, past
<1>4. SendOrder'
  <2>1. \A i \in DOMAIN cmds : cmds[i].op = "tx" => cmds[i].id \in Nat /\ aired < cmds[i].id /\ hand.id < cmds[i].id
    BY TxNumbered DEF SendInv, SendOrder, Busy
  <2>2. \A i \in DOMAIN cmds' : cmds'[i].op = "tx" => aired' < cmds'[i].id
    BY <1>1, <1>2, <1>3, <2>1 DEF SendInv, SendOrder, Busy
  <2>3. ASSUME NEW i \in DOMAIN cmds', NEW j \in DOMAIN cmds', i < j, cmds'[i].op = "tx", cmds'[j].op = "tx"
        PROVE  cmds'[i].id < cmds'[j].id
    <3>1. j > 1 /\ j - 1 \in DOMAIN cmds /\ cmds'[j] = cmds[j - 1] /\ i \in Nat /\ j \in Nat
      BY <1>2, <2>3
    <3>2. CASE i = 1
      BY <1>2, <2>1, <2>3, <3>1, <3>2
    <3>3. CASE i > 1
      <4>1. i - 1 \in DOMAIN cmds /\ cmds'[i] = cmds[i - 1] /\ i - 1 < j - 1
        BY <1>2, <2>3, <3>1, <3>3
      <4> QED
        BY <2>3, <3>1, <4>1 DEF SendInv, SendOrder
    <3> QED
      BY <1>2, <3>2, <3>3
  <2> QED
    BY <1>1, <2>2, <2>3 DEF SendOrder
<1> QED
  BY <1>1, <1>2, <1>3, <1>4 DEF SendInv, Busy

LEMMA SendTalk ==
  ASSUME SendInv, Talk
  PROVE  SendInv'
<1>1. hand # Nothing /\ hand' = Nothing /\ aired' = hand.id /\ UNCHANGED <<cmds, call, cmd, sent, pwr>>
  BY DEF Talk, caller
<1>2. hand.id \in Nat /\ hand.id <= sent
  BY <1>1, TxNumbered DEF SendInv
<1>3. SendOrder'
  BY <1>1, <1>2 DEF SendInv, SendOrder
<1> QED
  BY <1>1, <1>2, <1>3 DEF SendInv

\* A packet is queued behind all others, with the next number.
LEMMA SendPush ==
  ASSUME SendInv, Push
  PROVE  SendInv'
<1>1. /\ cmd \in Commands /\ hand = Nothing /\ hand' = Nothing
      /\ UNCHANGED <<aired, pwr>> /\ cmds' = Append(cmds, cmd)
      /\ sent' = IF cmd.op = "tx" THEN cmd.id ELSE sent
      /\ cmd' = Nothing /\ call' \notin {"clear", "push"}
  BY DEF SendInv, Push, Returns
<1>2. /\ cmds' \in Seq(Commands)
      /\ \A i \in DOMAIN cmds' :
           i \in Nat /\ ((i \in DOMAIN cmds /\ cmds'[i] = cmds[i]) \/ (i = Len(cmds) + 1 /\ cmds'[i] = cmd))
      /\ \A i \in DOMAIN cmds : i < Len(cmds) + 1
  BY <1>1, AppendTo DEF SendInv
<1>3. sent' \in Nat /\ sent <= sent' /\ (cmd.op = "tx" => sent < cmd.id /\ cmd.id = sent')
  BY <1>1 DEF SendInv
<1>4. \A i \in DOMAIN cmds : cmds[i].op = "tx" => cmds[i].id \in Nat
  BY TxNumbered DEF SendInv
<1>5. SendOrder'
  BY <1>1, <1>2, <1>3, <1>4 DEF SendInv, SendOrder
<1>6. \A i \in DOMAIN cmds' : cmds'[i].op = "tx" => cmds'[i].id <= sent'
  BY <1>2, <1>3, <1>4 DEF SendInv
<1> QED
  BY <1>1, <1>2, <1>3, <1>5, <1>6, NothingIsNoCommand DEF SendInv

\* Calls, and the steps that end them, leave the queue alone; lora_reset empties it.
LEMMA SendCall ==
  ASSUME SendInv, lora_send \/ lora_init \/ lora_power_mode \/ lora_reset \/ lora_ischannel_free
  PROVE  SendInv'
<1>1. CASE lora_send
  <2>1. cmd' = [op |-> "tx", id |-> sent + 1] /\ UNCHANGED <<cmds, hand, sent, aired, pwr>>
    BY <1>1 DEF lora_send, Calls, queues, past
  <2>2. cmd' \in Commands /\ cmd'.id = sent + 1
    BY <2>1 DEF SendInv, Commands
  <2> QED
    BY Zenon, <2>1, <2>2 DEF SendInv, SendOrder
<1>2. CASE lora_init
  <2>1. PICK mode \in Modes : cmd' = [op |-> "init", mode |-> mode]
    BY <1>2 DEF lora_init, Calls
  <2>2. cmd' \in Commands /\ cmd'.op # "tx" /\ UNCHANGED <<cmds, hand, sent, aired, pwr>>
    BY <1>2, <2>1 DEF lora_init, queues, past, Commands
  <2> QED
    BY <2>2 DEF SendInv, SendOrder
<1>3. CASE lora_power_mode
  <2>1. PICK mode \in Modes :
          pwr' = mode /\ cmd' = [op |-> IF mode = "on" THEN "wake_up" ELSE "sleep"]
    BY <1>3 DEF lora_power_mode, Calls
  <2>2. cmd' \in Commands /\ cmd'.op # "tx" /\ UNCHANGED <<cmds, hand, sent, aired>>
    BY Zenon, <1>3, <2>1 DEF lora_power_mode, queues, past, Commands
  <2> QED
    BY Zenon, <2>1, <2>2 DEF SendInv, SendOrder
<1>4. CASE lora_reset
  <2>1. /\ cmds' = <<>> /\ cmd' = [op |-> "init", mode |-> pwr]
        /\ UNCHANGED <<hand, sent, aired, pwr>>
    BY <1>4 DEF lora_reset, Calls, past
  <2>2. cmd' \in Commands /\ cmd'.op # "tx"
    BY <2>1 DEF SendInv, Commands
  <2>3. cmds' \in Seq(Commands) /\ DOMAIN cmds' = {}
    BY <2>1
  <2>4. SendOrder'
    BY Zenon, <2>1, <2>3 DEF SendInv, SendOrder
  <2> QED
    BY <2>1, <2>2, <2>3, <2>4 DEF SendInv
<1>5. CASE lora_ischannel_free
  <2>1. cmd' = Nothing /\ call' = "sense" /\ UNCHANGED <<cmds, hand, sent, aired, pwr>>
    BY <1>5 DEF lora_ischannel_free, Calls, queues, past
  <2>2. call' \notin {"clear", "push"}
    BY <2>1
  <2> QED
    BY Zenon, <2>1, <2>2, NothingIsNoCommand DEF SendInv, SendOrder
<1> QED
  BY <1>1, <1>2, <1>3, <1>4, <1>5

LEMMA SendReturn ==
  ASSUME SendInv, Clear \/ PushFails \/ WaitBits \/ WaitReset \/ Sensed
  PROVE  SendInv'
<1>1. UNCHANGED <<cmds, hand, sent, aired, pwr>>
  BY DEF Clear, PushFails, WaitBits, WaitReset, Sensed, queues, past
<1>2. CASE Clear
  BY Zenon, <1>1, <1>2 DEF SendInv, SendOrder, Clear, ClearBits
<1>3. CASE cmd' = Nothing /\ call' \notin {"clear", "push"}
  BY Zenon, <1>1, <1>3, NothingIsNoCommand DEF SendInv, SendOrder
<1>4. CASE cmd' = cmd /\ call' \notin {"clear", "push"}
  BY <1>1, <1>4 DEF SendInv, SendOrder
<1> QED
  BY <1>2, <1>3, <1>4 DEF PushFails, WaitBits, WaitReset, Sensed, Returns

\* Steps that touch none of the variables the order of sends is about
SendVars == <<cmds, hand, cmd, call, sent, aired, pwr>>

LEMMA SendSame ==
  ASSUME SendInv, UNCHANGED SendVars
  PROVE  SendInv'
  BY DEF SendInv, SendOrder, SendVars

LEMMA SendElse ==
  ASSUME TaskReset \/ TaskRx \/ TaskTx \/ lora_recv \/ Interrupts \/ Callbacks
  PROVE  UNCHANGED SendVars
<1>1. CASE TaskReset \/ TaskRx \/ TaskTx
  BY <1>1 DEF TaskReset, TaskRx, TaskTx, SendVars, queues, caller, past
<1>2. CASE lora_recv
  BY <1>2 DEF lora_recv, SendVars, caller
<1>3. CASE Interrupts
  BY Zenon, <1>3 DEF Interrupts, OnTxDone, Heard, Tick, SendVars, queues, caller, past
<1>4. CASE Callbacks
  BY <1>4 DEF Callbacks, RadioFlagsIrq, OnTimeoutIrq, SendVars, queues, caller, past
<1> QED
  BY <1>1, <1>2, <1>3, <1>4

LEMMA SendStep ==
  ASSUME SendInv, [Next]_vars
  PROVE  SendInv'
<1>1. CASE CmdInit \/ CmdSleep \/ CmdWakeUp
  <2>1. hand = Nothing /\ cmds # <<>> /\ cmds' = Tail(cmds) /\ hand' = Nothing /\ UNCHANGED <<caller, sent, aired>>
    BY <1>1 DEF CmdInit, CmdSleep, CmdWakeUp, Takes, past
  <2>2. CASE CmdInit
    <3>1. Head(cmds) \in Commands /\ Head(cmds).op = "init"
      BY <2>1, <2>2, TailOf DEF SendInv, CmdInit, Takes
    <3>2. pwr' \in Modes
      BY <2>2, <3>1 DEF CmdInit, Commands
    <3> QED
      BY <2>1, <3>2, SendTake
  <2>3. CASE CmdSleep \/ CmdWakeUp
    <3>1. pwr' \in Modes
      BY <2>3 DEF SendInv, CmdSleep, CmdWakeUp
    <3> QED
      BY <2>1, <3>1, SendTake
  <2> QED
    BY <1>1, <2>2, <2>3
<1>2. CASE CmdTx \/ Talk \/ Busy
  BY <1>2, SendTx, SendTalk, SendBusy
<1>3. CASE lora_send \/ lora_init \/ lora_power_mode \/ lora_reset \/ lora_ischannel_free
  BY <1>3, SendCall
<1>4. CASE Waits
  BY <1>4, SendPush, SendReturn DEF Waits
<1>5. CASE TaskReset \/ TaskRx \/ TaskTx \/ lora_recv \/ Interrupts \/ Callbacks
  BY <1>5, SendElse, SendSame
<1>6. CASE UNCHANGED vars
  BY <1>6, SendSame DEF vars, queues, caller, past, SendVars
<1> QED
  BY <1>1, <1>2, <1>3, <1>4, <1>5, <1>6 DEF Next, TASK_LoRa, Python

-----------------------------------------------------------------------------
(* Receptions *)

ReceiveVars == <<rxq, heard, buffer, given, flag>>

LEMMA ReceiveSame ==
  ASSUME ReceiveInv, UNCHANGED ReceiveVars
  PROVE  ReceiveInv'
  BY DEF ReceiveInv, ReceiveOrder, ReceiveVars

\* Radio.Init forgets a packet that was flagged and not reported.
LEMMA ReceiveInit ==
  ASSUME ReceiveInv, CmdInit
  PROVE  ReceiveInv'
<1>1. flag' = {} /\ UNCHANGED <<rxq, heard, buffer, given>>
  BY DEF CmdInit, Configured, past
<1> QED
  BY <1>1 DEF ReceiveInv, ReceiveOrder

LEMMA ReceiveHeard ==
  ASSUME ReceiveInv, NEW what \in {"done", "error"}, Heard(what)
  PROVE  ReceiveInv'
<1>1. /\ heard' = heard + 1 /\ flag' = flag \cup {what}
      /\ buffer' = IF what = "done" THEN heard + 1 ELSE buffer
      /\ UNCHANGED <<rxq, given>>
  BY DEF Heard, queues
<1>2. \A i \in DOMAIN rxq : rxq[i] \in Nat /\ rxq[i] <= heard
  BY DEF ReceiveInv
<1>3. CASE what = "done"
  BY <1>1, <1>2, <1>3 DEF ReceiveInv, ReceiveOrder
<1>4. CASE what = "error"
  BY <1>1, <1>2, <1>4 DEF ReceiveInv, ReceiveOrder
<1> QED
  BY <1>3, <1>4

\* The flagged packet is newer than all in xRxQueue.
LEMMA ReceiveReport ==
  ASSUME ReceiveInv, RadioFlagsIrq
  PROVE  ReceiveInv'
<1>1. flag' = {} /\ UNCHANGED <<heard, buffer, given>>
  BY DEF RadioFlagsIrq, past
<1>2. CASE rxq' = rxq
  BY <1>1, <1>2 DEF ReceiveInv, ReceiveOrder
<1>3. CASE "done" \in flag /\ rxq' = Append(rxq, buffer)
  <2>1. buffer \in Nat /\ buffer <= heard /\ given < buffer /\ \A i \in DOMAIN rxq : rxq[i] < buffer
    BY <1>3 DEF ReceiveInv
  <2>2. /\ rxq' \in Seq(Nat)
        /\ \A i \in DOMAIN rxq' :
             i \in Nat /\ ((i \in DOMAIN rxq /\ rxq'[i] = rxq[i]) \/ (i = Len(rxq) + 1 /\ rxq'[i] = buffer))
        /\ \A i \in DOMAIN rxq : i < Len(rxq) + 1
    BY <1>3, <2>1, AppendTo DEF ReceiveInv
  <2>3. ReceiveOrder'
    <3>1. \A i \in DOMAIN rxq' : given' < rxq'[i]
      BY <1>1, <2>1, <2>2 DEF ReceiveInv, ReceiveOrder
    <3>2. ASSUME NEW i \in DOMAIN rxq', NEW j \in DOMAIN rxq', i < j PROVE rxq'[i] < rxq'[j]
      <4>1. i \in DOMAIN rxq /\ rxq'[i] = rxq[i]
        BY <2>2, <3>2
      <4> QED
        BY Zenon, <2>1, <2>2, <3>2, <4>1 DEF ReceiveInv, ReceiveOrder
    <3> QED
      BY <3>1, <3>2 DEF ReceiveOrder
  <2>4. \A i \in DOMAIN rxq' : rxq'[i] <= heard
    BY Zenon, <2>1, <2>2 DEF ReceiveInv
  <2> QED
    BY <1>1, <2>2, <2>3, <2>4 DEF ReceiveInv
<1> QED
  BY <1>2, <1>3 DEF RadioFlagsIrq

LEMMA ReceiveRecv ==
  ASSUME ReceiveInv, lora_recv
  PROVE  ReceiveInv'
<1>1. UNCHANGED <<heard, buffer, flag>>
  BY DEF lora_recv, radio
<1>2. CASE UNCHANGED <<rxq, given>>
  BY <1>1, <1>2, ReceiveSame DEF ReceiveVars
<1>3. CASE rxq # <<>> /\ rxq' = Tail(rxq) /\ given' = Head(rxq)
  <2>1. /\ given' = rxq[1] /\ 1 \in DOMAIN rxq /\ rxq' \in Seq(Nat)
        /\ \A i \in DOMAIN rxq' : i + 1 \in DOMAIN rxq /\ i \in Nat /\ 1 < i + 1 /\ rxq'[i] = rxq[i + 1]
    BY <1>3, TailOf DEF ReceiveInv
  <2>2. given' \in 0..heard /\ ("done" \in flag => given' < buffer)
    BY <2>1 DEF ReceiveInv
  <2>3. ReceiveOrder'
    <3>1. \A i \in DOMAIN rxq' : given' < rxq'[i]
      BY <2>1 DEF ReceiveInv, ReceiveOrder
    <3>2. ASSUME NEW i \in DOMAIN rxq', NEW j \in DOMAIN rxq', i < j PROVE rxq'[i] < rxq'[j]
      <4>1. i + 1 < j + 1
        BY <2>1, <3>2
      <4> QED
        BY <2>1, <4>1 DEF ReceiveInv, ReceiveOrder
    <3> QED
      BY <3>1, <3>2 DEF ReceiveOrder
  <2>4. \A i \in DOMAIN rxq' : rxq'[i] <= heard /\ ("done" \in flag => rxq'[i] < buffer)
    BY <2>1 DEF ReceiveInv
  <2> QED
    BY <1>1, <2>1, <2>2, <2>3, <2>4 DEF ReceiveInv
<1> QED
  BY <1>2, <1>3 DEF lora_recv

LEMMA ReceiveElse ==
  ASSUME \/ TaskReset \/ CmdSleep \/ CmdWakeUp \/ CmdTx \/ Talk \/ Busy \/ TaskRx \/ TaskTx
         \/ lora_send \/ lora_init \/ lora_power_mode \/ lora_reset \/ lora_ischannel_free \/ Waits
         \/ OnTxDone \/ Tick \/ OnTimeoutIrq
  PROVE  UNCHANGED ReceiveVars
<1>1. CASE TaskReset \/ CmdTx \/ Busy
  BY Zenon, <1>1 DEF TaskReset, CmdTx, Busy, ReceiveVars, radio, queues, past
<1>2. CASE CmdSleep \/ CmdWakeUp \/ Talk
  BY Zenon, <1>2 DEF CmdSleep, CmdWakeUp, Talk, Sleeps, SetRx, Sends, ReceiveVars, past
<1>3. CASE TaskRx \/ TaskTx
  BY Zenon, <1>3 DEF TaskRx, TaskTx, Listens, ReceiveVars, queues, past
<1>4. CASE lora_send \/ lora_init \/ lora_power_mode \/ lora_reset \/ lora_ischannel_free
  BY ZenonT(30), <1>4
  DEF lora_send, lora_init, lora_power_mode, lora_reset, lora_ischannel_free, ReceiveVars, radio, queues, past
<1>5. CASE Waits
  BY Zenon, <1>5
  DEF Waits, Clear, Push, PushFails, WaitBits, WaitReset, Sensed, Sleeps, ReceiveVars, radio, queues, past
<1>6. CASE OnTxDone \/ Tick \/ OnTimeoutIrq
  BY <1>6 DEF OnTxDone, Tick, OnTimeoutIrq, ReceiveVars, queues, past
<1> QED
  BY <1>1, <1>2, <1>3, <1>4, <1>5, <1>6

LEMMA ReceiveStep ==
  ASSUME ReceiveInv, [Next]_vars
  PROVE  ReceiveInv'
<1>1. CASE CmdInit
  BY <1>1, ReceiveInit
<1>2. CASE Heard("done") \/ Heard("error")
  BY <1>2, ReceiveHeard
<1>3. CASE RadioFlagsIrq
  BY <1>3, ReceiveReport
<1>4. CASE lora_recv
  BY <1>4, ReceiveRecv
<1>5. CASE UNCHANGED vars
  BY <1>5, ReceiveSame DEF vars, radio, queues, past, ReceiveVars
<1> QED
  BY <1>1, <1>2, <1>3, <1>4, <1>5, ReceiveElse, ReceiveSame
  DEF Next, TASK_LoRa, Python, Interrupts, Callbacks

-----------------------------------------------------------------------------
LEMMA OrderInit == Init => SendInv /\ ReceiveInv
<1> SUFFICES ASSUME Init PROVE SendInv /\ ReceiveInv
  OBVIOUS
<1>1. DOMAIN cmds = {} /\ cmds \in Seq(Commands) /\ DOMAIN rxq = {} /\ rxq \in Seq(Nat)
  BY DEF Init
<1>2. SendInv
  BY <1>1, NothingIsNoCommand, LoraConstants DEF Init, SendInv, SendOrder
<1>3. ReceiveInv
  BY <1>1 DEF Init, ReceiveInv, ReceiveOrder
<1> QED
  BY <1>2, <1>3

\* Whatever the interrupts and timer callbacks do, TASK_LoRa gives packets to the radio in
\* the order of the sends and each at most once, also when listen-before-talk puts a
\* command back, and lora_recv hands out received packets in order, none twice: for
\* queues of any length and any number of packets.
THEOREM OrderAlwaysKept == Spec => []OrderKept
<1>1. SendInv /\ ReceiveInv /\ [Next]_vars => (SendInv /\ ReceiveInv)'
  BY SendStep, ReceiveStep
<1>2. SendInv /\ ReceiveInv => OrderKept
  BY DEF SendInv, ReceiveInv, OrderKept
<1> QED
  BY OrderInit, <1>1, <1>2, PTL DEF Spec

-----------------------------------------------------------------------------
(* Transmissions *)

\* While the radio transmits the driver says so, and lora_obj.state is that of the
\* transmission, of lora.reset() or of a reception that was reported during it.
OnAir == chip = "tx" => driver = "tx" /\ state \in {"tx", "reset", "rx_done", "rx_error"}

Whole ==
  chip = "tx" /\ chip' # "tx" =>
    \/ state' \in {"tx_done", "tx_timeout"} \/ "reset" \in {state, state'}
    \/ state \in {"rx_done", "rx_error"}
    \/ "sense" \in {call, call'}

\* TASK_LoRa takes commands, and ends transmissions, in states in which the radio does not
\* transmit, but for that of a reset.
LEMMA AirTask ==
  ASSUME OnAir, TASK_LoRa
  PROVE  OnAir' /\ Whole
<1>1. CASE TaskReset
  <2>1. state' = "reset" /\ driver' = driver /\ (chip' = chip \/ chip' = "off")
    BY <1>1 DEF TaskReset
  <2> QED
    BY <2>1 DEF OnAir, Whole
<1>2. CASE CmdInit \/ CmdSleep \/ CmdWakeUp \/ TaskRx \/ TaskTx
  <2>1. state \in {"noinit", "idle", "rx", "sleep", "reset", "rx_done", "rx_error", "rx_timeout", "tx_done", "tx_timeout"}
    BY <1>2 DEF CmdInit, CmdSleep, CmdWakeUp, TaskRx, TaskTx, Takes, Ready
  <2>2. chip' \in {"sleep", "rx"}
    BY Zenon, <1>2 DEF CmdInit, CmdSleep, CmdWakeUp, TaskRx, TaskTx, Configured, Sleeps, Listens, SetRx
  <2> QED
    BY <2>1, <2>2 DEF OnAir, Whole
<1>3. CASE CmdTx \/ Busy
  <2>1. UNCHANGED <<chip, driver, state>>
    BY <1>3 DEF CmdTx, Busy, radio
  <2> QED
    BY <2>1 DEF OnAir, Whole
<1>4. CASE Talk
  <2>1. chip' = "tx" /\ driver' = "tx" /\ state' = "tx"
    BY <1>4 DEF Talk, Sends
  <2> QED
    BY <2>1 DEF OnAir, Whole
<1> QED
  BY <1>1, <1>2, <1>3, <1>4 DEF TASK_LoRa

\* A timeout ends the transmission with its report; a reception that is reported leaves the
\* radio as it is.
LEMMA AirReports ==
  ASSUME OnAir, Interrupts \/ Callbacks
  PROVE  OnAir' /\ Whole
<1>1. CASE OnTxDone
  BY <1>1 DEF OnTxDone, OnAir, Whole
<1>2. CASE Heard("done") \/ Heard("error") \/ Tick
  <2>1. UNCHANGED <<chip, driver, state>>
    BY <1>2 DEF Heard, Tick
  <2> QED
    BY <2>1 DEF OnAir, Whole
<1>3. CASE RadioFlagsIrq
  <2>1. UNCHANGED <<chip, driver>> /\ state' \in {state, "rx_done", "rx_error"}
    BY <1>3 DEF RadioFlagsIrq
  <2> QED
    BY <2>1 DEF OnAir, Whole
<1>4. CASE OnTimeoutIrq
  <2>1. CASE driver = "tx"
    BY <1>4, <2>1 DEF OnTimeoutIrq, OnAir, Whole
  <2>2. CASE driver # "tx"
    BY <1>4, <2>2 DEF OnTimeoutIrq, OnAir, Whole
  <2> QED
    BY <2>1, <2>2
<1> QED
  BY <1>1, <1>2, <1>3, <1>4 DEF Interrupts, Callbacks

\* Of Python's calls, ischannel_free alone touches the radio.
LEMMA AirCalls ==
  ASSUME OnAir, Python
  PROVE  OnAir' /\ Whole
<1>1. CASE lora_ischannel_free \/ Sensed
  <2>1. chip' # "tx" /\ "sense" \in {call, call'}
    BY <1>1 DEF lora_ischannel_free, Sensed, Sleeps
  <2> QED
    BY <2>1 DEF OnAir, Whole
<1>2. CASE lora_send \/ lora_init \/ lora_power_mode \/ lora_reset \/ lora_recv
  <2>1. UNCHANGED <<chip, driver, state>>
    BY Zenon, <1>2 DEF lora_send, lora_init, lora_power_mode, lora_reset, lora_recv, radio
  <2> QED
    BY <2>1 DEF OnAir, Whole
<1>3. CASE Clear \/ Push \/ PushFails \/ WaitBits \/ WaitReset
  <2>1. UNCHANGED <<chip, driver, state>>
    BY Zenon, <1>3 DEF Clear, Push, PushFails, WaitBits, WaitReset, radio
  <2> QED
    BY <2>1 DEF OnAir, Whole
<1> QED
  BY <1>1, <1>2, <1>3 DEF Python, Waits

\* A transmission that lora_send started is cut short by no other command, reset of a timer
\* or late callback: the radio leaves it with TxDone, with the timeout or with lora.reset(),
\* or else a packet heard before was reported during it, or the program itself called
\* ischannel_free.  For queues of any length and any number of packets, with or without a
\* reset pin.
THEOREM TransmissionsWhole == Spec => SentWhole
<1>1. Init => OnAir
  BY DEF Init, OnAir
<1>2. OnAir /\ [Next]_vars => OnAir' /\ [Whole]_vars
  <2>1. ASSUME OnAir, UNCHANGED vars PROVE OnAir'
    BY <2>1 DEF OnAir, vars, radio
  <2> QED
    BY <2>1, AirTask, AirReports, AirCalls DEF Next
<1>3. OnAir /\ [Next]_vars => OnAir'
  BY <1>2
<1>4. OnAir /\ [Next]_vars =>
        [chip = "tx" /\ chip' # "tx" =>
           \/ state' \in {"tx_done", "tx_timeout"} \/ "reset" \in {state, state'}
           \/ state \in {"rx_done", "rx_error"}
           \/ "sense" \in {call, call'}]_vars
  BY <1>2 DEF Whole
<1> QED
  BY <1>1, <1>3, <1>4, PTL DEF Spec, SentWhole
=============================================================================
