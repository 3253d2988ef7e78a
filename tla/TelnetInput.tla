---------------------------- MODULE TelnetInput ----------------------------
(***************************************************************************)
(* The input path of esp32/telnet/telnet.c in a logged-in session: bytes    *)
(* from the client are received into a ring buffer, telnet commands are     *)
(* taken out in place, and the MicroPython task reads the rest one          *)
(* character at a time.  The servers task and the MicroPython task share    *)
(* the two indices without a lock; the read index may move between any two  *)
(* of the servers task's reads of it.                                       *)
(***************************************************************************)
EXTENDS Integers, Sequences

CONSTANTS
  BufSize,        \* TELNET_RX_BUFFER_SIZE, and the modulus of the two indices
  Streams         \* what the client may send in a session: sequences of bytes

ASSUME InputConstants ==
  /\ BufSize \in Nat /\ BufSize >= 4
  /\ Streams \subseteq Seq(0 .. 255)

VARIABLES
  rxBuffer, rxWindex, rxRindex, rxIncompleteLen, binary_mode,
  loggedIn,   \* state == E_TELNET_STE_LOGGED_IN
  pc,         \* where telnet_process is: idle, sub, adj, recv
  maxLen,     \* its local variable
  sent,       \* every byte the client sends in the session
  got,        \* how many of them recv has returned
  start,      \* history: how a reader of the stream stands at login (AtLogin)
  whole,      \* history: no reception has ended inside a telnet command
  tx,         \* the bytes sent back to the client
  read        \* the characters the MicroPython task has read

vars == <<rxBuffer, rxWindex, rxRindex, rxIncompleteLen, binary_mode, loggedIn,
          pc, maxLen, sent, got, start, whole, tx, read>>

AYT == 246
WILL == 251
WONT == 252
DO == 253
DONT == 254
IAC == 255
TRANSMIT_BINARY == 0
InterruptChar == 3      \* mp_interrupt_char while a program may be interrupted
CHAR_CTRL_D == 4
CHAR_CTRL_F == 6
Backspace == 8
Return == 13

Slots == 0 .. BufSize - 1
Wrap(i) == i % BufSize

-----------------------------------------------------------------------------
\* telnet_parse_input.  A parser state p holds the memory, the read and write
\* positions r and w, the length len reported to the caller, and what else the
\* characters change.
Put(p, c) == [p EXCEPT !.mem[p.w] = c, !.w = p.w + 1]

\* telnet_tx_strn sends only in a session.
Tx(p, bytes) == IF p.in THEN [p EXCEPT !.tx = @ \o bytes] ELSE p

ReplyVerb(verb) == IF verb < DO THEN verb + (DO - WILL) ELSE verb - (DO - WILL)

ProcessIAC(p, remaining) ==
  LET verb == p.mem[p.r + 1]
      option == p.mem[p.r + 2]
      skipped == [p EXCEPT !.r = @ + 3, !.len = @ - 3, !.inc = 0]
  IN  CASE remaining >= 2 /\ verb = IAC ->
             [Put(p, IAC) EXCEPT !.r = @ + 2, !.len = @ - 1, !.inc = 0]
        [] remaining >= 2 /\ verb = AYT ->
             [Tx(p, <<IAC, AYT>>) EXCEPT !.r = @ + 2, !.len = @ - 2, !.inc = 0]
        [] remaining >= 3 /\ verb \notin {IAC, AYT} /\ option = TRANSMIT_BINARY ->
             [Tx(skipped, <<IAC, ReplyVerb(verb), option>>) EXCEPT
                !.bin = IF verb = WILL THEN TRUE ELSE IF verb = WONT THEN FALSE ELSE @]
        [] remaining >= 3 /\ verb \notin {IAC, AYT} /\ option # TRANSMIT_BINARY -> skipped
        [] OTHER -> [p EXCEPT !.len = @ - remaining, !.inc = remaining, !.stop = TRUE]

\* One turn of the loop over the characters.  Ctrl-F ends the session: the reset
\* that it asks for stops the servers from within this very call.
ParseChar(p, end) ==
  LET ch == p.mem[p.r]
      filtered == ~p.bin /\ (ch > 127 \/ ch = 0 \/ (p.in /\ ch \in {InterruptChar, CHAR_CTRL_F}))
  IN  CASE ch = IAC -> ProcessIAC(p, end - p.r)
        [] ch # IAC /\ ~filtered -> [Put(p, ch) EXCEPT !.r = @ + 1]
        [] ch = CHAR_CTRL_F /\ filtered ->
             [Put(p, CHAR_CTRL_D) EXCEPT !.r = @ + 1, !.in = FALSE]
        [] OTHER -> [p EXCEPT !.r = @ + 1, !.len = @ - 1]

Turn(p, end) == IF p.stop \/ p.r >= end THEN p ELSE ParseChar(p, end)

\* The whole loop: every turn takes at least one of the bytes, or is the last.
Parse(p, end) ==
  LET after[k \in 0 .. end - p.r] == IF k = 0 THEN p ELSE Turn(after[k - 1], end)
  IN  after[end - p.r]

-----------------------------------------------------------------------------
\* telnet_reset_buffer, on login: a line of backspaces and an "enter".
Prompt == [i \in 1 .. BufSize \div 2 + 1 |-> IF i <= BufSize \div 2 THEN Backspace ELSE Return]

\* The commands of the login phase have been parsed as well: they may have switched to
\* binary mode, and its last reception may have ended inside one, after IAC or after the
\* verb of an option.
AtLogin == {[at |-> c, verb |-> WILL, text |-> <<>>, tx |-> <<>>, bin |-> b] :
              c \in {"data", "iac", "verb"}, b \in BOOLEAN}
Incomplete(at) == CASE at = "data" -> 0 [] at = "iac" -> 1 [] at = "verb" -> 2

Init ==
  /\ rxBuffer = [i \in Slots |-> IF i < Len(Prompt) THEN Prompt[i + 1] ELSE 0]
  /\ rxWindex = Len(Prompt)
  /\ rxRindex = 0
  /\ start \in AtLogin
  /\ rxIncompleteLen = Incomplete(start.at)
  /\ binary_mode = start.bin
  /\ loggedIn = TRUE
  /\ pc = "idle"
  /\ maxLen = 0
  /\ sent \in Streams
  /\ got = 0 /\ whole = (start.at = "data") /\ tx = <<>> /\ read = <<>>

input == <<rxBuffer, rxWindex, rxRindex, rxIncompleteLen, binary_mode, loggedIn, sent, got, start, whole, tx, read>>

\* telnet_process, first read of rxRindex.
Compare ==
  /\ pc = "idle" /\ loggedIn
  /\ \/ /\ rxWindex >= rxRindex
        /\ maxLen' = BufSize - rxWindex
        /\ pc' = "adj"
     \/ /\ rxWindex < rxRindex
        /\ pc' = "sub"
        /\ UNCHANGED maxLen
  /\ UNCHANGED input

\* Second read; the difference is a signed int.
Subtract ==
  /\ pc = "sub"
  /\ maxLen' = rxRindex - rxWindex - 1
  /\ pc' = "adj"
  /\ UNCHANGED input

\* Third read, "to avoid an overrun".
AdjustNever ==
  /\ pc = "adj"
  /\ pc' = IF maxLen > 0 THEN "recv" ELSE "idle"
  /\ UNCHANGED <<maxLen, input>>

AdjustAlways ==
  /\ pc = "adj"
  /\ maxLen' = maxLen - 1
  /\ pc' = IF maxLen' > 0 THEN "recv" ELSE "idle"
  /\ UNCHANGED input

Adjust ==
  /\ pc = "adj"
  /\ maxLen' = IF rxRindex = 0 THEN maxLen - 1 ELSE maxLen
  /\ pc' = IF maxLen' > 0 THEN "recv" ELSE "idle"
  /\ UNCHANGED input

\* The verb that answers a verb; what is none is answered all the same.
Owed(verb) ==
  CASE verb = WILL -> DO [] verb = DO -> WILL [] verb = WONT -> DONT [] verb = DONT -> WONT
    [] OTHER -> verb + 2

\* How a reader of the whole stream stands after a byte: between characters and
\* commands, after IAC, or after the verb of an option.  It also decodes the text
\* and the replies, without any buffer.
DecodeByte(d, ch) ==
  LET text(c) == [d EXCEPT !.text = Append(@, c), !.at = "data"]
      ends == [d EXCEPT !.at = "data"]
  IN  CASE d.at = "iac" /\ ch = IAC -> text(IAC)
        [] d.at = "iac" /\ ch = AYT -> [ends EXCEPT !.tx = @ \o <<IAC, AYT>>]
        [] d.at = "iac" /\ ch \notin {IAC, AYT} -> [d EXCEPT !.at = "verb", !.verb = ch]
        [] d.at = "verb" /\ ch = TRANSMIT_BINARY ->
             [ends EXCEPT !.tx = @ \o <<IAC, Owed(d.verb), TRANSMIT_BINARY>>,
                          !.bin = IF d.verb = WILL THEN TRUE ELSE IF d.verb = WONT THEN FALSE ELSE @]
        [] d.at = "data" /\ ch = IAC -> [d EXCEPT !.at = "iac"]
        [] d.at = "data" /\ ch # IAC /\ (d.bin \/ ch \in 1 .. 127 \ {InterruptChar}) -> text(ch)
        [] OTHER -> ends

\* ... after each of the bytes.
Decode(first, bytes) ==
  LET after[n \in 0 .. Len(bytes)] == IF n = 0 THEN first ELSE DecodeByte(after[n - 1], bytes[n])
  IN  after

\* recv returns any number of the bytes under way and they are parsed in place.
\* What lies before the buffer is not telnet's: those two bytes can be anything.
Receive(n, heap) ==
  LET arrived == SubSeq(sent, got + 1, got + n)
      memory == [i \in -2 .. BufSize + 2 |->
                   IF i < 0 THEN heap[i]
                   ELSE IF i \in rxWindex .. rxWindex + n - 1 THEN arrived[i - rxWindex + 1]
                   ELSE IF i \in Slots THEN rxBuffer[i] ELSE 0]
      p == Parse([mem |-> memory, r |-> rxWindex - rxIncompleteLen, w |-> rxWindex,
                  len |-> n + rxIncompleteLen, inc |-> rxIncompleteLen, stop |-> FALSE,
                  bin |-> binary_mode, in |-> loggedIn, tx |-> tx], rxWindex + n)
  IN  /\ pc = "recv"
      /\ n <= maxLen /\ got + n <= Len(sent)
      /\ got' = got + n
      /\ whole' = (whole /\ Decode(start, sent)[got'].at = "data")
      /\ rxBuffer' = [i \in Slots |-> p.mem[i]]
      /\ rxWindex' = IF p.len > 0 THEN Wrap(rxWindex + p.len) ELSE rxWindex
      /\ rxIncompleteLen' = p.inc
      /\ binary_mode' = p.bin
      /\ loggedIn' = p.in
      /\ tx' = p.tx
      /\ pc' = "idle"
      /\ UNCHANGED <<rxRindex, maxLen, sent, start, read>>

\* Nothing to receive (EAGAIN).
ReceiveNothing ==
  /\ pc = "recv"
  /\ pc' = "idle"
  /\ UNCHANGED <<maxLen, input>>

\* telnet_rx_any and telnet_rx_char in the MicroPython task.
RxChar ==
  /\ loggedIn /\ rxRindex # rxWindex
  /\ read' = Append(read, rxBuffer[rxRindex])
  /\ rxRindex' = Wrap(rxRindex + 1)
  /\ UNCHANGED <<rxBuffer, rxWindex, rxIncompleteLen, binary_mode, loggedIn, pc, maxLen, sent, got, start, whole, tx>>

Process == Compare \/ Subtract \/ Adjust
Before == [{-2, -1} -> IF rxIncompleteLen > rxWindex THEN {0, Backspace, IAC} ELSE {0}]
ReceiveSome == \E n \in 1 .. Len(sent), heap \in Before : Receive(n, heap)

Next == Process \/ ReceiveSome \/ ReceiveNothing \/ RxChar

Spec == Init /\ [][Next]_vars

\* The servers task keeps cycling and recv returns what has arrived in the end (its steps
\* are those of ReceiveSome); the MicroPython task keeps reading.
Received == pc = "recv" /\ got' \in got + 1 .. Len(sent)
FairSpec == Spec /\ WF_vars(Process) /\ SF_got(Received) /\ WF_vars(ReceiveNothing) /\ WF_vars(RxChar)

-----------------------------------------------------------------------------
\* The characters received and not read yet.
Unread == [i \in 1 .. (rxWindex - rxRindex) % BufSize |-> rxBuffer[Wrap(rxRindex + i - 1)]]

\* What the MicroPython task has read and will read is the prompt and then exactly the
\* text in the bytes received: telnet_process never overwrites unread characters,
\* whichever way rxRindex moves while it computes maxLen, and telnet_parse_input drops
\* neither more nor less than the commands and the filtered characters.  Every AYT and
\* every TRANSMIT_BINARY option is answered once, in order, with the verb it is owed.  (Once
\* a reception, of the login phase included, has ended inside a command this no longer
\* holds; README, Observations.)
InputFaithful ==
  loggedIn /\ whole =>
    LET d == Decode(start, sent)[got] IN read \o Unread = Prompt \o d.text /\ tx = d.tx

\* Everything sent is received and read in the end: a full buffer, or one whose free
\* space is at its start, never stalls telnet_process for good (Ctrl-F ends a session).
AllRead == <>[](~loggedIn \/ (got = Len(sent) /\ rxRindex = rxWindex))
=============================================================================
