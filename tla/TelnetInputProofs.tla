-------------------------------- MODULE TelnetInputProofs --------------------------------
EXTENDS TelnetInput, WellFoundedInduction, TLAPS

(* That what MicroPython reads is the text received (InputFaithful), for every size of the
   buffer and every stream. The invariant of the parser's loop (Follows) says that after
   each turn the parser has made of the bytes taken so far what the reference filter has;
   every turn on a character or a command keeps it. The inductive invariant of the system
   (InputInv) says the same of the buffer, the mode and the answers after each reception,
   and that a reception never overwrites an unread character nor fills the ring. *)

\* A set of natural numbers has a least one.
LEMMA Least ==
  ASSUME NEW T \in SUBSET Nat, T # {}
  PROVE  \E x \in T : \A y \in T : x <= y
  <1> DEFINE R == {ss \in Nat \X Nat : ss[1] < ss[2]}
  <1>1. IsWellFoundedOn(R, Nat)
    <2>1. R = OpToRel(<, Nat)
      BY Zenon DEF OpToRel
    <2> QED BY <2>1, NatLessThanWellFounded, Zenon
  <1>2. PICK x \in T : \A y \in T : ~(<<y, x>> \in R)
    <2> HIDE DEF R
    <2> QED BY <1>1, WFMin, Zenon
  <1>3. ASSUME NEW y \in T PROVE x <= y
    <2>1. ~(y < x)
      BY <1>2, Zenon
    <2> QED BY <2>1
  <1> QED BY <1>3

-----------------------------------------------------------------------------
\* Induction up to a bound, over a set.
LEMMA UpTo ==
  ASSUME NEW N \in Nat, NEW S, 0 \in S, \A n \in 0 .. N - 1 : n \in S => n + 1 \in S
  PROVE  0 .. N \subseteq S
  <1> DEFINE T == {n \in 0 .. N : n \notin S}
  <1> SUFFICES ASSUME T # {} PROVE FALSE
    OBVIOUS
  <1>1. T \in SUBSET Nat
    OBVIOUS
  <1>2. PICK x \in T : \A y \in T : x <= y
    BY <1>1, Least, Zenon
  <1>3. x # 0 /\ x \in 0 .. N /\ x \notin S
    OBVIOUS
  <1>4. x - 1 \in 0 .. N - 1 /\ ~(x <= x - 1)
    BY <1>3
  <1>5. x - 1 \in S
    BY <1>2, <1>4
  <1>6. (x - 1) + 1 \in S
    BY <1>4, <1>5
  <1> QED BY <1>3, <1>6

Bytes == 0 .. 255

\* f says how the reference filter stands after each of the bytes.
Decodes(f, first, bytes) ==
  f = [n \in 0 .. Len(bytes) |-> IF n = 0 THEN first ELSE DecodeByte(f[n - 1], bytes[n])]

\* The recursive function that Decode is exists ...
LEMMA DecodeExists ==
  ASSUME NEW first, NEW bytes, Len(bytes) \in Nat
  PROVE  \E f : Decodes(f, first, bytes)
  <1> DEFINE N == Len(bytes)
             Is(f, m) == f = [n \in 0 .. m |-> IF n = 0 THEN first ELSE DecodeByte(f[n - 1], bytes[n])]
             S == {m \in 0 .. N : \E f : Is(f, m)}
  <1>0. N \in Nat
    OBVIOUS
  <1> HIDE DEF N
  <1>1. 0 \in S
    <2>1. Is([n \in 0 .. 0 |-> first], 0)
      OBVIOUS
    <2>2. \E f : Is(f, 0)
      <3> HIDE DEF Is
      <3> QED BY <2>1
    <2> QED BY <1>0, <2>2
  <1>2. ASSUME NEW m \in 0 .. N - 1, m \in S PROVE m + 1 \in S
    <2>1. PICK f : Is(f, m)
      BY <1>2
    <2> DEFINE g == [n \in 0 .. m + 1 |-> IF n <= m THEN f[n] ELSE DecodeByte(f[m], bytes[m + 1])]
    <2>2. ASSUME NEW n \in 0 .. m + 1
          PROVE  g[n] = IF n = 0 THEN first ELSE DecodeByte(g[n - 1], bytes[n])
      <3>1. CASE n = 0
        BY <2>1, <3>1
      <3>2. CASE n # 0 /\ n <= m
        <4>1. n - 1 \in 0 .. m /\ n - 1 \in 0 .. m + 1 /\ n - 1 <= m
          BY <3>2
        <4>2. g[n] = f[n] /\ g[n - 1] = f[n - 1]
          BY <3>2, <4>1
        <4>3. f[n] = DecodeByte(f[n - 1], bytes[n])
          BY <2>1, <3>2
        <4> QED BY <3>2, <4>2, <4>3
      <3>3. CASE n = m + 1
        <4>1. g[n - 1] = f[m] /\ g[n] = DecodeByte(f[m], bytes[m + 1])
          BY <3>3
        <4> QED BY <3>3, <4>1
      <3> QED BY <3>1, <3>2, <3>3
    <2>3. Is(g, m + 1)
      BY <2>2
    <2>4. m + 1 \in 0 .. N
      BY <1>0
    <2> QED BY <2>3, <2>4, Zenon
  <1>4. 0 .. N \subseteq S
    <2> HIDE DEF S
    <2> QED BY <1>1, <1>2, <1>0, UpTo
  <1>5. N \in S
    <2> HIDE DEF S
    <2> QED BY <1>0, <1>4
  <1>6. \E f : f = [n \in 0 .. N |-> IF n = 0 THEN first ELSE DecodeByte(f[n - 1], bytes[n])]
    BY <1>5
  <1> QED BY Zenon, <1>6 DEF N, Decodes

\* ... and is what its definition says.
LEMMA DecodeSteps ==
  ASSUME NEW first, NEW bytes, Len(bytes) \in Nat
  PROVE  /\ Decode(first, bytes)[0] = first
         /\ \A n \in 1 .. Len(bytes) : Decode(first, bytes)[n] = DecodeByte(Decode(first, bytes)[n - 1], bytes[n])
  <1>1. Decode(first, bytes) = CHOOSE f : Decodes(f, first, bytes)
    BY DEF Decode, Decodes
  <1>2. \E f : Decodes(f, first, bytes)
    BY Zenon, DecodeExists
  <1>3. Decodes(Decode(first, bytes), first, bytes)
    BY Zenon, <1>1, <1>2
  <1>4. PICK g : g = Decode(first, bytes)
    BY Zenon
  <1>5. g = [n \in 0 .. Len(bytes) |-> IF n = 0 THEN first ELSE DecodeByte(g[n - 1], bytes[n])]
    BY Zenon, <1>3, <1>4 DEF Decodes
  <1>6. g[0] = first /\ \A n \in 1 .. Len(bytes) : g[n] = DecodeByte(g[n - 1], bytes[n])
    BY <1>5
  <1> QED BY Zenon, <1>4, <1>6

\* The same for the turns of the parser's loop.
LEMMA TurnsExist ==
  ASSUME NEW p, NEW end, end - p.r \in Nat
  PROVE  \E f : f = [k \in 0 .. end - p.r |-> IF k = 0 THEN p ELSE Turn(f[k - 1], end)]
  <1> DEFINE N == end - p.r
             Is(f, m) == f = [k \in 0 .. m |-> IF k = 0 THEN p ELSE Turn(f[k - 1], end)]
             S == {m \in 0 .. N : \E f : Is(f, m)}
  <1>0. N \in Nat
    OBVIOUS
  <1> HIDE DEF N
  <1>1. 0 \in S
    <2>1. Is([k \in 0 .. 0 |-> p], 0)
      OBVIOUS
    <2>2. \E f : Is(f, 0)
      <3> HIDE DEF Is
      <3> QED BY <2>1
    <2> QED BY <1>0, <2>2
  <1>2. ASSUME NEW m \in 0 .. N - 1, m \in S PROVE m + 1 \in S
    <2>1. PICK f : Is(f, m)
      BY <1>2
    <2> DEFINE g == [k \in 0 .. m + 1 |-> IF k <= m THEN f[k] ELSE Turn(f[m], end)]
    <2>2. ASSUME NEW k \in 0 .. m + 1
          PROVE  g[k] = IF k = 0 THEN p ELSE Turn(g[k - 1], end)
      <3>1. CASE k = 0
        BY <2>1, <3>1
      <3>2. CASE k # 0 /\ k <= m
        <4>1. k - 1 \in 0 .. m /\ k - 1 \in 0 .. m + 1 /\ k - 1 <= m
          BY <3>2
        <4>2. g[k] = f[k] /\ g[k - 1] = f[k - 1]
          BY <3>2, <4>1
        <4>3. f[k] = Turn(f[k - 1], end)
          BY <2>1, <3>2
        <4> QED BY <3>2, <4>2, <4>3
      <3>3. CASE k = m + 1
        <4>1. g[k - 1] = f[m] /\ g[k] = Turn(f[m], end)
          BY <3>3
        <4> QED BY <3>3, <4>1
      <3> QED BY <3>1, <3>2, <3>3
    <2>3. Is(g, m + 1)
      BY <2>2
    <2>4. m + 1 \in 0 .. N
      BY <1>0
    <2> QED BY <2>3, <2>4, Zenon
  <1>4. 0 .. N \subseteq S
    <2> HIDE DEF S
    <2> QED BY <1>1, <1>2, <1>0, UpTo
  <1>5. N \in S
    <2> HIDE DEF S
    <2> QED BY <1>0, <1>4
  <1> QED BY <1>5 DEF N

\* The loop of telnet_parse_input is a sequence of turns.
LEMMA ParseTurns ==
  ASSUME NEW p, NEW end, end - p.r \in Nat
  PROVE  \E f : /\ f[0] = p
                /\ \A k \in 1 .. end - p.r : f[k] = Turn(f[k - 1], end)
                /\ Parse(p, end) = f[end - p.r]
  <1> DEFINE Is(f) == f = [k \in 0 .. end - p.r |-> IF k = 0 THEN p ELSE Turn(f[k - 1], end)]
             after == CHOOSE f : Is(f)
  <1>1. Parse(p, end) = after[end - p.r]
    BY DEF Parse
  <1>2. \E f : Is(f)
    BY TurnsExist
  <1>3. Is(after)
    BY <1>2, Zenon
  <1> HIDE DEF after
  <1>4. after[0] = p /\ \A k \in 1 .. end - p.r : after[k] = Turn(after[k - 1], end)
    BY <1>3
  <1> QED BY <1>1, <1>4

-----------------------------------------------------------------------------
\* What the reference filter is in after some of the bytes.
Decoders ==
  [at : {"data", "iac", "verb"}, verb : 0 .. 254, text : Seq(Bytes), tx : Seq(Bytes), bin : BOOLEAN]

\* A byte between commands that is text.
Plain(d, ch) == d.bin \/ ch \in 1 .. 127 \ {InterruptChar}

\* What a byte does to the reference filter: it is text, it ends a command or is dropped, it
\* starts a command, ...
Reads(d, ch) == [d EXCEPT !.text = Append(@, ch), !.at = "data"]
Ends(d) == [d EXCEPT !.at = "data"]
Marks(d) == [d EXCEPT !.at = "iac"]

\* ... it is a verb, or it gets an answer.
Opens(d, ch) == [d EXCEPT !.at = "verb", !.verb = ch]
Here == <<IAC, AYT>>
Confirms(d) == [d EXCEPT !.at = "data", !.tx = @ \o Here]
Reply(verb) == <<IAC, ReplyVerb(verb), TRANSMIT_BINARY>>
Mode(verb, bin) == IF verb = WILL THEN TRUE ELSE IF verb = WONT THEN FALSE ELSE bin
Agreed(d) == [d EXCEPT !.at = "data", !.tx = @ \o Reply(d.verb), !.bin = Mode(d.verb, @)]

\* The verb that telnet_process_IAC computes is the one that is owed.
LEMMA ReplyOwed ==
  ASSUME NEW verb \in 0 .. 254
  PROVE  Owed(verb) = ReplyVerb(verb) /\ ReplyVerb(verb) \in Bytes
  <1>1. Owed(verb) = ReplyVerb(verb)
    BY DEF Owed, ReplyVerb, WILL, WONT, DO, DONT
  <1>2. ReplyVerb(verb) \in Bytes
    BY DEF ReplyVerb, WILL, DO, Bytes
  <1> QED BY <1>1, <1>2

LEMMA ReplyTyped ==
  ASSUME NEW verb \in 0 .. 254
  PROVE  Reply(verb) \in Seq(Bytes)
  <1>1. ReplyVerb(verb) \in Bytes
    BY ReplyOwed, Zenon
  <1> QED BY <1>1 DEF Reply, Bytes, IAC, TRANSMIT_BINARY

LEMMA NotIAC ==
  ASSUME NEW ch \in Bytes, ch # IAC
  PROVE  ch \in 0 .. 254
  BY DEF Bytes, IAC

\* Which byte does what.
LEMMA DecodeCases ==
  ASSUME NEW d \in Decoders, NEW ch
  PROVE  /\ d.at = "data" /\ ch = IAC => DecodeByte(d, ch) = Marks(d)
         /\ d.at = "data" /\ ch # IAC /\ Plain(d, ch) => DecodeByte(d, ch) = Reads(d, ch)
         /\ d.at = "data" /\ ch # IAC /\ ~Plain(d, ch) => DecodeByte(d, ch) = Ends(d)
         /\ d.at = "iac" /\ ch = IAC => DecodeByte(d, ch) = Reads(d, IAC)
         /\ d.at = "iac" /\ ch = AYT => DecodeByte(d, ch) = Confirms(d)
         /\ d.at = "iac" /\ ch \notin {IAC, AYT} => DecodeByte(d, ch) = Opens(d, ch)
         /\ d.at = "verb" /\ ch = TRANSMIT_BINARY => DecodeByte(d, ch) = Agreed(d)
         /\ d.at = "verb" /\ ch # TRANSMIT_BINARY => DecodeByte(d, ch) = Ends(d)
  <1>1. IAC # AYT
    BY DEF IAC, AYT
  <1>2. CASE d.at = "data"
    BY Zenon, <1>1, <1>2 DEF DecodeByte, Plain, Marks, Reads, Ends
  <1>3. CASE d.at = "iac"
    <2>1. /\ ch = IAC => DecodeByte(d, ch) = Reads(d, IAC)
          /\ ch \notin {IAC, AYT} => DecodeByte(d, ch) = Opens(d, ch)
      BY <1>1, <1>3 DEF DecodeByte, Reads, Opens
    <2>2. ASSUME ch = AYT PROVE DecodeByte(d, ch) = Confirms(d)
      <3>1. DecodeByte(d, ch) = [[d EXCEPT !.at = "data"] EXCEPT !.tx = @ \o <<IAC, AYT>>]
        BY <1>1, <1>3, <2>2 DEF DecodeByte
      <3> QED BY <3>1 DEF Confirms, Here, Decoders
    <2> QED BY <1>3, <2>1, <2>2
  <1>4. CASE d.at = "verb"
    <2>1. ch # TRANSMIT_BINARY => DecodeByte(d, ch) = Ends(d)
      BY <1>4 DEF DecodeByte, Ends
    <2>2. ASSUME ch = TRANSMIT_BINARY PROVE DecodeByte(d, ch) = Agreed(d)
      <3>1. Owed(d.verb) = ReplyVerb(d.verb)
        BY ReplyOwed, Zenon DEF Decoders
      <3>2. DecodeByte(d, ch) =
              [[d EXCEPT !.at = "data"] EXCEPT
                 !.tx = @ \o <<IAC, Owed(d.verb), TRANSMIT_BINARY>>,
                 !.bin = IF d.verb = WILL THEN TRUE ELSE IF d.verb = WONT THEN FALSE ELSE @]
        BY <1>4, <2>2 DEF DecodeByte
      <3> QED BY <3>1, <3>2 DEF Agreed, Reply, Mode, Decoders
    <2> QED BY <1>4, <2>1, <2>2
  <1> QED BY Zenon, <1>2, <1>3, <1>4 DEF Decoders

\* The same, field by field: text, ...
LEMMA ReadFields ==
  ASSUME NEW d \in Decoders, NEW ch \in Bytes, NEW e, e = Reads(d, ch)
  PROVE  /\ e \in Decoders /\ e.at = "data" /\ e.text = Append(d.text, ch) /\ e.tx = d.tx
         /\ e.bin = d.bin
  <1>1. PICK t \in Seq(Bytes) : t = Append(d.text, ch)
    <2>1. d.text \in Seq(Bytes)
      BY DEF Decoders
    <2>2. Append(d.text, ch) \in Seq(Bytes)
      BY <2>1
    <2> QED BY <2>2, Zenon
  <1>2. e = [d EXCEPT !.text = t, !.at = "data"]
    BY <1>1 DEF Reads
  <1>3. e \in Decoders /\ e.at = "data" /\ e.text = t /\ e.tx = d.tx /\ e.bin = d.bin
    BY <1>2, ZenonT(30) DEF Decoders
  <1> QED BY <1>1, <1>3

\* ... between commands, ...
LEMMA DecodeText ==
  ASSUME NEW d \in Decoders, d.at = "data", NEW ch \in Bytes, ch # IAC, Plain(d, ch),
         NEW e, e = DecodeByte(d, ch)
  PROVE  /\ e \in Decoders /\ e.at = "data" /\ e.text = Append(d.text, ch) /\ e.tx = d.tx
         /\ e.bin = d.bin
  <1>1. e = Reads(d, ch)
    BY DecodeCases
  <1> QED BY <1>1, ReadFields, ZenonT(30)

\* ... or an escaped IAC, ...
LEMMA DecodeUnescape ==
  ASSUME NEW d \in Decoders, d.at = "iac", NEW e, e = DecodeByte(d, IAC)
  PROVE  /\ e \in Decoders /\ e.at = "data" /\ e.text = Append(d.text, IAC) /\ e.tx = d.tx
         /\ e.bin = d.bin
  <1>1. e = Reads(d, IAC)
    BY DecodeCases
  <1>2. IAC \in Bytes
    BY DEF IAC, Bytes
  <1> QED BY <1>1, <1>2, ReadFields

\* ... a byte that is filtered, ...
LEMMA DecodeFilter ==
  ASSUME NEW d \in Decoders, d.at = "data", NEW ch, ch # IAC, ~Plain(d, ch), NEW e, e = DecodeByte(d, ch)
  PROVE  e \in Decoders /\ e.at = "data" /\ e.text = d.text /\ e.tx = d.tx /\ e.bin = d.bin
  <1>1. e = Ends(d)
    BY DecodeCases
  <1> QED BY <1>1, Zenon DEF Decoders, Ends

\* ... the start of a command, ...
LEMMA DecodeMark ==
  ASSUME NEW d \in Decoders, d.at = "data", NEW e, e = DecodeByte(d, IAC)
  PROVE  e \in Decoders /\ e.at = "iac" /\ e.text = d.text /\ e.tx = d.tx /\ e.bin = d.bin
  <1>1. e = Marks(d)
    BY DecodeCases
  <1> QED BY <1>1, Zenon DEF Decoders, Marks

\* ... "are you there", ...
LEMMA DecodeAYT ==
  ASSUME NEW d \in Decoders, d.at = "iac", NEW e, e = DecodeByte(d, AYT)
  PROVE  /\ e \in Decoders /\ e.at = "data" /\ e.text = d.text /\ e.tx = d.tx \o Here
         /\ e.bin = d.bin
  <1>1. e = Confirms(d)
    BY DecodeCases
  <1>2. PICK t \in Seq(Bytes) : t = d.tx \o Here
    <2>1. d.tx \in Seq(Bytes) /\ Here \in Seq(Bytes)
      BY DEF Decoders, Here, IAC, AYT, Bytes
    <2>2. d.tx \o Here \in Seq(Bytes)
      BY <2>1
    <2> QED BY <2>2, Zenon
  <1>3. e = [d EXCEPT !.at = "data", !.tx = t]
    BY <1>1, <1>2 DEF Confirms
  <1>4. e \in Decoders /\ e.at = "data" /\ e.text = d.text /\ e.tx = t /\ e.bin = d.bin
    BY <1>3, ZenonT(30) DEF Decoders
  <1> QED BY <1>2, <1>4

\* ... the verb of an option, ...
LEMMA DecodeVerb ==
  ASSUME NEW d \in Decoders, d.at = "iac", NEW ch \in Bytes, ch \notin {IAC, AYT},
         NEW e, e = DecodeByte(d, ch)
  PROVE  /\ e \in Decoders /\ e.at = "verb" /\ e.verb = ch /\ e.text = d.text /\ e.tx = d.tx
         /\ e.bin = d.bin
  <1>1. e = [d EXCEPT !.at = "verb", !.verb = ch]
    <2>1. e = Opens(d, ch)
      BY DecodeCases
    <2> QED BY <2>1 DEF Opens
  <1>2. ch \in 0 .. 254
    BY NotIAC
  <1>3. e \in Decoders
    BY <1>1, <1>2, ZenonT(120) DEF Decoders
  <1>4. e.at = "verb" /\ e.verb = ch /\ e.text = d.text /\ e.tx = d.tx /\ e.bin = d.bin
    BY <1>1, Zenon DEF Decoders
  <1> QED BY <1>3, <1>4

\* ... TRANSMIT_BINARY, which is answered in kind, and WILL and WONT switch the mode, ...
LEMMA DecodeReply ==
  ASSUME NEW d \in Decoders, d.at = "verb", NEW e, e = DecodeByte(d, TRANSMIT_BINARY)
  PROVE  /\ e \in Decoders /\ e.at = "data" /\ e.text = d.text
         /\ e.tx = d.tx \o Reply(d.verb) /\ e.bin = Mode(d.verb, d.bin)
  <1>1. d.verb \in 0 .. 254 /\ d.tx \in Seq(Bytes) /\ d.bin \in BOOLEAN
    BY DEF Decoders
  <1>2. PICK t \in Seq(Bytes) : t = d.tx \o Reply(d.verb)
    <2>1. Reply(d.verb) \in Seq(Bytes)
      BY <1>1, ReplyTyped, Zenon
    <2>2. d.tx \o Reply(d.verb) \in Seq(Bytes)
      BY <1>1, <2>1
    <2> QED BY <2>2, Zenon
  <1>3. PICK b \in BOOLEAN : b = Mode(d.verb, d.bin)
    BY <1>1, Zenon DEF Mode
  <1>4. e = [d EXCEPT !.at = "data", !.tx = t, !.bin = b]
    <2>1. e = Agreed(d)
      BY DecodeCases
    <2> QED BY <1>2, <1>3, <2>1 DEF Agreed
  <1>5. e \in Decoders
    BY <1>4, ZenonT(120) DEF Decoders
  <1>6. e.at = "data" /\ e.text = d.text /\ e.tx = t /\ e.bin = b
    BY <1>4, Zenon DEF Decoders
  <1> QED BY <1>2, <1>3, <1>5, <1>6

\* ... and another option.
LEMMA DecodeOther ==
  ASSUME NEW d \in Decoders, d.at = "verb", NEW ch, ch # TRANSMIT_BINARY, NEW e, e = DecodeByte(d, ch)
  PROVE  e \in Decoders /\ e.at = "data" /\ e.text = d.text /\ e.tx = d.tx /\ e.bin = d.bin
  <1>1. e = Ends(d)
    BY DecodeCases
  <1> QED BY <1>1, Zenon DEF Decoders, Ends

\* The reference filter keeps to its states.
LEMMA DecodeStep ==
  ASSUME NEW d \in Decoders, NEW ch \in Bytes
  PROVE  DecodeByte(d, ch) \in Decoders
  <1>1. d.at \in {"data", "iac", "verb"}
    BY DEF Decoders
  <1>2. CASE d.at = "data"
    BY <1>2, DecodeText, DecodeFilter, DecodeMark
  <1>3. CASE d.at = "iac"
    BY <1>3, DecodeUnescape, DecodeAYT, DecodeVerb
  <1>4. CASE d.at = "verb"
    BY <1>4, DecodeReply, DecodeOther, Zenon
  <1> QED BY <1>1, <1>2, <1>3, <1>4

\* ... after every byte of a stream.
LEMMA DecodeTyped ==
  ASSUME NEW first \in Decoders, NEW bytes \in Seq(Bytes)
  PROVE  \A n \in 0 .. Len(bytes) : Decode(first, bytes)[n] \in Decoders
  <1> DEFINE D == Decode(first, bytes)
             N == Len(bytes)
             S == {n \in 0 .. N : D[n] \in Decoders}
  <1>1. N \in Nat /\ D[0] = first /\ \A n \in 1 .. N : D[n] = DecodeByte(D[n - 1], bytes[n])
    BY DecodeSteps
  <1>2. first \in Decoders
    OBVIOUS
  <1>3. \A n \in 1 .. N : bytes[n] \in Bytes
    OBVIOUS
  <1> HIDE DEF D, N
  <1>4. 0 \in S
    BY <1>1, <1>2
  <1>5. ASSUME NEW n \in 0 .. N - 1, n \in S PROVE n + 1 \in S
    <2>1. n + 1 \in 1 .. N /\ (n + 1) - 1 = n
      BY <1>1
    <2>2. D[n + 1] = DecodeByte(D[n], bytes[n + 1])
      BY <1>1, <2>1
    <2>3. D[n + 1] \in Decoders
      BY <1>3, <1>5, <2>1, <2>2, DecodeStep
    <2> QED BY <1>1, <2>1, <2>3
  <1> HIDE DEF S
  <1>6. 0 .. N \subseteq S
    BY <1>1, <1>4, <1>5, UpTo, Zenon
  <1> QED BY <1>6 DEF S, D, N

-----------------------------------------------------------------------------
\* The parser's states.
Memory == [-2 .. BufSize + 2 -> Bytes]
Parsers ==
  [mem : Memory, r : Int, w : Int, len : Int, inc : Int, stop : BOOLEAN, bin : BOOLEAN,
   in : BOOLEAN, tx : Seq(Bytes)]

\* Each of them in its type.
LEMMA ParserFields ==
  ASSUME NEW p \in Parsers
  PROVE  /\ p.mem \in Memory /\ p.r \in Int /\ p.w \in Int /\ p.len \in Int /\ p.inc \in Int
         /\ p.stop \in BOOLEAN /\ p.bin \in BOOLEAN /\ p.in \in BOOLEAN /\ p.tx \in Seq(Bytes)
  BY DEF Parsers

\* A byte written to memory is there, and nothing else is changed.
LEMMA Stored ==
  ASSUME NEW mem \in Memory, NEW w \in Int, NEW c \in Bytes, NEW m, m = [mem EXCEPT ![w] = c]
  PROVE  /\ m \in Memory
         /\ \A i \in -2 .. BufSize + 2 : m[i] = IF i = w THEN c ELSE mem[i]
  BY Zenon DEF Memory

\* A turn that takes k bytes and keeps one of them, or none.
Turned(p, q, k, kept) ==
  /\ q \in Parsers /\ q.r = p.r + k /\ q.w = p.w + kept /\ q.len = p.len - (k - kept)
  /\ q.stop = p.stop /\ q.in = p.in

\* What a turn does, field by field: a character that is kept, ...
Keep(p, c) == [Put(p, c) EXCEPT !.r = @ + 1]
Quit(p, c) == [Put(p, c) EXCEPT !.r = @ + 1, !.in = FALSE]
Drop(p) == [p EXCEPT !.r = @ + 1, !.len = @ - 1]

\* (It moves to the write position.)
LEMMA TurnKeeps ==
  ASSUME NEW p \in Parsers, NEW q, NEW c \in Bytes, q = Keep(p, c)
  PROVE  /\ Turned(p, q, 1, 1) /\ q.mem = [p.mem EXCEPT ![p.w] = c]
         /\ q.inc = p.inc /\ q.bin = p.bin /\ q.tx = p.tx
  <1> DEFINE m == [p.mem EXCEPT ![p.w] = c]
  <1>1. m \in Memory /\ p.w + 1 \in Int /\ p.r + 1 \in Int /\ p.len = p.len - (1 - 1)
    BY ParserFields, Stored
  <1>2. q = [[p EXCEPT !.mem = m, !.w = p.w + 1] EXCEPT !.r = p.r + 1]
    BY DEF Keep, Put, Parsers
  <1> HIDE DEF m
  <1>3. q \in Parsers
    BY <1>1, <1>2, Zenon DEF Parsers
  <1>4. /\ q.mem = m /\ q.w = p.w + 1 /\ q.r = p.r + 1
        /\ q.len = p.len /\ q.inc = p.inc /\ q.stop = p.stop /\ q.bin = p.bin /\ q.in = p.in
        /\ q.tx = p.tx
    BY <1>2 DEF Parsers
  <1> QED BY <1>1, <1>3, <1>4, Zenon DEF m, Turned

\* ... the one that ends the session, ...
LEMMA TurnEnds ==
  ASSUME NEW p \in Parsers, NEW q, NEW c \in Bytes, q = Quit(p, c)
  PROVE  q \in Parsers /\ q.w = p.w + 1 /\ q.r = p.r + 1 /\ q.in = FALSE
  <1> DEFINE m == [p.mem EXCEPT ![p.w] = c]
  <1>1. m \in Memory /\ p.w + 1 \in Int /\ p.r + 1 \in Int
    BY ParserFields, Stored
  <1>2. q = [[p EXCEPT !.mem = m, !.w = p.w + 1] EXCEPT !.r = p.r + 1, !.in = FALSE]
    BY DEF Quit, Put, Parsers
  <1> HIDE DEF m
  <1>3. q \in Parsers
    BY <1>1, <1>2, Zenon DEF Parsers
  <1>4. q.w = p.w + 1 /\ q.r = p.r + 1 /\ q.in = FALSE
    BY <1>2, Zenon DEF Parsers
  <1> QED BY <1>3, <1>4

\* ... one that is filtered out, ...
LEMMA TurnDrops ==
  ASSUME NEW p \in Parsers, NEW q, q = Drop(p)
  PROVE  Turned(p, q, 1, 0) /\ q.mem = p.mem /\ q.inc = p.inc /\ q.bin = p.bin /\ q.tx = p.tx
  <1>1. p.r + 1 \in Int /\ p.len - 1 \in Int /\ p.w = p.w + 0 /\ p.len - 1 = p.len - (1 - 0)
    BY ParserFields
  <1>2. q = [p EXCEPT !.r = p.r + 1, !.len = p.len - 1]
    BY DEF Drop, Parsers
  <1>3. q \in Parsers
    BY <1>1, <1>2, Zenon DEF Parsers
  <1>4. /\ q.mem = p.mem /\ q.w = p.w /\ q.r = p.r + 1
        /\ q.len = p.len - 1 /\ q.inc = p.inc /\ q.stop = p.stop /\ q.bin = p.bin /\ q.in = p.in
        /\ q.tx = p.tx
    BY <1>2 DEF Parsers
  <1> QED BY <1>1, <1>3, <1>4, Zenon DEF Turned

\* ... IAC twice, ...
Unescaped(p) == [Put(p, IAC) EXCEPT !.r = @ + 2, !.len = @ - 1, !.inc = 0]

\* (One of the two is kept.)
LEMMA TurnUnescapes ==
  ASSUME NEW p \in Parsers, NEW q, q = Unescaped(p)
  PROVE  /\ Turned(p, q, 2, 1) /\ q.mem = [p.mem EXCEPT ![p.w] = IAC]
         /\ q.inc = 0 /\ q.bin = p.bin /\ q.tx = p.tx
  <1> DEFINE m == [p.mem EXCEPT ![p.w] = IAC]
  <1>0. IAC \in Bytes
    BY DEF IAC, Bytes
  <1>1. /\ m \in Memory /\ p.w + 1 \in Int /\ p.r + 2 \in Int /\ p.len - 1 \in Int /\ 0 \in Int
        /\ p.len - 1 = p.len - (2 - 1)
    BY <1>0, ParserFields, Stored
  <1>2. q = [[p EXCEPT !.mem = m, !.w = p.w + 1] EXCEPT !.r = p.r + 2, !.len = p.len - 1, !.inc = 0]
    BY DEF Unescaped, Put, Parsers
  <1> HIDE DEF m
  <1>3. q \in Parsers
    BY <1>1, <1>2, Zenon DEF Parsers
  <1>4. /\ q.mem = m /\ q.w = p.w + 1 /\ q.r = p.r + 2
        /\ q.len = p.len - 1 /\ q.inc = 0 /\ q.stop = p.stop /\ q.bin = p.bin /\ q.in = p.in
        /\ q.tx = p.tx
    BY <1>2 DEF Parsers
  <1> QED BY <1>1, <1>3, <1>4, Zenon DEF m, Turned

\* ... AYT, ...
Answered(p) == [Tx(p, <<IAC, AYT>>) EXCEPT !.r = @ + 2, !.len = @ - 2, !.inc = 0]

\* (The answer goes out only in a session.)
LEMMA TurnAnswers ==
  ASSUME NEW p \in Parsers, NEW q, q = Answered(p)
  PROVE  /\ Turned(p, q, 2, 0) /\ q.mem = p.mem /\ q.inc = 0 /\ q.bin = p.bin
         /\ p.in => q.tx = p.tx \o Here
  <1> DEFINE t == IF p.in THEN p.tx \o Here ELSE p.tx
  <1>0. Here \in Seq(Bytes)
    BY DEF Here, IAC, AYT, Bytes
  <1>1. /\ t \in Seq(Bytes) /\ p.r + 2 \in Int /\ p.len - 2 \in Int /\ 0 \in Int
        /\ p.w = p.w + 0 /\ p.len - 2 = p.len - (2 - 0)
    BY <1>0, ParserFields
  <1>2. Tx(p, Here) = [p EXCEPT !.tx = t]
    BY Zenon DEF Tx, Parsers
  <1>3. p.in => t = p.tx \o Here
    OBVIOUS
  <1> HIDE DEF t
  <1>4. q = [[p EXCEPT !.tx = t] EXCEPT !.r = p.r + 2, !.len = p.len - 2, !.inc = 0]
    BY <1>2, Zenon DEF Answered, Here, Parsers
  <1>5. q \in Parsers
    BY <1>1, <1>4, Zenon DEF Parsers
  <1>6. /\ q.mem = p.mem /\ q.w = p.w /\ q.r = p.r + 2
        /\ q.len = p.len - 2 /\ q.inc = 0 /\ q.stop = p.stop /\ q.bin = p.bin /\ q.in = p.in
        /\ q.tx = t
    BY <1>4 DEF Parsers
  <1> QED BY <1>1, <1>3, <1>5, <1>6, Zenon DEF Turned

\* ... an option, ...
Skipped(p) == [p EXCEPT !.r = @ + 3, !.len = @ - 3, !.inc = 0]

\* (Three bytes go.)
LEMMA TurnSkips ==
  ASSUME NEW p \in Parsers, NEW q, q = Skipped(p)
  PROVE  Turned(p, q, 3, 0) /\ q.mem = p.mem /\ q.inc = 0 /\ q.bin = p.bin /\ q.tx = p.tx
  <1>1. /\ p.r + 3 \in Int /\ p.len - 3 \in Int /\ 0 \in Int
        /\ p.w = p.w + 0 /\ p.len - 3 = p.len - (3 - 0)
    BY ParserFields
  <1>2. q = [p EXCEPT !.r = p.r + 3, !.len = p.len - 3, !.inc = 0]
    BY DEF Skipped, Parsers
  <1>3. q \in Parsers
    BY <1>1, <1>2, Zenon DEF Parsers
  <1>4. /\ q.mem = p.mem /\ q.w = p.w /\ q.r = p.r + 3
        /\ q.len = p.len - 3 /\ q.inc = 0 /\ q.stop = p.stop /\ q.bin = p.bin /\ q.in = p.in
        /\ q.tx = p.tx
    BY <1>2 DEF Parsers
  <1> QED BY <1>1, <1>3, <1>4, Zenon DEF Turned

\* ... TRANSMIT_BINARY, ...
Replied(p, verb) ==
  [Tx(Skipped(p), Reply(verb)) EXCEPT
     !.bin = IF verb = WILL THEN TRUE ELSE IF verb = WONT THEN FALSE ELSE @]

\* (The reply goes out only in a session; the mode changes in any case.)
LEMMA TurnReplies ==
  ASSUME NEW p \in Parsers, NEW q, NEW verb, Reply(verb) \in Seq(Bytes), q = Replied(p, verb)
  PROVE  /\ Turned(p, q, 3, 0) /\ q.mem = p.mem /\ q.inc = 0 /\ q.bin = Mode(verb, p.bin)
         /\ p.in => q.tx = p.tx \o Reply(verb)
  <1> DEFINE s == Skipped(p)
             a == Reply(verb)
             t == IF s.in THEN s.tx \o a ELSE s.tx
             b == Mode(verb, s.bin)
  <1>0. Turned(p, s, 3, 0) /\ s.mem = p.mem /\ s.inc = 0 /\ s.bin = p.bin /\ s.tx = p.tx
    BY TurnSkips
  <1>1. s \in Parsers /\ s.mem = p.mem /\ s.bin = p.bin /\ s.in = p.in /\ s.tx = p.tx
    BY <1>0, Zenon DEF Turned
  <1>2. t \in Seq(Bytes) /\ b \in BOOLEAN
    <2>1. s.tx \in Seq(Bytes) /\ s.bin \in BOOLEAN
      BY <1>1, ParserFields
    <2>2. t \in Seq(Bytes)
      BY <2>1
    <2>3. b \in BOOLEAN
      BY <2>1, Zenon DEF Mode
    <2> QED BY <2>2, <2>3
  <1>3. Tx(s, a) = [s EXCEPT !.tx = t]
    BY <1>1, Zenon DEF Tx, Parsers
  <1>4. q = [[s EXCEPT !.tx = t] EXCEPT !.bin = b]
    <2>1. q = [Tx(s, a) EXCEPT !.bin = Mode(verb, @)]
      BY DEF Replied, Mode
    <2> HIDE DEF s, a, t
    <2> QED BY <1>1, <1>3, <2>1, Zenon DEF Parsers
  <1>5. (p.in => t = p.tx \o a) /\ b = Mode(verb, p.bin)
    BY <1>1
  <1> HIDE DEF s, t, b
  <1>6. q \in Parsers
    BY <1>1, <1>2, <1>4, Zenon DEF Parsers
  <1>7. /\ q.mem = s.mem /\ q.w = s.w /\ q.r = s.r /\ q.len = s.len /\ q.inc = s.inc /\ q.stop = s.stop
        /\ q.in = s.in /\ q.bin = b /\ q.tx = t
    BY <1>1, <1>4 DEF Parsers
  <1>8. Turned(p, q, 3, 0)
    BY <1>0, <1>6, <1>7, Zenon DEF Turned
  <1> QED BY <1>0, <1>5, <1>7, <1>8, Zenon

\* ... and a command that is not there as a whole.
Stopped(p, left) == [p EXCEPT !.len = @ - left, !.inc = left, !.stop = TRUE]

\* (What there is of it is counted as incomplete, and the loop ends.)
LEMMA TurnStops ==
  ASSUME NEW p \in Parsers, NEW q, NEW left \in Int,
         q = Stopped(p, left)
  PROVE  q \in Parsers /\ q.w = p.w /\ q.r = p.r /\ q.stop = TRUE /\ q.in = p.in
  <1>1. p.len - left \in Int
    BY ParserFields
  <1>2. q = [p EXCEPT !.len = p.len - left, !.inc = left, !.stop = TRUE]
    BY DEF Stopped, Parsers
  <1>3. q \in Parsers
    BY <1>1, <1>2, Zenon DEF Parsers
  <1>4. q.w = p.w /\ q.r = p.r /\ q.stop = TRUE /\ q.in = p.in
    BY <1>2 DEF Parsers
  <1> QED BY <1>3, <1>4

-----------------------------------------------------------------------------
\* Text follows base, and the rest of it is in memory from position at on, up to before to.
Holds(text, base, mem, at, to) ==
  /\ Len(text) = Len(base) + (to - at)
  /\ \A i \in 1 .. Len(base) : text[i] = base[i]
  /\ \A i \in 1 .. to - at : text[Len(base) + i] = mem[at + i - 1]

\* One character more of the text, written behind the others.
LEMMA HoldsMore ==
  ASSUME NEW text \in Seq(Bytes), NEW base \in Seq(Bytes), NEW mem \in Memory, NEW m,
         NEW at \in 0 .. BufSize, NEW to \in at .. BufSize, NEW c \in Bytes,
         Holds(text, base, mem, at, to), m = [mem EXCEPT ![to] = c]
  PROVE  Holds(Append(text, c), base, m, at, to + 1)
  <1> DEFINE t == Append(text, c)
  <1>0. BufSize \in Nat /\ to \in Int /\ at \in Int /\ at <= to
    BY InputConstants
  <1>1. /\ Len(t) = Len(text) + 1 /\ t[Len(text) + 1] = c /\ Len(text) \in Nat /\ Len(base) \in Nat
        /\ \A i \in 1 .. Len(text) : t[i] = text[i]
    OBVIOUS
  <1> HIDE DEF t
  <1>2. \A i \in -2 .. BufSize + 2 : m[i] = IF i = to THEN c ELSE mem[i]
    BY <1>0 DEF Memory
  <1>3. Len(t) = Len(base) + ((to + 1) - at)
    BY <1>0, <1>1 DEF Holds
  <1>4. ASSUME NEW i \in 1 .. Len(base) PROVE t[i] = base[i]
    BY <1>0, <1>1 DEF Holds
  <1>5. ASSUME NEW i \in 1 .. (to + 1) - at PROVE t[Len(base) + i] = m[at + i - 1]
    <2>1. CASE i = (to + 1) - at
      <3>1. Len(base) + i = Len(text) + 1 /\ at + i - 1 = to /\ to \in -2 .. BufSize + 2
        BY <1>0, <1>1, <2>1 DEF Holds
      <3> QED BY <1>1, <1>2, <3>1
    <2>2. CASE i # (to + 1) - at
      <3>1. i \in 1 .. to - at /\ at + i - 1 # to /\ at + i - 1 \in -2 .. BufSize + 2
        BY <1>0, <2>2
      <3>2. Len(base) + i \in 1 .. Len(text)
        <4>1. Len(text) = Len(base) + (to - at)
          BY DEF Holds
        <4> QED BY <1>0, <1>1, <3>1, <4>1
      <3>3. text[Len(base) + i] = mem[at + i - 1]
        BY <3>1 DEF Holds
      <3> QED BY <1>1, <1>2, <3>1, <3>2, <3>3
    <2> QED BY <2>1, <2>2
  <1>6. Holds(t, base, m, at, to + 1)
    BY <1>3, <1>4, <1>5 DEF Holds
  <1> QED BY <1>6 DEF t

-----------------------------------------------------------------------------
\* A reception: the bytes after the first g of the stream are in memory from position at
\* up to before end.
Reception(rx) ==
  /\ rx.first \in Decoders /\ rx.bytes \in Seq(Bytes) /\ rx.got \in Nat
  /\ rx.at \in 0 .. BufSize /\ rx.end \in rx.at .. BufSize
  /\ rx.got + (rx.end - rx.at) <= Len(rx.bytes)

\* The reference filter when the parser stands at position k.
Seen(rx, k) == Decode(rx.first, rx.bytes)[rx.got + (k - rx.at)]

\* The filter takes the byte at the parser's position.
LEMMA SeenNext ==
  ASSUME NEW rx, Reception(rx), NEW k \in rx.at .. rx.end - 1
  PROVE  /\ Seen(rx, k) \in Decoders
         /\ Seen(rx, k + 1) \in Decoders
         /\ rx.bytes[rx.got + (k - rx.at) + 1] \in Bytes
         /\ Seen(rx, k + 1) = DecodeByte(Seen(rx, k), rx.bytes[rx.got + (k - rx.at) + 1])
  <1>0. /\ rx.got \in Nat /\ rx.at \in Int /\ rx.end \in Int /\ Len(rx.bytes) \in Nat
        /\ rx.got + (rx.end - rx.at) <= Len(rx.bytes)
    BY InputConstants DEF Reception
  <1>j. PICK j : j = rx.got + (k - rx.at)
    OBVIOUS
  <1>1. /\ j \in 0 .. Len(rx.bytes) /\ j + 1 \in 1 .. Len(rx.bytes) /\ (j + 1) - 1 = j
        /\ rx.got + ((k + 1) - rx.at) = j + 1
    <2>1. PICK g, at, end, len : g = rx.got /\ at = rx.at /\ end = rx.end /\ len = Len(rx.bytes)
      BY Zenon
    <2>2. /\ g \in Nat /\ at \in Int /\ end \in Int /\ len \in Nat /\ k \in Int
          /\ g + (end - at) <= len /\ at <= k /\ k < end /\ j = g + (k - at)
      BY <1>0, <1>j, <2>1
    <2>3. /\ j \in 0 .. len /\ j + 1 \in 1 .. len /\ (j + 1) - 1 = j
          /\ g + ((k + 1) - at) = j + 1
      BY <2>2
    <2> QED BY <2>1, <2>3
  <1>2. rx.first \in Decoders /\ rx.bytes \in Seq(Bytes) /\ Len(rx.bytes) \in Nat
    BY DEF Reception
  <1>3. Decode(rx.first, rx.bytes)[j] \in Decoders /\ Decode(rx.first, rx.bytes)[j + 1] \in Decoders /\ rx.bytes[j + 1] \in Bytes
    BY <1>1, <1>2, DecodeTyped
  <1>4. Decode(rx.first, rx.bytes)[j + 1] = DecodeByte(Decode(rx.first, rx.bytes)[j], rx.bytes[j + 1])
    BY <1>1, <1>2, DecodeSteps
  <1>5. /\ Seen(rx, k) = Decode(rx.first, rx.bytes)[j] /\ Seen(rx, k + 1) = Decode(rx.first, rx.bytes)[j + 1]
        /\ rx.bytes[rx.got + (k - rx.at) + 1] = rx.bytes[j + 1]
    BY <1>1, <1>j DEF Seen
  <1> QED BY <1>3, <1>4, <1>5

InBounds(p, rx) == p \in Parsers /\ p.r \in rx.at .. rx.end /\ p.w \in rx.at .. p.r

\* The parser has made of the bytes before its position what the reference filter has.
Full(p, rx) == p.len = (rx.end - p.r) + (p.w - rx.at)
Agrees(p, rx) ==
  LET d == Seen(rx, p.r)
  IN  /\ Full(p, rx) /\ p.inc = 0
      /\ \A i \in p.r .. rx.end - 1 : p.mem[i] = rx.bytes[rx.got + (i - rx.at) + 1]
      /\ \A i \in Slots : i \notin rx.at .. rx.end - 1 => p.mem[i] = rx.mem[i]
      /\ d.at = "data" /\ d.bin = p.bin /\ d.tx = p.tx
      /\ Holds(d.text, Decode(rx.first, rx.bytes)[rx.got].text, p.mem, rx.at, p.w)

\* The invariant of the parser's loop in a session.
Follows(p, rx) ==
  /\ InBounds(p, rx)
  /\ p.in /\ ~p.stop => Agrees(p, rx)
  /\ p.in /\ p.stop => Seen(rx, rx.end).at # "data"

\* The parser before a turn.
Working(p, rx) == Reception(rx) /\ Follows(p, rx) /\ ~p.stop /\ p.r < rx.end

\* What is known before a turn, ...
LEMMA AtHand ==
  ASSUME NEW rx, NEW p, Working(p, rx)
  PROVE  /\ rx.at \in Int /\ rx.end \in Int /\ 0 <= rx.at /\ rx.end <= BufSize /\ BufSize \in Nat
         /\ p \in Parsers /\ p.mem \in Memory /\ p.r \in Int /\ p.w \in Int /\ p.len \in Int
         /\ rx.at <= p.w /\ p.w <= p.r /\ p.r < rx.end
         /\ p.in => Agrees(p, rx)
  <1>1. Reception(rx) /\ InBounds(p, rx) /\ p.r < rx.end /\ (p.in => Agrees(p, rx))
    BY Zenon DEF Working, Follows
  <1>2. BufSize \in Nat /\ rx.at \in Int /\ rx.end \in Int /\ 0 <= rx.at /\ rx.end <= BufSize
    BY <1>1, InputConstants DEF Reception
  <1>3. p \in Parsers /\ p.r \in rx.at .. rx.end /\ p.w \in rx.at .. p.r
    BY <1>1, Zenon DEF InBounds
  <1>4. p.mem \in Memory /\ p.r \in Int /\ p.w \in Int /\ p.len \in Int
    BY <1>3, ParserFields, Zenon
  <1>5. rx.at <= p.w /\ p.w <= p.r
    BY <1>2, <1>3, <1>4
  <1> QED BY <1>1, <1>2, <1>3, <1>4, <1>5, Zenon

\* ... the bytes to come among it: they are those of the stream.
LEMMA Ahead ==
  ASSUME NEW rx, NEW p, Working(p, rx), NEW k \in Int, p.r <= k, k < rx.end
  PROVE  /\ p.mem[k] \in Bytes
         /\ p.in => Seen(rx, k) \in Decoders /\ Seen(rx, k + 1) = DecodeByte(Seen(rx, k), p.mem[k])
  <1>1. /\ rx.at \in Int /\ rx.end \in Int /\ 0 <= rx.at /\ rx.end <= BufSize /\ BufSize \in Nat
        /\ p.mem \in Memory /\ p.r \in Int /\ rx.at <= p.r /\ (p.in => Agrees(p, rx))
    BY AtHand
  <1>2. k \in -2 .. BufSize + 2 /\ k \in p.r .. rx.end - 1 /\ k \in rx.at .. rx.end - 1
    BY <1>1
  <1>3. p.mem[k] \in Bytes
    BY <1>1, <1>2, Zenon DEF Memory
  <1>4. ASSUME p.in
        PROVE  Seen(rx, k) \in Decoders /\ Seen(rx, k + 1) = DecodeByte(Seen(rx, k), p.mem[k])
    <2>1. p.mem[k] = rx.bytes[rx.got + (k - rx.at) + 1]
      BY <1>1, <1>2, <1>4, Zenon DEF Agrees
    <2>2. Reception(rx)
      BY Zenon DEF Working
    <2> QED BY <1>2, <2>1, <2>2, SeenNext, Zenon
  <1> QED BY <1>3, <1>4, Zenon

\* What a turn leaves is what the filter, in d before it and in e after it, has.
Matches(p, q, d, e, kept) ==
  /\ q.inc = 0 /\ e.at = "data" /\ e.bin = q.bin /\ e.tx = q.tx
  /\ \/ kept = 0 /\ q.mem = p.mem /\ e.text = d.text
     \/ kept = 1 /\ \E c \in Bytes : q.mem = [p.mem EXCEPT ![p.w] = c] /\ e.text = Append(d.text, c)

\* A turn that takes k bytes of the reception.
Takes(p, q, rx, k, kept) ==
  /\ Working(p, rx) /\ Turned(p, q, k, kept)
  /\ k \in 1 .. 3 /\ kept \in 0 .. 1 /\ p.r + k <= rx.end

\* Where a turn leaves the parser.
LEMMA Moved ==
  ASSUME NEW rx, NEW p, NEW q, NEW k, NEW kept, Takes(p, q, rx, k, kept)
  PROVE  /\ InBounds(q, rx) /\ q.r = p.r + k /\ q.w = p.w + kept /\ p.r < q.r /\ p.w < q.r
         /\ Full(p, rx) => Full(q, rx)
  <1>1. /\ rx.at \in Int /\ rx.end \in Int /\ p.r \in Int /\ p.w \in Int /\ p.len \in Int
        /\ rx.at <= p.w /\ p.w <= p.r
    BY AtHand, Zenon DEF Takes
  <1>2. /\ q \in Parsers /\ q.r = p.r + k /\ q.w = p.w + kept /\ q.len = p.len - (k - kept)
        /\ k \in 1 .. 3 /\ kept \in 0 .. 1 /\ p.r + k <= rx.end
    BY Zenon DEF Takes, Turned
  <1>3. PICK at, end, r, w, len : at = rx.at /\ end = rx.end /\ r = p.r /\ w = p.w /\ len = p.len
    BY Zenon
  <1>4. /\ at \in Int /\ end \in Int /\ r \in Int /\ w \in Int /\ len \in Int /\ at <= w /\ w <= r
        /\ r + k <= end /\ k \in 1 .. 3 /\ kept \in 0 .. 1
    BY <1>1, <1>2, <1>3, Zenon
  <1>5. /\ r + k \in at .. end /\ w + kept \in at .. r + k /\ r < r + k /\ w < r + k
        /\ len = (end - r) + (w - at) => len - (k - kept) = (end - (r + k)) + ((w + kept) - at)
    BY <1>4
  <1> QED BY <1>2, <1>3, <1>5, Zenon DEF InBounds, Full

\* The text that the parser has kept after a turn.
LEMMA TextAfter ==
  ASSUME NEW rx, NEW p, NEW q, NEW d, NEW e, NEW kept, Working(p, rx), p.in,
         d = Seen(rx, p.r), q.w = p.w + kept, Matches(p, q, d, e, kept)
  PROVE  Holds(e.text, Decode(rx.first, rx.bytes)[rx.got].text, q.mem, rx.at, q.w)
  <1>1. PICK base : base = Decode(rx.first, rx.bytes)[rx.got].text
    BY Zenon
  <1>2. /\ rx.at \in Int /\ rx.end \in Int /\ 0 <= rx.at /\ rx.end <= BufSize /\ BufSize \in Nat
        /\ p.mem \in Memory /\ p.r \in Int /\ p.w \in Int /\ rx.at <= p.w /\ p.w <= p.r /\ p.r < rx.end
        /\ Agrees(p, rx)
    BY AtHand
  <1>3. Holds(d.text, base, p.mem, rx.at, p.w)
    BY <1>1, <1>2, Zenon DEF Agrees
  <1>4. d.text \in Seq(Bytes)
    <2>1. Seen(rx, p.r) \in Decoders
      <3>1. p.r <= p.r
        BY <1>2
      <3> QED BY <1>2, <3>1, Ahead, Zenon
    <2> QED BY <2>1, Zenon DEF Decoders
  <1>5. base \in Seq(Bytes)
    <2>1. Reception(rx)
      BY Zenon DEF Working
    <2>2. rx.first \in Decoders /\ rx.bytes \in Seq(Bytes) /\ rx.got \in 0 .. Len(rx.bytes)
      BY <1>2, <2>1 DEF Reception
    <2>3. Decode(rx.first, rx.bytes)[rx.got] \in Decoders
      BY <2>2, DecodeTyped, Zenon
    <2> QED BY <1>1, <2>3, Zenon DEF Decoders
  <1>6. CASE kept = 0
    <2>1. q.mem = p.mem /\ e.text = d.text
      BY <1>6, SMT DEF Matches
    <2>2. q.w = p.w
      BY <1>2, <1>6
    <2> QED BY <1>1, <1>3, <2>1, <2>2, Zenon
  <1>7. CASE kept = 1
    <2>1. PICK c \in Bytes : q.mem = [p.mem EXCEPT ![p.w] = c] /\ e.text = Append(d.text, c)
      BY <1>7, SMT DEF Matches
    <2>2. rx.at \in 0 .. BufSize /\ p.w \in rx.at .. BufSize
      BY <1>2
    <2>3. Holds(Append(d.text, c), base, q.mem, rx.at, p.w + 1)
      BY <1>2, <1>3, <1>4, <1>5, <2>1, <2>2, HoldsMore, ZenonT(30)
    <2> QED BY <1>1, <1>7, <2>1, <2>3, Zenon
  <1> QED BY <1>6, <1>7, Zenon DEF Matches

\* A turn that does to the text what the filter does preserves the loop's invariant.
LEMMA Advance ==
  ASSUME NEW rx, NEW p, NEW q, NEW k, NEW kept, Takes(p, q, rx, k, kept),
         p.in => Matches(p, q, Seen(rx, p.r), Seen(rx, p.r + k), kept)
  PROVE  Follows(q, rx) /\ p.r < q.r
  <1>1. /\ InBounds(q, rx) /\ q.r = p.r + k /\ q.w = p.w + kept /\ p.r < q.r /\ p.w < q.r
        /\ Full(p, rx) => Full(q, rx)
    BY Moved, Zenon
  <1>2. q.stop = p.stop /\ q.in = p.in /\ ~p.stop /\ Working(p, rx)
    BY Zenon DEF Takes, Turned, Working
  <1>3. ASSUME p.in PROVE Agrees(q, rx)
    <2>1. PICK d, e : d = Seen(rx, p.r) /\ e = Seen(rx, q.r)
      BY Zenon
    <2>2. Matches(p, q, d, e, kept)
      BY <1>1, <1>3, <2>1, Zenon
    <2>3. Holds(e.text, Decode(rx.first, rx.bytes)[rx.got].text, q.mem, rx.at, q.w)
      BY <1>1, <1>2, <1>3, <2>1, <2>2, TextAfter, Zenon
    <2>4. /\ rx.at \in Int /\ rx.end \in Int /\ 0 <= rx.at /\ rx.end <= BufSize /\ BufSize \in Nat
          /\ p.mem \in Memory /\ p.r \in Int /\ p.w \in Int /\ rx.at <= p.w /\ p.w <= p.r
          /\ p.r < rx.end /\ q.r \in Int /\ Agrees(p, rx)
      <3>1. q.r \in Int
        BY <1>1, ParserFields, Zenon DEF InBounds
      <3> QED BY <1>2, <1>3, <3>1, AtHand, Zenon
    <2>5. \A i \in -2 .. BufSize + 2 : i # p.w => q.mem[i] = p.mem[i]
      BY <2>2, <2>4, Zenon DEF Matches, Memory
    <2>6. ASSUME NEW i \in q.r .. rx.end - 1 PROVE q.mem[i] = rx.bytes[rx.got + (i - rx.at) + 1]
      <3>1. i \in p.r .. rx.end - 1 /\ i # p.w /\ i \in -2 .. BufSize + 2
        BY <1>1, <2>4
      <3>2. p.mem[i] = rx.bytes[rx.got + (i - rx.at) + 1]
        BY <2>4, <3>1, Zenon DEF Agrees
      <3> QED BY <2>5, <3>1, <3>2, Zenon
    <2>7. ASSUME NEW i \in Slots, i \notin rx.at .. rx.end - 1 PROVE q.mem[i] = rx.mem[i]
      <3>1. i # p.w /\ i \in -2 .. BufSize + 2
        BY <2>4, <2>7 DEF Slots
      <3>2. p.mem[i] = rx.mem[i]
        BY <2>4, <2>7, Zenon DEF Agrees
      <3> QED BY <2>5, <3>1, <3>2, Zenon
    <2>8. Full(q, rx)
      BY <1>1, <2>4, Zenon DEF Agrees
    <2>9. q.inc = 0 /\ e.at = "data" /\ e.bin = q.bin /\ e.tx = q.tx
      BY <2>2, Zenon DEF Matches
    <2> QED BY <2>1, <2>3, <2>6, <2>7, <2>8, <2>9, Zenon DEF Agrees
  <1> QED BY <1>1, <1>2, <1>3, Zenon DEF Follows

\* The filter before a turn has the parser's state, ...
LEMMA InStep ==
  ASSUME NEW rx, NEW p, Working(p, rx), p.in, NEW d, d = Seen(rx, p.r)
  PROVE  d \in Decoders /\ d.at = "data" /\ d.bin = p.bin /\ d.tx = p.tx /\ p.inc = 0
  <1>1. p.r \in Int /\ p.r < rx.end /\ Agrees(p, rx)
    BY AtHand, Zenon
  <1>2. p.r <= p.r
    BY <1>1
  <1>3. d \in Decoders
    BY <1>1, <1>2, Ahead, Zenon
  <1> QED BY <1>1, <1>3, Zenon DEF Agrees

\* ... and after an IAC is in a command.
LEMMA Command ==
  ASSUME NEW rx, NEW p, Working(p, rx), p.in, p.mem[p.r] = IAC, NEW d, d = Seen(rx, p.r),
         NEW e, e = Seen(rx, p.r + 1)
  PROVE  /\ d.bin = p.bin /\ d.tx = p.tx
         /\ e \in Decoders /\ e.at = "iac" /\ e.text = d.text /\ e.tx = d.tx /\ e.bin = d.bin
  <1>1. p.r \in Int /\ p.r < rx.end /\ p.r <= p.r
    BY AtHand
  <1>2. e = DecodeByte(d, IAC)
    BY <1>1, Ahead, Zenon
  <1>3. d \in Decoders /\ d.at = "data" /\ d.bin = p.bin /\ d.tx = p.tx
    BY InStep
  <1> QED BY <1>2, <1>3, DecodeMark, Zenon

\* The turns preserve the loop's invariant: a character that is kept, ...
LEMMA KeepFollows ==
  ASSUME NEW rx, NEW p, NEW q, NEW c, Working(p, rx), c = p.mem[p.r], c # IAC,
         p.in => Plain(p, c), q = Keep(p, c)
  PROVE  Follows(q, rx) /\ p.r < q.r
  <1>1. p \in Parsers /\ p.r \in Int /\ p.r < rx.end /\ p.r + 1 <= rx.end /\ p.r <= p.r
    BY AtHand
  <1>2. c \in Bytes
    BY <1>1, Ahead, Zenon
  <1>3. Turned(p, q, 1, 1) /\ q.mem = [p.mem EXCEPT ![p.w] = c] /\ q.inc = p.inc /\ q.bin = p.bin /\ q.tx = p.tx
    BY <1>1, <1>2, TurnKeeps
  <1>4. ASSUME p.in PROVE Matches(p, q, Seen(rx, p.r), Seen(rx, p.r + 1), 1)
    <2>1. PICK d, e : d = Seen(rx, p.r) /\ e = Seen(rx, p.r + 1)
      BY Zenon
    <2>2. d \in Decoders /\ d.at = "data" /\ d.bin = p.bin /\ d.tx = p.tx /\ p.inc = 0
      BY <1>4, <2>1, InStep
    <2>3. e = DecodeByte(d, c) /\ Plain(d, c)
      BY <1>1, <1>4, <2>1, <2>2, Ahead, ZenonT(30) DEF Plain
    <2>4. e.at = "data" /\ e.text = Append(d.text, c) /\ e.tx = d.tx /\ e.bin = d.bin
      BY <1>2, <2>2, <2>3, DecodeText, Zenon
    <2> QED BY <1>2, <1>3, <2>1, <2>2, <2>4, Zenon DEF Matches
  <1>5. Takes(p, q, rx, 1, 1)
    <2>1. 1 \in 1 .. 3 /\ 1 \in 0 .. 1
      OBVIOUS
    <2> QED BY <1>1, <1>3, <2>1, Zenon DEF Takes
  <1> QED BY <1>4, <1>5, Advance, Zenon

\* ... one that is filtered out, ...
LEMMA DropFollows ==
  ASSUME NEW rx, NEW p, NEW q, NEW c, Working(p, rx), c = p.mem[p.r], c # IAC,
         p.in => ~Plain(p, c), q = Drop(p)
  PROVE  Follows(q, rx) /\ p.r < q.r
  <1>1. p \in Parsers /\ p.r \in Int /\ p.r < rx.end /\ p.r + 1 <= rx.end /\ p.r <= p.r
    BY AtHand
  <1>2. Turned(p, q, 1, 0) /\ q.mem = p.mem /\ q.inc = p.inc /\ q.bin = p.bin /\ q.tx = p.tx
    BY <1>1, TurnDrops, Zenon
  <1>3. ASSUME p.in PROVE Matches(p, q, Seen(rx, p.r), Seen(rx, p.r + 1), 0)
    <2>1. PICK d, e : d = Seen(rx, p.r) /\ e = Seen(rx, p.r + 1)
      BY Zenon
    <2>2. d \in Decoders /\ d.at = "data" /\ d.bin = p.bin /\ d.tx = p.tx /\ p.inc = 0
      BY <1>3, <2>1, InStep
    <2>3. e = DecodeByte(d, c) /\ ~Plain(d, c)
      BY <1>1, <1>3, <2>1, <2>2, Ahead, ZenonT(30) DEF Plain
    <2>4. e.at = "data" /\ e.text = d.text /\ e.tx = d.tx /\ e.bin = d.bin
      BY <2>2, <2>3, DecodeFilter
    <2> QED BY <1>2, <2>1, <2>2, <2>4, Zenon DEF Matches
  <1>4. Takes(p, q, rx, 1, 0)
    <2>1. 1 \in 1 .. 3 /\ 0 \in 0 .. 1
      OBVIOUS
    <2> QED BY <1>1, <1>2, <2>1, Zenon DEF Takes
  <1> QED BY <1>3, <1>4, Advance, Zenon

\* ... the one that ends the session, ...
LEMMA QuitFollows ==
  ASSUME NEW rx, NEW p, NEW q, Working(p, rx), q = Quit(p, CHAR_CTRL_D)
  PROVE  Follows(q, rx) /\ p.r < q.r
  <1>1. /\ p \in Parsers /\ rx.at \in Int /\ rx.end \in Int /\ p.r \in Int /\ p.w \in Int
        /\ rx.at <= p.w /\ p.w <= p.r /\ p.r < rx.end
    BY AtHand, Zenon
  <1>2. CHAR_CTRL_D \in Bytes
    BY DEF CHAR_CTRL_D, Bytes
  <1>3. q \in Parsers /\ q.w = p.w + 1 /\ q.r = p.r + 1 /\ q.in = FALSE
    BY <1>1, <1>2, TurnEnds, Zenon
  <1>4. q.r \in rx.at .. rx.end /\ q.w \in rx.at .. q.r /\ p.r < q.r
    BY <1>1, <1>3
  <1> QED BY <1>3, <1>4, Zenon DEF Follows, InBounds

\* ... IAC twice, ...
LEMMA UnescapeFollows ==
  ASSUME NEW rx, NEW p, NEW q, Working(p, rx), p.r + 2 <= rx.end, p.mem[p.r] = IAC,
         p.mem[p.r + 1] = IAC, q = Unescaped(p)
  PROVE  Follows(q, rx) /\ p.r < q.r
  <1>1. /\ p \in Parsers /\ p.r + 1 \in Int /\ p.r <= p.r + 1 /\ p.r + 1 < rx.end
        /\ (p.r + 1) + 1 = p.r + 2
    BY AtHand
  <1>2. /\ Turned(p, q, 2, 1) /\ q.mem = [p.mem EXCEPT ![p.w] = IAC] /\ q.inc = 0 /\ q.bin = p.bin
        /\ q.tx = p.tx
    BY <1>1, TurnUnescapes, Zenon
  <1>3. ASSUME p.in PROVE Matches(p, q, Seen(rx, p.r), Seen(rx, p.r + 2), 1)
    <2>1. PICK d, e, f : d = Seen(rx, p.r) /\ e = Seen(rx, p.r + 1) /\ f = Seen(rx, p.r + 2)
      BY Zenon
    <2>2. /\ d.bin = p.bin /\ d.tx = p.tx
          /\ e \in Decoders /\ e.at = "iac" /\ e.text = d.text /\ e.tx = d.tx /\ e.bin = d.bin
      BY <1>3, <2>1, Command
    <2>3. f = DecodeByte(e, IAC) /\ IAC \in Bytes
      BY <1>1, <1>3, <2>1, Ahead
    <2>4. f.at = "data" /\ f.text = Append(e.text, IAC) /\ f.tx = e.tx /\ f.bin = e.bin
      BY <2>2, <2>3, DecodeUnescape, Zenon
    <2>5. f.bin = q.bin /\ f.tx = q.tx /\ f.text = Append(d.text, IAC)
      BY <1>2, <2>2, <2>4, ZenonT(30)
    <2> QED BY <1>2, <2>1, <2>3, <2>4, <2>5, ZenonT(30) DEF Matches
  <1>4. Takes(p, q, rx, 2, 1)
    <2>1. 2 \in 1 .. 3 /\ 1 \in 0 .. 1
      OBVIOUS
    <2> QED BY <1>1, <1>2, <2>1, Zenon DEF Takes
  <1> QED BY <1>3, <1>4, Advance, Zenon

\* ... AYT, ...
LEMMA AnswerFollows ==
  ASSUME NEW rx, NEW p, NEW q, Working(p, rx), p.r + 2 <= rx.end, p.mem[p.r] = IAC,
         p.mem[p.r + 1] = AYT, q = Answered(p)
  PROVE  Follows(q, rx) /\ p.r < q.r
  <1>1. /\ p \in Parsers /\ p.r + 1 \in Int /\ p.r <= p.r + 1 /\ p.r + 1 < rx.end
        /\ (p.r + 1) + 1 = p.r + 2
    BY AtHand
  <1>2. /\ Turned(p, q, 2, 0) /\ q.mem = p.mem /\ q.inc = 0 /\ q.bin = p.bin
        /\ p.in => q.tx = p.tx \o Here
    BY <1>1, TurnAnswers, Zenon
  <1>3. ASSUME p.in PROVE Matches(p, q, Seen(rx, p.r), Seen(rx, p.r + 2), 0)
    <2>1. PICK d, e, f : d = Seen(rx, p.r) /\ e = Seen(rx, p.r + 1) /\ f = Seen(rx, p.r + 2)
      BY Zenon
    <2>2. /\ d.bin = p.bin /\ d.tx = p.tx
          /\ e \in Decoders /\ e.at = "iac" /\ e.text = d.text /\ e.tx = d.tx /\ e.bin = d.bin
      BY <1>3, <2>1, Command
    <2>3. f = DecodeByte(e, AYT)
      BY <1>1, <1>3, <2>1, Ahead, Zenon
    <2>4. f.at = "data" /\ f.text = e.text /\ f.tx = e.tx \o Here /\ f.bin = e.bin
      BY <2>2, <2>3, DecodeAYT, Zenon
    <2>5. f.bin = q.bin /\ f.tx = q.tx /\ f.text = d.text
      BY <1>2, <1>3, <2>2, <2>4
    <2> QED BY <1>2, <2>1, <2>4, <2>5, Zenon DEF Matches
  <1>4. Takes(p, q, rx, 2, 0)
    <2>1. 2 \in 1 .. 3 /\ 0 \in 0 .. 1
      OBVIOUS
    <2> QED BY <1>1, <1>2, <2>1, Zenon DEF Takes
  <1> QED BY <1>3, <1>4, Advance, Zenon

\* The filter after IAC and a verb.
LEMMA Option ==
  ASSUME NEW rx, NEW p, Working(p, rx), p.in, p.r + 2 <= rx.end, p.mem[p.r] = IAC,
         NEW verb, verb = p.mem[p.r + 1], verb \notin {IAC, AYT},
         NEW d, d = Seen(rx, p.r), NEW e, e = Seen(rx, p.r + 2)
  PROVE  /\ d.bin = p.bin /\ d.tx = p.tx
         /\ e \in Decoders /\ e.at = "verb" /\ e.verb = verb /\ e.text = d.text /\ e.tx = d.tx
         /\ e.bin = d.bin
  <1>1. p.r + 1 \in Int /\ p.r <= p.r + 1 /\ p.r + 1 < rx.end /\ (p.r + 1) + 1 = p.r + 2
    BY AtHand
  <1>2. PICK f : f = Seen(rx, p.r + 1)
    BY Zenon
  <1>3. /\ d.bin = p.bin /\ d.tx = p.tx
        /\ f \in Decoders /\ f.at = "iac" /\ f.text = d.text /\ f.tx = d.tx /\ f.bin = d.bin
    BY <1>2, Command
  <1>4. verb \in Bytes /\ e = DecodeByte(f, verb)
    BY <1>1, <1>2, Ahead, Zenon
  <1>5. e \in Decoders /\ e.at = "verb" /\ e.verb = verb /\ e.text = f.text /\ e.tx = f.tx /\ e.bin = f.bin
    BY <1>3, <1>4, DecodeVerb
  <1> QED BY <1>3, <1>5, Zenon

\* ... TRANSMIT_BINARY, ...
LEMMA ReplyFollows ==
  ASSUME NEW rx, NEW p, NEW q, Working(p, rx), p.r + 3 <= rx.end, p.mem[p.r] = IAC,
         NEW verb, verb = p.mem[p.r + 1], verb \notin {IAC, AYT}, p.mem[p.r + 2] = TRANSMIT_BINARY,
         q = Replied(p, verb)
  PROVE  Follows(q, rx) /\ p.r < q.r
  <1>1. /\ p \in Parsers /\ p.r + 1 \in Int /\ p.r + 2 \in Int /\ p.r <= p.r + 1 /\ p.r <= p.r + 2
        /\ p.r + 1 < rx.end /\ p.r + 2 < rx.end /\ p.r + 2 <= rx.end /\ (p.r + 2) + 1 = p.r + 3
    BY AtHand
  <1>2. Reply(verb) \in Seq(Bytes)
    <2>1. verb \in Bytes
      BY <1>1, Ahead, Zenon
    <2>2. verb # IAC
      BY Zenon
    <2> QED BY <2>1, <2>2, NotIAC, ReplyTyped, Zenon
  <1>3. /\ Turned(p, q, 3, 0) /\ q.mem = p.mem /\ q.inc = 0 /\ q.bin = Mode(verb, p.bin)
        /\ p.in => q.tx = p.tx \o Reply(verb)
    BY <1>1, <1>2, TurnReplies, ZenonT(30)
  <1>4. ASSUME p.in PROVE Matches(p, q, Seen(rx, p.r), Seen(rx, p.r + 3), 0)
    <2>1. PICK d, e, f : d = Seen(rx, p.r) /\ e = Seen(rx, p.r + 2) /\ f = Seen(rx, p.r + 3)
      BY Zenon
    <2>2. /\ d.bin = p.bin /\ d.tx = p.tx
          /\ e \in Decoders /\ e.at = "verb" /\ e.verb = verb /\ e.text = d.text /\ e.tx = d.tx
          /\ e.bin = d.bin
      BY <1>1, <1>4, <2>1, Option
    <2>3. f = DecodeByte(e, TRANSMIT_BINARY)
      BY <1>1, <1>4, <2>1, Ahead, Zenon
    <2>4. /\ f.at = "data" /\ f.text = e.text /\ f.tx = e.tx \o Reply(e.verb)
          /\ f.bin = Mode(e.verb, e.bin)
      BY <2>2, <2>3, DecodeReply, Zenon
    <2>5. f.bin = q.bin /\ f.tx = q.tx /\ f.text = d.text
      BY <1>3, <1>4, <2>2, <2>4, ZenonT(30)
    <2> QED BY <1>3, <2>1, <2>4, <2>5, Zenon DEF Matches
  <1>5. Takes(p, q, rx, 3, 0)
    <2>1. 3 \in 1 .. 3 /\ 0 \in 0 .. 1
      OBVIOUS
    <2> QED BY <1>1, <1>3, <2>1, Zenon DEF Takes
  <1> QED BY <1>4, <1>5, Advance, Zenon

\* ... another option, ...
LEMMA SkipFollows ==
  ASSUME NEW rx, NEW p, NEW q, Working(p, rx), p.r + 3 <= rx.end, p.mem[p.r] = IAC,
         NEW verb, verb = p.mem[p.r + 1], verb \notin {IAC, AYT}, p.mem[p.r + 2] # TRANSMIT_BINARY,
         q = Skipped(p)
  PROVE  Follows(q, rx) /\ p.r < q.r
  <1>1. /\ p \in Parsers /\ p.r + 2 \in Int /\ p.r <= p.r + 2
        /\ p.r + 2 < rx.end /\ p.r + 2 <= rx.end /\ (p.r + 2) + 1 = p.r + 3
    BY AtHand
  <1>2. Turned(p, q, 3, 0) /\ q.mem = p.mem /\ q.inc = 0 /\ q.bin = p.bin /\ q.tx = p.tx
    BY <1>1, TurnSkips, Zenon
  <1>3. ASSUME p.in PROVE Matches(p, q, Seen(rx, p.r), Seen(rx, p.r + 3), 0)
    <2>1. PICK d, e, f : d = Seen(rx, p.r) /\ e = Seen(rx, p.r + 2) /\ f = Seen(rx, p.r + 3)
      BY Zenon
    <2>2. /\ d.bin = p.bin /\ d.tx = p.tx
          /\ e \in Decoders /\ e.at = "verb" /\ e.verb = verb /\ e.text = d.text /\ e.tx = d.tx
          /\ e.bin = d.bin
      BY <1>1, <1>3, <2>1, Option
    <2>3. f = DecodeByte(e, p.mem[p.r + 2])
      BY <1>1, <1>3, <2>1, Ahead, ZenonT(30)
    <2>4. f.at = "data" /\ f.text = e.text /\ f.tx = e.tx /\ f.bin = e.bin
      BY <2>2, <2>3, DecodeOther
    <2> QED BY <1>2, <2>1, <2>2, <2>4 DEF Matches
  <1>4. Takes(p, q, rx, 3, 0)
    <2>1. 3 \in 1 .. 3 /\ 0 \in 0 .. 1
      OBVIOUS
    <2> QED BY <1>1, <1>2, <2>1, Zenon DEF Takes
  <1> QED BY <1>3, <1>4, Advance, Zenon

\* ... and a command that the reception ends in.
LEMMA StopFollows ==
  ASSUME NEW rx, NEW p, NEW q, Working(p, rx), p.mem[p.r] = IAC, NEW left \in Int,
         p.r + 1 = rx.end \/ (p.r + 2 = rx.end /\ p.mem[p.r + 1] \notin {IAC, AYT}),
         q = Stopped(p, left)
  PROVE  Follows(q, rx) /\ q.stop
  <1>1. p \in Parsers /\ InBounds(p, rx)
    BY AtHand, Zenon DEF Working, Follows
  <1>2. q \in Parsers /\ q.w = p.w /\ q.r = p.r /\ q.stop = TRUE /\ q.in = p.in
    BY <1>1, TurnStops, Zenon
  <1>3. ASSUME p.in PROVE Seen(rx, rx.end).at # "data"
    <2>1. CASE p.r + 1 = rx.end
      <3>1. Seen(rx, p.r + 1).at = "iac"
        BY <1>3, Command, Zenon
      <3> QED BY <2>1, <3>1
    <2>2. CASE p.r + 2 = rx.end /\ p.mem[p.r + 1] \notin {IAC, AYT}
      <3>1. p.r + 2 <= rx.end
        BY <2>2, AtHand
      <3>2. Seen(rx, p.r + 2).at = "verb"
        BY SMTT(30), <1>3, <2>2, <3>1, Option
      <3> QED BY <2>2, <3>2
    <2> QED BY <2>1, <2>2
  <1> QED BY <1>1, <1>2, <1>3, Zenon DEF Follows, InBounds

-----------------------------------------------------------------------------
Filtered(p, c) == ~p.bin /\ (c > 127 \/ c = 0 \/ (p.in /\ c \in {InterruptChar, CHAR_CTRL_F}))

\* Which turn it is: of a character, ...
LEMMA CharTurn ==
  ASSUME NEW p, NEW end, NEW c, c = p.mem[p.r], c # IAC
  PROVE  /\ ~Filtered(p, c) => ParseChar(p, end) = Keep(p, c)
         /\ Filtered(p, c) /\ c = CHAR_CTRL_F =>
              ParseChar(p, end) = Quit(p, CHAR_CTRL_D)
         /\ Filtered(p, c) /\ c # CHAR_CTRL_F => ParseChar(p, end) = Drop(p)
  BY Zenon DEF ParseChar, Filtered, Keep, Quit, Drop

\* ... or of a command.
LEMMA CommandTurn ==
  ASSUME NEW p, NEW end, p.mem[p.r] = IAC, NEW left, left = end - p.r, NEW verb, verb = p.mem[p.r + 1],
         NEW option, option = p.mem[p.r + 2]
  PROVE  /\ left >= 2 /\ verb = IAC =>
              ParseChar(p, end) = Unescaped(p)
         /\ left >= 2 /\ verb = AYT =>
              ParseChar(p, end) = Answered(p)
         /\ left >= 3 /\ verb \notin {IAC, AYT} /\ option = TRANSMIT_BINARY =>
              ParseChar(p, end) = Replied(p, verb)
         /\ left >= 3 /\ verb \notin {IAC, AYT} /\ option # TRANSMIT_BINARY =>
              ParseChar(p, end) = Skipped(p)
         /\ ~(left >= 2 /\ verb \in {IAC, AYT}) /\ ~(left >= 3 /\ verb \notin {IAC, AYT}) =>
              ParseChar(p, end) = Stopped(p, left)
  <1>1. ParseChar(p, end) = ProcessIAC(p, left)
    <2>1. IAC # CHAR_CTRL_F
      BY DEF IAC, CHAR_CTRL_F
    <2> QED BY <2>1 DEF ParseChar
  <1>2. IAC # AYT
    BY DEF IAC, AYT
  <1>3. ASSUME left >= 2, verb = IAC
        PROVE  ProcessIAC(p, left) = Unescaped(p)
    BY <1>2, <1>3, ZenonT(30) DEF ProcessIAC, Unescaped
  <1>4. ASSUME left >= 2, verb = AYT
        PROVE  ProcessIAC(p, left) = Answered(p)
    BY <1>2, <1>4, ZenonT(30) DEF ProcessIAC, Answered
  <1>5. ASSUME left >= 3, verb \notin {IAC, AYT}, option = TRANSMIT_BINARY
        PROVE  ProcessIAC(p, left) = Replied(p, verb)
    BY <1>2, <1>5, ZenonT(30) DEF ProcessIAC, Skipped, Reply, Replied
  <1>6. ASSUME left >= 3, verb \notin {IAC, AYT}, option # TRANSMIT_BINARY
        PROVE  ProcessIAC(p, left) = Skipped(p)
    BY <1>2, <1>6, ZenonT(30) DEF ProcessIAC, Skipped
  <1>7. ASSUME ~(left >= 2 /\ verb \in {IAC, AYT}), ~(left >= 3 /\ verb \notin {IAC, AYT})
        PROVE  ProcessIAC(p, left) = Stopped(p, left)
    BY <1>7, ZenonT(30) DEF ProcessIAC, Stopped
  <1> QED BY <1>1, <1>3, <1>4, <1>5, <1>6, <1>7, ZenonT(30)

\* A turn preserves the loop's invariant, on a character ...
LEMMA CharFollows ==
  ASSUME NEW rx, NEW p, NEW q, Working(p, rx), p.mem[p.r] # IAC, q = ParseChar(p, rx.end)
  PROVE  Follows(q, rx) /\ p.r < q.r
  <1>c. PICK c : c = p.mem[p.r] /\ c # IAC
    BY Zenon
  <1>1. p \in Parsers /\ p.r \in Int /\ p.r < rx.end /\ p.r <= p.r
    BY AtHand
  <1>2. c \in Bytes
    BY <1>1, <1>c, Ahead, Zenon
  <1>3. p.in \in BOOLEAN /\ p.bin \in BOOLEAN
    BY <1>1, ParserFields, Zenon
  <1>4. p.in /\ c # CHAR_CTRL_F => (Plain(p, c) <=> ~Filtered(p, c))
    BY <1>2, <1>3 DEF Plain, Filtered, InterruptChar, CHAR_CTRL_F, Bytes
  <1>5. p.in /\ c = CHAR_CTRL_F /\ ~Filtered(p, c) => Plain(p, c)
    BY <1>2, <1>3 DEF Plain, Filtered, InterruptChar, CHAR_CTRL_F, Bytes
  <1>6. CASE ~Filtered(p, c)
    <2>1. q = Keep(p, c)
      BY <1>6, <1>c, CharTurn, Zenon
    <2> QED BY <1>4, <1>5, <1>6, <1>c, <2>1, KeepFollows, Zenon
  <1>7. CASE Filtered(p, c) /\ c = CHAR_CTRL_F
    <2>1. q = Quit(p, CHAR_CTRL_D)
      BY <1>7, <1>c, CharTurn, Zenon
    <2> QED BY <2>1, QuitFollows, Zenon
  <1>8. CASE Filtered(p, c) /\ c # CHAR_CTRL_F
    <2>1. q = Drop(p)
      BY <1>8, <1>c, CharTurn, Zenon
    <2> QED BY <1>4, <1>8, <1>c, <2>1, DropFollows, Zenon
  <1> QED BY <1>6, <1>7, <1>8, Zenon

\* ... and on a command.
LEMMA CommandFollows ==
  ASSUME NEW rx, NEW p, NEW q, Working(p, rx), p.mem[p.r] = IAC, q = ParseChar(p, rx.end)
  PROVE  Follows(q, rx) /\ (q.stop \/ p.r < q.r)
  <1>v. PICK verb, option, left : verb = p.mem[p.r + 1] /\ option = p.mem[p.r + 2] /\ left = rx.end - p.r
    BY Zenon
  <1>1. /\ left \in Int /\ (left >= 2 <=> p.r + 2 <= rx.end) /\ (left >= 3 <=> p.r + 3 <= rx.end)
        /\ ~(left >= 2) => p.r + 1 = rx.end
        /\ ~(left >= 3) => p.r + 1 = rx.end \/ p.r + 2 = rx.end
    <2>1. rx.end \in Int /\ p.r \in Int /\ p.r < rx.end
      BY AtHand, Zenon
    <2> QED BY <1>v, <2>1
  <1>2. CASE left >= 2 /\ verb = IAC
    <2>1. q = Unescaped(p)
      BY <1>2, <1>v, CommandTurn, Zenon
    <2> QED BY <1>1, <1>2, <1>v, <2>1, UnescapeFollows, Zenon
  <1>3. CASE left >= 2 /\ verb = AYT
    <2>1. q = Answered(p)
      BY <1>3, <1>v, CommandTurn, Zenon
    <2> QED BY <1>1, <1>3, <1>v, <2>1, AnswerFollows, Zenon
  <1>4. CASE left >= 3 /\ verb \notin {IAC, AYT} /\ option = TRANSMIT_BINARY
    <2>1. q = Replied(p, verb)
      BY <1>4, <1>v, CommandTurn, Zenon
    <2> QED BY <1>1, <1>4, <1>v, <2>1, ReplyFollows, Zenon
  <1>5. CASE left >= 3 /\ verb \notin {IAC, AYT} /\ option # TRANSMIT_BINARY
    <2>1. q = Skipped(p)
      BY <1>5, <1>v, CommandTurn, Zenon
    <2> QED BY <1>1, <1>5, <1>v, <2>1, SkipFollows, Zenon
  <1>6. CASE ~(left >= 2 /\ verb \in {IAC, AYT}) /\ ~(left >= 3 /\ verb \notin {IAC, AYT})
    <2>1. q = Stopped(p, left)
      BY <1>6, <1>v, CommandTurn, Zenon
    <2>2. p.r + 1 = rx.end \/ (p.r + 2 = rx.end /\ p.mem[p.r + 1] \notin {IAC, AYT})
      BY <1>1, <1>6, <1>v, Zenon
    <2> QED BY <1>1, <2>1, <2>2, StopFollows, Zenon
  <1>7. left >= 3 => left >= 2
    BY <1>1
  <1> QED BY <1>2, <1>3, <1>4, <1>5, <1>6, <1>7, Zenon

\* The loop ends with all bytes taken, or inside a command.
LEMMA ParseFollows ==
  ASSUME NEW rx, Reception(rx), NEW p, NEW q,
         Follows(p, rx), p.r = rx.at, q = Parse(p, rx.end)
  PROVE  Follows(q, rx) /\ (q.stop \/ q.r = rx.end)
  <1>n. PICK N : N = rx.end - rx.at
    OBVIOUS
  <1>1. BufSize \in Nat /\ rx.at \in Int /\ rx.end \in Int /\ rx.at <= rx.end /\ N \in Nat
    BY <1>n, InputConstants DEF Reception
  <1>2. PICK f : f[0] = p /\ (\A k \in 1 .. N : f[k] = Turn(f[k - 1], rx.end)) /\ q = f[N]
    <2>1. rx.end - p.r \in Nat /\ N = rx.end - p.r
      BY <1>1, <1>n
    <2>2. \E f : /\ f[0] = p
                 /\ \A k \in 1 .. rx.end - p.r : f[k] = Turn(f[k - 1], rx.end)
                 /\ Parse(p, rx.end) = f[rx.end - p.r]
      BY <2>1, ParseTurns
    <2> QED BY <2>1, <2>2
  <1> DEFINE Done(k) == Follows(f[k], rx) /\ (f[k].stop \/ f[k].r >= rx.at + k)
             S == {k \in 0 .. N : Done(k)}
  <1>3. 0 \in S
    BY <1>1, <1>2
  <1>4. ASSUME NEW k \in 0 .. N - 1, k \in S PROVE k + 1 \in S
    <2>1. k + 1 \in 1 .. N /\ (k + 1) - 1 = k /\ k \in Int
      BY <1>1
    <2>2. PICK x : x = f[k]
      OBVIOUS
    <2>3. PICK y : y = f[k + 1]
      OBVIOUS
    <2>4. y = Turn(x, rx.end)
      BY <1>2, <2>1, <2>2, <2>3
    <2>5. Follows(x, rx) /\ (x.stop \/ x.r >= rx.at + k)
      BY <1>4, <2>2
    <2>6. InBounds(x, rx) /\ x.stop \in BOOLEAN /\ x.r \in Int
      BY <2>5, ParserFields DEF Follows, InBounds
    <2>7. Follows(y, rx) /\ (y.stop \/ y.r >= rx.at + (k + 1))
      <3>1. CASE x.stop
        <4>1. y = x
          BY <2>4, <3>1 DEF Turn
        <4> QED BY <2>5, <3>1, <4>1
      <3>2. CASE ~x.stop /\ x.r >= rx.end
        <4>1. y = x
          BY <2>4, <3>2 DEF Turn
        <4>2. x.r >= rx.at + (k + 1)
          BY <1>1, <1>n, <2>1, <2>6, <3>2
        <4> QED BY <2>5, <4>1, <4>2
      <3>3. CASE ~x.stop /\ ~(x.r >= rx.end)
        <4>1. y = ParseChar(x, rx.end) /\ x.r < rx.end
          BY <1>1, <2>4, <2>6, <3>3 DEF Turn
        <4>2. Follows(y, rx) /\ (y.stop \/ x.r < y.r)
          <5>0. Working(x, rx)
            BY <2>5, <3>3, <4>1, Zenon DEF Working
          <5>1. CASE x.mem[x.r] = IAC
            BY <4>1, <5>0, <5>1, CommandFollows, Zenon
          <5>2. CASE x.mem[x.r] # IAC
            BY <4>1, <5>0, <5>2, CharFollows, Zenon
          <5> QED BY <5>1, <5>2
        <4>3. y.r \in Int
          BY <4>2, ParserFields DEF Follows, InBounds
        <4>4. x.r >= rx.at + k
          BY <2>5, <3>3
        <4>5. x.r < y.r => y.r >= rx.at + (k + 1)
          BY <1>1, <2>1, <2>6, <4>3, <4>4
        <4> QED BY <4>2, <4>5
      <3> QED BY <2>6, <3>1, <3>2, <3>3
    <2> QED BY <1>1, <2>1, <2>3, <2>7
  <1>5. 0 .. N \subseteq S
    <2> HIDE DEF S
    <2> QED BY <1>1, <1>3, <1>4, UpTo
  <1>6. Follows(q, rx) /\ (q.stop \/ q.r >= rx.at + N)
    <2>1. N \in S
      <3> HIDE DEF S
      <3> QED BY <1>1, <1>5
    <2> QED BY <1>2, <2>1
  <1>7. q.r \in rx.at .. rx.end
    BY <1>6 DEF Follows, InBounds
  <1> QED BY <1>1, <1>n, <1>6, <1>7

\* The parser's state when telnet_parse_input is called.
Start(mem, at, end, d) ==
  [mem |-> mem, r |-> at, w |-> at, len |-> end - at, inc |-> 0, stop |-> FALSE,
   bin |-> d.bin, in |-> TRUE, tx |-> d.tx]

\* A call of telnet_parse_input in a session, for a reception that does not end inside a command.
Call(rx, p, q, d, e) ==
  /\ Reception(rx) /\ rx.mem \in Memory
  /\ d = Decode(rx.first, rx.bytes)[rx.got] /\ e = Seen(rx, rx.end)
  /\ d.at = "data" /\ e.at = "data"
  /\ \A i \in rx.at .. rx.end - 1 : rx.mem[i] = rx.bytes[rx.got + (i - rx.at) + 1]
  /\ p = Start(rx.mem, rx.at, rx.end, d)
  /\ q = Parse(p, rx.end) /\ q.in

\* It leaves in the buffer what the reference filter makes text of.
LEMMA ParseFaithful ==
  ASSUME NEW rx, NEW p, NEW q, NEW d, NEW e, Call(rx, p, q, d, e)
  PROVE  /\ q \in Parsers /\ q.w \in rx.at .. rx.end /\ q.len = q.w - rx.at /\ q.inc = 0
         /\ \A i \in Slots : i \notin rx.at .. rx.end - 1 => q.mem[i] = rx.mem[i]
         /\ e.bin = q.bin /\ e.tx = q.tx
         /\ Holds(e.text, d.text, q.mem, rx.at, q.w)
  <1>0. Reception(rx)
    BY Zenon DEF Call
  <1>1. /\ BufSize \in Nat /\ rx.at \in Int /\ rx.end \in Int /\ rx.at <= rx.end /\ rx.got + (rx.at - rx.at) = rx.got
        /\ rx.end - rx.at \in Int
    BY SMTT(30), <1>0, InputConstants DEF Reception
  <1>2. d \in Decoders
    <2>1. rx.first \in Decoders /\ rx.bytes \in Seq(Bytes)
      BY Zenon, <1>0 DEF Reception
    <2>2. Len(rx.bytes) \in Nat
      BY <2>1
    <2>3. rx.got \in Nat /\ rx.got + (rx.end - rx.at) <= Len(rx.bytes)
      BY Zenon, <1>0 DEF Reception
    <2>4. rx.got \in 0 .. Len(rx.bytes)
      BY SMTT(30), <1>1, <2>2, <2>3
    <2> QED BY Zenon, <2>1, <2>2, <2>4, DecodeTyped DEF Call
  <1>3. d.bin \in BOOLEAN /\ d.tx \in Seq(Bytes) /\ d.text \in Seq(Bytes)
    BY SMTT(30), <1>2 DEF Decoders
  <1>4. p \in Parsers
    BY SMTT(30), <1>1, <1>3 DEF Start, Parsers, Call
  <1>5. /\ p.mem = rx.mem /\ p.r = rx.at /\ p.w = rx.at /\ p.len = rx.end - rx.at /\ p.inc = 0 /\ p.stop = FALSE
        /\ p.bin = d.bin /\ p.in = TRUE /\ p.tx = d.tx
    BY Zenon DEF Start, Call
  <1>6. InBounds(p, rx)
    BY <1>1, <1>4, <1>5 DEF InBounds
  <1>7. Holds(d.text, d.text, p.mem, rx.at, rx.at)
    BY <1>1, <1>3 DEF Holds
  <1>8. Seen(rx, rx.at) = d
    BY Zenon, <1>1 DEF Seen, Call
  <1>9. Agrees(p, rx)
    <2>1. Full(p, rx)
      BY SMTT(30), <1>1, <1>5 DEF Full
    <2>2. \A i \in p.r .. rx.end - 1 : p.mem[i] = rx.bytes[rx.got + (i - rx.at) + 1]
      <3>1. \A i \in rx.at .. rx.end - 1 : rx.mem[i] = rx.bytes[rx.got + (i - rx.at) + 1]
        BY Zenon DEF Call
      <3>2. p.mem = rx.mem /\ p.r = rx.at
        BY Zenon, <1>5
      <3> QED BY SMTT(30), <3>1, <3>2
    <2>3. Seen(rx, p.r) = d /\ d.at = "data" /\ d.bin = p.bin /\ d.tx = p.tx /\ p.inc = 0
      BY <1>5, <1>8, Zenon DEF Call
    <2>4. \A i \in Slots : i \notin rx.at .. rx.end - 1 => p.mem[i] = rx.mem[i]
      BY <1>5, Zenon
    <2>5. Holds(d.text, Decode(rx.first, rx.bytes)[rx.got].text, p.mem, rx.at, p.w)
      BY <1>5, <1>7, Zenon DEF Call
    <2> QED BY <2>1, <2>2, <2>3, <2>4, <2>5, Zenon DEF Agrees
  <1>10. Follows(p, rx)
    BY Zenon, <1>5, <1>6, <1>9 DEF Follows
  <1>11. Follows(q, rx) /\ (q.stop \/ q.r = rx.end)
    BY SMTT(30), <1>5, <1>10, ParseFollows DEF Call
  <1>12. ~q.stop /\ q.r = rx.end
    BY Zenon, <1>11 DEF Follows, Call
  <1>13. Agrees(q, rx) /\ InBounds(q, rx)
    BY Zenon, <1>11, <1>12 DEF Follows, Call
  <1>14. q \in Parsers /\ q.w \in rx.at .. rx.end
    BY <1>12, <1>13 DEF InBounds
  <1>15. q.len = q.w - rx.at
    <2>1. q.len = (rx.end - q.r) + (q.w - rx.at)
      BY <1>13, Zenon DEF Agrees, Full
    <2>2. q.w \in Int
      BY <1>1, <1>14
    <2> QED BY <1>1, <1>12, <2>1, <2>2
  <1> QED BY <1>12, <1>13, <1>14, <1>15, Zenon DEF Agrees, Call

-----------------------------------------------------------------------------
\* The characters in the buffer, and what MicroPython reads and will read is T.
Count == (rxWindex - rxRindex) % BufSize
Buffered(T) ==
  /\ Len(T) = Len(read) + Count
  /\ \A i \in 1 .. Len(read) : T[i] = read[i]
  /\ \A i \in 1 .. Count : T[Len(read) + i] = rxBuffer[Wrap(rxRindex + i - 1)]

\* A reception of maxLen bytes fits in front of the end of the array, leaves a slot between
\* the last of them and the first unread character, and so never makes a full buffer an
\* empty one, whatever MicroPython reads between the steps of telnet_process.
Room ==
  /\ pc \in {"adj", "recv"} => /\ rxWindex + maxLen <= BufSize
                               /\ rxRindex > rxWindex => rxWindex + maxLen < rxRindex
  /\ pc = "recv" => maxLen > 0 /\ (rxRindex = 0 => rxWindex + maxLen < BufSize)

Session ==
  LET d == Decode(start, sent)[got]
  IN  /\ loggedIn = TRUE
      /\ rxBuffer \in [Slots -> Bytes] /\ rxWindex \in Slots /\ rxRindex \in Slots
      /\ rxIncompleteLen = 0 /\ maxLen \in Int /\ Room
      /\ d.at = "data" /\ d.bin = binary_mode /\ d.tx = tx
      /\ read \in Seq(Bytes) /\ Buffered(Prompt \o d.text)

\* The inductive invariant: until a reception ends inside a command, or the session ends.
InputInv ==
  /\ start \in Decoders /\ sent \in Seq(Bytes) /\ got \in 0 .. Len(sent)
  /\ pc # "idle" => loggedIn
  /\ loggedIn /\ whole => Session

\* The remainders that the indices need.
LEMMA Modulo ==
  ASSUME NEW x \in Int
  PROVE  /\ 0 <= x /\ x < BufSize => x % BufSize = x
         /\ BufSize <= x /\ x < 2 * BufSize => x % BufSize = x - BufSize
         /\ -BufSize <= x /\ x < 0 => x % BufSize = x + BufSize
  <1>1. BufSize \in Nat /\ BufSize > 0
    BY InputConstants
  <1> QED BY <1>1

\* How many characters are unread.
LEMMA CountIs ==
  ASSUME rxWindex \in Slots, rxRindex \in Slots
  PROVE  /\ Count \in 0 .. BufSize - 1
         /\ Count = IF rxWindex >= rxRindex THEN rxWindex - rxRindex ELSE rxWindex - rxRindex + BufSize
  <1>1. BufSize \in Nat /\ BufSize > 0 /\ rxWindex - rxRindex \in Int
    BY InputConstants DEF Slots
  <1>2. Count = IF rxWindex >= rxRindex THEN rxWindex - rxRindex ELSE rxWindex - rxRindex + BufSize
    <2>1. CASE rxWindex >= rxRindex
      <3>1. 0 <= rxWindex - rxRindex /\ rxWindex - rxRindex < BufSize
        BY <1>1, <2>1 DEF Slots
      <3> QED BY <1>1, <2>1, <3>1, Modulo DEF Count
    <2>2. CASE ~(rxWindex >= rxRindex)
      <3>1. -BufSize <= rxWindex - rxRindex /\ rxWindex - rxRindex < 0
        BY <1>1, <2>2 DEF Slots
      <3> QED BY <1>1, <2>2, <3>1, Modulo DEF Count
    <2> QED BY <2>1, <2>2
  <1> QED BY <1>1, <1>2 DEF Slots

\* Where the characters are.
LEMMA WrapIs ==
  ASSUME NEW i \in Int
  PROVE  /\ 0 <= i /\ i < BufSize => Wrap(i) = i /\ Wrap(i) \in Slots
         /\ BufSize <= i /\ i < 2 * BufSize => Wrap(i) = i - BufSize /\ Wrap(i) \in Slots
  <1>1. BufSize \in Nat /\ BufSize > 0
    BY InputConstants
  <1> QED BY <1>1, Modulo DEF Wrap, Slots

\* The prompt that telnet_reset_buffer writes fits the buffer.
LEMMA PromptTyped == Prompt \in Seq(Bytes) /\ Len(Prompt) \in 1 .. BufSize - 1
  <1> DEFINE k == BufSize \div 2 + 1
  <1>1. k \in 1 .. BufSize - 1
    BY InputConstants
  <1>2. Backspace \in Bytes /\ Return \in Bytes
    BY DEF Backspace, Return, Bytes
  <1>3. Prompt \in [1 .. k -> Bytes]
    BY <1>2 DEF Prompt
  <1> HIDE DEF k
  <1>4. k \in Nat
    BY <1>1, InputConstants
  <1>5. Prompt \in Seq(Bytes) /\ Len(Prompt) = k
    BY <1>3, <1>4
  <1> QED BY <1>1, <1>5

\* It holds when the session starts.
LEMMA InitInputInv == Init => InputInv
  <1> SUFFICES ASSUME Init PROVE InputInv
    OBVIOUS
  <1>0. PICK c \in {"data", "iac", "verb"}, b \in BOOLEAN :
          start = [at |-> c, verb |-> WILL, text |-> <<>>, tx |-> <<>>, bin |-> b]
    BY DEF Init, AtLogin
  <1>a. start.bin = binary_mode /\ start.tx = tx /\ start.text = <<>>
    BY Zenon, <1>0 DEF Init
  <1>b. start \in Decoders
    <2>1. WILL \in 0 .. 254
      BY DEF WILL
    <2>2. c \in {"data", "iac", "verb"}
      BY <1>0
    <2>3. b \in BOOLEAN
      BY <1>0
    <2>4. <<>> \in Seq(Bytes)
      OBVIOUS
    <2> QED BY Zenon, <1>0, <2>1, <2>2, <2>3, <2>4 DEF Decoders
  <1>1. sent \in Seq(Bytes) /\ Len(sent) \in Nat
    BY InputConstants DEF Init, Bytes
  <1>2. Decode(start, sent)[got] = start
    BY <1>1, DecodeSteps DEF Init
  <1>3. BufSize \in Nat /\ BufSize > 0 /\ Prompt \in Seq(Bytes) /\ Len(Prompt) \in 1 .. BufSize - 1
    BY PromptTyped, InputConstants
  <1>4. rxWindex \in Slots /\ rxRindex \in Slots
    BY <1>3 DEF Init, Slots
  <1>5. rxBuffer \in [Slots -> Bytes]
    <2>1. ASSUME NEW i \in Slots, i < Len(Prompt) PROVE Prompt[i + 1] \in Bytes
      <3>1. i + 1 \in 1 .. Len(Prompt)
        BY <1>3, <2>1 DEF Slots
      <3> QED BY <1>3, <3>1
    <2>2. 0 \in Bytes
      BY DEF Bytes
    <2> QED BY <2>1, <2>2 DEF Init
  <1>6. Buffered(Prompt \o start.text)
    <2>1. Prompt \o start.text = Prompt
      BY <1>3, <1>a
    <2>2. Count = Len(Prompt) /\ Len(read) = 0
      BY <1>3, <1>4, CountIs DEF Init
    <2>3. ASSUME NEW i \in 1 .. Len(Prompt) PROVE Prompt[i] = rxBuffer[Wrap(rxRindex + i - 1)]
      <3>1. rxRindex + i - 1 = i - 1 /\ i - 1 \in Slots /\ i - 1 < BufSize /\ 0 <= i - 1 /\ i - 1 \in Int
        BY <1>3 DEF Init, Slots
      <3>2. Wrap(i - 1) = i - 1
        BY <3>1, WrapIs
      <3>3. i - 1 < Len(Prompt) /\ (i - 1) + 1 = i
        BY <1>3
      <3>4. rxBuffer[i - 1] = Prompt[(i - 1) + 1]
        BY <3>1, <3>3 DEF Init
      <3> QED BY <3>1, <3>2, <3>3, <3>4
    <2>4. \A i \in 1 .. Count : Prompt[Len(read) + i] = rxBuffer[Wrap(rxRindex + i - 1)]
      BY <1>3, <2>2, <2>3
    <2>5. Buffered(Prompt)
      BY <1>3, <2>2, <2>4 DEF Buffered
    <2> QED BY <2>1, <2>5
  <1>7. loggedIn = TRUE /\ Room /\ maxLen \in Int /\ read \in Seq(Bytes)
    BY DEF Init, Room
  <1>8. ASSUME whole PROVE Session
    <2>1. start.at = "data" /\ rxIncompleteLen = Incomplete("data")
      BY Zenon, <1>8 DEF Init
    <2>2. Incomplete("data") = 0
      BY DEF Incomplete
    <2> QED BY Zenon, <1>2, <1>4, <1>5, <1>6, <1>7, <1>a, <2>1, <2>2 DEF Session
  <1>9. got \in 0 .. Len(sent) /\ pc = "idle"
    BY <1>1 DEF Init
  <1> QED BY Zenon, <1>1, <1>8, <1>9, <1>b DEF InputInv

\* The steps that compute maxLen, and a reception of nothing.
LEMMA QuietInv ==
  ASSUME InputInv, UNCHANGED input, pc' # "idle" => loggedIn',
         loggedIn /\ whole => maxLen' \in Int /\ Room'
  PROVE  InputInv'
  <1>1. /\ rxBuffer' = rxBuffer /\ rxWindex' = rxWindex /\ rxRindex' = rxRindex
        /\ rxIncompleteLen' = rxIncompleteLen /\ binary_mode' = binary_mode /\ loggedIn' = loggedIn
        /\ sent' = sent /\ got' = got /\ start' = start /\ whole' = whole /\ tx' = tx /\ read' = read
    BY DEF input
  <1>2. ASSUME loggedIn, whole PROVE Session'
    <2>1. Session /\ maxLen' \in Int /\ Room'
      BY <1>2 DEF InputInv
    <2>2. Buffered(Prompt \o Decode(start, sent)[got].text)'
      BY <1>1, <2>1, Zenon DEF Session, Buffered, Count, Prompt, Wrap
    <2> QED BY Zenon, <1>1, <2>1, <2>2 DEF Session, Slots
  <1> QED BY <1>1, <1>2 DEF InputInv

\* They preserve the invariant: no read of rxRindex leaves too much room.
LEMMA ProcessInv == InputInv /\ (Process \/ ReceiveNothing) => InputInv'
  <1> SUFFICES ASSUME InputInv, Process \/ ReceiveNothing PROVE InputInv'
    OBVIOUS
  <1>1. UNCHANGED input
    BY DEF Process, Compare, Subtract, Adjust, ReceiveNothing
  <1>2. ASSUME loggedIn, whole PROVE maxLen' \in Int /\ Room'
    <2>1. rxWindex \in Slots /\ rxRindex \in Slots /\ maxLen \in Int /\ Room /\ BufSize \in Nat
      BY <1>2, InputConstants DEF InputInv, Session
    <2>2. rxWindex' = rxWindex /\ rxRindex' = rxRindex
      BY <1>1 DEF input
    <2>3. CASE Compare
      BY <2>1, <2>2, <2>3 DEF Compare, Room, Slots
    <2>4. CASE Subtract
      BY <2>1, <2>2, <2>4 DEF Subtract, Room, Slots
    <2>5. CASE Adjust
      BY <2>1, <2>2, <2>5 DEF Adjust, Room, Slots
    <2>6. CASE ReceiveNothing
      BY <2>1, <2>2, <2>6 DEF ReceiveNothing, Room, Slots
    <2> QED BY <2>3, <2>4, <2>5, <2>6 DEF Process
  <1>3. pc' # "idle" => loggedIn'
    BY DEF InputInv, Process, Compare, Subtract, Adjust, ReceiveNothing, input
  <1> QED BY <1>1, <1>2, <1>3, QuietInv

\* MicroPython reads a character.
LEMMA RxCharInv == InputInv /\ RxChar => InputInv'
  <1> SUFFICES ASSUME InputInv, RxChar PROVE InputInv'
    OBVIOUS
  <1>1. /\ rxBuffer' = rxBuffer /\ rxWindex' = rxWindex /\ rxRindex' = Wrap(rxRindex + 1)
        /\ rxIncompleteLen' = rxIncompleteLen /\ binary_mode' = binary_mode /\ loggedIn' = loggedIn
        /\ sent' = sent /\ got' = got /\ start' = start /\ whole' = whole /\ tx' = tx /\ pc' = pc /\ maxLen' = maxLen
        /\ read' = Append(read, rxBuffer[rxRindex]) /\ rxRindex # rxWindex
    BY DEF RxChar
  <1>2. ASSUME loggedIn, whole PROVE Session'
    <2>1. Session /\ BufSize \in Nat /\ BufSize > 0
      BY <1>2, InputConstants DEF InputInv
    <2>2. PICK T : T = Prompt \o Decode(start, sent)[got].text
      BY Zenon
    <2>3. /\ rxWindex \in Slots /\ rxRindex \in Slots /\ rxBuffer \in [Slots -> Bytes] /\ Buffered(T)
          /\ read \in Seq(Bytes) /\ Room /\ maxLen \in Int
      BY Zenon, <2>1, <2>2 DEF Session
    <2>4. rxRindex' = IF rxRindex = BufSize - 1 THEN 0 ELSE rxRindex + 1
      BY <1>1, <2>1, <2>3, WrapIs DEF Slots
    <2>5. rxRindex' \in Slots /\ rxWindex' \in Slots /\ Slots' = Slots
      BY <1>1, <2>1, <2>3, <2>4 DEF Slots
    <2>6. Count \in 1 .. BufSize - 1 /\ Count' = Count - 1
      <3>1. Count = IF rxWindex >= rxRindex THEN rxWindex - rxRindex ELSE rxWindex - rxRindex + BufSize
        BY <2>3, CountIs
      <3>2. Count' = IF rxWindex >= rxRindex' THEN rxWindex - rxRindex' ELSE rxWindex - rxRindex' + BufSize
        <4>1. PICK r : r = rxRindex' /\ r \in Slots
          BY <2>5
        <4>2. Count' = (rxWindex - r) % BufSize /\ rxWindex - r \in Int
          BY <1>1, <2>3, <4>1 DEF Count, Slots
        <4>3. /\ rxWindex >= r => 0 <= rxWindex - r /\ rxWindex - r < BufSize
              /\ ~(rxWindex >= r) => -BufSize <= rxWindex - r /\ rxWindex - r < 0
          BY <2>1, <2>3, <4>1 DEF Slots
        <4>4. Count' = IF rxWindex >= r THEN rxWindex - r ELSE rxWindex - r + BufSize
          BY <4>2, <4>3, Modulo
        <4> QED BY <4>1, <4>4
      <3> QED BY <1>1, <2>1, <2>3, <2>4, <3>1, <3>2 DEF Slots
    <2>7. rxBuffer[rxRindex] = T[Len(read) + 1] /\ rxBuffer[rxRindex] \in Bytes
      <3>1. 1 \in 1 .. Count /\ rxRindex + 1 - 1 = rxRindex /\ Wrap(rxRindex) = rxRindex
        BY <2>1, <2>3, <2>6, WrapIs DEF Slots
      <3> QED BY <2>3, <3>1 DEF Buffered
    <2>8. read' \in Seq(Bytes) /\ Len(read') = Len(read) + 1 /\ Len(read) \in Nat
      BY <1>1, <2>3, <2>7
    <2>9. Len(T) = Len(read') + Count'
      BY <2>3, <2>6, <2>8 DEF Buffered
    <2>10. ASSUME NEW i \in 1 .. Len(read') PROVE T[i] = read'[i]
      <3>1. CASE i \in 1 .. Len(read)
        BY <1>1, <2>3, <3>1 DEF Buffered
      <3>2. CASE i = Len(read) + 1
        BY <1>1, <2>3, <2>7, <3>2
      <3> QED BY <2>8, <3>1, <3>2
    <2>11. ASSUME NEW i \in 1 .. Count' PROVE T[Len(read') + i] = rxBuffer[Wrap(rxRindex' + i - 1)]
      <3>1. i + 1 \in 1 .. Count /\ Len(read') + i = Len(read) + (i + 1) /\ i \in Int
        BY <2>6, <2>8
      <3>2. Wrap(rxRindex' + i - 1) = Wrap(rxRindex + (i + 1) - 1)
        <4>1. CASE rxRindex = BufSize - 1
          <5>1. rxRindex' + i - 1 = i - 1 /\ rxRindex + (i + 1) - 1 = (i - 1) + BufSize
            BY <2>1, <2>4, <3>1, <4>1
          <5>2. i - 1 \in 0 .. BufSize - 1
            BY <2>1, <2>6, <3>1
          <5>3. Wrap(i - 1) = i - 1 /\ Wrap((i - 1) + BufSize) = i - 1
            BY <2>1, <5>2, WrapIs
          <5> QED BY <5>1, <5>3
        <4>2. CASE rxRindex # BufSize - 1
          <5>1. rxRindex' + i - 1 = rxRindex + (i + 1) - 1
            BY <2>3, <2>4, <3>1, <4>2 DEF Slots
          <5> QED BY <5>1
        <4> QED BY <4>1, <4>2
      <3>3. T[Len(read) + (i + 1)] = rxBuffer[Wrap(rxRindex + (i + 1) - 1)]
        BY <2>3, <3>1 DEF Buffered
      <3> QED BY <3>1, <3>2, <3>3
    <2>12. Buffered(T)'
      BY Zenon, <1>1, <2>9, <2>10, <2>11 DEF Buffered, Wrap
    <2>13. Room'
      BY <1>1, <2>1, <2>3, <2>4 DEF Room, Slots
    <2>14. T = (Prompt \o Decode(start, sent)[got].text)'
      BY Zenon, <1>1, <2>2 DEF Prompt
    <2> QED BY ZenonT(30), <1>1, <2>1, <2>3, <2>5, <2>8, <2>12, <2>13, <2>14 DEF Session
  <1> QED BY <1>1, <1>2 DEF InputInv

\* Text after the prompt.
LEMMA HoldsAfter ==
  ASSUME NEW first \in Seq(Bytes), NEW text \in Seq(Bytes), NEW base \in Seq(Bytes), NEW mem,
         NEW at \in Int, NEW to \in Int, at <= to, Holds(text, base, mem, at, to)
  PROVE  Holds(first \o text, first \o base, mem, at, to)
  <1>1. Len(first) \in Nat /\ Len(text) \in Nat /\ Len(base) \in Nat /\ Len(text) = Len(base) + (to - at)
    BY DEF Holds
  <1>2. /\ Len(first \o text) = Len(first) + Len(text) /\ Len(first \o base) = Len(first) + Len(base)
        /\ \A i \in 1 .. Len(first) : (first \o text)[i] = first[i] /\ (first \o base)[i] = first[i]
        /\ \A i \in 1 .. Len(text) : (first \o text)[Len(first) + i] = text[i]
        /\ \A i \in 1 .. Len(base) : (first \o base)[Len(first) + i] = base[i]
    OBVIOUS
  <1>3. PICK t, b : t = first \o text /\ b = first \o base
    BY Zenon
  <1>4. /\ Len(t) = Len(first) + Len(text) /\ Len(b) = Len(first) + Len(base)
        /\ \A i \in 1 .. Len(first) : t[i] = first[i] /\ b[i] = first[i]
        /\ \A i \in 1 .. Len(text) : t[Len(first) + i] = text[i]
        /\ \A i \in 1 .. Len(base) : b[Len(first) + i] = base[i]
    BY <1>2, <1>3, Zenon
  <1>5. ASSUME NEW i \in 1 .. Len(b) PROVE t[i] = b[i]
    <2>1. CASE i <= Len(first)
      BY <1>1, <1>4, <2>1
    <2>2. CASE i > Len(first)
      <3>1. PICK j \in 1 .. Len(base) : i = Len(first) + j
        <4>1. i - Len(first) \in 1 .. Len(base) /\ i = Len(first) + (i - Len(first))
          BY <1>1, <1>4, <2>2
        <4> QED BY <4>1, Zenon
      <3>2. j \in 1 .. Len(text) /\ text[j] = base[j]
        BY <1>1, <3>1 DEF Holds
      <3> QED BY Zenon, <1>4, <3>1, <3>2
    <2> QED BY <1>1, <1>4, <2>1, <2>2
  <1>6. ASSUME NEW i \in 1 .. to - at PROVE t[Len(b) + i] = mem[at + i - 1]
    <2>1. Len(base) + i \in 1 .. Len(text) /\ Len(b) + i = Len(first) + (Len(base) + i)
      BY <1>1, <1>4
    <2>2. text[Len(base) + i] = mem[at + i - 1]
      BY DEF Holds
    <2>3. t[Len(first) + (Len(base) + i)] = text[Len(base) + i]
      BY <1>4, <2>1
    <2> QED BY Zenon, <2>1, <2>2, <2>3
  <1>7. Len(t) = Len(b) + (to - at)
    BY <1>1, <1>4
  <1>8. Holds(t, b, mem, at, to)
    BY <1>5, <1>6, <1>7 DEF Holds
  <1> QED BY <1>3, <1>8

\* How many characters there are between two places of the ring.
Span(r, w) == IF w >= r THEN w - r ELSE w - r + BufSize

\* A place of the ring that is free for a reception of n bytes.
Free(r, w, n) ==
  /\ r \in Slots /\ w \in Slots /\ n \in Nat /\ w + n <= BufSize
  /\ r > w => w + n < r
  /\ r = 0 => w + n < BufSize

\* The unread characters are not where the reception is put, ...
LEMMA UnreadKept ==
  ASSUME NEW r, NEW w, NEW n, Free(r, w, n), NEW i \in Int, 1 <= i, i <= Span(r, w)
  PROVE  Wrap(r + i - 1) \in Slots /\ Wrap(r + i - 1) \notin w .. w + n - 1
  <1>1. /\ BufSize \in Nat /\ r \in Int /\ w \in Int /\ n \in Nat /\ 0 <= r /\ r < BufSize
        /\ 0 <= w /\ w < BufSize /\ w + n <= BufSize /\ (r > w => w + n < r)
    BY InputConstants DEF Free, Slots
  <1>2. PICK x \in Int : x = r + i - 1
    BY <1>1
  <1>3. CASE w >= r
    <2>1. 0 <= x /\ x < w
      BY <1>1, <1>2, <1>3 DEF Span
    <2>2. Wrap(x) = x /\ Wrap(x) \in Slots
      BY <1>1, <2>1, WrapIs
    <2> QED BY <1>1, <1>2, <2>1, <2>2
  <1>4. CASE ~(w >= r) /\ x < BufSize
    <2>1. 0 <= x /\ w + n <= x
      BY <1>1, <1>2, <1>4
    <2>2. Wrap(x) = x /\ Wrap(x) \in Slots
      BY <1>4, <2>1, WrapIs
    <2> QED BY <1>1, <1>2, <2>1, <2>2
  <1>5. CASE ~(w >= r) /\ ~(x < BufSize)
    <2>1. BufSize <= x /\ x < 2 * BufSize /\ x - BufSize < w
      BY <1>1, <1>2, <1>5 DEF Span
    <2>2. Wrap(x) = x - BufSize /\ Wrap(x) \in Slots
      BY <2>1, WrapIs
    <2> QED BY <1>1, <1>2, <2>1, <2>2
  <1> QED BY <1>3, <1>4, <1>5

\* ... which comes after them.
LEMMA PutAfter ==
  ASSUME NEW r, NEW w, NEW n, Free(r, w, n), NEW j \in 1 .. n, NEW i, i = Span(r, w) + j
  PROVE  w + j - 1 \in Slots /\ Wrap(r + i - 1) = w + j - 1
  <1>1. /\ BufSize \in Nat /\ r \in Int /\ w \in Int /\ n \in Nat /\ 0 <= r /\ r < BufSize
        /\ 0 <= w /\ w < BufSize /\ w + n <= BufSize
    BY InputConstants DEF Free, Slots
  <1>2. PICK x \in Int : x = r + i - 1
    BY <1>1 DEF Span
  <1>3. 0 <= w + j - 1 /\ w + j - 1 < BufSize /\ w + j - 1 \in Int
    BY <1>1
  <1>4. CASE w >= r
    <2>1. x = w + j - 1
      BY <1>1, <1>2, <1>4 DEF Span
    <2> QED BY <1>2, <1>3, <2>1, WrapIs DEF Slots
  <1>5. CASE ~(w >= r)
    <2>1. x - BufSize = w + j - 1 /\ BufSize <= x /\ x < 2 * BufSize
      BY <1>1, <1>2, <1>3, <1>5 DEF Span
    <2> QED BY <1>2, <1>3, <2>1, WrapIs DEF Slots
  <1> QED BY <1>4, <1>5

\* How far the write index moves on, and that a full buffer is not taken for an empty one.
LEMMA SpanAfter ==
  ASSUME NEW r, NEW w, NEW n, Free(r, w, n), NEW k \in 0 .. n, NEW v,
         v = IF k > 0 THEN Wrap(w + k) ELSE w
  PROVE  v \in Slots /\ Span(r, v) = Span(r, w) + k
  <1>1. /\ BufSize \in Nat /\ BufSize > 0 /\ r \in Int /\ w \in Int /\ n \in Nat /\ 0 <= r /\ r < BufSize
        /\ 0 <= w /\ w < BufSize /\ w + n <= BufSize /\ (r > w => w + n < r)
        /\ (r = 0 => w + n < BufSize) /\ k \in Int /\ 0 <= k /\ k <= n
    BY InputConstants DEF Free, Slots
  <1>2. PICK x \in Int : x = w + k
    BY <1>1
  <1>3. v = IF x = BufSize THEN 0 ELSE x
    <2>1. CASE k > 0 /\ x = BufSize
      <3>1. BufSize <= x /\ x < 2 * BufSize /\ x - BufSize = 0
        BY <1>1, <2>1
      <3> QED BY <1>2, <2>1, <3>1, WrapIs
    <2>2. CASE k > 0 /\ x # BufSize
      <3>1. 0 <= x /\ x < BufSize
        BY <1>1, <1>2, <2>2
      <3> QED BY <1>2, <2>2, <3>1, WrapIs
    <2>3. CASE ~(k > 0)
      BY <1>1, <1>2, <2>3
    <2> QED BY <2>1, <2>2, <2>3
  <1> QED BY <1>1, <1>2, <1>3 DEF Slots, Span

\* A reception of n bytes of which k are kept, when T is before it and t after it the text.
Arrives(n, k, mem, T, t) ==
  /\ Free(rxRindex, rxWindex, n) /\ k \in 0 .. n /\ read \in Seq(Bytes)
  /\ rxRindex' = rxRindex /\ read' = read
  /\ rxWindex' = IF k > 0 THEN Wrap(rxWindex + k) ELSE rxWindex
  /\ \A i \in Slots : i \notin rxWindex .. rxWindex + n - 1 => rxBuffer'[i] = rxBuffer[i]
  /\ \A i \in Slots : rxBuffer'[i] = mem[i]
  /\ Buffered(T) /\ Holds(t, T, mem, rxWindex, rxWindex + k)

\* What is kept of a reception comes after the unread characters, and none of them is lost.
LEMMA ReceiveBuffers ==
  ASSUME NEW n, NEW k, NEW mem, NEW T, NEW t, Arrives(n, k, mem, T, t)
  PROVE  rxWindex' \in Slots /\ Buffered(t)'
  <1>1. /\ BufSize \in Nat /\ rxWindex \in Int /\ rxRindex \in Int /\ n \in Nat /\ k \in 0 .. n
        /\ rxWindex \in Slots /\ rxRindex \in Slots /\ Len(read) \in Nat
        /\ rxRindex' = rxRindex /\ read' = read /\ Free(rxRindex, rxWindex, n)
    BY InputConstants DEF Arrives, Free, Slots
  <1>2. rxWindex' \in Slots /\ Span(rxRindex, rxWindex') = Span(rxRindex, rxWindex) + k
    <2>1. rxWindex' = IF k > 0 THEN Wrap(rxWindex + k) ELSE rxWindex
      BY Zenon DEF Arrives
    <2> QED BY <1>1, <2>1, SpanAfter
  <1>3. PICK c \in Nat : c = Span(rxRindex, rxWindex)
    <2>1. Span(rxRindex, rxWindex) \in Nat
      BY <1>1 DEF Span, Slots
    <2> QED BY <2>1, Zenon
  <1>4. Count = c
    BY <1>1, <1>3, CountIs DEF Span
  <1>5. Count' = c + k
    <2>1. PICK v : v = rxWindex'
      BY Zenon
    <2>2. v \in Slots /\ v \in Int /\ Span(rxRindex, v) = c + k
      BY <1>2, <1>3, <2>1 DEF Slots
    <2>3. Count' = (v - rxRindex) % BufSize /\ v - rxRindex \in Int
      BY <1>1, <2>1, <2>2 DEF Count
    <2>4. /\ v >= rxRindex => 0 <= v - rxRindex /\ v - rxRindex < BufSize
          /\ ~(v >= rxRindex) => -BufSize <= v - rxRindex /\ v - rxRindex < 0
      BY <1>1, <2>2 DEF Slots
    <2>5. Count' = IF v >= rxRindex THEN v - rxRindex ELSE v - rxRindex + BufSize
      BY <2>3, <2>4, Modulo
    <2> QED BY <2>2, <2>5 DEF Span
  <1>6. /\ Len(T) = Len(read) + c /\ Len(t) = Len(T) + k
        /\ \A i \in 1 .. Len(T) : t[i] = T[i]
        /\ \A i \in 1 .. k : t[Len(T) + i] = mem[rxWindex + i - 1]
    <2>1. (rxWindex + k) - rxWindex = k
      BY <1>1
    <2>2. Buffered(T) /\ Holds(t, T, mem, rxWindex, rxWindex + k)
      BY Zenon DEF Arrives
    <2>3. Len(T) = Len(read) + c
      BY <1>4, <2>2, Zenon DEF Buffered
    <2> QED BY <2>1, <2>2, <2>3, Zenon DEF Holds
  <1>7. Len(t) = Len(read') + Count'
    BY <1>1, <1>5, <1>6
  <1>8. ASSUME NEW i \in 1 .. Len(read') PROVE t[i] = read'[i]
    <2>1. i \in 1 .. Len(read) /\ i \in 1 .. Len(T)
      BY <1>1, <1>6
    <2>2. T[i] = read[i]
      BY <2>1, Zenon DEF Arrives, Buffered
    <2> QED BY <1>1, <1>6, <2>1, <2>2, Zenon
  <1>9. ASSUME NEW i \in 1 .. Count' PROVE t[Len(read') + i] = rxBuffer'[Wrap(rxRindex' + i - 1)]
    <2>1. i \in Int /\ 1 <= i /\ i <= c + k
      BY <1>1, <1>5
    <2>2. CASE i <= c
      <3>1. i \in 1 .. Count /\ Len(read) + i \in 1 .. Len(T)
        BY <1>1, <1>4, <1>6, <2>1, <2>2
      <3>2. PICK x : x = Wrap(rxRindex + i - 1)
        BY Zenon
      <3>3. x \in Slots /\ x \notin rxWindex .. rxWindex + n - 1
        BY <1>1, <1>3, <2>1, <2>2, <3>2, UnreadKept
      <3>4. T[Len(read) + i] = rxBuffer[x]
        BY <3>1, <3>2, Zenon DEF Arrives, Buffered
      <3>5. rxBuffer'[x] = rxBuffer[x]
        BY <3>3, Zenon DEF Arrives
      <3>6. Wrap(rxRindex' + i - 1) = x
        BY <1>1, <3>2
      <3> QED BY <1>1, <1>6, <3>1, <3>4, <3>5, <3>6, Zenon
    <2>3. CASE ~(i <= c)
      <3>1. PICK j \in 1 .. k : i = c + j
        <4>1. i - c \in 1 .. k /\ i = c + (i - c)
          BY <1>1, <2>1, <2>3
        <4> QED BY <4>1, Zenon
      <3>2. j \in 1 .. n /\ Len(read) + i = Len(T) + j
        BY <1>1, <1>6, <3>1
      <3>3. rxWindex + j - 1 \in Slots /\ Wrap(rxRindex + i - 1) = rxWindex + j - 1
        <4>1. Free(rxRindex, rxWindex, n) /\ j \in 1 .. n /\ i = Span(rxRindex, rxWindex) + j
          BY <1>1, <1>3, <3>1, <3>2, Zenon
        <4> QED BY <4>1, PutAfter
      <3>4. t[Len(T) + j] = mem[rxWindex + j - 1]
        BY <1>6, <3>1, Zenon
      <3>5. rxBuffer'[rxWindex + j - 1] = mem[rxWindex + j - 1]
        BY <3>3, Zenon DEF Arrives
      <3>6. Wrap(rxRindex' + i - 1) = rxWindex + j - 1
        BY <1>1, <3>3
      <3> QED BY <1>1, <3>2, <3>4, <3>5, <3>6, Zenon
    <2> QED BY Zenon, <2>2, <2>3
  <1> QED BY <1>2, <1>7, <1>8, <1>9, Zenon DEF Buffered

\* Where the bytes of a reception are in the stream.
LEMMA Offset ==
  ASSUME NEW at \in Int, NEW n \in Nat, NEW g \in Nat, NEW len \in Nat, g + n <= len,
         NEW i \in at .. at + n - 1
  PROVE  /\ i - at + 1 \in 1 .. n /\ (g + n) - (g + 1) + 1 = n
         /\ g + (i - at + 1) \in 1 .. len
  OBVIOUS

\* A reception.
LEMMA ReceiveInv ==
  ASSUME InputInv, NEW n \in 1 .. Len(sent), NEW heap \in Before, Receive(n, heap)
  PROVE  InputInv'
  <1> DEFINE arrived == SubSeq(sent, got + 1, got + n)
             memory == [i \in -2 .. BufSize + 2 |->
                          IF i < 0 THEN heap[i]
                          ELSE IF i \in rxWindex .. rxWindex + n - 1 THEN arrived[i - rxWindex + 1]
                          ELSE IF i \in Slots THEN rxBuffer[i] ELSE 0]
             parser == [mem |-> memory, r |-> rxWindex - rxIncompleteLen, w |-> rxWindex,
                        len |-> n + rxIncompleteLen, inc |-> rxIncompleteLen, stop |-> FALSE,
                        bin |-> binary_mode, in |-> loggedIn, tx |-> tx]
  <1>1. PICK q : q = Parse(parser, rxWindex + n)
    BY Zenon
  <1>2. /\ pc = "recv" /\ n <= maxLen /\ got + n <= Len(sent)
        /\ got' = got + n
        /\ whole' = (whole /\ Decode(start, sent)[got'].at = "data")
        /\ rxBuffer' = [i \in Slots |-> q.mem[i]]
        /\ rxWindex' = IF q.len > 0 THEN Wrap(rxWindex + q.len) ELSE rxWindex
        /\ rxIncompleteLen' = q.inc /\ binary_mode' = q.bin /\ loggedIn' = q.in /\ tx' = q.tx
        /\ pc' = "idle" /\ rxRindex' = rxRindex /\ maxLen' = maxLen /\ sent' = sent /\ read' = read
        /\ start' = start
    BY <1>1, Zenon DEF Receive
  <1> HIDE DEF parser
  <1>3. /\ start \in Decoders /\ sent \in Seq(Bytes) /\ Len(sent) \in Nat /\ got \in 0 .. Len(sent) /\ loggedIn
        /\ n \in Nat /\ n >= 1
    BY <1>2 DEF InputInv
  <1>4. sent' \in Seq(Bytes) /\ got' \in 0 .. Len(sent')
    <2>1. got + n \in 0 .. Len(sent)
      BY SMTT(30), <1>2, <1>3
    <2> QED BY <1>2, <1>3, <2>1, Zenon
  <1>5. ASSUME loggedIn', whole' PROVE Session'
    <2>1. Session /\ whole /\ Decode(start, sent)[got'].at = "data"
      BY <1>2, <1>3, <1>5, Zenon DEF InputInv
    <2>2. PICK d, e : d = Decode(start, sent)[got] /\ e = Decode(start, sent)[got']
      OBVIOUS
    <2>3. PICK T : T = Prompt \o d.text
      BY Zenon
    <2>4. /\ loggedIn = TRUE /\ rxBuffer \in [Slots -> Bytes] /\ rxWindex \in Slots /\ rxRindex \in Slots
          /\ rxIncompleteLen = 0 /\ maxLen \in Int /\ Room /\ read \in Seq(Bytes) /\ Buffered(T)
          /\ d.at = "data" /\ d.bin = binary_mode /\ d.tx = tx
      BY <2>1, <2>2, <2>3, Zenon DEF Session
    <2>5. PICK at, end : at = rxWindex /\ end = rxWindex + n
      OBVIOUS
    <2>6. /\ BufSize \in Nat /\ BufSize > 0 /\ at \in Int /\ end \in Int /\ 0 <= at /\ at < BufSize
          /\ end <= BufSize /\ at <= end /\ end - at = n
          /\ rxRindex > rxWindex => rxWindex + n < rxRindex
          /\ rxRindex = 0 => rxWindex + n < BufSize
      <3>1. BufSize \in Nat /\ BufSize > 0 /\ rxWindex \in 0 .. BufSize - 1 /\ rxRindex \in 0 .. BufSize - 1
        BY SMTT(30), <2>4, InputConstants DEF Slots
      <3>2. /\ rxWindex + maxLen <= BufSize
            /\ rxRindex > rxWindex => rxWindex + maxLen < rxRindex
            /\ rxRindex = 0 => rxWindex + maxLen < BufSize
        BY Zenon, <1>2, <2>4 DEF Room
      <3>3. n \in Nat /\ maxLen \in Int /\ n <= maxLen
        BY Zenon, <1>2, <1>3, <2>4
      <3> QED BY <2>5, <3>1, <3>2, <3>3
    <2>9. memory \in Memory
      <3>1. ASSUME NEW i \in -2 .. BufSize + 2, i < 0 PROVE heap[i] \in Bytes
        <4>1. heap \in [{-2, -1} -> {0}] /\ i \in {-2, -1}
          BY <2>4, <2>6, <3>1 DEF Before, Slots
        <4>2. heap[i] \in {0}
          BY <4>1, Zenon
        <4> QED BY <4>2 DEF Bytes
      <3>2. ASSUME NEW i \in rxWindex .. rxWindex + n - 1 PROVE arrived[i - rxWindex + 1] \in Bytes
        <4>1. /\ i - rxWindex + 1 \in 1 .. n /\ (got + n) - (got + 1) + 1 = n
              /\ got + (i - rxWindex + 1) \in 1 .. Len(sent)
          <5>1. rxWindex \in Int /\ got \in Nat
            BY <1>3, <2>5, <2>6
          <5> QED BY ZenonT(30), <1>2, <1>3, <5>1, Offset
        <4>2. arrived[i - rxWindex + 1] = sent[got + (i - rxWindex + 1)]
          BY <1>2, <1>3, <4>1
        <4> QED BY <1>3, <4>1, <4>2
      <3>3. ASSUME NEW i \in Slots PROVE rxBuffer[i] \in Bytes
        BY <2>4
      <3>4. 0 \in Bytes
        BY DEF Bytes
      <3> HIDE DEF arrived
      <3> QED BY <3>1, <3>2, <3>3, <3>4 DEF Memory
    <2>10. \A i \in at .. end - 1 : memory[i] = sent[got + (i - at) + 1]
      <3>1. ASSUME NEW i \in at .. end - 1 PROVE memory[i] = sent[got + (i - at) + 1]
        <4>1. /\ i \in -2 .. BufSize + 2 /\ ~(i < 0) /\ i \in rxWindex .. rxWindex + n - 1
              /\ i - rxWindex + 1 \in 1 .. n
              /\ got + (i - at) + 1 = got + 1 + (i - rxWindex + 1) - 1
          BY <1>3, <2>5, <2>6
        <4>2. memory[i] = arrived[i - rxWindex + 1]
          <5> HIDE DEF arrived
          <5> QED BY <4>1
        <4>3. arrived[i - rxWindex + 1] = sent[got + 1 + (i - rxWindex + 1) - 1]
          BY <1>2, <1>3, <4>1
        <4> QED BY <4>1, <4>2, <4>3, Zenon
      <3> QED BY <3>1, Zenon
    <2> HIDE DEF memory
    <2>rx. PICK rx : rx = [first |-> start, bytes |-> sent, got |-> got, at |-> at, end |-> end, mem |-> memory]
      BY Zenon
    <2>f. rx.first = start /\ rx.bytes = sent /\ rx.got = got /\ rx.at = at /\ rx.end = end /\ rx.mem = memory
      BY Zenon, <2>rx
    <2>7. Reception(rx)
      <3>1. at \in 0 .. BufSize /\ end \in at .. BufSize /\ got \in Nat /\ got + (end - at) <= Len(sent)
        BY <1>2, <1>3, <2>6
      <3> QED BY <1>3, <2>f, <3>1 DEF Reception
    <2>8. e = Seen(rx, end) /\ e.at = "data"
      BY ZenonT(30), <1>2, <2>1, <2>2, <2>6, <2>f DEF Seen
    <2>11. q = Parse(Start(memory, at, end, d), end) /\ q.in
      <3>1. parser = Start(memory, at, end, d)
        <4>1. /\ rxWindex - rxIncompleteLen = at /\ rxWindex = at /\ n + rxIncompleteLen = end - at
              /\ rxIncompleteLen = 0 /\ binary_mode = d.bin /\ loggedIn = TRUE /\ tx = d.tx
          BY <1>3, <2>4, <2>5, <2>6
        <4> QED BY <4>1, Zenon DEF parser, Start
      <3> QED BY <1>1, <1>2, <1>5, <2>5, <3>1, Zenon
    <2>12. /\ q \in Parsers /\ q.w \in at .. end /\ q.len = q.w - at /\ q.inc = 0
           /\ \A i \in Slots : i \notin at .. end - 1 => q.mem[i] = memory[i]
           /\ e.bin = q.bin /\ e.tx = q.tx
           /\ Holds(e.text, d.text, q.mem, at, q.w)
      <3>1. PICK p : p = Start(memory, at, end, d)
        OBVIOUS
      <3>2. Call(rx, p, q, d, e)
        BY <2>2, <2>4, <2>7, <2>8, <2>9, <2>10, <2>11, <2>f, <3>1, Zenon DEF Call
      <3>3. /\ q \in Parsers /\ q.w \in rx.at .. rx.end /\ q.len = q.w - rx.at /\ q.inc = 0
            /\ \A i \in Slots : i \notin rx.at .. rx.end - 1 => q.mem[i] = rx.mem[i]
            /\ e.bin = q.bin /\ e.tx = q.tx
            /\ Holds(e.text, d.text, q.mem, rx.at, q.w)
        BY <3>2, ParseFaithful, Zenon
      <3> QED BY <2>f, <3>3, Zenon
    <2>13. PICK k : k = q.len
      OBVIOUS
    <2>14. k \in 0 .. n /\ q.w = at + k
      BY <2>6, <2>12, <2>13
    <2>15. d \in Decoders /\ e \in Decoders
      BY ZenonT(30), <1>3, <1>4, <1>2, <2>2, DecodeTyped
    <2>16. d.text \in Seq(Bytes) /\ e.text \in Seq(Bytes) /\ Prompt \in Seq(Bytes)
      BY Zenon, <2>15, PromptTyped DEF Decoders
    <2>17. PICK t : t = Prompt \o e.text
      BY Zenon
    <2>18. Holds(t, T, q.mem, rxWindex, rxWindex + k)
      <3>1. at + k \in Int /\ at <= at + k
        BY <2>6, <2>14
      <3>2. Holds(e.text, d.text, q.mem, at, at + k)
        BY Zenon, <2>12, <2>14
      <3> QED BY ZenonT(30), <2>3, <2>5, <2>6, <2>16, <2>17, <3>1, <3>2, HoldsAfter
    <2>19. \A i \in Slots : rxBuffer'[i] = q.mem[i]
      BY <1>2
    <2>20. \A i \in Slots : i \notin rxWindex .. rxWindex + n - 1 => rxBuffer'[i] = rxBuffer[i]
      <3>1. ASSUME NEW i \in Slots, i \notin rxWindex .. rxWindex + n - 1
            PROVE  rxBuffer'[i] = rxBuffer[i]
        <4>1. i \in -2 .. BufSize + 2 /\ ~(i < 0) /\ i \notin at .. end - 1
          BY <2>5, <2>6, <3>1 DEF Slots
        <4>2. memory[i] = rxBuffer[i]
          BY <3>1, <4>1 DEF memory
        <4> QED BY ZenonT(30), <2>12, <2>19, <4>1, <4>2
      <3> QED BY <3>1
    <2>21. rxWindex' \in Slots /\ Buffered(t)'
      <3>1. Free(rxRindex, rxWindex, n)
        BY <1>3, <2>4, <2>5, <2>6 DEF Free
      <3>2. Arrives(n, k, q.mem, T, t)
        BY <1>2, <2>4, <2>13, <2>14, <2>18, <2>19, <2>20, <3>1, ZenonT(30) DEF Arrives
      <3> QED BY <3>2, ReceiveBuffers, Zenon
    <2>22. q.mem \in Memory /\ q.in = TRUE
      BY Zenon, <2>11, <2>12, ParserFields
    <2>23. rxBuffer' \in [Slots -> Bytes] /\ Slots' = Slots
      <3>1. \A i \in Slots : q.mem[i] \in Bytes
        BY <2>6, <2>22 DEF Memory, Slots
      <3> QED BY Zenon, <1>2, <3>1 DEF Slots
    <2>24. Room'
      BY Zenon, <1>2 DEF Room
    <2>25. t = (Prompt \o Decode(start, sent)[got].text)' /\ e = Decode(start, sent)[got]'
      BY ZenonT(30), <1>2, <2>2, <2>17 DEF Prompt
    <2>26. /\ loggedIn' = TRUE /\ rxRindex' \in Slots /\ rxIncompleteLen' = 0 /\ maxLen' \in Int
           /\ e.at = "data" /\ e.bin = binary_mode' /\ e.tx = tx' /\ read' \in Seq(Bytes)
      BY <1>2, <2>4, <2>8, <2>12, <2>22, ZenonT(30)
    <2> QED BY <2>21, <2>23, <2>24, <2>25, <2>26, ZenonT(30) DEF Session
  <1> QED BY Zenon, <1>2, <1>4, <1>5 DEF InputInv

\* What is in a concatenation.
LEMMA Concatenated ==
  ASSUME NEW a \in Seq(Bytes), NEW b \in Seq(Bytes), NEW s, s = a \o b
  PROVE  /\ s \in Seq(Bytes) /\ Len(s) = Len(a) + Len(b)
         /\ \A i \in 1 .. Len(a) : s[i] = a[i]
         /\ \A i \in 1 .. Len(b) : s[Len(a) + i] = b[i]
  OBVIOUS

\* Sequences of the same length with the same elements are the same.
LEMMA SameBytes ==
  ASSUME NEW s \in Seq(Bytes), NEW t \in Seq(Bytes), Len(s) = Len(t),
         \A i \in 1 .. Len(s) : s[i] = t[i]
  PROVE  s = t
  OBVIOUS

\* The invariant holds throughout.
LEMMA AlwaysInputInv == Spec => []InputInv
  <1>1. InputInv /\ [Next]_vars => InputInv'
    <2> SUFFICES ASSUME InputInv, [Next]_vars PROVE InputInv'
      OBVIOUS
    <2>1. CASE Process \/ ReceiveNothing
      BY <2>1, ProcessInv
    <2>2. CASE ReceiveSome
      BY <2>2, ReceiveInv DEF ReceiveSome
    <2>3. CASE RxChar
      BY <2>3, RxCharInv
    <2>4. CASE UNCHANGED vars
      <3>1. UNCHANGED input /\ pc' = pc /\ maxLen' = maxLen
        BY <2>4 DEF vars, input
      <3>2. loggedIn /\ whole => maxLen' \in Int /\ Room'
        BY Zenon, <3>1 DEF InputInv, Session, Room, input
      <3>3. pc' # "idle" => loggedIn'
        BY <3>1 DEF InputInv, input
      <3> QED BY <3>1, <3>2, <3>3, QuietInv
    <2> QED BY <2>1, <2>2, <2>3, <2>4 DEF Next
  <1> QED BY <1>1, InitInputInv, PTL DEF Spec

\* For every size of the buffer and every stream, whatever recv returns and however
\* MicroPython's reads interleave with telnet_process: what is read is the text received.
THEOREM InputAlwaysFaithful == Spec => []InputFaithful
  <1>1. InputInv => InputFaithful
    <2> SUFFICES ASSUME InputInv, loggedIn, whole
                 PROVE  /\ read \o Unread = Prompt \o Decode(start, sent)[got].text
                        /\ tx = Decode(start, sent)[got].tx
      BY DEF InputFaithful
    <2>1. PICK d : d = Decode(start, sent)[got]
      OBVIOUS
    <2>2. PICK T : T = Prompt \o d.text
      BY Zenon
    <2>3. /\ Buffered(T) /\ d.tx = tx /\ rxWindex \in Slots /\ rxRindex \in Slots
          /\ rxBuffer \in [Slots -> Bytes] /\ read \in Seq(Bytes)
      BY Zenon, <2>1, <2>2 DEF InputInv, Session
    <2>4. d.text \in Seq(Bytes) /\ Prompt \in Seq(Bytes)
      <3>1. d \in Decoders
        BY <2>1, DecodeTyped DEF InputInv
      <3> QED BY <3>1, PromptTyped DEF Decoders
    <2>5. T \in Seq(Bytes)
      BY <2>2, <2>4
    <2>6. Count \in Nat /\ Count <= BufSize - 1 /\ BufSize \in Nat /\ BufSize > 0
      BY <2>3, CountIs, InputConstants
    <2>7. \A i \in 1 .. Count : Wrap(rxRindex + i - 1) \in Slots
      <3>1. ASSUME NEW i \in 1 .. Count PROVE Wrap(rxRindex + i - 1) \in Slots
        <4>1. PICK x \in Int : x = rxRindex + i - 1 /\ 0 <= x /\ x < 2 * BufSize
          BY <2>3, <2>6 DEF Slots
        <4> QED BY <2>6, <4>1, WrapIs
      <3> QED BY <3>1
    <2>8. Unread \in [1 .. Count -> Bytes] /\ Unread = [i \in 1 .. Count |-> rxBuffer[Wrap(rxRindex + i - 1)]]
      BY <2>3, <2>7 DEF Unread, Count
    <2>9. Unread \in Seq(Bytes) /\ Len(Unread) = Count
      BY <2>6, <2>8
    <2>u. PICK u \in Seq(Bytes) : u = Unread /\ Len(u) = Count
      BY <2>9
    <2>r. PICK r \in Seq(Bytes) : r = read
      BY <2>3
    <2>10. PICK s : s = r \o u
      BY Zenon
    <2>11. /\ s \in Seq(Bytes) /\ Len(s) = Len(read) + Count
           /\ \A i \in 1 .. Len(read) : s[i] = read[i]
           /\ \A i \in 1 .. Count : s[Len(read) + i] = u[i]
      <3>1. /\ s \in Seq(Bytes) /\ Len(s) = Len(r) + Len(u)
            /\ \A i \in 1 .. Len(r) : s[i] = r[i]
            /\ \A i \in 1 .. Len(u) : s[Len(r) + i] = u[i]
        BY <2>10, Concatenated
      <3> QED BY <2>r, <2>u, <3>1
    <2>12. Len(s) = Len(T)
      BY Zenon, <2>3, <2>11 DEF Buffered
    <2>13. ASSUME NEW i \in 1 .. Len(s) PROVE s[i] = T[i]
      <3>1. CASE i \in 1 .. Len(read)
        BY Zenon, <2>3, <2>11, <3>1 DEF Buffered
      <3>2. CASE i \notin 1 .. Len(read)
        <4>1. PICK j \in 1 .. Count : i = Len(read) + j
          <5>1. i - Len(read) \in 1 .. Count /\ i = Len(read) + (i - Len(read))
            BY SMTT(30), <2>3, <2>6, <2>11, <3>2
          <5> QED BY <5>1
        <4>2. s[i] = rxBuffer[Wrap(rxRindex + j - 1)]
          BY Zenon, <2>8, <2>11, <2>u, <4>1
        <4> QED BY Zenon, <2>3, <4>1, <4>2 DEF Buffered
      <3> QED BY <3>1, <3>2
    <2>14. s = T
      BY ZenonT(30), <2>5, <2>11, <2>12, <2>13, SameBytes
    <2> QED BY ZenonT(30), <2>1, <2>2, <2>3, <2>r, <2>u, <2>10, <2>14
  <1> QED BY <1>1, AlwaysInputInv, PTL
=============================================================================
