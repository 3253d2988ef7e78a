-------------------------- MODULE FtpServerProofs --------------------------
(***************************************************************************)
(* The FTP server for every timeout, retry limit, queue length, directory   *)
(* and file: what is queued and which sockets are open, for any client and  *)
(* any failure; and the files and updates of a session, for a client that   *)
(* asks for transfers on an open data connection and replies that are not   *)
(* lost for want of memory.                                                 *)
(***************************************************************************)
EXTENDS FtpServer, Integers, TLAPS

\* What ftp_data and the socket fifo may be.
Closes == {"none", "data", "all"}
AnyTag == {"none", "text", "from", "rx", "block", "list"} \X Nat
Elements == [sd : {"c", "d"}, closes : Closes, tag : AnyTag]
FtpData ==
  [state : States, sub : SubStates, enabled : BOOLEAN,
   lc : BOOLEAN, ld : BOOLEAN, c : BOOLEAN, d : BOOLEAN,
   open : {"nothing", "dir", "file"}, handles : Int, special : BOOLEAN, upd : {"closed", "open"},
   user : BOOLEAN, pass : BOOLEAN, txRetries : Nat,
   dtimeout : Nat, ctimeout : Nat, fifo : Seq(Elements), dBuffer : AnyTag,
   root : BOOLEAN, vol : {0, 1}, idx : Nat, listed : Nat, blk : Nat]

Msg(closes) == [sd |-> "c", closes |-> closes, tag |-> <<"none", 0>>]
Block(tag) == [sd |-> "d", closes |-> "none", tag |-> tag]

\* Which sockets are open in which states.
Linked(f) ==
  /\ f.state \in {"DISABLED", "START"} => ~f.lc /\ ~f.ld /\ ~f.c /\ ~f.d
  /\ f.state \in Transfers \cup {"END_TRANSFER"} => f.c
  /\ f.sub = "LISTEN_FOR_DATA" => f.ld /\ ~f.d /\ f.state = "READY"
  /\ f.sub = "DISCONNECTED" => ~f.d

\* What is queued: at most a block that is in dBuffer and a reply behind it, both for open
\* sockets; a block only while the transfer lasts, and the reply that ends a session only
\* when there is none.
Shaped(f) ==
  \/ f.fifo = <<>>
  \/ /\ f.c
     /\ \E cl \in Closes : f.fifo = <<Msg(cl)>> /\ (cl = "all" => f.state = "READY")
  \/ f.d /\ f.state # "READY" /\ f.fifo = <<Block(f.dBuffer)>>
  \/ /\ f.c /\ f.d /\ f.state # "READY"
     /\ \E cl \in {"none", "data"} : f.fifo = <<Block(f.dBuffer), Msg(cl)>>

Conn(f) == f \in FtpData /\ Linked(f) /\ Shaped(f)

\* Handles and updates: a file is open only during a transfer, whose data connection stays;
\* an update is open only while it is received, or until the reply that reports its failure
\* has been sent, unless that reply was lost.
Sess(f, st) ==
  /\ f.handles = IF f.open = "nothing" THEN 0 ELSE 1
  /\ f.open # "nothing" => f.state \in Transfers /\ ~f.special
  /\ f.open # "nothing" /\ f.state = "LISTING" => ~f.root
  /\ f.state \in Transfers => f.d /\ f.fifo \in {<<>>, <<Msg("none")>>, <<Block(f.dBuffer)>>}
  /\ NoMem \/ (f.special <=> f.upd = "open")
  /\ f.special => f.d
  /\ f.special => \/ f.state = "FILE_RX"
                  \/ f.state = "END_TRANSFER" /\ (f.fifo = <<Msg("data")>> \/ (NoMem /\ f.fifo = <<>>))
  /\ f.state = "FILE_RX" => (f.special <=> st = "update")

Good(f, st) == Conn(f) /\ (Polite => Sess(f, st))

\* The inductive invariant.
FtpInv ==
  /\ Good(ftp, store)
  /\ phase \in {"main", "sub", "send"}
  /\ phase = "main" /\ ftp.state \in Transfers => ftp.d

-----------------------------------------------------------------------------
\* The few sequences a fifo is.
LEMMA ShortQueues ==
  ASSUME NEW a, NEW b
  PROVE  /\ Len(<<>>) = 0 /\ Len(<<a>>) = 1 /\ Len(<<a, b>>) = 2
         /\ Append(<<>>, a) = <<a>> /\ Append(<<a>>, b) = <<a, b>>
         /\ Tail(<<a>>) = <<>> /\ Tail(<<a, b>>) = <<b>>
         /\ Head(<<a>>) = a /\ Head(<<a, b>>) = a
         /\ <<a>> # <<>> /\ <<a, b>> # <<>>
  <1>1. Len(<<>>) = 0 /\ Len(<<a>>) = 1 /\ Len(<<a, b>>) = 2
    OBVIOUS
  <1>2. Append(<<>>, a) = <<a>>
    OBVIOUS
  <1>3. Append(<<a>>, b) = <<a, b>>
    <2>1. <<a>> \in Seq({a, b}) /\ Len(<<a>>) = 1
      OBVIOUS
    <2>2. Append(<<a>>, b) = [i \in 1 .. 2 |-> IF i = 2 THEN b ELSE <<a>>[i]]
      BY <2>1
    <2>3. <<a, b>> = [i \in 1 .. 2 |-> IF i = 2 THEN b ELSE <<a>>[i]]
      OBVIOUS
    <2> QED BY <2>2, <2>3, Zenon
  <1>4. Tail(<<a>>) = <<>>
    OBVIOUS
  <1>5. Tail(<<a, b>>) = <<b>>
    OBVIOUS
  <1>6. Head(<<a>>) = a /\ Head(<<a, b>>) = a
    OBVIOUS
  <1>7. <<a>> # <<>> /\ <<a, b>> # <<>>
    OBVIOUS
  <1> QED BY <1>1, <1>2, <1>3, <1>4, <1>5, <1>6, <1>7

LEMMA ElementsTyped ==
  /\ \A cl \in Closes : Msg(cl) \in Elements
  /\ \A tag \in AnyTag : Block(tag) \in Elements
  /\ \A cl : Msg(cl).sd = "c" /\ Msg(cl).closes = cl
  /\ \A tag : Block(tag).sd = "d" /\ Block(tag).closes = "none" /\ Block(tag).tag = tag
  BY DEF Msg, Block, Elements, Closes, AnyTag

\* Nothing is queued and the sockets agree with the state.
Quiet(f) == f \in FtpData /\ Linked(f) /\ f.fifo = <<>>

\* The fields that say which sockets, files and updates are open.
Kept(f, g) ==
  /\ g.state = f.state /\ g.sub = f.sub
  /\ g.lc = f.lc /\ g.ld = f.ld /\ g.c = f.c /\ g.d = f.d
  /\ g.open = f.open /\ g.handles = f.handles /\ g.special = f.special /\ g.upd = f.upd
  /\ g.root = f.root

LEMMA PushFirst ==
  ASSUME NEW f \in FtpData, f.fifo = <<>>, NEW e
  PROVE  Push(f, e) = [f EXCEPT !.fifo = <<e>>]
  <1>1. Append(f.fifo, e) = <<e>> /\ Len(f.fifo) = 0
    BY ShortQueues
  <1>2. 0 < FifoMax
    BY FtpConstants
  <1> QED BY <1>1, <1>2 DEF Push

LEMMA PushSecond ==
  ASSUME NEW f \in FtpData, NEW a, f.fifo = <<a>>, NEW e
  PROVE  Push(f, e) = f \/ Push(f, e) = [f EXCEPT !.fifo = <<a, e>>]
  <1>1. Append(f.fifo, e) = <<a, e>>
    BY ShortQueues, Zenon
  <1> QED BY <1>1 DEF Push

\* ftp_send_reply on an empty queue: the reply is queued, or there was no memory.
LEMMA ReplyQueues ==
  ASSUME NEW f \in FtpData, f.fifo = <<>>, NEW cl \in Closes, NEW g \in Reply(f, cl)
  PROVE  /\ g \in FtpData /\ Kept(f, g) /\ g.dBuffer = f.dBuffer
         /\ g.user = f.user /\ g.pass = f.pass
         /\ g.fifo = <<Msg(cl)>> \/ (NoMem /\ g.fifo = <<>>)
  <1>1. Push(f, Msg(cl)) = [f EXCEPT !.fifo = <<Msg(cl)>>]
    BY PushFirst
  <1>2. PICK queued \in May(NoMem) : g = IF queued THEN Push(f, Msg(cl)) ELSE f
    BY DEF Reply, Msg
  <1>3. g = [f EXCEPT !.fifo = <<Msg(cl)>>] \/ (NoMem /\ g = f)
    BY <1>1, <1>2, Zenon DEF May
  <1>4. <<Msg(cl)>> \in Seq(Elements)
    BY ElementsTyped
  <1>5. CASE g = f
    BY <1>3, <1>5 DEF Kept, FtpData
  <1>6. CASE g = [f EXCEPT !.fifo = <<Msg(cl)>>]
    <2>1. g \in FtpData
      BY <1>4, <1>6, ZenonT(30) DEF FtpData
    <2> QED BY <1>6, <2>1 DEF Kept, FtpData
  <1> QED BY <1>3, <1>5, <1>6

\* ftp_send_data on an empty queue.
LEMMA DataQueues ==
  ASSUME NEW f \in FtpData, f.fifo = <<>>, NEW tag \in AnyTag
  PROVE  /\ SendData(f, tag) \in FtpData /\ Kept(f, SendData(f, tag))
         /\ SendData(f, tag).dBuffer = tag /\ SendData(f, tag).fifo = <<Block(tag)>>
  <1> DEFINE h == [f EXCEPT !.dBuffer = tag]
             g == SendData(f, tag)
  <1>1. h \in FtpData /\ h.fifo = <<>> /\ Kept(f, h) /\ h.dBuffer = tag
    <2>1. h \in FtpData
      BY SMTT(30) DEF FtpData
    <2>2. h.fifo = <<>>
      BY DEF FtpData
    <2>3. h.dBuffer = tag
      BY DEF FtpData
    <2>4. Kept(f, h)
      BY DEF FtpData, Kept
    <2> QED BY <2>1, <2>2, <2>3, <2>4
  <1>2. g = Push(h, Block(tag))
    BY DEF SendData, Block
  <1> HIDE DEF h
  <1>3. g = [h EXCEPT !.fifo = <<Block(tag)>>]
    BY <1>1, <1>2, PushFirst
  <1> HIDE DEF g
  <1>4. <<Block(tag)>> \in Seq(Elements)
    BY ElementsTyped
  <1>5. g \in FtpData
    BY <1>1, <1>3, <1>4, ZenonT(30) DEF FtpData
  <1>6. Kept(h, g) /\ g.dBuffer = h.dBuffer /\ g.fifo = <<Block(tag)>>
    BY <1>1, <1>3 DEF FtpData, Kept
  <1> QED BY <1>1, <1>5, <1>6 DEF Kept, g

\* A block and the reply that ends its transfer.
LEMMA ReplyBehindData ==
  ASSUME NEW f \in FtpData, f.fifo = <<Block(f.dBuffer)>>, NEW cl \in Closes, NEW g \in Reply(f, cl)
  PROVE  /\ g \in FtpData /\ Kept(f, g) /\ g.dBuffer = f.dBuffer
         /\ g.fifo \in {<<Block(f.dBuffer)>>, <<Block(f.dBuffer), Msg(cl)>>}
  <1>1. PICK queued \in May(NoMem) : g = IF queued THEN Push(f, Msg(cl)) ELSE f
    BY DEF Reply, Msg
  <1>2. g = f \/ g = [f EXCEPT !.fifo = <<Block(f.dBuffer), Msg(cl)>>]
    <2>1. Push(f, Msg(cl)) = f \/ Push(f, Msg(cl)) = [f EXCEPT !.fifo = <<Block(f.dBuffer), Msg(cl)>>]
      BY PushSecond
    <2> QED BY <1>1, <2>1
  <1>3. CASE g = f
    BY <1>3 DEF Kept
  <1>4. CASE g = [f EXCEPT !.fifo = <<Block(f.dBuffer), Msg(cl)>>]
    <2>1. f.dBuffer \in AnyTag
      BY DEF FtpData
    <2>2. <<Block(f.dBuffer), Msg(cl)>> \in Seq(Elements)
      BY <2>1, ElementsTyped
    <2>3. g \in FtpData
      BY <1>4, <2>2, ZenonT(30) DEF FtpData
    <2> QED BY <1>4, <2>3 DEF Kept, FtpData
  <1> QED BY <1>2, <1>3, <1>4

\* The sockets and the queue.
SameSockets(f, g) ==
  /\ g.state = f.state /\ g.sub = f.sub
  /\ g.lc = f.lc /\ g.ld = f.ld /\ g.c = f.c /\ g.d = f.d
  /\ g.fifo = f.fifo /\ g.dBuffer = f.dBuffer /\ g.root = f.root

\* ftp_close_files.
HandlesLeft(f) == IF f.open = "nothing" THEN f.handles ELSE f.handles - 1

LEMMA FilesClosed ==
  ASSUME NEW f \in FtpData
  PROVE  /\ CloseFiles(f) \in FtpData /\ SameSockets(f, CloseFiles(f))
         /\ CloseFiles(f).open = "nothing" /\ CloseFiles(f).handles = HandlesLeft(f)
         /\ CloseFiles(f).special = f.special /\ CloseFiles(f).upd = f.upd
         /\ CloseFiles(f).blk = f.blk /\ CloseFiles(f).idx = f.idx /\ CloseFiles(f).listed = f.listed
  <1> DEFINE n == HandlesLeft(f)
             h == CloseFiles(f)
  <1>1. n \in Int
    BY DEF HandlesLeft, FtpData
  <1>2. h = [f EXCEPT !.open = "nothing", !.handles = n]
    BY DEF CloseFiles, HandlesLeft, FtpData
  <1> HIDE DEF n, h
  <1>3. h \in FtpData
    BY <1>1, <1>2, Zenon DEF FtpData
  <1>4. /\ SameSockets(f, h) /\ h.open = "nothing" /\ h.handles = n /\ h.special = f.special
        /\ h.upd = f.upd /\ h.blk = f.blk /\ h.idx = f.idx /\ h.listed = f.listed
    BY <1>2 DEF FtpData, SameSockets
  <1> QED BY <1>3, <1>4 DEF n, h

\* ftp_close_filesystem_on_error.
LEMMA ErrorClosed ==
  ASSUME NEW f \in FtpData
  PROVE  /\ CloseOnError(f) \in FtpData /\ SameSockets(f, CloseOnError(f))
         /\ CloseOnError(f).open = "nothing" /\ CloseOnError(f).handles = HandlesLeft(f)
         /\ ~CloseOnError(f).special
         /\ CloseOnError(f).upd = IF f.special THEN "closed" ELSE f.upd
  <1> DEFINE g == CloseFiles(f)
             h == UpdaterFinish(g)
  <1>1. /\ g \in FtpData /\ SameSockets(f, g) /\ g.open = "nothing" /\ g.handles = HandlesLeft(f)
        /\ g.special = f.special /\ g.upd = f.upd
    BY FilesClosed
  <1> HIDE DEF g
  <1>2. h = [g EXCEPT !.special = FALSE, !.upd = "closed"]
    BY DEF UpdaterFinish
  <1> HIDE DEF h
  <1>3. h \in FtpData
    BY <1>1, <1>2, ZenonT(30) DEF FtpData
  <1>4. SameSockets(g, h) /\ h.open = g.open /\ h.handles = g.handles /\ ~h.special /\ h.upd = "closed"
    BY <1>1, <1>2 DEF FtpData, SameSockets
  <1>5. SameSockets(f, h)
    BY <1>1, <1>4 DEF SameSockets
  <1>6. CloseOnError(f) = IF f.special THEN h ELSE g
    BY DEF CloseOnError, g, h
  <1>7. CASE f.special
    BY <1>1, <1>3, <1>4, <1>5, <1>6, <1>7
  <1>8. CASE ~f.special
    BY <1>1, <1>6, <1>8
  <1> QED BY <1>7, <1>8

\* ftp_reset.
LEMMA ResetDone ==
  ASSUME NEW f \in FtpData
  PROVE  LET h == Reset(f) IN
         /\ h \in FtpData /\ h.state = "START" /\ h.sub = "DISCONNECTED"
         /\ ~h.lc /\ ~h.ld /\ ~h.c /\ ~h.d /\ h.fifo = <<>>
         /\ h.open = "nothing" /\ h.handles = HandlesLeft(f)
         /\ ~h.special /\ h.upd = IF f.special THEN "closed" ELSE f.upd
  <1> DEFINE a == [f EXCEPT !.lc = FALSE, !.ld = FALSE]
             b == [a EXCEPT !.c = FALSE, !.d = FALSE]
             e == CloseOnError(b)
             h == Reset(f)
  <1>1. a \in FtpData /\ ~a.lc /\ ~a.ld /\ a.open = f.open /\ a.handles = f.handles
        /\ a.special = f.special /\ a.upd = f.upd
    BY Zenon DEF FtpData
  <1> HIDE DEF a
  <1>2. b \in FtpData /\ ~b.lc /\ ~b.ld /\ ~b.c /\ ~b.d
    BY <1>1, Zenon DEF FtpData
  <1>3. HandlesLeft(b) = HandlesLeft(f) /\ b.special = f.special /\ b.upd = f.upd
    BY <1>1 DEF HandlesLeft, FtpData
  <1> HIDE DEF b
  <1>4. /\ e \in FtpData /\ SameSockets(b, e) /\ e.open = "nothing" /\ e.handles = HandlesLeft(f)
        /\ ~e.special /\ e.upd = IF f.special THEN "closed" ELSE f.upd
    BY <1>2, <1>3, ErrorClosed
  <1> HIDE DEF e
  <1>5. h = [e EXCEPT !.state = "START", !.sub = "DISCONNECTED", !.vol = 0, !.fifo = <<>>]
    BY DEF Reset, CloseCmdData, a, b, e
  <1> HIDE DEF h
  <1>6. h \in FtpData
    <2>1. "START" \in States /\ "DISCONNECTED" \in SubStates /\ <<>> \in Seq(Elements)
      BY DEF States, SubStates
    <2> QED BY <1>4, <1>5, <2>1, ZenonT(30) DEF FtpData
  <1>7. /\ h.state = "START" /\ h.sub = "DISCONNECTED" /\ h.fifo = <<>> /\ h.open = e.open
        /\ h.handles = e.handles /\ h.special = e.special /\ h.upd = e.upd
        /\ h.lc = e.lc /\ h.ld = e.ld /\ h.c = e.c /\ h.d = e.d
    BY <1>4, <1>5 DEF FtpData
  <1>8. ~h.lc /\ ~h.ld /\ ~h.c /\ ~h.d
    BY <1>2, <1>4, <1>7 DEF SameSockets
  <1> QED BY <1>4, <1>6, <1>7, <1>8 DEF h

-----------------------------------------------------------------------------
\* The names of the states, and the disjoint groups among them.
LEMMA Names ==
  /\ {"DISABLED", "START", "READY", "END_TRANSFER", "LISTING", "FILE_TX", "FILE_RX"} \subseteq States
  /\ {"DISCONNECTED", "LISTEN_FOR_DATA", "DATA_CONNECTED"} \subseteq SubStates
  /\ {"DISABLED", "START", "READY", "END_TRANSFER"} \cap Transfers = {}
  /\ {"LISTING", "FILE_TX", "FILE_RX"} \subseteq Transfers
  /\ Closes = {"none", "data", "all"}
  BY DEF States, SubStates, Transfers, Closes

\* What changes neither sockets nor queue nor files keeps the invariant.
LEMMA SameGood ==
  ASSUME NEW f, NEW st, Good(f, st), NEW g \in FtpData, Kept(f, g), g.fifo = f.fifo, g.dBuffer = f.dBuffer
  PROVE  Good(g, st)
  <1>1. Linked(g)
    BY DEF Good, Conn, Linked, Kept
  <1>2. Shaped(g)
    BY DEF Good, Conn, Shaped, Kept
  <1>3. Polite => Sess(g, st)
    BY DEF Good, Sess, Kept
  <1> QED BY <1>1, <1>2, <1>3 DEF Good, Conn

\* A reply on an empty queue.  In a transfer it closes nothing; while an update is open it
\* is the one that reports a failure, or belongs to the transfer.
Replies(f, st, cl) ==
  /\ f.handles = IF f.open = "nothing" THEN 0 ELSE 1
  /\ f.open # "nothing" => f.state \in Transfers /\ ~f.special
  /\ f.open # "nothing" /\ f.state = "LISTING" => ~f.root
  /\ f.state \in Transfers => f.d /\ cl = "none"
  /\ NoMem \/ (f.special <=> f.upd = "open")
  /\ f.special => f.d
  /\ f.special => f.state = "FILE_RX" \/ (f.state = "END_TRANSFER" /\ cl = "data")
  /\ f.state = "FILE_RX" => (f.special <=> st = "update")

LEMMA ReplyGood ==
  ASSUME NEW f, Quiet(f), f.c, NEW cl \in Closes, cl = "all" => f.state = "READY",
         NEW st, Polite => Replies(f, st, cl), NEW g \in Reply(f, cl)
  PROVE  Good(g, st) /\ g.state = f.state /\ g.d = f.d /\ g.c = f.c /\ Kept(f, g)
  <1>1. f \in FtpData /\ Linked(f) /\ f.fifo = <<>>
    BY DEF Quiet
  <1>2. g \in FtpData /\ Kept(f, g) /\ (g.fifo = <<Msg(cl)>> \/ (NoMem /\ g.fifo = <<>>))
    BY <1>1, ReplyQueues
  <1>3. Linked(g)
    BY <1>1, <1>2 DEF Linked, Kept
  <1>4. Shaped(g)
    BY <1>2 DEF Shaped, Kept
  <1>5. ASSUME Polite PROVE Sess(g, st)
    <2>1. Replies(f, st, cl)
      BY <1>5
    <2> QED BY Zenon, <1>2, <2>1 DEF Sess, Replies, Kept
  <1> QED BY <1>2, <1>3, <1>4, <1>5 DEF Good, Conn, Kept

\* A reply outside transfers: no file and no update is open.
LEMMA ReadyReply ==
  ASSUME NEW f, NEW st, Good(f, st), f.state = "READY", f.c, NEW g \in FtpData, Kept(f, g), g.fifo = <<>>,
         NEW cl \in Closes, NEW h \in Reply(g, cl)
  PROVE  Good(h, st) /\ h.state = "READY"
  <1>1. Quiet(g)
    BY DEF Good, Conn, Linked, Kept, Quiet
  <1>2. Polite => Replies(g, st, cl)
    BY Names DEF Good, Sess, Replies, Kept
  <1>3. g.state = "READY" /\ g.c
    BY DEF Kept
  <1> QED BY <1>1, <1>2, <1>3, ReplyGood, Zenon

\* ftp_reset keeps the invariant, whatever was open.
LEMMA ResetGood ==
  ASSUME NEW f \in FtpData, NEW st,
         Polite => f.handles = (IF f.open = "nothing" THEN 0 ELSE 1) /\ (NoMem \/ (f.special <=> f.upd = "open"))
  PROVE  Good(Reset(f), st)
  <1> DEFINE h == Reset(f)
  <1>1. /\ h \in FtpData /\ h.state = "START" /\ h.sub = "DISCONNECTED"
        /\ ~h.lc /\ ~h.ld /\ ~h.c /\ ~h.d /\ h.fifo = <<>>
        /\ h.open = "nothing" /\ h.handles = HandlesLeft(f)
        /\ ~h.special /\ h.upd = IF f.special THEN "closed" ELSE f.upd
    BY ResetDone
  <1> HIDE DEF h
  <1>2. Linked(h) /\ Shaped(h)
    BY <1>1, Names DEF Linked, Shaped
  <1>3. ASSUME Polite PROVE Sess(h, st)
    <2>1. h.handles = 0
      BY <1>1, <1>3 DEF HandlesLeft
    <2>2. NoMem \/ h.upd = "closed"
      BY <1>1, <1>3 DEF FtpData
    <2> QED BY <1>1, <2>1, <2>2, Names DEF Sess
  <1> QED BY <1>1, <1>2, <1>3 DEF Good, Conn, h

-----------------------------------------------------------------------------
\* One lemma per handler of ftp_run's first switch.
LEMMA EnabledStep ==
  ASSUME FtpInv, WaitForEnabled \/ CreateListeningSocket
  PROVE  Good(ftp', store') /\ phase' = "sub" /\ ~ftp'.c
  <1>1. Good(ftp, store) /\ ftp \in FtpData /\ Linked(ftp) /\ Shaped(ftp) /\ ftp.state \in {"DISABLED", "START"}
    BY DEF FtpInv, Good, Conn, WaitForEnabled, CreateListeningSocket
  <1>2. ~ftp.lc /\ ~ftp.ld /\ ~ftp.c /\ ~ftp.d /\ ftp.fifo = <<>> /\ ftp.sub # "LISTEN_FOR_DATA"
    BY <1>1 DEF Linked, Shaped
  <1>3. PICK st \in {"DISABLED", "START", "READY"}, l \in BOOLEAN :
          /\ ftp' = [ftp EXCEPT !.state = st, !.lc = l] /\ (st # "READY" => ~l)
          /\ phase' = "sub" /\ store' = store
    <2>1. CASE WaitForEnabled
      <3>1. ftp' = (IF ftp.enabled THEN [ftp EXCEPT !.state = "START"] ELSE ftp) /\ phase' = "sub" /\ store' = store
        BY <2>1 DEF WaitForEnabled, Main
      <3>2. ftp = [ftp EXCEPT !.state = "DISABLED", !.lc = FALSE]
        BY <1>1, <1>2, <2>1, Zenon DEF FtpData, WaitForEnabled
      <3>3. [ftp EXCEPT !.state = "START"] = [ftp EXCEPT !.state = "START", !.lc = FALSE]
        BY <1>1, <1>2, Zenon DEF FtpData
      <3> QED BY <3>1, <3>2, <3>3, Zenon
    <2>2. CASE CreateListeningSocket
      <3>1. /\ ftp' \in {[ftp EXCEPT !.lc = TRUE, !.state = "READY"], [ftp EXCEPT !.lc = FALSE]}
            /\ phase' = "sub" /\ store' = store
        BY <2>2 DEF CreateListeningSocket, Main
      <3>2. [ftp EXCEPT !.lc = FALSE] = [ftp EXCEPT !.state = "START", !.lc = FALSE]
        BY <1>1, <2>2, Zenon DEF FtpData, CreateListeningSocket
      <3>3. [ftp EXCEPT !.lc = TRUE, !.state = "READY"] = [ftp EXCEPT !.state = "READY", !.lc = TRUE]
        BY <1>1, Zenon DEF FtpData
      <3> QED BY <3>1, <3>2, <3>3, Zenon
    <2> QED BY <2>1, <2>2, Zenon
  <1>4. ftp' \in FtpData
    BY <1>1, <1>3, Names, ZenonT(30) DEF FtpData
  <1>5. /\ ftp'.state = st /\ ftp'.lc = l /\ ftp'.sub = ftp.sub /\ ftp'.ld = ftp.ld /\ ftp'.c = ftp.c
        /\ ftp'.d = ftp.d /\ ftp'.open = ftp.open /\ ftp'.handles = ftp.handles
        /\ ftp'.special = ftp.special /\ ftp'.upd = ftp.upd /\ ftp'.fifo = ftp.fifo
    BY <1>1, <1>3 DEF FtpData
  <1>6. Linked(ftp') /\ Shaped(ftp')
    BY <1>2, <1>3, <1>5, Names DEF Linked, Shaped
  <1>7. Polite => Sess(ftp', store')
    BY <1>1, <1>3, <1>5, Names DEF Good, Sess
  <1> QED BY <1>2, <1>3, <1>4, <1>5, <1>6, <1>7 DEF Good, Conn

LEMMA InvParts ==
  ASSUME FtpInv
  PROVE  /\ Good(ftp, store) /\ ftp \in FtpData /\ Linked(ftp) /\ Shaped(ftp)
         /\ Polite => Sess(ftp, store)
  BY DEF FtpInv, Good, Conn

\* accept: nothing is queued when there is no client and no data connection.
LEMMA ConnectionStep ==
  ASSUME FtpInv, WaitForConnection
  PROVE  /\ Good(ftp', store') /\ phase' = "sub"
         /\ ftp'.c => /\ ~ftp'.d /\ ~ftp'.user /\ ~ftp'.pass /\ ftp'.fifo \in {<<>>, <<Msg("none")>>}
                      /\ ftp'.open = ftp.open /\ ftp'.special = ftp.special /\ ftp'.upd = ftp.upd
  <1> DEFINE f == [ftp EXCEPT !.c = TRUE, !.txRetries = 0, !.ctimeout = 0, !.user = FALSE, !.pass = FALSE]
  <1>1. /\ ftp.state = "READY" /\ ~ftp.c /\ ftp.sub = "DISCONNECTED" /\ phase' = "sub" /\ store' = store
        /\ ftp' \in Reply(f, "none") \cup {ftp} \cup (IF Aborts THEN {Reset(ftp)} ELSE {})
    BY DEF WaitForConnection, Accepting, Main
  <1>2. ~ftp.d /\ ftp.fifo = <<>>
    BY <1>1, InvParts DEF Linked, Shaped
  <1>3. /\ f \in FtpData /\ f.c /\ ~f.user /\ ~f.pass /\ f.state = "READY" /\ f.sub = ftp.sub /\ f.d = ftp.d
        /\ f.fifo = ftp.fifo /\ f.open = ftp.open /\ f.handles = ftp.handles
        /\ f.special = ftp.special /\ f.upd = ftp.upd
    <2>1. f \in FtpData
      BY InvParts, ZenonT(30) DEF FtpData
    <2> QED BY <1>1, <2>1, InvParts DEF FtpData
  <1> HIDE DEF f
  <1>4. CASE ftp' \in Reply(f, "none")
    <2>1. Quiet(f)
      BY <1>1, <1>2, <1>3, Names DEF Quiet, Linked
    <2>2. Polite => Replies(f, store, "none")
      BY <1>1, <1>3, InvParts, Names DEF Sess, Replies
    <2>3. Good(ftp', store)
      BY Zenon, <1>3, <1>4, <2>1, <2>2, ReplyGood, Names
    <2>4. /\ Kept(f, ftp') /\ ftp'.user = f.user /\ ftp'.pass = f.pass
          /\ ftp'.fifo = <<Msg("none")>> \/ ftp'.fifo = <<>>
      BY <1>2, <1>3, <1>4, ReplyQueues, Names
    <2> QED BY <1>1, <1>2, <1>3, <2>3, <2>4, Zenon DEF Kept
  <1>5. CASE ftp' = ftp
    BY <1>1, <1>5, InvParts
  <1>6. CASE ftp' = Reset(ftp)
    <2>1. Polite => ftp.handles = (IF ftp.open = "nothing" THEN 0 ELSE 1) /\ (NoMem \/ (ftp.special <=> ftp.upd = "open"))
      BY InvParts DEF Sess
    <2>2. ~ftp'.c
      BY <1>6, InvParts, ResetDone
    <2> QED BY <1>1, <1>6, <2>1, <2>2, InvParts, ResetGood
  <1> QED BY <1>1, <1>4, <1>5, <1>6

\* Nothing happens.
LEMMA IdleStep ==
  ASSUME FtpInv, ReadyIdle \/ ContinueEnd \/ QueueBusy
  PROVE  Good(ftp', store') /\ phase' = "sub" /\ ftp' = ftp
  <1>1. ftp' = ftp /\ phase' = "sub" /\ store' = store
    BY DEF ReadyIdle, ContinueEnd, QueueBusy, Main
  <1> QED BY <1>1, InvParts

\* Commands that only answer.
LEMMA PlainStep ==
  ASSUME FtpInv, Processing,
         NEW f \in FtpData, Kept(ftp, f), f.fifo = ftp.fifo, NEW cl \in Closes, Main(Reply(f, cl)), UNCHANGED store
  PROVE  Good(ftp', store') /\ phase' = "sub" /\ ftp'.state = "READY" /\ ftp'.c = ftp.c
  <1>1. ftp.state = "READY" /\ ftp.c /\ ftp.fifo = <<>> /\ ftp' \in Reply(f, cl) /\ phase' = "sub" /\ store' = store
    BY DEF Processing, Main
  <1>2. Good(ftp', store) /\ ftp'.state = "READY"
    BY <1>1, InvParts, ReadyReply
  <1>3. ftp'.c = ftp.c
    BY <1>1, ReplyQueues, Zenon DEF Kept
  <1> QED BY <1>1, <1>2, <1>3

LEMMA CommandStep ==
  ASSUME FtpInv, NeedsLogin \/ User \/ Pass \/ Quit \/ PlainCommand \/ RefusedCommand \/ SizeOrMdtm \/ Rnfr \/ Rnto
  PROVE  Good(ftp', store') /\ phase' = "sub" /\ ftp'.state = "READY" /\ ftp'.c = ftp.c
  <1>1. Processing /\ UNCHANGED store
    BY DEF NeedsLogin, User, Pass, Quit, PlainCommand, RefusedCommand, SizeOrMdtm, Rnfr, Rnto, LoggedIn
  <1>2. \E f \in FtpData, cl \in Closes : Kept(ftp, f) /\ f.fifo = ftp.fifo /\ Main(Reply(f, cl))
    <2>1. CASE NeedsLogin \/ PlainCommand \/ Rnto \/ Quit \/ RefusedCommand
      <3>1. \E cl \in Closes : Main(Reply(ftp, cl))
        BY <2>1, Names DEF NeedsLogin, PlainCommand, Rnto, Quit, RefusedCommand
      <3>2. Kept(ftp, ftp)
        BY DEF Kept
      <3> QED BY <3>1, <3>2, InvParts
    <2>2. ASSUME NEW x \in BOOLEAN
          PROVE  LET f == [ftp EXCEPT !.user = x] IN f \in FtpData /\ Kept(ftp, f) /\ f.fifo = ftp.fifo
      BY SMTT(30), InvParts DEF FtpData, Kept
    <2>3. ASSUME NEW x \in BOOLEAN
          PROVE  LET f == [ftp EXCEPT !.pass = x] IN f \in FtpData /\ Kept(ftp, f) /\ f.fifo = ftp.fifo
      BY SMTT(30), InvParts DEF FtpData, Kept
    <2>4. ASSUME NEW x \in AnyTag
          PROVE  LET f == [ftp EXCEPT !.dBuffer = x] IN f \in FtpData /\ Kept(ftp, f) /\ f.fifo = ftp.fifo
      BY SMTT(30), InvParts DEF FtpData, Kept
    <2>5. CASE User
      <3>1. PICK right \in BOOLEAN : Main(Reply([ftp EXCEPT !.user = ftp.user \/ right], "none"))
        BY <2>5 DEF User
      <3>2. (ftp.user \/ right) \in BOOLEAN
        OBVIOUS
      <3> QED BY <3>1, <3>2, <2>2, Names, Zenon
    <2>6. CASE Pass
      <3>1. PICK right \in BOOLEAN : Main(Reply([ftp EXCEPT !.pass = ftp.pass \/ (right /\ ftp.user)], "none"))
        BY <2>6 DEF Pass
      <3>2. (ftp.pass \/ (right /\ ftp.user)) \in BOOLEAN
        OBVIOUS
      <3> QED BY <3>1, <3>2, <2>3, Names, Zenon
    <2>7. CASE SizeOrMdtm \/ Rnfr
      <3>1. \E x \in {<<"text", 0>>, <<"from", 0>>} : Main(Reply([ftp EXCEPT !.dBuffer = x], "none"))
        BY <2>7 DEF SizeOrMdtm, Rnfr
      <3>2. {<<"text", 0>>, <<"from", 0>>} \subseteq AnyTag
        BY DEF AnyTag
      <3> QED BY <3>1, <3>2, <2>4, Names, Zenon
    <2> QED BY <2>1, <2>5, <2>6, <2>7
  <1> QED BY <1>1, <1>2, PlainStep

\* No command in time: the session is ended; or the client has gone.
LEMMA SilenceStep ==
  ASSUME FtpInv, NoCommand
  PROVE  Good(ftp', store') /\ phase' = "sub" /\ ftp'.c = ftp.c
  <1> DEFINE n == IF ftp.ctimeout > CmdCycles + 1 THEN ftp.ctimeout ELSE ftp.ctimeout + 1
             f == [ftp EXCEPT !.ctimeout = n]
  <1>1. n \in Nat
    BY InvParts DEF FtpData
  <1>2. Processing /\ UNCHANGED store /\ Main(IF ftp.ctimeout > CmdCycles THEN Reply(f, "all") ELSE {f})
    BY DEF NoCommand
  <1> HIDE DEF n
  <1>3. f \in FtpData /\ Kept(ftp, f) /\ f.fifo = ftp.fifo /\ f.dBuffer = ftp.dBuffer
    <2>1. f \in FtpData
      BY SMTT(30), <1>1, InvParts DEF FtpData
    <2> QED BY <2>1, InvParts DEF FtpData, Kept
  <1> HIDE DEF f
  <1>4. CASE Main(Reply(f, "all"))
    BY <1>2, <1>3, <1>4, PlainStep, Names
  <1>5. CASE Main({f})
    <2>1. ftp' = f /\ phase' = "sub" /\ store' = store
      BY <1>2, <1>5 DEF Main
    <2> QED BY <2>1, <1>3, InvParts, SameGood DEF Kept
  <1> QED BY <1>2, <1>4, <1>5

LEMMA GoneStep ==
  ASSUME FtpInv, CommandSocketClosed
  PROVE  Good(ftp', store') /\ phase' = "sub" /\ ~ftp'.c
  <1> DEFINE f == [ftp EXCEPT !.c = FALSE, !.d = FALSE]
  <1>1. /\ ftp' = CloseOnError(f) /\ phase' = "sub" /\ store' = store
        /\ ftp.state = "READY" /\ ftp.fifo = <<>> /\ ftp.sub # "LISTEN_FOR_DATA"
    BY DEF CommandSocketClosed, Main, Processing, CloseCmdData
  <1>2. f \in FtpData
    BY InvParts, Zenon DEF FtpData
  <1>3. /\ ~f.c /\ ~f.d /\ f.state = ftp.state /\ f.sub = ftp.sub /\ f.lc = ftp.lc /\ f.ld = ftp.ld
        /\ f.fifo = ftp.fifo /\ f.open = ftp.open /\ f.handles = ftp.handles
        /\ f.special = ftp.special /\ f.upd = ftp.upd
    BY InvParts DEF FtpData
  <1> HIDE DEF f
  <1>4. /\ ftp' \in FtpData /\ SameSockets(f, ftp') /\ ftp'.open = "nothing"
        /\ ftp'.handles = HandlesLeft(f) /\ ~ftp'.special /\ ftp'.upd = IF f.special THEN "closed" ELSE f.upd
    BY <1>1, <1>2, ErrorClosed
  <1>5. Linked(ftp') /\ Shaped(ftp') /\ ~ftp'.c
    BY <1>1, <1>3, <1>4, InvParts, Names DEF Linked, Shaped, SameSockets
  <1>6. ASSUME Polite PROVE Sess(ftp', store')
    <2>1. Sess(ftp, store) /\ ftp.open = "nothing" /\ ftp.handles = 0 /\ ~ftp.special /\ (NoMem \/ ftp.upd # "open")
      BY <1>1, <1>6, InvParts, Names DEF Sess
    <2>2. HandlesLeft(f) = 0 /\ ftp'.state = "READY"
      BY <1>1, <1>3, <1>4, <2>1 DEF HandlesLeft, SameSockets
    <2> QED BY <1>3, <1>4, <2>1, <2>2, Names DEF Sess
  <1> QED BY <1>1, <1>4, <1>5, <1>6 DEF Good, Conn

LEMMA PasvStep ==
  ASSUME FtpInv, Pasv
  PROVE  Good(ftp', store') /\ phase' = "sub" /\ ftp'.c = ftp.c
  <1> DEFINE f == [ftp EXCEPT !.d = FALSE, !.sub = "DISCONNECTED"]
             g == [f EXCEPT !.sub = "LISTEN_FOR_DATA", !.ld = TRUE, !.dtimeout = 0, !.dBuffer = <<"text", 0>>]
  <1>1. /\ ftp' \in Reply(f, "none") \cup Reply(g, "none") /\ phase' = "sub" /\ store' = store
        /\ ftp.state = "READY" /\ ftp.fifo = <<>> /\ ftp.c
    BY DEF Pasv, Main, Processing, LoggedIn
  <1>2. f \in FtpData
    BY InvParts, Names, Zenon DEF FtpData
  <1>3. /\ f.c = ftp.c /\ ~f.d /\ f.state = ftp.state /\ f.sub = "DISCONNECTED" /\ f.fifo = ftp.fifo
        /\ f.open = ftp.open /\ f.handles = ftp.handles /\ f.special = ftp.special /\ f.upd = ftp.upd
    BY InvParts DEF FtpData
  <1> HIDE DEF f
  <1>4. g \in FtpData
    <2>1. <<"text", 0>> \in AnyTag
      BY DEF AnyTag
    <2> QED BY <1>2, <2>1, Names, Zenon DEF FtpData
  <1>5. /\ g.c = f.c /\ g.d = f.d /\ g.ld /\ g.state = f.state /\ g.sub = "LISTEN_FOR_DATA" /\ g.fifo = f.fifo
        /\ g.open = f.open /\ g.handles = f.handles /\ g.special = f.special /\ g.upd = f.upd
    BY <1>2 DEF FtpData
  <1> HIDE DEF g
  <1>6. PICK h \in {f, g} : ftp' \in Reply(h, "none")
    BY <1>1
  <1>7. /\ h \in FtpData /\ h.c = ftp.c /\ ~h.d /\ h.state = "READY" /\ h.fifo = <<>>
        /\ h.sub = "LISTEN_FOR_DATA" => h.ld
        /\ h.open = ftp.open /\ h.handles = ftp.handles /\ h.special = ftp.special /\ h.upd = ftp.upd
    BY <1>1, <1>2, <1>3, <1>4, <1>5, Zenon
  <1>8. Quiet(h)
    BY <1>7, Names DEF Quiet, Linked
  <1>9. Polite => Replies(h, store, "none")
    BY <1>1, <1>7, InvParts, Names DEF Sess, Replies
  <1> QED BY <1>1, <1>6, <1>7, <1>8, <1>9, ReplyGood, Names, Zenon

\* A handle more, counted up to HandleCap.
LEMMA HandleOpened ==
  ASSUME NEW f \in FtpData, NEW kind \in {"dir", "file"}
  PROVE  /\ Opened(f, kind) \in FtpData /\ SameSockets(f, Opened(f, kind))
         /\ Opened(f, kind).open = kind /\ (f.handles = 0 => Opened(f, kind).handles = 1)
         /\ Opened(f, kind).special = f.special /\ Opened(f, kind).upd = f.upd
         /\ Opened(f, kind).listed = f.listed
  <1> DEFINE n == IF f.handles < HandleCap THEN f.handles + 1 ELSE f.handles
             h == Opened(f, kind)
  <1>1. n \in Int /\ (f.handles = 0 => n = 1)
    BY DEF HandleCap, FtpData
  <1>2. h = [f EXCEPT !.open = kind, !.handles = n]
    BY DEF Opened
  <1> HIDE DEF n, h
  <1>3. h \in FtpData
    BY <1>1, <1>2, Zenon DEF FtpData
  <1>4. /\ SameSockets(f, h) /\ h.open = kind /\ h.handles = n
        /\ h.special = f.special /\ h.upd = f.upd /\ h.listed = f.listed
    BY <1>2 DEF FtpData, SameSockets
  <1> QED BY <1>1, <1>3, <1>4 DEF h

\* The reply 150: a transfer begins, in the state of a server that was ready.
Begins(f, g) ==
  /\ g \in FtpData /\ g.state \in Transfers
  /\ g.sub = f.sub /\ g.lc = f.lc /\ g.ld = f.ld /\ g.c = f.c /\ g.d = f.d /\ g.fifo = f.fifo

LEMMA BeginGood ==
  ASSUME FtpInv, Asks, NEW f, Begins(ftp, f), ftp' \in Reply(f, "none"),
         Polite => /\ f.handles = IF f.open = "nothing" THEN 0 ELSE 1
                   /\ f.open # "nothing" => ~f.special /\ (f.state = "LISTING" => ~f.root)
                   /\ NoMem \/ (f.special <=> f.upd = "open")
                   /\ f.special => f.state = "FILE_RX"
                   /\ f.state = "FILE_RX" => (f.special <=> store' = "update")
  PROVE  Good(ftp', store') /\ ftp'.c = ftp.c
  <1>1. ftp.state = "READY" /\ ftp.fifo = <<>> /\ ftp.c /\ ftp.sub # "LISTEN_FOR_DATA" /\ (Polite => ftp.d)
    BY DEF Asks, LoggedIn, Processing
  <1>2. Quiet(f) /\ f.c
    BY <1>1, InvParts, Names DEF Begins, Quiet, Linked
  <1>3. Polite => Replies(f, store', "none")
    BY <1>1 DEF Begins, Replies
  <1> QED BY <1>1, <1>2, <1>3, ReplyGood, Names, Zenon DEF Begins

\* A transfer that is refused at once.
LEMMA RefuseGood ==
  ASSUME FtpInv, Asks, NEW f \in FtpData, Kept(ftp, f), f.fifo = ftp.fifo,
         ftp' \in EndTransfer(f, "data")
  PROVE  Good(ftp', store') /\ ftp'.c = ftp.c
  <1> DEFINE g == [f EXCEPT !.state = "END_TRANSFER"]
  <1>1. ftp.state = "READY" /\ ftp.fifo = <<>> /\ ftp.c /\ ftp.sub # "LISTEN_FOR_DATA"
    BY DEF Asks, LoggedIn, Processing
  <1>2. g \in FtpData
    BY SMTT(30), Names DEF FtpData
  <1>3. /\ g.state = "END_TRANSFER" /\ g.sub = ftp.sub /\ g.lc = ftp.lc /\ g.ld = ftp.ld
        /\ g.c = ftp.c /\ g.d = ftp.d /\ g.fifo = ftp.fifo /\ g.open = ftp.open
        /\ g.handles = ftp.handles /\ g.special = ftp.special /\ g.upd = ftp.upd
    BY DEF FtpData, Kept
  <1>4. ftp' \in Reply(g, "data")
    BY DEF EndTransfer
  <1> HIDE DEF g
  <1>5. Quiet(g) /\ g.c
    BY <1>1, <1>2, <1>3, InvParts, Names DEF Quiet, Linked
  <1>6. Polite => Replies(g, store', "data")
    BY <1>1, <1>3, InvParts, Names DEF Sess, Replies
  <1> QED BY <1>3, <1>4, <1>5, <1>6, ReplyGood, Names, Zenon

LEMMA ListStep ==
  ASSUME FtpInv, List
  PROVE  Good(ftp', store') /\ phase' = "sub" /\ ftp'.c = ftp.c
  <1>1. PICK root \in BOOLEAN :
          LET f == [ftp EXCEPT !.state = "LISTING", !.root = root, !.listed = 0]
          IN  Main(Reply(IF root THEN f ELSE Opened(f, "dir"), "none"))
    BY Zenon DEF List
  <1> DEFINE f == [ftp EXCEPT !.state = "LISTING", !.root = root, !.listed = 0]
             g == IF root THEN f ELSE Opened(f, "dir")
  <1>2. Asks /\ ftp' \in Reply(g, "none") /\ phase' = "sub" /\ store' = store
    BY <1>1 DEF List, Main
  <1>3. f \in FtpData
    BY InvParts, Names, Zenon DEF FtpData
  <1>4. /\ f.state = "LISTING" /\ f.sub = ftp.sub /\ f.lc = ftp.lc /\ f.ld = ftp.ld /\ f.c = ftp.c /\ f.d = ftp.d
        /\ f.root = root /\ f.fifo = ftp.fifo /\ f.open = ftp.open /\ f.handles = ftp.handles
        /\ f.special = ftp.special /\ f.upd = ftp.upd
    BY InvParts DEF FtpData
  <1> HIDE DEF f
  <1>5. /\ Opened(f, "dir") \in FtpData /\ SameSockets(f, Opened(f, "dir"))
        /\ Opened(f, "dir").open = "dir" /\ (f.handles = 0 => Opened(f, "dir").handles = 1)
        /\ Opened(f, "dir").special = f.special /\ Opened(f, "dir").upd = f.upd
    BY <1>3, HandleOpened
  <1>6. Begins(ftp, g)
    BY <1>3, <1>4, <1>5, Names DEF Begins, SameSockets
  <1>7. ASSUME Polite
        PROVE  /\ g.handles = IF g.open = "nothing" THEN 0 ELSE 1
               /\ ~g.special /\ (NoMem \/ g.upd # "open") /\ g.state # "FILE_RX"
               /\ g.open # "nothing" => ~g.root
    <2>1. ftp.open = "nothing" /\ ftp.handles = 0 /\ ~ftp.special /\ (NoMem \/ ftp.upd # "open")
      BY <1>2, <1>7, InvParts, Names DEF Sess, Asks, LoggedIn, Processing
    <2> QED BY <2>1, <1>4, <1>5 DEF SameSockets
  <1> HIDE DEF g
  <1> QED BY <1>2, <1>6, <1>7, BeginGood

\* RETR and STOR open a file; STOR to the update path opens an update instead.
LEMMA FileStep ==
  ASSUME FtpInv, Retr \/ StorFile
  PROVE  Good(ftp', store') /\ phase' = "sub" /\ ftp'.c = ftp.c
  <1>1. PICK st \in {"FILE_TX", "FILE_RX"} :
          /\ Asks /\ phase' = "sub" /\ (st = "FILE_RX" => store' \in {"file", store}) 
          /\ \/ /\ ftp' \in Reply(Opened([ftp EXCEPT !.state = st, !.blk = 0], "file"), "none")
                /\ st = "FILE_RX" => store' = "file"
             \/ ftp' \in EndTransfer(ftp, "data")
    BY DEF Retr, StorFile, Main
  <1> DEFINE f == [ftp EXCEPT !.state = st, !.blk = 0]
             g == Opened(f, "file")
  <1>2. CASE ftp' \in Reply(g, "none") /\ (st = "FILE_RX" => store' = "file")
    <2>1. f \in FtpData
      BY InvParts, Names, Zenon DEF FtpData
    <2>2. /\ f.state = st /\ f.sub = ftp.sub /\ f.lc = ftp.lc /\ f.ld = ftp.ld /\ f.c = ftp.c /\ f.d = ftp.d
          /\ f.fifo = ftp.fifo /\ f.handles = ftp.handles /\ f.special = ftp.special /\ f.upd = ftp.upd
      BY InvParts DEF FtpData
    <2> HIDE DEF f
    <2>3. /\ g \in FtpData /\ SameSockets(f, g) /\ g.open = "file" /\ (f.handles = 0 => g.handles = 1)
          /\ g.special = f.special /\ g.upd = f.upd
      BY <2>1, HandleOpened
    <2> HIDE DEF g
    <2>4. Begins(ftp, g)
      BY <2>2, <2>3, Names DEF Begins, SameSockets
    <2>5. ASSUME Polite
          PROVE  g.handles = 1 /\ g.open # "nothing" /\ ~g.special /\ (NoMem \/ g.upd # "open") /\ g.state = st
      <3>1. ftp.open = "nothing" /\ ftp.handles = 0 /\ ~ftp.special /\ (NoMem \/ ftp.upd # "open")
        BY <1>1, <2>5, InvParts, Names DEF Sess, Asks, LoggedIn, Processing
      <3> QED BY <3>1, <2>2, <2>3 DEF SameSockets
    <2> QED BY <1>1, <1>2, <2>4, <2>5, BeginGood
  <1>3. CASE ftp' \in EndTransfer(ftp, "data")
    <2>1. Kept(ftp, ftp)
      BY DEF Kept
    <2> QED BY <1>1, <1>3, <2>1, InvParts, RefuseGood
  <1> QED BY <1>1, <1>2, <1>3

LEMMA UpdateStep ==
  ASSUME FtpInv, StorUpdate
  PROVE  Good(ftp', store') /\ phase' = "sub" /\ ftp'.c = ftp.c
  <1> DEFINE f == [ftp EXCEPT !.state = "FILE_RX", !.blk = 0, !.special = TRUE, !.upd = "open"]
             g == [ftp EXCEPT !.upd = "closed"]
  <1>1. /\ Asks /\ phase' = "sub"
        /\ \/ ftp' \in Reply(f, "none") /\ store' = "update"
           \/ ftp' \in EndTransfer(g, "data") /\ store' = store
    BY DEF StorUpdate, Main
  <1>2. CASE ftp' \in Reply(f, "none") /\ store' = "update"
    <2>1. f \in FtpData
      BY InvParts, Names, Zenon DEF FtpData
    <2>2. /\ f.state = "FILE_RX" /\ f.sub = ftp.sub /\ f.lc = ftp.lc /\ f.ld = ftp.ld /\ f.c = ftp.c
          /\ f.d = ftp.d /\ f.fifo = ftp.fifo /\ f.open = ftp.open /\ f.handles = ftp.handles
          /\ f.special /\ f.upd = "open"
      BY InvParts DEF FtpData
    <2> HIDE DEF f
    <2>3. Begins(ftp, f)
      BY <2>1, <2>2, Names DEF Begins
    <2>4. Polite => f.open = "nothing" /\ f.handles = 0
      BY <1>1, <2>2, InvParts, Names DEF Sess, Asks, LoggedIn, Processing
    <2> QED BY <1>1, <1>2, <2>2, <2>3, <2>4, BeginGood
  <1>3. CASE ftp' \in EndTransfer(g, "data")
    <2> DEFINE h == [g EXCEPT !.state = "END_TRANSFER"]
    <2>1. g \in FtpData
      BY SMTT(30), InvParts DEF FtpData
    <2>2. /\ g.sub = ftp.sub /\ g.lc = ftp.lc /\ g.ld = ftp.ld /\ g.c = ftp.c /\ g.d = ftp.d
          /\ g.fifo = ftp.fifo /\ g.open = ftp.open /\ g.handles = ftp.handles
          /\ g.special = ftp.special /\ g.upd = "closed"
      BY InvParts DEF FtpData
    <2> HIDE DEF g
    <2>3. h \in FtpData
      BY SMTT(30), <2>1, Names DEF FtpData
    <2>4. /\ h.state = "END_TRANSFER" /\ h.sub = g.sub /\ h.lc = g.lc /\ h.ld = g.ld /\ h.c = g.c /\ h.d = g.d
          /\ h.fifo = g.fifo /\ h.open = g.open /\ h.handles = g.handles
          /\ h.special = g.special /\ h.upd = g.upd
      BY <2>1 DEF FtpData
    <2>5. ftp' \in Reply(h, "data")
      BY <1>3 DEF EndTransfer
    <2> HIDE DEF h
    <2>6. ftp.state = "READY" /\ ftp.fifo = <<>> /\ ftp.c /\ ftp.sub # "LISTEN_FOR_DATA"
      BY <1>1 DEF Asks, LoggedIn, Processing
    <2>7. Quiet(h) /\ h.c
      BY <2>2, <2>3, <2>4, <2>6, InvParts, Names DEF Quiet, Linked
    <2>8. Polite => Replies(h, store', "data")
      BY <2>2, <2>4, <2>6, InvParts, Names DEF Sess, Replies
    <2> QED BY <1>1, <2>2, <2>4, <2>5, <2>7, <2>8, ReplyGood, Names, Zenon
  <1> QED BY <1>1, <1>2, <1>3

-----------------------------------------------------------------------------
\* The steps of transfers.  A transfer goes on with an empty queue and both connections.
LEMMA InTransfer ==
  ASSUME FtpInv, phase = "main", ftp.state \in Transfers, ftp.fifo = <<>>
  PROVE  ftp.c /\ ftp.d /\ ftp.sub = "DATA_CONNECTED"
  <1>1. ftp.sub \in SubStates
    BY InvParts DEF FtpData
  <1> QED BY <1>1, InvParts, Names DEF FtpInv, Linked, SubStates

\* The end of a transfer: files are closed, and an update that is still open failed.
LEMMA EndGood ==
  ASSUME NEW f \in FtpData, f.fifo = <<>>, f.c, f.sub = "DATA_CONNECTED", NEW cl \in {"none", "data"},
         NEW st, Polite => /\ f.open = "nothing" /\ f.handles = 0
                           /\ NoMem \/ (f.special <=> f.upd = "open")
                           /\ f.special => cl = "data" /\ f.d,
         NEW g \in EndTransfer(f, cl)
  PROVE  Good(g, st) /\ g.state = "END_TRANSFER" /\ g.c
  <1> DEFINE h == [f EXCEPT !.state = "END_TRANSFER"]
  <1>1. h \in FtpData
    BY Names DEF FtpData
  <1>2. /\ h.state = "END_TRANSFER" /\ h.sub = f.sub /\ h.c = f.c /\ h.d = f.d /\ h.fifo = f.fifo
        /\ h.open = f.open /\ h.handles = f.handles /\ h.special = f.special /\ h.upd = f.upd
    BY Zenon DEF FtpData
  <1>3. g \in Reply(h, cl)
    BY DEF EndTransfer
  <1> HIDE DEF h
  <1>4. Quiet(h) /\ h.c
    BY <1>1, <1>2, Names DEF Quiet, Linked
  <1>5. Polite => Replies(h, st, cl)
    BY <1>2, Names DEF Replies
  <1>6. cl \in Closes /\ cl # "all"
    BY Names
  <1> QED BY <1>2, <1>3, <1>4, <1>5, <1>6, ReplyGood, Zenon

\* A block is queued, and the transfer goes on ...
LEMMA BlockGood ==
  ASSUME NEW f, NEW st, Good(f, st), f.state \in Transfers, f.d, f.fifo = <<>>, NEW tag \in AnyTag
  PROVE  /\ Good(SendData(f, tag), st)
         /\ SendData(f, tag).state = f.state /\ SendData(f, tag).c = f.c
  <1> DEFINE g == SendData(f, tag)
  <1>1. f \in FtpData /\ Linked(f) /\ (Polite => Sess(f, st))
    BY DEF Good, Conn
  <1>2. g \in FtpData /\ Kept(f, g) /\ g.dBuffer = tag /\ g.fifo = <<Block(tag)>>
    BY <1>1, DataQueues
  <1> HIDE DEF g
  <1>3. Linked(g) /\ Shaped(g)
    BY Zenon, <1>1, <1>2, Names DEF Linked, Shaped, Kept
  <1>4. ASSUME Polite PROVE Sess(g, st)
    <2>1. Sess(f, st)
      BY <1>1, <1>4
    <2> QED BY <1>2, <2>1, Names DEF Sess, Kept
  <1> QED BY Zenon, <1>2, <1>3, <1>4 DEF Good, Conn, Kept, g

\* ... or ends with it, and the reply follows the block.
LEMMA LastBlockGood ==
  ASSUME NEW f \in FtpData, f.fifo = <<>>, f.c, f.d, f.sub = "DATA_CONNECTED", NEW tag \in AnyTag,
         NEW st, Polite => f.open = "nothing" /\ f.handles = 0 /\ ~f.special /\ (NoMem \/ f.upd # "open"),
         NEW g \in EndTransfer(SendData(f, tag), "none")
  PROVE  Good(g, st) /\ g.state = "END_TRANSFER" /\ g.c
  <1> DEFINE b == SendData(f, tag)
             h == [b EXCEPT !.state = "END_TRANSFER"]
  <1>1. b \in FtpData /\ Kept(f, b) /\ b.dBuffer = tag /\ b.fifo = <<Block(tag)>>
    BY DataQueues
  <1>2. g \in Reply(h, "none")
    BY DEF EndTransfer
  <1> HIDE DEF b
  <1>3. h \in FtpData
    BY <1>1, Names, Zenon DEF FtpData
  <1>4. /\ h.state = "END_TRANSFER" /\ h.sub = b.sub /\ h.c = b.c /\ h.d = b.d /\ h.fifo = b.fifo
        /\ h.open = b.open /\ h.handles = b.handles /\ h.special = b.special /\ h.upd = b.upd
        /\ h.dBuffer = b.dBuffer
    BY <1>1 DEF FtpData
  <1> HIDE DEF h
  <1>5. h.fifo = <<Block(h.dBuffer)>>
    BY <1>1, <1>4
  <1>6. /\ g \in FtpData /\ Kept(h, g) /\ g.dBuffer = h.dBuffer
        /\ g.fifo \in {<<Block(h.dBuffer)>>, <<Block(h.dBuffer), Msg("none")>>}
    BY <1>2, <1>3, <1>5, ReplyBehindData, Names
  <1>7. /\ g.state = "END_TRANSFER" /\ g.sub = "DATA_CONNECTED" /\ g.c /\ g.d
        /\ g.open = f.open /\ g.handles = f.handles /\ g.special = f.special /\ g.upd = f.upd
    BY <1>1, <1>4, <1>6 DEF Kept
  <1>8. Linked(g)
    BY <1>7, Names DEF Linked
  <1>9. Shaped(g)
    BY <1>6, <1>7 DEF Shaped
  <1>10. Polite => Sess(g, st)
    BY <1>7, Names DEF Sess
  <1> QED BY Zenon, <1>6, <1>7, <1>8, <1>9, <1>10 DEF Good, Conn

\* What a step of a transfer leaves: the transfer goes on or has ended, the client is there.
Continues == Good(ftp', store') /\ phase' = "sub" /\ ftp'.state \in {ftp.state, "END_TRANSFER"} /\ (ftp'.c => ftp.c)

LEMMA ListTag == \A n \in Nat : <<"list", n>> \in AnyTag /\ <<"block", n>> \in AnyTag
  BY DEF AnyTag

LEMMA ListRootStep ==
  ASSUME FtpInv, ListRoot
  PROVE  Continues
  <1> DEFINE f == [ftp EXCEPT !.ctimeout = 0]
             g == [f EXCEPT !.vol = 1]
             h == [f EXCEPT !.vol = 0]
  <1>1. /\ phase = "main" /\ ftp.state = "LISTING" /\ ftp.fifo = <<>> /\ phase' = "sub" /\ store' = store
        /\ ftp.root
        /\ ftp' = SendData(g, <<"list", 0>>) \/ ftp' \in EndTransfer(h, "none")
    BY DEF ListRoot, Main, Sending
  <1>2. ftp.c /\ ftp.d /\ ftp.sub = "DATA_CONNECTED"
    BY <1>1, InTransfer, Names
  <1>3. f \in FtpData /\ Kept(ftp, f) /\ f.fifo = ftp.fifo /\ f.dBuffer = ftp.dBuffer
    <2>1. f \in FtpData
      BY InvParts, Zenon DEF FtpData
    <2> QED BY <2>1, InvParts DEF FtpData, Kept
  <1> HIDE DEF f
  <1>4. g \in FtpData /\ Kept(f, g) /\ g.fifo = f.fifo /\ g.dBuffer = f.dBuffer
    <2>1. g \in FtpData
      BY SMTT(30), <1>3 DEF FtpData
    <2> QED BY <1>3, <2>1 DEF FtpData, Kept
  <1>5. h \in FtpData /\ Kept(f, h) /\ h.fifo = f.fifo
    <2>1. h \in FtpData
      BY SMTT(30), <1>3 DEF FtpData
    <2> QED BY <1>3, <2>1 DEF FtpData, Kept
  <1> HIDE DEF g, h
  <1>6. CASE ftp' = SendData(g, <<"list", 0>>)
    <2>1. Good(g, store) /\ g.state = ftp.state /\ g.d = ftp.d /\ g.c = ftp.c /\ g.fifo = <<>>
      <3>1. Kept(ftp, g)
        BY <1>3, <1>4 DEF Kept
      <3> QED BY <1>1, <1>3, <1>4, <3>1, InvParts, SameGood, Zenon DEF Kept
    <2> QED BY <1>1, <1>2, <1>6, <2>1, BlockGood, ListTag, Names, Zenon DEF Continues
  <1>7. CASE ftp' \in EndTransfer(h, "none")
    <2>1. h.fifo = <<>> /\ h.c /\ h.sub = "DATA_CONNECTED"
      BY SMTT(30), <1>1, <1>2, <1>3, <1>5 DEF Kept
    <2>2. Polite => h.open = "nothing" /\ h.handles = 0 /\ ~h.special /\ (NoMem \/ h.upd # "open")
      BY Zenon, <1>1, <1>3, <1>5, InvParts DEF Kept, Sess
    <2> QED BY <1>1, <1>2, <1>5, <1>7, <2>1, <2>2, EndGood DEF Continues
  <1> QED BY <1>1, <1>6, <1>7

\* The directory is closed after each part; it is opened again for the next.
LEMMA ListDirStep ==
  ASSUME FtpInv, ListDir
  PROVE  Continues
  <1> DEFINE f == [ftp EXCEPT !.ctimeout = 0]
  <1>1. /\ phase = "main" /\ ftp.state = "LISTING" /\ ftp.fifo = <<>> /\ phase' = "sub" /\ store' = store /\ ~ftp.root
        /\ ftp' \in ListPart(f) \/ \E n \in Nat : ftp' \in ListLast(f, n)
    <2>1. Minus(DirLen, f.idx) \in Nat
      <3>1. f.idx \in Nat /\ DirLen \in Nat
        BY InvParts, FtpConstants DEF FtpData
      <3> QED BY <3>1 DEF Minus
    <2> QED BY <2>1 DEF ListDir, ListDirOutcomes, Main, Sending
  <1>2. ftp.c /\ ftp.d /\ ftp.sub = "DATA_CONNECTED"
    BY <1>1, InTransfer, Names
  <1>3. f \in FtpData /\ Kept(ftp, f) /\ f.fifo = ftp.fifo
    <2>1. f \in FtpData
      BY InvParts, Zenon DEF FtpData
    <2> QED BY <2>1, InvParts DEF FtpData, Kept
  <1> HIDE DEF f
  <1> DEFINE e == CloseFiles(f)
  <1>4. /\ e \in FtpData /\ SameSockets(f, e) /\ e.open = "nothing" /\ e.handles = HandlesLeft(f)
        /\ e.special = f.special /\ e.upd = f.upd
    BY <1>3, FilesClosed
  <1> HIDE DEF e
  <1>5. /\ Linked(e) /\ e.fifo = <<>> /\ e.state = "LISTING" /\ e.c /\ e.d /\ e.sub = "DATA_CONNECTED" /\ ~e.root
        /\ Polite => e.handles = 0 /\ ~e.special /\ (NoMem \/ e.upd # "open")
    <2>1. /\ e.fifo = <<>> /\ e.state = "LISTING" /\ e.c /\ e.d /\ e.sub = "DATA_CONNECTED" /\ ~e.root
      BY <1>1, <1>2, <1>3, <1>4 DEF Kept, SameSockets
    <2>2. Linked(e)
      BY <2>1 DEF Linked
    <2>3. ASSUME Polite PROVE e.handles = 0 /\ ~e.special /\ (NoMem \/ e.upd # "open")
      <3>1. Sess(ftp, store)
        BY <2>3, InvParts
      <3>2. HandlesLeft(f) = 0
        BY <3>1, <1>3 DEF Sess, Kept, HandlesLeft
      <3> QED BY <3>1, <3>2, <1>1, <1>3, <1>4 DEF Sess, Kept
    <2> QED BY <2>1, <2>2, <2>3
  <1>6. ASSUME NEW g \in FtpData, g.fifo = <<>>, g.state = "LISTING", g.c, g.d, g.sub = "DATA_CONNECTED", ~g.root,
               Polite => ~g.special /\ (NoMem \/ g.upd # "open") /\ g.handles = IF g.open = "nothing" THEN 0 ELSE 1
        PROVE  Good(g, store)
    <2>1. Linked(g) /\ Shaped(g)
      BY <1>6, Names DEF Linked, Shaped
    <2>2. Polite => Sess(g, store)
      BY <1>6, Names DEF Sess
    <2> QED BY <1>6, <2>1, <2>2 DEF Good, Conn
  <1>7. ASSUME NEW n \in Nat, ftp' \in ListLast(f, n) PROVE Continues
    <2> DEFINE y == e.listed + n
               g == [e EXCEPT !.idx = 0, !.listed = y]
    <2>1. y \in Nat
      BY <1>4 DEF FtpData
    <2>2. ftp' = SendData(g, <<"list", g.listed>>) \/ ftp' \in EndTransfer(g, "none")
      BY <1>7 DEF ListLast, e
    <2> HIDE DEF y
    <2>3. g \in FtpData /\ Kept(e, g) /\ g.fifo = e.fifo /\ g.listed \in Nat
      <3>1. g \in FtpData
        BY <1>4, <2>1, Zenon DEF FtpData
      <3> QED BY <1>4, <2>1, <3>1 DEF FtpData, Kept
    <2> HIDE DEF g
    <2>4. /\ g.fifo = <<>> /\ g.state = "LISTING" /\ g.c /\ g.d /\ g.sub = "DATA_CONNECTED" /\ ~g.root
          /\ g.open = "nothing" /\ (Polite => g.handles = 0 /\ ~g.special /\ (NoMem \/ g.upd # "open"))
      BY <1>4, <1>5, <2>3 DEF Kept
    <2>5. CASE ftp' = SendData(g, <<"list", g.listed>>)
      <3>1. Good(g, store)
        BY <1>6, <2>3, <2>4
      <3> QED BY <1>1, <1>2, <2>3, <2>4, <2>5, <3>1, BlockGood, ListTag, Names, Zenon DEF Continues
    <2>6. CASE ftp' \in EndTransfer(g, "none")
      BY <1>1, <1>2, <2>3, <2>4, <2>6, EndGood, Zenon DEF Continues
    <2> QED BY <2>2, <2>5, <2>6
  <1>8. CASE ftp' \in ListPart(f)
    <2> DEFINE x == e.idx + BufEntries
               y == e.listed + BufEntries
               g == [e EXCEPT !.idx = x, !.listed = y]
               o == Opened(g, "dir")
    <2>1. x \in Nat /\ y \in Nat
      <3>1. e.listed \in Nat /\ e.idx \in Nat
        BY <1>4 DEF FtpData
      <3> QED BY <3>1, FtpConstants
    <2>2. ftp' = SendData(g, <<"list", g.listed>>) \/ ftp' = SendData(o, <<"list", g.listed>>)
      BY <1>8 DEF ListPart, e
    <2> HIDE DEF x, y
    <2>3. g \in FtpData /\ Kept(e, g) /\ g.fifo = e.fifo /\ g.listed \in Nat
      <3>1. g \in FtpData
        BY <1>4, <2>1, Zenon DEF FtpData
      <3> QED BY <1>4, <2>1, <3>1 DEF FtpData, Kept
    <2> HIDE DEF g
    <2>4. /\ g.fifo = <<>> /\ g.state = "LISTING" /\ g.c /\ g.d /\ g.sub = "DATA_CONNECTED" /\ ~g.root
          /\ g.open = "nothing" /\ (Polite => g.handles = 0 /\ ~g.special /\ (NoMem \/ g.upd # "open"))
      BY <1>4, <1>5, <2>3 DEF Kept
    <2>5. /\ o \in FtpData /\ SameSockets(g, o) /\ o.open = "dir" /\ (g.handles = 0 => o.handles = 1)
          /\ o.special = g.special /\ o.upd = g.upd
      BY <2>3, HandleOpened
    <2> HIDE DEF o
    <2>6. Good(g, store)
      BY <1>6, <2>3, <2>4
    <2>7. /\ Good(o, store) /\ o.fifo = <<>> /\ o.state = "LISTING" /\ o.c /\ o.d
      <3>1. o.fifo = <<>> /\ o.state = "LISTING" /\ o.c /\ o.d /\ o.sub = "DATA_CONNECTED" /\ ~o.root
        BY <2>4, <2>5 DEF SameSockets
      <3> QED BY <1>6, <2>4, <2>5, <3>1
    <2>8. PICK k \in {g, o} : ftp' = SendData(k, <<"list", g.listed>>)
      BY <2>2
    <2>9. /\ Good(k, store) /\ k.fifo = <<>> /\ k.state = "LISTING" /\ k.c /\ k.d
      BY <2>4, <2>6, <2>7, <2>8
    <2>10. <<"list", g.listed>> \in AnyTag /\ "LISTING" \in Transfers
      BY <2>3, ListTag, Names, Zenon
    <2> QED BY <1>1, <1>2, <2>8, <2>9, <2>10, BlockGood DEF Continues
  <1> QED BY <1>1, <1>7, <1>8

\* The queue is empty, and only counters and dBuffer change.
LEMMA StillGood ==
  ASSUME NEW f, NEW st, Good(f, st), f.fifo = <<>>, NEW g \in FtpData, Kept(f, g), g.fifo = <<>>
  PROVE  Good(g, st)
  <1>1. Linked(g) /\ Shaped(g)
    BY Zenon DEF Good, Conn, Linked, Shaped, Kept
  <1>2. Polite => Sess(g, st)
    BY DEF Good, Sess, Kept
  <1> QED BY <1>1, <1>2 DEF Good, Conn

\* A transfer of a file ends with ftp_close_files.
LEMMA FileClosed ==
  ASSUME FtpInv, ftp.state \in {"FILE_TX", "FILE_RX"},
         NEW f \in FtpData, Kept(ftp, f), f.fifo = ftp.fifo
  PROVE  LET g == CloseFiles(f) IN
         /\ g \in FtpData /\ g.fifo = f.fifo /\ g.c = f.c /\ g.d = f.d /\ g.sub = f.sub
         /\ g.special = f.special /\ g.upd = f.upd
         /\ Polite => /\ g.open = "nothing" /\ g.handles = 0 /\ (NoMem \/ (g.special <=> g.upd = "open"))
                      /\ g.special => ftp.state = "FILE_RX"
  <1> DEFINE g == CloseFiles(f)
  <1>1. /\ g \in FtpData /\ SameSockets(f, g) /\ g.open = "nothing" /\ g.handles = HandlesLeft(f)
        /\ g.special = f.special /\ g.upd = f.upd
    BY FilesClosed
  <1> HIDE DEF g
  <1>2. ASSUME Polite PROVE g.handles = 0 /\ (NoMem \/ (g.special <=> g.upd = "open")) /\ (g.special => ftp.state = "FILE_RX")
    <2>1. Sess(ftp, store)
      BY <1>2, InvParts
    <2>2. HandlesLeft(f) = 0
      BY <2>1 DEF Sess, Kept, HandlesLeft
    <2> QED BY <1>1, <2>1, <2>2 DEF Sess, Kept
  <1> QED BY <1>1, <1>2 DEF SameSockets, g

LEMMA ReadFileStep ==
  ASSUME FtpInv, ReadFile
  PROVE  Continues
  <1> DEFINE f == [ftp EXCEPT !.ctimeout = 0]
             n == f.blk + 1
             next == [f EXCEPT !.blk = n]
             last == CloseFiles(next)
             tag == <<"block", next.blk>>
             e == CloseFiles(f)
  <1>1. /\ phase = "main" /\ ftp.state = "FILE_TX" /\ ftp.fifo = <<>> /\ phase' = "sub" /\ store' = store
        /\ \/ ftp' = SendData(next, tag)
           \/ ftp' \in EndTransfer(SendData(last, tag), "none")
           \/ \E cl \in {"none", "data"} : ftp' \in EndTransfer(e, cl)
    BY DEF ReadFile, Main, Sending
  <1>2. ftp.c /\ ftp.d /\ ftp.sub = "DATA_CONNECTED"
    BY <1>1, InTransfer, Names
  <1>3. f \in FtpData /\ Kept(ftp, f) /\ f.fifo = ftp.fifo
    <2>1. f \in FtpData
      BY InvParts, Zenon DEF FtpData
    <2> QED BY <2>1, InvParts DEF FtpData, Kept
  <1> HIDE DEF f
  <1>4. n \in Nat
    BY <1>3 DEF FtpData
  <1> HIDE DEF n
  <1>5. next \in FtpData /\ Kept(f, next) /\ next.fifo = f.fifo /\ next.blk = n
    <2>1. next \in FtpData
      BY Zenon, <1>3, <1>4 DEF FtpData
    <2> QED BY <1>3, <1>4, <2>1 DEF FtpData, Kept
  <1> HIDE DEF next
  <1>6. Kept(ftp, next) /\ next.fifo = <<>> /\ next.fifo = ftp.fifo
    BY <1>1, <1>3, <1>5 DEF Kept
  <1>7. tag \in AnyTag
    BY <1>4, <1>5, ListTag, Zenon
  <1> HIDE DEF tag
  <1>8. CASE ftp' = SendData(next, tag)
    <2>1. Good(next, store)
      BY <1>1, <1>5, <1>6, InvParts, StillGood
    <2>2. next.state = "FILE_TX" /\ next.d /\ next.c
      BY <1>1, <1>2, <1>6 DEF Kept
    <2>3. Good(ftp', store) /\ ftp'.state = "FILE_TX" /\ ftp'.c
      BY <1>6, <1>7, <1>8, <2>1, <2>2, BlockGood, Names
    <2> QED BY <1>1, <1>2, <2>3 DEF Continues
  <1>9. CASE ftp' \in EndTransfer(SendData(last, tag), "none")
    <2>1. /\ last \in FtpData /\ last.fifo = next.fifo /\ last.c = next.c /\ last.d = next.d /\ last.sub = next.sub
          /\ Polite => /\ last.open = "nothing" /\ last.handles = 0 /\ (NoMem \/ (last.special <=> last.upd = "open"))
                       /\ last.special => ftp.state = "FILE_RX"
      BY <1>1, <1>5, <1>6, FileClosed
    <2> HIDE DEF last
    <2>2. last.fifo = <<>> /\ last.c /\ last.d /\ last.sub = "DATA_CONNECTED"
      BY <1>2, <1>6, <2>1 DEF Kept
    <2>3. Polite => last.open = "nothing" /\ last.handles = 0 /\ ~last.special /\ (NoMem \/ last.upd # "open")
      BY <1>1, <2>1
    <2>4. Good(ftp', store) /\ ftp'.state = "END_TRANSFER"
      BY <1>7, <1>9, <2>1, <2>2, <2>3, LastBlockGood
    <2> QED BY <1>1, <1>2, <2>4 DEF Continues
  <1>10. CASE \E cl \in {"none", "data"} : ftp' \in EndTransfer(e, cl)
    <2>1. /\ e \in FtpData /\ e.fifo = f.fifo /\ e.c = f.c /\ e.d = f.d /\ e.sub = f.sub
          /\ Polite => /\ e.open = "nothing" /\ e.handles = 0 /\ (NoMem \/ (e.special <=> e.upd = "open"))
                       /\ e.special => ftp.state = "FILE_RX"
      BY Zenon, <1>1, <1>3, FileClosed
    <2> HIDE DEF e
    <2>2. e.fifo = <<>> /\ e.c /\ e.sub = "DATA_CONNECTED"
      BY <1>1, <1>2, <1>3, <2>1 DEF Kept
    <2>3. Good(ftp', store) /\ ftp'.state = "END_TRANSFER"
      BY Zenon, <1>1, <1>10, <2>1, <2>2, EndGood
    <2> QED BY <1>1, <1>2, <2>3 DEF Continues
  <1> QED BY <1>1, <1>8, <1>9, <1>10

\* A block was received, or nothing yet, or the transfer fails.
LEMMA ReceiveStep ==
  ASSUME FtpInv, ReceiveBlock \/ ReceiveNothing
  PROVE  Continues
  <1>1. phase = "main" /\ ftp.state = "FILE_RX" /\ ftp.fifo = <<>> /\ phase' = "sub" /\ store' = store
    BY DEF ReceiveBlock, ReceiveNothing, Main, Sending
  <1>2. ftp.c /\ ftp.d /\ ftp.sub = "DATA_CONNECTED"
    BY <1>1, InTransfer, Names
  <1>3. PICK f \in FtpData :
          /\ Kept(ftp, f) /\ f.fifo = ftp.fifo
          /\ \/ ftp' = f
             \/ f.special /\ ftp' \in EndTransfer(f, "data")
             \/ ftp' \in EndTransfer(CloseFiles(f), "data")
    <2>1. CASE ReceiveBlock
      <3> DEFINE n == ftp.blk + 1
                 f == [ftp EXCEPT !.dtimeout = 0, !.ctimeout = 0, !.blk = n, !.dBuffer = <<"rx", 0>>]
      <3>1. n \in Nat /\ <<"rx", 0>> \in AnyTag
        BY InvParts DEF FtpData, AnyTag
      <3>2. \/ ftp' = f
            \/ f.special /\ ftp' \in EndTransfer(f, "data")
            \/ ftp' \in EndTransfer(CloseFiles(f), "data")
        BY <2>1 DEF ReceiveBlock, Main
      <3> HIDE DEF n
      <3>3. f \in FtpData
        BY <3>1, InvParts, Zenon DEF FtpData
      <3>4. Kept(ftp, f) /\ f.fifo = ftp.fifo
        BY <3>1, <3>3, InvParts DEF FtpData, Kept
      <3> HIDE DEF f
      <3> QED BY <3>2, <3>3, <3>4
    <2>2. CASE ReceiveNothing
      <3> DEFINE n == ftp.dtimeout + 1
                 f == [ftp EXCEPT !.dtimeout = n]
      <3>1. n \in Nat
        BY InvParts DEF FtpData
      <3>2. ftp' = f \/ ftp' \in EndTransfer(CloseFiles(f), "data")
        BY <2>2 DEF ReceiveNothing, Main
      <3> HIDE DEF n
      <3>3. f \in FtpData
        BY SMTT(30), <3>1, InvParts DEF FtpData
      <3>4. Kept(ftp, f) /\ f.fifo = ftp.fifo
        BY <3>1, <3>3, InvParts DEF FtpData, Kept
      <3> HIDE DEF f
      <3> QED BY <3>2, <3>3, <3>4
    <2> QED BY <2>1, <2>2
  <1> DEFINE e == CloseFiles(f)
  <1>4. /\ e \in FtpData /\ e.fifo = f.fifo /\ e.c = f.c /\ e.d = f.d /\ e.sub = f.sub
        /\ Polite => /\ e.open = "nothing" /\ e.handles = 0 /\ (NoMem \/ (e.special <=> e.upd = "open"))
                     /\ e.special => ftp.state = "FILE_RX"
    BY Zenon, <1>1, <1>3, FileClosed
  <1> HIDE DEF e
  <1>5. f.fifo = <<>> /\ f.c /\ f.d /\ f.sub = "DATA_CONNECTED" /\ f.state = "FILE_RX"
    BY <1>1, <1>2, <1>3 DEF Kept
  <1>6. CASE ftp' = f
    <2>1. Good(f, store)
      BY <1>1, <1>3, <1>5, InvParts, StillGood
    <2> QED BY <1>1, <1>2, <1>5, <1>6, <2>1 DEF Continues
  <1>7. CASE f.special /\ ftp' \in EndTransfer(f, "data")
    <2>1. Polite => f.open = "nothing" /\ f.handles = 0 /\ (NoMem \/ (f.special <=> f.upd = "open"))
      BY Zenon, <1>3, <1>7, InvParts DEF Sess, Kept
    <2>2. Good(ftp', store) /\ ftp'.state = "END_TRANSFER"
      BY Zenon, <1>5, <1>7, <2>1, EndGood
    <2> QED BY <1>1, <1>2, <2>2 DEF Continues
  <1>8. CASE ftp' \in EndTransfer(e, "data")
    <2>1. Good(ftp', store) /\ ftp'.state = "END_TRANSFER"
      BY <1>4, <1>5, <1>8, EndGood, Zenon
    <2> QED BY <1>1, <1>2, <2>1 DEF Continues
  <1> QED BY <1>3, <1>6, <1>7, <1>8 DEF e

\* The file is complete: an update is finished, a file closed.
LEMMA ReceiveEndStep ==
  ASSUME FtpInv, ReceiveEnd
  PROVE  Continues
  <1> DEFINE u == UpdaterFinish(ftp)
             f == IF ftp.special THEN u ELSE ftp
             g == CloseFiles(f)
  <1>1. /\ phase = "main" /\ ftp.state = "FILE_RX" /\ ftp.fifo = <<>> /\ phase' = "sub" /\ store' = store
        /\ ftp' \in EndTransfer(g, "none")
    BY DEF ReceiveEnd, Main, Sending
  <1>2. ftp.c /\ ftp.d /\ ftp.sub = "DATA_CONNECTED"
    BY <1>1, InTransfer, Names
  <1>3. u \in FtpData
    BY InvParts, Zenon DEF UpdaterFinish, FtpData
  <1>4. /\ SameSockets(ftp, u) /\ u.open = ftp.open /\ u.handles = ftp.handles /\ ~u.special /\ u.upd = "closed"
    BY InvParts DEF UpdaterFinish, FtpData, SameSockets
  <1> HIDE DEF u
  <1>5. /\ f \in FtpData /\ SameSockets(ftp, f) /\ f.open = ftp.open /\ f.handles = ftp.handles /\ ~f.special
        /\ (NoMem \/ (ftp.special <=> ftp.upd = "open")) => (NoMem \/ f.upd # "open")
    <2>1. SameSockets(ftp, ftp)
      BY DEF SameSockets
    <2> QED BY <1>3, <1>4, <2>1, InvParts
  <1> HIDE DEF f
  <1>6. /\ g \in FtpData /\ SameSockets(f, g) /\ g.open = "nothing" /\ g.handles = HandlesLeft(f)
        /\ g.special = f.special /\ g.upd = f.upd
    BY <1>5, FilesClosed
  <1> HIDE DEF g
  <1>7. g.fifo = <<>> /\ g.c /\ g.sub = "DATA_CONNECTED"
    BY <1>1, <1>2, <1>5, <1>6 DEF SameSockets
  <1>8. ASSUME Polite PROVE g.handles = 0 /\ ~g.special /\ (NoMem \/ g.upd # "open")
    <2>1. Sess(ftp, store)
      BY <1>8, InvParts
    <2>2. HandlesLeft(f) = 0
      BY <2>1, <1>5 DEF Sess, HandlesLeft
    <2> QED BY <1>5, <1>6, <2>1, <2>2 DEF Sess
  <1>9. Good(ftp', store) /\ ftp'.state = "END_TRANSFER"
    BY <1>1, <1>6, <1>7, <1>8, EndGood
  <1> QED BY <1>1, <1>2, <1>9 DEF Continues

-----------------------------------------------------------------------------
\* The second switch.  What every step but accept gives for FreshSession, and every step of
\* the second and third part of ftp_run for TransferAnswered.
Stays == (ftp'.c => ftp.c) /\ (Polite /\ ftp.state \in Transfers => ftp'.state \in {ftp.state, "START"})

LEMMA SubStep ==
  ASSUME FtpInv, SubIdle \/ DataAccepted
  PROVE  Good(ftp', store') /\ phase' = "send" /\ Stays
  <1>1. CASE SubIdle
    <2>1. ftp' = ftp /\ phase' = "send" /\ store' = store
      BY <1>1 DEF SubIdle, Sub
    <2> QED BY <2>1, InvParts DEF Stays
  <1>2. CASE DataAccepted
    <2> DEFINE f == [ftp EXCEPT !.d = TRUE, !.dtimeout = 0, !.sub = "DATA_CONNECTED"]
    <2>1. ftp.sub = "LISTEN_FOR_DATA" /\ ftp' = f /\ phase' = "send" /\ store' = store
      BY <1>2 DEF DataAccepted, Sub
    <2>2. f \in FtpData
      BY InvParts, Names, Zenon DEF FtpData
    <2>3. /\ f.state = ftp.state /\ f.sub = "DATA_CONNECTED" /\ f.lc = ftp.lc /\ f.ld = ftp.ld /\ f.c = ftp.c /\ f.d
          /\ f.fifo = ftp.fifo /\ f.open = ftp.open /\ f.handles = ftp.handles
          /\ f.special = ftp.special /\ f.upd = ftp.upd
      BY InvParts DEF FtpData
    <2> HIDE DEF f
    <2>4. ftp.state = "READY"
      BY <2>1, InvParts DEF Linked
    <2>5. Linked(f) /\ Shaped(f)
      BY Zenon, <2>3, <2>4, InvParts, Names DEF Linked, Shaped
    <2>6. Polite => Sess(f, store)
      BY Zenon, <2>3, <2>4, InvParts, Names DEF Sess
    <2> QED BY <2>1, <2>2, <2>3, <2>5, <2>6 DEF Good, Conn, Stays
  <1> QED BY <1>1, <1>2

\* No data connection yet: the listening socket is closed after DataCycles.
LEMMA NotAccepted ==
  ASSUME NEW f, Good(f, store), f.state \in {"READY", "START"}, ~f.d, DataNotAccepted(f)
  PROVE  Good(ftp', store') /\ phase' = "send" /\ ftp'.c = f.c /\ ftp'.state = f.state
  <1> DEFINE n == f.dtimeout + 1
             g == [f EXCEPT !.dtimeout = 0, !.ld = FALSE, !.sub = "DISCONNECTED"]
             h == [f EXCEPT !.dtimeout = n]
  <1>1. (ftp' = g \/ ftp' = h) /\ phase' = "send" /\ store' = store
    BY DEF DataNotAccepted, Sub
  <1>2. f \in FtpData /\ Linked(f) /\ Shaped(f) /\ (Polite => Sess(f, store))
    BY DEF Good, Conn
  <1>3. n \in Nat
    BY <1>2 DEF FtpData
  <1> HIDE DEF n
  <1>4. CASE ftp' = g
    <2>1. g \in FtpData
      BY <1>2, Names, Zenon DEF FtpData
    <2>2. /\ g.state = f.state /\ g.sub = "DISCONNECTED" /\ g.lc = f.lc /\ ~g.ld /\ g.c = f.c /\ g.d = f.d
          /\ g.fifo = f.fifo /\ g.open = f.open /\ g.handles = f.handles /\ g.dBuffer = f.dBuffer
          /\ g.special = f.special /\ g.upd = f.upd
      BY <1>2 DEF FtpData
    <2> HIDE DEF g
    <2>3. Linked(g) /\ Shaped(g)
      BY Zenon, <1>2, <2>2, Names DEF Linked, Shaped
    <2>4. Polite => Sess(g, store)
      BY Zenon, <1>2, <2>2, Names DEF Sess
    <2> QED BY <1>1, <1>4, <2>1, <2>2, <2>3, <2>4 DEF Good, Conn
  <1>5. CASE ftp' = h
    <2>1. h \in FtpData
      BY SMTT(30), <1>2, <1>3 DEF FtpData
    <2>2. Kept(f, h) /\ h.fifo = f.fifo /\ h.dBuffer = f.dBuffer
      BY <1>2, <1>3 DEF FtpData, Kept
    <2> HIDE DEF h
    <2>3. Good(h, store)
      BY <2>1, <2>2, SameGood
    <2> QED BY <1>1, <1>5, <2>2, <2>3 DEF Kept
  <1> QED BY <1>1, <1>4, <1>5

LEMMA AwaitStep ==
  ASSUME FtpInv, DataAwaited
  PROVE  Good(ftp', store') /\ phase' = "send" /\ Stays
  <1>1. ftp.state = "READY" /\ ~ftp.d
    BY InvParts DEF DataAwaited, Linked
  <1>2. CASE DataNotAccepted(ftp)
    BY <1>1, <1>2, InvParts, NotAccepted, Names DEF Stays
  <1>3. CASE DataNotAccepted(Reset(ftp))
    <2>1. Polite => ftp.handles = (IF ftp.open = "nothing" THEN 0 ELSE 1) /\ (NoMem \/ (ftp.special <=> ftp.upd = "open"))
      BY InvParts DEF Sess
    <2>2. Good(Reset(ftp), store)
      BY <2>1, InvParts, ResetGood
    <2>3. Reset(ftp).state = "START" /\ ~Reset(ftp).d /\ ~Reset(ftp).c
      BY Zenon, InvParts, ResetDone
    <2>4. Good(ftp', store') /\ phase' = "send" /\ ~ftp'.c
      BY <1>3, <2>2, <2>3, NotAccepted
    <2> QED BY <1>1, <2>4, Names DEF Stays
  <1> QED BY <1>2, <1>3 DEF DataAwaited

\* A data connection on which no transfer is asked for is closed after DataCycles.
LEMMA UnusedStep ==
  ASSUME FtpInv, DataUnused
  PROVE  Good(ftp', store') /\ phase' = "send" /\ Stays
  <1> DEFINE n == ftp.dtimeout + 1
             f == [ftp EXCEPT !.dtimeout = n]
             g == [f EXCEPT !.ld = FALSE, !.d = FALSE, !.sub = "DISCONNECTED"]
             h == CloseOnError(g)
  <1>1. ftp.state = "READY" /\ (ftp' = f \/ ftp' = h) /\ phase' = "send" /\ store' = store
    BY DEF DataUnused, Sub
  <1>2. n \in Nat
    BY InvParts DEF FtpData
  <1> HIDE DEF n
  <1>3. f \in FtpData /\ Kept(ftp, f) /\ f.fifo = ftp.fifo /\ f.dBuffer = ftp.dBuffer
    <2>1. f \in FtpData
      BY SMTT(30), <1>2, InvParts DEF FtpData
    <2> QED BY <1>2, <2>1, InvParts DEF FtpData, Kept
  <1> HIDE DEF f
  <1>4. Good(f, store) /\ f.state = "READY" /\ f.c = ftp.c
    <2>1. Good(f, store)
      BY <1>3, InvParts, SameGood
    <2> QED BY <1>1, <1>3, <2>1 DEF Kept
  <1>5. CASE ftp' = f
    BY <1>1, <1>4, <1>5, Names DEF Stays
  <1>6. CASE ftp' = h
    <2>1. f \in FtpData /\ Linked(f) /\ Shaped(f) /\ (Polite => Sess(f, store))
      BY Zenon, <1>4 DEF Good, Conn
    <2>2. g \in FtpData
      BY <1>3, Names, Zenon DEF FtpData
    <2>3. /\ g.state = f.state /\ g.sub = "DISCONNECTED" /\ ~g.ld /\ g.c = f.c /\ ~g.d
          /\ g.fifo = f.fifo /\ g.open = f.open /\ g.handles = f.handles
          /\ g.special = f.special /\ g.upd = f.upd
      BY <1>3 DEF FtpData
    <2> HIDE DEF g
    <2>4. /\ h \in FtpData /\ SameSockets(g, h) /\ h.open = "nothing" /\ h.handles = HandlesLeft(g)
          /\ ~h.special /\ h.upd = IF g.special THEN "closed" ELSE g.upd
      BY <2>2, ErrorClosed
    <2> HIDE DEF h
    <2>5. h.state = "READY" /\ h.sub = "DISCONNECTED" /\ ~h.ld /\ h.c = f.c /\ ~h.d /\ h.fifo = f.fifo
      BY <1>4, <2>3, <2>4 DEF SameSockets
    <2>6. Linked(h) /\ Shaped(h)
      BY Zenon, <1>4, <2>1, <2>5, Names DEF Linked, Shaped
    <2>7. ASSUME Polite PROVE Sess(h, store)
      <3>1. f.open = "nothing" /\ f.handles = 0 /\ ~f.special /\ (NoMem \/ f.upd # "open")
        BY Zenon, <1>4, <2>1, <2>7, Names DEF Sess
      <3>2. h.handles = 0 /\ (NoMem \/ h.upd # "open")
        BY Zenon, <2>3, <2>4, <3>1 DEF HandlesLeft
      <3> QED BY Zenon, <2>4, <2>5, <3>2, Names DEF Sess
    <2> QED BY Zenon, <1>1, <1>4, <1>6, <2>4, <2>5, <2>6, <2>7, Names DEF Good, Conn, Stays
  <1> QED BY <1>1, <1>5, <1>6

-----------------------------------------------------------------------------
\* The third part: one element is sent.
LEMMA SettledGood ==
  ASSUME NEW f, NEW st, Good(f, st)
  PROVE  /\ Good(Settled(f), st) /\ Settled(f).c = f.c
         /\ Settled(f).state \in Transfers => Settled(f).d
         /\ f.d \/ f.state \in {"READY", "START"} => Settled(f).state = f.state
  <1>1. f \in FtpData /\ Linked(f) /\ Shaped(f) /\ (Polite => Sess(f, st))
    BY DEF Good, Conn
  <1>2. CASE f.d \/ f.state \notin Transfers \cup {"END_TRANSFER"}
    BY <1>1, <1>2 DEF Settled
  <1>3. CASE ~f.d /\ f.state \in Transfers \cup {"END_TRANSFER"}
    <2> DEFINE h == [f EXCEPT !.sub = "DISCONNECTED", !.state = "READY"]
    <2>1. Settled(f) = h
      BY <1>3 DEF Settled
    <2>2. h \in FtpData
      BY <1>1, Names, ZenonT(30) DEF FtpData
    <2>3. /\ h.state = "READY" /\ h.sub = "DISCONNECTED" /\ h.c = f.c /\ h.d = f.d
          /\ h.fifo = f.fifo /\ h.open = f.open /\ h.handles = f.handles
          /\ h.special = f.special /\ h.upd = f.upd
      BY <1>1 DEF FtpData
    <2> HIDE DEF h
    <2>4. Linked(h) /\ Shaped(h)
      BY Zenon, <1>1, <1>3, <2>3, Names DEF Linked, Shaped
    <2>5. Polite => Sess(h, st)
      BY Zenon, <1>1, <1>3, <2>3, Names DEF Sess
    <2>6. f.state \notin {"READY", "START"}
      BY <1>3, Names
    <2> QED BY <1>3, <2>1, <2>2, <2>3, <2>4, <2>5, <2>6, Names DEF Good, Conn
  <1> QED BY <1>2, <1>3

\* What a step of the third part shows.
Sends == Good(ftp', store') /\ phase' = "main" /\ (ftp'.state \in Transfers => ftp'.d) /\ Stays

LEMMA SettlesStep ==
  ASSUME FtpInv, NEW f, Good(f, store), Send(f), f.c => ftp.c,
         Polite /\ ftp.state \in Transfers => f.state = "START" \/ (f.state = ftp.state /\ f.d)
  PROVE  Sends
  <1>1. ftp' = Settled(f) /\ phase' = "main" /\ store' = store
    BY DEF Send
  <1>2. /\ Good(ftp', store) /\ ftp'.c = f.c /\ (ftp'.state \in Transfers => ftp'.d)
        /\ f.d \/ f.state \in {"READY", "START"} => ftp'.state = f.state
    BY <1>1, SettledGood
  <1> QED BY <1>1, <1>2 DEF Sends, Stays

\* ftp_reset after a failed send.
LEMMA ResetSends ==
  ASSUME FtpInv, NEW f \in FtpData, Kept(ftp, f), Send(Reset(f))
  PROVE  Sends
  <1>1. Polite => f.handles = (IF f.open = "nothing" THEN 0 ELSE 1) /\ (NoMem \/ (f.special <=> f.upd = "open"))
    BY Zenon, InvParts DEF Sess, Kept
  <1>2. Good(Reset(f), store)
    BY <1>1, ResetGood
  <1>3. Reset(f).state = "START" /\ ~Reset(f).c
    BY ResetDone
  <1> QED BY SMTT(30), <1>2, <1>3, SettlesStep

LEMMA RetryStep ==
  ASSUME FtpInv, SendBlocked \/ SendFails
  PROVE  Sends
  <1> DEFINE n == ftp.txRetries + 1
             f == [ftp EXCEPT !.txRetries = n]
  <1>1. Send(f) \/ Send(Reset(f))
    BY DEF SendBlocked, SendFails
  <1>2. n \in Nat
    BY InvParts DEF FtpData
  <1> HIDE DEF n
  <1>3. f \in FtpData /\ Kept(ftp, f) /\ f.fifo = ftp.fifo /\ f.dBuffer = ftp.dBuffer
    <2>1. f \in FtpData
      BY SMTT(30), <1>2, InvParts DEF FtpData
    <2> QED BY <1>2, <2>1, InvParts DEF FtpData, Kept
  <1> HIDE DEF f
  <1>4. CASE Send(f)
    <2>1. Good(f, store)
      BY <1>3, InvParts, SameGood
    <2>2. f.c = ftp.c /\ (Polite /\ ftp.state \in Transfers => f.state = ftp.state /\ f.d)
      BY Zenon, <1>3, InvParts DEF Kept, Sess
    <2> QED BY <1>4, <2>1, <2>2, SettlesStep
  <1>5. CASE Send(Reset(f))
    BY <1>3, <1>5, ResetSends
  <1> QED BY <1>1, <1>4, <1>5

\* Nothing is queued: the end of a transfer closes the data connection.
LEMMA NothingStep ==
  ASSUME FtpInv, SendNothing
  PROVE  Sends
  <1> DEFINE f == [ftp EXCEPT !.ld = FALSE, !.d = FALSE, !.special = FALSE]
  <1>1. ftp.fifo = <<>> /\ (Send(ftp) \/ (ftp.state = "END_TRANSFER" /\ Send(f)))
    BY DEF SendNothing
  <1>2. CASE Send(ftp)
    <2>1. Polite /\ ftp.state \in Transfers => ftp.d
      BY Zenon, InvParts DEF Sess
    <2> QED BY <1>2, <2>1, InvParts, SettlesStep
  <1>3. CASE ftp.state = "END_TRANSFER" /\ Send(f)
    <2>1. f \in FtpData
      BY InvParts, ZenonT(30) DEF FtpData
    <2>2. /\ f.state = ftp.state /\ f.sub = ftp.sub /\ ~f.ld /\ f.c = ftp.c /\ ~f.d
          /\ f.fifo = ftp.fifo /\ f.open = ftp.open /\ f.handles = ftp.handles
          /\ ~f.special /\ f.upd = ftp.upd
      BY InvParts DEF FtpData
    <2> HIDE DEF f
    <2>3. Linked(f) /\ Shaped(f)
      BY Zenon, <1>1, <1>3, <2>2, InvParts, Names DEF Linked, Shaped
    <2>4. <<Msg("data")>> # <<>>
      BY SMTT(30), ShortQueues
    <2>5. Polite => Sess(f, store)
      BY Zenon, <1>1, <1>3, <2>2, <2>4, InvParts, Names DEF Sess
    <2>6. Good(f, store)
      BY <2>1, <2>3, <2>5 DEF Good, Conn
    <2> QED BY <1>3, <2>2, <2>6, SettlesStep, Names
  <1> QED BY <1>1, <1>2, <1>3

\* The element at the head of the queue goes out.
LEMMA RetriesCleared ==
  ASSUME NEW p \in FtpData
  PROVE  LET g == [p EXCEPT !.txRetries = 0] IN
         g \in FtpData /\ Kept(p, g) /\ g.fifo = p.fifo /\ g.dBuffer = p.dBuffer
  <1> DEFINE g == [p EXCEPT !.txRetries = 0]
  <1>1. g \in FtpData
    BY Zenon DEF FtpData
  <1> QED BY <1>1 DEF FtpData, Kept

LEMMA PoppedTyped ==
  ASSUME NEW f \in FtpData, NEW rest \in Seq(Elements), Tail(f.fifo) = rest
  PROVE  LET g == [Popped(f) EXCEPT !.txRetries = 0] IN
         g \in FtpData /\ Kept(f, g) /\ g.fifo = rest /\ g.dBuffer = f.dBuffer
  <1> DEFINE p == Popped(f)
             g == [p EXCEPT !.txRetries = 0]
  <1>1. p = [f EXCEPT !.fifo = rest]
    BY Zenon DEF Popped
  <1> HIDE DEF p
  <1>2. p \in FtpData
    BY <1>1, Zenon DEF FtpData
  <1>3. Kept(f, p) /\ p.fifo = rest /\ p.dBuffer = f.dBuffer
    BY <1>1 DEF FtpData, Kept
  <1>4. g \in FtpData /\ Kept(p, g) /\ g.fifo = p.fifo /\ g.dBuffer = p.dBuffer
    BY <1>2, RetriesCleared
  <1> HIDE DEF g
  <1>5. Kept(f, g) /\ g.fifo = rest /\ g.dBuffer = f.dBuffer
    BY SMTT(30), <1>3, <1>4 DEF Kept
  <1> QED BY <1>4, <1>5 DEF g, p

\* A block, or a reply that closes nothing.
LEMMA SentNone ==
  ASSUME FtpInv, NEW rest \in Seq(Elements), Tail(ftp.fifo) = rest, Send(Sent(ftp, "none")),
         \/ ftp.fifo = <<Msg("none")>> /\ rest = <<>>
         \/ ftp.fifo = <<Block(ftp.dBuffer)>> /\ rest = <<>>
         \/ \E cl \in {"none", "data"} :
              /\ ftp.c /\ ftp.state # "READY"
              /\ ftp.fifo = <<Block(ftp.dBuffer), Msg(cl)>> /\ rest = <<Msg(cl)>>
  PROVE  Sends
  <1> DEFINE g == [Popped(ftp) EXCEPT !.txRetries = 0]
  <1>1. Send(g)
    BY DEF Sent
  <1>2. g \in FtpData /\ Kept(ftp, g) /\ g.fifo = rest /\ g.dBuffer = ftp.dBuffer
    BY InvParts, PoppedTyped, ZenonT(30)
  <1> HIDE DEF g
  <1>3. Linked(g)
    BY ZenonT(30), <1>2, InvParts DEF Linked, Kept
  <1>4. Shaped(g)
    BY Zenon, <1>2, Names DEF Shaped, Kept
  <1>5. ASSUME Polite PROVE Sess(g, store)
    <2>1. Sess(ftp, store)
      BY ZenonT(30), <1>5, InvParts
    <2>2. ftp.state \in Transfers => rest = <<>>
      BY Zenon, <2>1, ShortQueues DEF Sess
    <2>3. ftp.special => ftp.state = "FILE_RX"
      <3>1. ftp.fifo # <<>>
        BY Zenon, ShortQueues
      <3>2. ftp.fifo # <<Msg("data")>>
        <4>1. Head(<<Msg("data")>>) = Msg("data") /\ Head(<<Msg("none")>>) = Msg("none")
          BY Zenon, ShortQueues
        <4>2. Head(<<Block(ftp.dBuffer)>>) = Block(ftp.dBuffer)
          BY ShortQueues
        <4>3. \A cl : Head(<<Block(ftp.dBuffer), Msg(cl)>>) = Block(ftp.dBuffer)
          BY ShortQueues
        <4>4. Msg("data") # Msg("none") /\ Msg("data") # Block(ftp.dBuffer)
          BY Zenon, ElementsTyped
        <4> QED BY Zenon, <4>1, <4>2, <4>3, <4>4
      <3> QED BY <2>1, <3>1, <3>2, Zenon DEF Sess
    <2> QED BY Zenon, <1>2, <2>1, <2>2, <2>3 DEF Sess, Kept
  <1>6. Good(g, store)
    BY SMTT(30), <1>2, <1>3, <1>4, <1>5 DEF Good, Conn
  <1>7. g.c = ftp.c /\ (Polite /\ ftp.state \in Transfers => g.state = ftp.state /\ g.d)
    BY ZenonT(30), <1>2, InvParts DEF Kept, Sess
  <1> QED BY Zenon, <1>1, <1>6, <1>7, SettlesStep

\* A reply that closes the data connection (426, 451, 550) or all connections (221).
LEMMA SentClosing ==
  ASSUME FtpInv, NEW cl \in {"data", "all"}, ftp.fifo = <<Msg(cl)>>, cl = "all" => ftp.state = "READY",
         Send(Sent(ftp, cl))
  PROVE  Sends
  <1> DEFINE g == [Popped(ftp) EXCEPT !.txRetries = 0]
             a == [g EXCEPT !.d = FALSE]
             b == [g EXCEPT !.d = FALSE, !.ld = FALSE, !.c = FALSE, !.sub = "DISCONNECTED"]
             k == IF cl = "data" THEN a ELSE b
             h == CloseOnError(k)
  <1>1. Send(h)
    BY DEF Sent
  <1>2. g \in FtpData /\ Kept(ftp, g) /\ g.fifo = <<>>
    <2>1. Tail(ftp.fifo) = <<>> /\ <<>> \in Seq(Elements)
      BY ShortQueues
    <2> QED BY <2>1, InvParts, PoppedTyped, Zenon
  <1> HIDE DEF g
  <1>3. /\ a \in FtpData /\ a.state = g.state /\ a.sub = g.sub /\ a.lc = g.lc /\ a.ld = g.ld /\ a.c = g.c /\ ~a.d
        /\ a.fifo = <<>> /\ a.open = g.open /\ a.handles = g.handles /\ a.special = g.special /\ a.upd = g.upd
    <2>1. a \in FtpData
      BY <1>2, Zenon DEF FtpData
    <2> QED BY <1>2, <2>1 DEF FtpData
  <1>4. /\ b \in FtpData /\ b.state = g.state /\ b.sub = "DISCONNECTED" /\ ~b.ld /\ ~b.c /\ ~b.d
        /\ b.fifo = <<>> /\ b.open = g.open /\ b.handles = g.handles /\ b.special = g.special /\ b.upd = g.upd
    <2>1. b \in FtpData
      BY <1>2, Names, Zenon DEF FtpData
    <2> QED BY <1>2, <2>1 DEF FtpData
  <1> HIDE DEF a, b
  <1>5. /\ k \in FtpData /\ k.state = ftp.state /\ ~k.d /\ k.fifo = <<>> /\ (k.c => ftp.c)
        /\ k.open = ftp.open /\ k.handles = ftp.handles /\ k.special = ftp.special /\ k.upd = ftp.upd
    BY Zenon, <1>2, <1>3, <1>4 DEF Kept
  <1>6. Linked(k)
    <2>1. CASE cl = "data"
      BY Zenon, <1>2, <1>3, <2>1, InvParts, Names DEF Linked, Kept
    <2>2. CASE cl = "all"
      BY Zenon, <1>2, <1>4, <2>2, Names DEF Linked, Kept
    <2> QED BY SMTT(30), <2>1, <2>2
  <1> HIDE DEF k
  <1>7. /\ h \in FtpData /\ SameSockets(k, h) /\ h.open = "nothing" /\ h.handles = HandlesLeft(k)
        /\ ~h.special /\ h.upd = IF k.special THEN "closed" ELSE k.upd
    BY Zenon, <1>5, ErrorClosed
  <1> HIDE DEF h
  <1>8. Linked(h) /\ Shaped(h) /\ h.state = ftp.state /\ (h.c => ftp.c)
    BY Zenon, <1>5, <1>6, <1>7 DEF Linked, Shaped, SameSockets
  <1>9. ASSUME Polite PROVE Sess(h, store) /\ ftp.state \notin Transfers
    <2>1. Sess(ftp, store)
      BY Zenon, <1>9, InvParts
    <2>2. ftp.state \notin Transfers
      <3>1. <<Msg(cl)>> # <<>> /\ Head(<<Msg(cl)>>) = Msg(cl) /\ Head(<<Msg("none")>>) = Msg("none")
        BY ShortQueues
      <3>2. Head(<<Block(ftp.dBuffer)>>) = Block(ftp.dBuffer)
        BY ShortQueues
      <3>3. Msg(cl) # Msg("none") /\ Msg(cl) # Block(ftp.dBuffer)
        BY ElementsTyped
      <3>4. ftp.fifo \notin {<<>>, <<Msg("none")>>, <<Block(ftp.dBuffer)>>}
        BY <3>1, <3>2, <3>3
      <3> QED BY <2>1, <3>4 DEF Sess
    <2>3. h.handles = 0
      BY <1>5, <1>7, <2>1 DEF Sess, HandlesLeft
    <2>4. (NoMem \/ h.upd # "open")
      BY Zenon, <1>5, <1>7, <2>1 DEF Sess
    <2> QED BY Zenon, <1>7, <1>8, <2>2, <2>3, <2>4, Names DEF Sess
  <1>10. Good(h, store)
    BY <1>7, <1>8, <1>9 DEF Good, Conn
  <1> QED BY Zenon, <1>1, <1>8, <1>9, <1>10, SettlesStep

LEMMA ElementStep ==
  ASSUME FtpInv, SendElement
  PROVE  Sends
  <1>1. Shaped(ftp) /\ ftp.fifo # <<>> /\ ftp.dBuffer \in AnyTag
    BY InvParts DEF SendElement, FtpData
  <1>2. ASSUME NEW cl \in Closes, ftp.c, ftp.fifo = <<Msg(cl)>>, cl = "all" => ftp.state = "READY" PROVE Sends
    <2>1. Head(ftp.fifo) = Msg(cl) /\ Tail(ftp.fifo) = <<>> /\ <<>> \in Seq(Elements)
      BY <1>2, ShortQueues
    <2>2. HeadOpen /\ Head(ftp.fifo).closes = cl
      BY <1>1, <1>2, <2>1, ElementsTyped DEF HeadOpen
    <2>3. Send(Sent(ftp, cl))
      BY <2>2 DEF SendElement
    <2>4. CASE cl = "none"
      BY <1>2, <2>1, <2>3, <2>4, SentNone, Zenon
    <2>5. CASE cl \in {"data", "all"}
      BY <1>2, <2>3, <2>5, SentClosing
    <2> QED BY <2>4, <2>5, Names
  <1>3. ASSUME ftp.d, ftp.fifo = <<Block(ftp.dBuffer)>> PROVE Sends
    <2>1. Head(ftp.fifo) = Block(ftp.dBuffer) /\ Tail(ftp.fifo) = <<>> /\ <<>> \in Seq(Elements)
      BY <1>3, ShortQueues
    <2>2. HeadOpen /\ Head(ftp.fifo).closes = "none"
      BY <1>1, <1>3, <2>1, ElementsTyped DEF HeadOpen
    <2>3. Send(Sent(ftp, "none"))
      BY <2>2 DEF SendElement
    <2> QED BY <1>3, <2>1, <2>3, SentNone, Zenon
  <1>4. ASSUME ftp.c, ftp.d, ftp.state # "READY", NEW cl \in {"none", "data"},
               ftp.fifo = <<Block(ftp.dBuffer), Msg(cl)>>
        PROVE  Sends
    <2>1. Head(ftp.fifo) = Block(ftp.dBuffer) /\ Tail(ftp.fifo) = <<Msg(cl)>>
      BY <1>4, ShortQueues
    <2>2. <<Msg(cl)>> \in Seq(Elements)
      BY ElementsTyped, Names
    <2>3. HeadOpen /\ Head(ftp.fifo).closes = "none"
      BY <1>1, <1>4, <2>1, ElementsTyped DEF HeadOpen
    <2>4. Send(Sent(ftp, "none"))
      BY <2>3 DEF SendElement
    <2> QED BY <1>4, <2>1, <2>2, <2>4, SentNone, Zenon
  <1> QED BY <1>1, <1>2, <1>3, <1>4 DEF Shaped

-----------------------------------------------------------------------------
\* The servers task, between two cycles.
LEMMA EnableStep ==
  ASSUME FtpInv, Enable
  PROVE  FtpInv' /\ ftp'.c = ftp.c /\ ftp'.state = ftp.state
  <1>1. phase = "main" /\ phase' = phase /\ store' = store /\ ftp' = [ftp EXCEPT !.enabled = TRUE]
    BY DEF Enable
  <1>2. ftp' \in FtpData
    BY <1>1, InvParts, Zenon DEF FtpData
  <1>3. Kept(ftp, ftp') /\ ftp'.fifo = ftp.fifo /\ ftp'.dBuffer = ftp.dBuffer
    BY <1>1, InvParts DEF FtpData, Kept
  <1>4. Good(ftp', store)
    BY <1>2, <1>3, InvParts, SameGood
  <1>5. ftp'.d = ftp.d /\ ftp'.state = ftp.state /\ ftp'.c = ftp.c
    BY <1>3 DEF Kept
  <1> QED BY <1>1, <1>4, <1>5 DEF FtpInv

LEMMA StopStep ==
  ASSUME FtpInv, Disable \/ ServersReset
  PROVE  FtpInv' /\ ~ftp'.c /\ ftp'.state \in {"START", "DISABLED"}
  <1> DEFINE r == Reset(ftp)
             g == [r EXCEPT !.enabled = FALSE, !.state = "DISABLED"]
  <1>1. (ftp' = r \/ ftp' = g) /\ phase' = phase /\ store' = store
    BY DEF Disable, ServersReset
  <1>2. Polite => ftp.handles = (IF ftp.open = "nothing" THEN 0 ELSE 1) /\ (NoMem \/ (ftp.special <=> ftp.upd = "open"))
    BY Zenon, InvParts DEF Sess
  <1>3. Good(r, store)
    BY <1>2, InvParts, ResetGood
  <1>4. r.state = "START" /\ r.sub = "DISCONNECTED" /\ ~r.lc /\ ~r.ld /\ ~r.c /\ ~r.d /\ r.fifo = <<>>
    BY Zenon, InvParts, ResetDone
  <1> HIDE DEF r
  <1>5. r \in FtpData /\ (Polite => Sess(r, store))
    BY <1>3 DEF Good, Conn
  <1>6. CASE ftp' = r
    BY <1>1, <1>3, <1>4, <1>6, Names DEF FtpInv
  <1>7. CASE ftp' = g
    <2>1. g \in FtpData
      BY <1>5, Names, Zenon DEF FtpData
    <2>2. /\ g.state = "DISABLED" /\ g.sub = r.sub /\ g.lc = r.lc /\ g.ld = r.ld /\ g.c = r.c /\ g.d = r.d
          /\ g.fifo = r.fifo /\ g.open = r.open /\ g.handles = r.handles
          /\ g.special = r.special /\ g.upd = r.upd
      BY <1>5 DEF FtpData
    <2> HIDE DEF g
    <2>3. Linked(g) /\ Shaped(g)
      BY Zenon, <1>4, <2>2, Names DEF Linked, Shaped
    <2>4. Polite => Sess(g, store)
      BY Zenon, <1>4, <1>5, <2>2, Names DEF Sess
    <2>5. Good(g, store)
      BY <2>1, <2>3, <2>4 DEF Good, Conn
    <2> QED BY <1>1, <1>4, <1>7, <2>2, <2>5, Names DEF FtpInv
  <1> QED BY <1>1, <1>6, <1>7

-----------------------------------------------------------------------------
\* All steps.  A client is new only after accept, and then finds nothing of an earlier one;
\* a transfer is left only for its end or by a reset.
Fresh ==
  ~ftp.c /\ ftp'.c => /\ Len(ftp'.fifo) <= 1 /\ ~ftp'.d /\ ~ftp'.user /\ ~ftp'.pass
                      /\ Polite => ftp'.open = "nothing" /\ ~ftp'.special /\ (NoMem \/ ftp'.upd = "closed")

Answered ==
  Polite /\ ftp.state \in Transfers => ftp'.state \in {ftp.state, "END_TRANSFER", "START", "DISABLED"}

LEMMA InitFtpInv == Init => FtpInv
  <1> SUFFICES ASSUME Init PROVE FtpInv
    OBVIOUS
  <1>1. /\ ftp.state = "DISABLED" /\ ftp.sub = "DISCONNECTED" /\ ~ftp.lc /\ ~ftp.ld /\ ~ftp.c /\ ~ftp.d
        /\ ftp.fifo = <<>> /\ ftp.open = "nothing" /\ ftp.handles = 0 /\ ~ftp.special /\ ftp.upd = "closed"
        /\ phase = "main"
    BY Zenon DEF Init
  <1>2. ftp \in FtpData
    <2>1. "DISABLED" \in States /\ "DISCONNECTED" \in SubStates /\ <<"none", 0>> \in AnyTag /\ <<>> \in Seq(Elements)
      BY Names DEF AnyTag
    <2> QED BY <2>1, SMTT(30) DEF Init, FtpData
  <1>3. Linked(ftp) /\ Shaped(ftp)
    BY Zenon, <1>1, Names DEF Linked, Shaped
  <1>4. Sess(ftp, store)
    BY Zenon, <1>1, Names DEF Sess
  <1> QED BY Zenon, <1>1, <1>2, <1>3, <1>4, Names DEF FtpInv, Good, Conn

LEMMA AcceptFresh ==
  ASSUME FtpInv, WaitForConnection
  PROVE  Fresh /\ Answered
  <1>1. /\ ftp'.c => /\ ~ftp'.d /\ ~ftp'.user /\ ~ftp'.pass /\ ftp'.fifo \in {<<>>, <<Msg("none")>>}
                     /\ ftp'.open = ftp.open /\ ftp'.special = ftp.special /\ ftp'.upd = ftp.upd
    BY ConnectionStep
  <1>2. ftp.state = "READY" /\ ftp.upd \in {"closed", "open"}
    BY InvParts DEF WaitForConnection, Accepting, FtpData
  <1>3. ftp'.fifo \in {<<>>, <<Msg("none")>>} => Len(ftp'.fifo) <= 1
    <2>1. Len(<<>>) = 0 /\ Len(<<Msg("none")>>) = 1
      BY ShortQueues
    <2>2. \A n \in {0, 1} : n <= 1
      OBVIOUS
    <2>3. ftp'.fifo \in {<<>>, <<Msg("none")>>} => Len(ftp'.fifo) \in {0, 1}
      BY <2>1
    <2> QED BY <2>2, <2>3, Zenon
  <1>4. Polite => ftp.open = "nothing" /\ ~ftp.special /\ (NoMem \/ ftp.upd = "closed")
    BY Zenon, <1>2, InvParts, Names DEF Sess
  <1>5. ftp.state \notin Transfers
    BY <1>2, Names
  <1> QED BY <1>1, <1>3, <1>4, <1>5 DEF Fresh, Answered

\* The first switch of ftp_run.
LEMMA MainStep ==
  ASSUME FtpInv, \/ WaitForEnabled \/ CreateListeningSocket \/ WaitForConnection \/ ReadyIdle
                 \/ NoCommand \/ CommandSocketClosed \/ Command \/ ContinueEnd \/ Transfer
  PROVE  Good(ftp', store') /\ phase' = "sub" /\ Fresh /\ Answered
  <1>1. CASE WaitForEnabled \/ CreateListeningSocket
    <2>1. ftp.state \notin Transfers
      BY <1>1, Names DEF WaitForEnabled, CreateListeningSocket
    <2> QED BY <1>1, <2>1, EnabledStep DEF Fresh, Answered
  <1>2. CASE WaitForConnection
    BY <1>2, ConnectionStep, AcceptFresh
  <1>3. CASE ReadyIdle \/ ContinueEnd \/ QueueBusy
    BY <1>3, IdleStep DEF Fresh, Answered
  <1>4. Processing => ftp.state \notin Transfers
    BY Names DEF Processing
  <1>5. CASE NoCommand
    <2>1. Processing
      BY <1>5 DEF NoCommand
    <2> QED BY <1>4, <1>5, <2>1, SilenceStep DEF Fresh, Answered
  <1>6. CASE CommandSocketClosed
    <2>1. Processing
      BY <1>6 DEF CommandSocketClosed
    <2> QED BY <1>4, <1>6, <2>1, GoneStep DEF Fresh, Answered
  <1>7. CASE NeedsLogin \/ User \/ Pass \/ Quit \/ PlainCommand \/ RefusedCommand \/ SizeOrMdtm \/ Rnfr \/ Rnto
    <2>1. Processing
      BY <1>7 DEF NeedsLogin, User, Pass, Quit, PlainCommand, RefusedCommand, SizeOrMdtm, Rnfr, Rnto, LoggedIn
    <2> QED BY <1>4, <1>7, <2>1, CommandStep DEF Fresh, Answered
  <1>8. CASE Pasv \/ List \/ Retr \/ StorFile \/ StorUpdate
    <2>1. Processing
      BY <1>8, Zenon DEF Pasv, List, Retr, StorFile, StorUpdate, Asks, LoggedIn
    <2>2. Good(ftp', store') /\ phase' = "sub" /\ ftp'.c = ftp.c
      BY <1>8, PasvStep, ListStep, FileStep, UpdateStep
    <2> QED BY <1>4, <2>1, <2>2 DEF Fresh, Answered
  <1>9. CASE ListRoot \/ ListDir \/ ReadFile \/ ReceiveBlock \/ ReceiveNothing \/ ReceiveEnd
    <2>1. Continues
      BY <1>9, ListRootStep, ListDirStep, ReadFileStep, ReceiveStep, ReceiveEndStep
    <2> QED BY <2>1 DEF Continues, Fresh, Answered
  <1> QED BY <1>1, <1>2, <1>3, <1>5, <1>6, <1>7, <1>8, <1>9 DEF Command, Transfer

LEMMA NextFtpInv == FtpInv /\ [Next]_vars => FtpInv' /\ Fresh /\ Answered
  <1> SUFFICES ASSUME FtpInv, [Next]_vars PROVE FtpInv' /\ Fresh /\ Answered
    OBVIOUS
  <1>1. CASE \/ WaitForEnabled \/ CreateListeningSocket \/ WaitForConnection \/ ReadyIdle
             \/ NoCommand \/ CommandSocketClosed \/ Command \/ ContinueEnd \/ Transfer
    <2>1. Good(ftp', store') /\ phase' = "sub" /\ Fresh /\ Answered
      BY <1>1, MainStep
    <2> QED BY <2>1 DEF FtpInv
  <1>2. CASE SubIdle \/ DataAccepted \/ DataAwaited \/ DataUnused
    <2>1. Good(ftp', store') /\ phase' = "send" /\ Stays
      BY <1>2, SubStep, AwaitStep, UnusedStep
    <2> QED BY <2>1 DEF FtpInv, Stays, Fresh, Answered
  <1>3. CASE SendElement \/ SendBlocked \/ SendFails \/ SendNothing
    <2>1. Sends
      BY <1>3, ElementStep, RetryStep, NothingStep
    <2> QED BY <2>1 DEF Sends, FtpInv, Stays, Fresh, Answered
  <1>4. CASE Enable
    BY <1>4, EnableStep DEF Fresh, Answered
  <1>5. CASE Disable \/ ServersReset
    BY <1>5, StopStep DEF Fresh, Answered
  <1>6. CASE UNCHANGED vars
    BY <1>6, ZenonT(30) DEF vars, FtpInv, Good, Conn, Linked, Shaped, Sess, Fresh, Answered
  <1> QED BY <1>1, <1>2, <1>3, <1>4, <1>5, <1>6 DEF Next, Run

LEMMA AlwaysFtpInv == Spec => []FtpInv
  <1>1. FtpInv /\ [Next]_vars => FtpInv'
    BY NextFtpInv
  <1> QED BY <1>1, InitFtpInv, PTL DEF Spec

-----------------------------------------------------------------------------
\* A data block that waits in the socket fifo is a pointer into dBuffer: no command, listing
\* or transfer step of ftp_run writes to dBuffer while one waits.  For every client, every
\* failure and every bound.
THEOREM DataAlwaysIntact == Spec => []QueuedDataIntact
  <1>1. FtpInv => QueuedDataIntact
    <2> SUFFICES ASSUME FtpInv, NEW i \in 1 .. Len(ftp.fifo), ftp.fifo[i].sd = "d"
                 PROVE  ftp.fifo[i].tag = ftp.dBuffer
      BY DEF QueuedDataIntact
    <2>1. Shaped(ftp)
      BY InvParts
    <2>2. ftp.fifo # <<>>
      <3>1. Len(<<>>) = 0
        BY ShortQueues
      <3> QED BY <3>1
    <2>3. ASSUME NEW cl, ftp.fifo = <<Msg(cl)>> PROVE FALSE
      <3>1. i = 1 /\ ftp.fifo[i] = Msg(cl)
        BY <2>3
      <3> QED BY <3>1, ElementsTyped
    <2>4. CASE ftp.fifo = <<Block(ftp.dBuffer)>>
      <3>1. ftp.fifo[i] = Block(ftp.dBuffer)
        BY <2>4
      <3> QED BY <3>1, ElementsTyped
    <2>5. ASSUME NEW cl, ftp.fifo = <<Block(ftp.dBuffer), Msg(cl)>> PROVE ftp.fifo[i].tag = ftp.dBuffer
      <3>1. ftp.fifo[i] = Block(ftp.dBuffer) \/ ftp.fifo[i] = Msg(cl)
        BY <2>5
      <3> QED BY <3>1, ElementsTyped
    <2> QED BY Zenon, <2>1, <2>2, <2>3, <2>4, <2>5 DEF Shaped
  <1> QED BY <1>1, AlwaysFtpInv, PTL

\* At most one data block and one reply wait in the socket fifo, so ftp_send_reply and
\* ftp_send_data never find it full.
THEOREM RepliesAlwaysFit == Spec => []RepliesFit
  <1>1. FtpInv => RepliesFit
    <2> SUFFICES ASSUME FtpInv PROVE Len(ftp.fifo) <= 2
      BY DEF RepliesFit
    <2>1. Shaped(ftp)
      BY InvParts
    <2>2. Len(<<>>) = 0 /\ \A a, b : Len(<<a>>) = 1 /\ Len(<<a, b>>) = 2
      BY ShortQueues
    <2>3. Len(ftp.fifo) \in {0, 1, 2}
      BY <2>1, <2>2, Zenon DEF Shaped
    <2>4. \A n \in {0, 1, 2} : n <= 2
      OBVIOUS
    <2> QED BY <2>3, <2>4, Zenon
  <1> QED BY <1>1, AlwaysFtpInv, PTL

\* c_sd, d_sd, ld_sd and lc_sd: no socket is open in a state that opens one in its place,
\* a transfer steps only with its data connection, and what is queued goes to open sockets.
THEOREM SocketsAlwaysTracked == Spec => []SocketsTracked
  <1>1. FtpInv => SocketsTracked
    <2> SUFFICES ASSUME FtpInv PROVE SocketsTracked
      OBVIOUS
    <2>1. \A i \in 1 .. Len(ftp.fifo) : IF ftp.fifo[i].sd = "c" THEN ftp.c ELSE ftp.d
      <3> TAKE i \in 1 .. Len(ftp.fifo)
      <3>1. Shaped(ftp)
        BY InvParts
      <3>2. ftp.fifo # <<>>
        <4>1. Len(<<>>) = 0
          BY ShortQueues
        <4> QED BY <4>1
      <3>3. ASSUME NEW cl, ftp.c, ftp.fifo = <<Msg(cl)>> PROVE IF ftp.fifo[i].sd = "c" THEN ftp.c ELSE ftp.d
        <4>1. ftp.fifo[i] = Msg(cl)
          BY <3>3
        <4> QED BY <3>3, <4>1, ElementsTyped
      <3>4. ASSUME ftp.d, ftp.fifo = <<Block(ftp.dBuffer)>> PROVE IF ftp.fifo[i].sd = "c" THEN ftp.c ELSE ftp.d
        <4>1. ftp.fifo[i] = Block(ftp.dBuffer)
          BY <3>4
        <4> QED BY <3>4, <4>1, ElementsTyped
      <3>5. ASSUME NEW cl, ftp.c, ftp.d, ftp.fifo = <<Block(ftp.dBuffer), Msg(cl)>>
            PROVE  IF ftp.fifo[i].sd = "c" THEN ftp.c ELSE ftp.d
        BY <3>5
      <3> QED BY Zenon, <3>1, <3>2, <3>3, <3>4, <3>5 DEF Shaped
    <2>2. Linked(ftp) /\ (phase = "main" /\ ftp.state \in Transfers => ftp.d)
      BY InvParts DEF FtpInv
    <2> QED BY Zenon, <2>1, <2>2 DEF SocketsTracked, Linked
  <1> QED BY <1>1, AlwaysFtpInv, PTL

\* Every file or directory handle ftp_run opens is the one e_open names, whatever fails in
\* between, when the client asks for transfers on an open data connection only.
THEOREM HandlesAlwaysTracked == ASSUME Polite PROVE Spec => []HandlesTracked
  <1>1. FtpInv => HandlesTracked
    BY Zenon, InvParts DEF Sess, HandlesTracked
  <1> QED BY <1>1, AlwaysFtpInv, PTL

\* special_file tells an update from a user file for as long as one is received, when the
\* client asks for transfers on an open data connection only.
THEOREM UpdatesKeptApart == ASSUME Polite PROVE Spec => []SoftwareUpdateOnly
  <1>1. FtpInv => SoftwareUpdateOnly
    BY Zenon, InvParts DEF Sess, SoftwareUpdateOnly
  <1> QED BY <1>1, AlwaysFtpInv, PTL

\* accept hands a new client a session in which nothing of the one before it is left.  The
\* reply that closes a failed update must have gone out: lost for want of memory, it leaves
\* the updater open behind a cleared special_file.
THEOREM SessionsStartFresh == ASSUME Polite, ~NoMem PROVE Spec => FreshSession
  <1>1. FtpInv /\ [Next]_vars =>
          [ (~ftp.c /\ ftp'.c) => /\ Len(ftp'.fifo) <= 1 /\ ~ftp'.d /\ ~ftp'.user /\ ~ftp'.pass
                                  /\ ftp'.open = "nothing" /\ ~ftp'.special /\ ftp'.upd = "closed" ]_vars
    BY NextFtpInv DEF Fresh
  <1> QED BY <1>1, AlwaysFtpInv, PTL DEF Spec, FreshSession

\* A transfer that was announced is left through END_TRANSFER, where its reply is queued,
\* or by a reset of the server: never straight back to READY.
THEOREM TransfersAlwaysAnswered == ASSUME Polite PROVE Spec => TransferAnswered
  <1>1. FtpInv /\ [Next]_vars =>
          [ ftp.state \in Transfers /\ ftp'.state # ftp.state
              => ftp'.state \in {"END_TRANSFER", "START", "DISABLED"} ]_vars
    BY NextFtpInv DEF Answered
  <1> QED BY <1>1, AlwaysFtpInv, PTL DEF Spec, TransferAnswered
=============================================================================
