------------------------------ MODULE StreamIO ------------------------------
(***************************************************************************)
(* The socket routines of libsio: reads and writes with a time limit,      *)
(* datagrams, waiting, accepting, connecting, making servers, and          *)
(* SReadline, which cuts the byte stream of a connection into lines.       *)
(*                                                                         *)
(* A routine is a loop of system calls.  It is modelled by the state its   *)
(* loop keeps and by one operator that says what the next thing to happen  *)
(* on the socket (an event) does to it.  An event comes some seconds after *)
(* the one before it, so that a select with less time than that runs out   *)
(* first.  A byte count is all that reads and writes know of the data;     *)
(* SReadline sees the bytes themselves.                                    *)
(*                                                                         *)
(* The routines for local-domain sockets have the bodies of the ones for   *)
(* the network.                                                            *)
(***************************************************************************)
EXTENDS Integers, Sequences, FiniteSets, SequencesExt

CONSTANTS
    Sizes,      \* buffer sizes passed to the reads and writes
    Limits,     \* time limits tlen in seconds; below 1 where a routine allows it
    Delays,     \* seconds an event may take
    Tries,      \* nTries of SBind
    MaxEvents,  \* events one call meets
    Texts,      \* what the peer of SReadline sends, as sequences of bytes
    LineRooms,  \* linebufsize - 1: bytes a line may hold
    BufSize     \* bufSizeMax of the SReadlineInfo

\* Buffers and packets hold something, and a line buffer at least one byte before its
\* final zero (SReadline.c:100); a limit below 1 and a number of tries below 1 are
\* values the routines take.
ASSUME ValuesAssumption ==
    /\ Sizes \subseteq Nat \ {0} /\ Delays \subseteq Nat
    /\ Limits \subseteq Int /\ Tries \subseteq Int
    /\ Texts \subseteq Seq(STRING) /\ LineRooms \subseteq Nat \ {0} /\ BufSize \in Nat

VARIABLES
    call,   \* the routine that runs: its arguments, its locals, its result, and
            \* moved, the bytes the kernel has delivered to it or taken from it
    srl     \* the SReadlineInfo, the line under way and the lines returned

vars == <<call, srl>>

-----------------------------------------------------------------------------
(* Results and events.                                                     *)

kTimeoutErr == -2
kSNewFailed == -6
kSBindFailed == -7
kSListenFailed == -8

\* "data": n bytes, or a connection; "eof": the peer has closed; "err": the socket
\* has failed, which select reports as ready; "bad": the descriptor is refused by
\* every call; "intr": a signal interrupts the call that blocks; "lost": select
\* says ready and the call that follows is interrupted.
EventIs == {"data", "eof", "err", "bad", "intr", "lost"}
Event == [after: Delays, is: EventIs, n: Sizes]

AtLeast0(n) == IF n < 0 THEN 0 ELSE n
Least(m, n) == IF m < n THEN m ELSE n
Returns(c, result) == [c EXCEPT !.pc = "done", !.ret = result]
Waits(c, seconds) == [c EXCEPT !.now = @ + seconds]
Got(c) == c.size - c.left
Moves(c, n) == [c EXCEPT !.moved = @ + n]

\* select with limit tv: it runs out, is interrupted and tried again with the same
\* limit, is refused, or says that the call Ready may go on.
Select(c, e, tv, OutOfTime(_), Ready(_)) ==
    IF e.after > 0 /\ e.after >= tv THEN OutOfTime(Waits(c, tv))
    ELSE CASE e.is = "intr" -> Waits(c, e.after)
           [] e.is = "bad" -> Returns(Waits(c, e.after), -1)
           [] OTHER -> Ready([Waits(c, e.after) EXCEPT !.first = FALSE])

-----------------------------------------------------------------------------
(* SRead, SRecv and PRead.                                                 *)

Whole(c) == c.opts \cap {"FullBufferRequired", "FullBufferRequiredExceptLast"} # {}

ReadLate(c) ==
    Returns(c, IF Got(c) = 0 \/ Whole(c) THEN kTimeoutErr ELSE Got(c))

\* The top of the loop: the time left, and nothing more when there is none.
Remaining(c) == [c EXCEPT !.tleft = AtLeast0(c.tlen - c.now)]

ReadOn_InTime(c) == c

ReadOn(c) == IF Remaining(c).tleft < 1 THEN ReadLate(c) ELSE Remaining(c)

TakesIn_ResultsAreTrue(c, n) ==
    LET d == [c EXCEPT !.left = c.size - n]
    IN  IF d.left = 0 \/ (~Whole(d) /\ d.left # d.size) THEN Returns(d, Got(d)) ELSE ReadOn(d)

TakesIn(c, n) ==
    LET d == [c EXCEPT !.left = @ - n]
    IN  IF d.left = 0 \/ (~Whole(d) /\ d.left # d.size) THEN Returns(d, Got(d)) ELSE ReadOn(d)

ReadFails(c) == Returns(c, IF Got(c) = 0 THEN -1 ELSE Got(c))

\* read() or recv() on a descriptor that select has let through, or without it.
Reads(c, e, atEof) ==
    CASE e.is = "data" -> TakesIn(Moves(c, Least(e.n, c.left)), Least(e.n, c.left))
      [] e.is = "eof" -> Returns(c, atEof)
      [] e.is \in {"err", "bad"} -> ReadFails(c)
      [] OTHER -> TakesIn(c, 0)

\* firstRead is cleared inside the branch that selects: a call with
\* kNoFirstSelect never selects, and blocks in read() as long as it takes.
TimedRead(c, e, atEof) ==
    IF c.first /\ "NoFirstSelect" \in c.opts
    THEN Reads(Waits(c, e.after), e, atEof)
    ELSE Select(c, e, c.tleft, ReadLate, LAMBDA d : Reads(d, e, atEof))

SRead(c, e) ==
    TimedRead(c, e, IF "FullBufferRequiredExceptLast" \in c.opts THEN Got(c) ELSE 0)

\* At the end of the file SRecv compares retry with a truth value, which is never
\* equal to it when bytes are wanted back.
SRecv(c, e) == TimedRead(c, e, 0)

PRead(c, e) ==
    CASE e.is = "data" -> LET n == Least(e.n, c.left)
                              d == [Moves(c, n) EXCEPT !.left = @ - n]
                          IN  IF d.left = 0 \/ ~Whole(d) THEN Returns(d, Got(d)) ELSE d
      [] e.is = "eof" -> Returns(c, Got(c))
      [] e.is \in {"err", "bad"} -> ReadFails(c)
      [] OTHER -> IF Whole(c) THEN c ELSE Returns(c, Got(c))

-----------------------------------------------------------------------------
(* SWrite, SSend and PWrite.                                               *)

WriteLate(c) == Returns(c, IF Got(c) = 0 THEN kTimeoutErr ELSE Got(c))

GivesOut(c, n) ==
    LET d == [Moves(c, n) EXCEPT !.left = @ - n]
    IN  CASE d.left = 0 -> Returns(d, d.size)
          [] d.left # 0 /\ Remaining(d).tleft < 1 -> WriteLate(d)
          [] OTHER -> Remaining(d)

\* write() or send(): nothing of it can be at the end of a file.
Writes(c, e) ==
    CASE e.is \in {"data", "eof"} -> GivesOut(c, Least(e.n, c.left))
      [] e.is \in {"err", "bad"} -> ReadFails(c)
      [] OTHER -> GivesOut(c, 0)

\* Every select of a write is given all of tlen, not what is left of it.
SWrite(c, e) ==
    IF c.first /\ "NoFirstSelect" \in c.opts
    THEN Writes(Waits(c, e.after), e)
    ELSE Select(c, e, c.tlen, WriteLate, LAMBDA d : Writes(d, e))

SSend(c, e) == Select(c, e, c.tlen, WriteLate, LAMBDA d : Writes(d, e))

PWrite(c, e) ==
    CASE e.is \in {"err", "bad"} -> ReadFails(c)
      [] e.is \in {"intr", "lost"} -> c
      [] OTHER -> IF e.n >= c.left THEN Returns([Moves(c, c.left) EXCEPT !.left = 0], c.size)
                  ELSE [Moves(c, e.n) EXCEPT !.left = @ - e.n]

-----------------------------------------------------------------------------
(* Datagrams, waiting and accepting.                                       *)

NoTime(c) == Returns(c, kTimeoutErr)

\* One datagram, cut off at the size of the buffer; recvfrom() interrupted counts
\* the time that has gone, select interrupted does not.
SRecvfrom(c, e) ==
    Select(c, e, c.tleft, NoTime, LAMBDA d :
        CASE e.is = "data" -> Returns(d, Least(e.n, d.size))
          [] e.is = "eof" -> Returns(d, 0)
          [] e.is = "err" -> Returns(d, -1)
          [] OTHER -> IF Remaining(d).tleft < 1 THEN NoTime(d) ELSE Remaining(d))

URecvfrom(c, e) == SRecvfrom(c, e)

\* The same with recvmsg(); without a limit it only blocks there.
SRecvmsg(c, e) ==
    CASE c.tlen > 0 -> SRecvfrom(c, e)
      [] c.tlen <= 0 /\ e.is \in {"intr", "lost"} -> Waits(c, e.after)
      [] OTHER -> Returns(Waits(c, e.after), CASE e.is = "data" -> Least(e.n, c.size) [] e.is = "eof" -> 0 [] OTHER -> -1)

\* The time is looked at before each select.  An interrupted sendto() goes back to
\* the select without asking for the time again.
SSendto(c, e) ==
    IF e.after > 0 /\ e.after >= c.tleft THEN NoTime(Waits(c, c.tleft))
    ELSE CASE e.is = "data" -> Returns(Waits(c, e.after), c.size)
           [] e.is = "lost" -> Waits(c, e.after)
           [] e.is = "intr" -> IF Remaining(Waits(c, e.after)).tleft < 1 THEN NoTime(Waits(c, e.after))
                               ELSE Remaining(Waits(c, e.after))
           [] OTHER -> Returns(Waits(c, e.after), -1)

USendto(c, e) == SSendto(c, e)

\* 1 when the socket is ready, a socket that has failed included; 0 for the rest.
\* A limit below 0 waits for ever, and 0 only looks.
SWaitUntilReadyForReading(c, e) ==
    IF c.tlen >= 0 /\ e.after > 0 /\ e.after >= c.tleft THEN Returns(Waits(c, c.tleft), 0)
    ELSE CASE e.is = "intr" -> IF c.tlen <= 0 THEN Waits(c, e.after) ELSE Remaining(Waits(c, e.after))
           [] e.is = "bad" -> Returns(Waits(c, e.after), 0)
           [] OTHER -> Returns(Waits(c, e.after), 1)

SWaitUntilReadyForWriting(c, e) == SWaitUntilReadyForReading(c, e)

\* The descriptor of the connection.  Without a limit only accept() blocks; with
\* one a signal starts the wait again.
Accepts(c, e) ==
    CASE e.is = "data" -> Returns([c EXCEPT !.open = @ + 1], 4)
      [] e.is \in {"intr", "lost"} -> [c EXCEPT !.selected = TRUE]
      [] OTHER -> Returns(c, -1)

SAccept(c, e) ==
    IF c.tlen <= 0 \/ c.selected THEN Accepts(Waits(c, e.after), e)
    ELSE Select(c, e, c.tlen, NoTime, LAMBDA d : Accepts(d, e))

UAccept(c, e) == SAccept(c, e)

-----------------------------------------------------------------------------
(* Connecting and serving.                                                 *)

\* _SConnect.  The socket is made non-blocking, connect() is begun, select waits
\* for it to be writable, and SO_ERROR tells whether that means connected.  What
\* fails after that leaves the socket non-blocking.
Connected(c) == Returns([c EXCEPT !.blocking = TRUE], 0)

SoError(c, e) == IF e.is = "data" THEN Connected(c) ELSE Returns(c, -1)

ConnectNow(c, e) ==
    CASE e.is = "data" -> Connected(c)
      [] e.is \in {"err", "bad"} -> Returns([c EXCEPT !.blocking = FALSE], -1)
      [] OTHER -> [c EXCEPT !.selected = TRUE, !.blocking = FALSE]

_SConnect(c, e) ==
    CASE c.tlen <= 0 -> IF e.is = "intr" THEN Waits(c, e.after)
                        ELSE Returns(Waits(c, e.after), IF e.is = "data" THEN 0 ELSE -1)
      [] c.tlen > 0 /\ ~c.selected -> ConnectNow(c, e)
      [] OTHER -> Select(c, e, c.tlen, NoTime, LAMBDA d : SoError(d, e))

\* SBindAddr tries nTries times and sleeps longer after each failure; with a
\* number of tries below 1 it never gives up.
SBindAddr(c, ok) ==
    CASE ok -> [c EXCEPT !.pc = "listen"]
      [] ~ok /\ c.tried = c.nTries -> Returns([c EXCEPT !.open = @ - 1], kSBindFailed)
      [] OTHER -> Waits([c EXCEPT !.tried = @ + 1], c.tried * 3)

SListen(c, ok) ==
    IF ok THEN Returns(c, 3) ELSE Returns([c EXCEPT !.open = @ - 1], kSListenFailed)

UBind(c, ok) == SBindAddr(c, ok)

NewSocket(c, ok) == IF ok THEN [c EXCEPT !.pc = "bind", !.open = @ + 1] ELSE Returns(c, kSNewFailed)

SNewStreamServer(c, e) ==
    CASE c.pc = "run" -> NewSocket(c, e.is = "data")
      [] c.pc = "bind" -> SBindAddr(c, e.is = "data")
      [] OTHER -> SListen(c, e.is = "data")

UNewStreamServer(c, e) ==
    CASE c.pc = "run" -> NewSocket(c, e.is = "data")
      [] c.pc = "bind" -> UBind(c, e.is = "data")
      [] OTHER -> SListen(c, e.is = "data")

\* A datagram server does not listen.
SNewDatagramServer(c, e) ==
    CASE c.pc = "run" -> NewSocket(c, e.is = "data")
      [] OTHER -> IF e.is = "data" THEN Returns(c, 3) ELSE SBindAddr(c, FALSE)

-----------------------------------------------------------------------------
(* One call.                                                               *)

Reading == {"SRead", "SRecv", "PRead"}
Writing == {"SWrite", "SSend", "PWrite"}
Untimed == {"PRead", "PWrite"}
Waiting == {"SWaitUntilReadyForReading", "SWaitUntilReadyForWriting"}
Serving == {"SNewStreamServer", "UNewStreamServer", "SNewDatagramServer"}
Unlimited == Waiting \cup {"SRecvmsg", "SAccept", "UAccept", "_SConnect"}
Functions == Reading \cup Writing \cup Waiting \cup Serving \cup
             {"SRecvfrom", "URecvfrom", "SRecvmsg", "SSendto", "USendto", "SAccept", "UAccept", "_SConnect"}

Options == SUBSET {"FullBufferRequired", "FullBufferRequiredExceptLast", "NoFirstSelect"}

Blank == [fn |-> "none", pc |-> "idle", size |-> 0, left |-> 0, opts |-> {}, tlen |-> 0,
          tleft |-> 0, now |-> 0, first |-> TRUE, selected |-> FALSE, blocking |-> TRUE,
          open |-> 0, nTries |-> 1, tried |-> 1, ret |-> 0,
          moved |-> 0, signals |-> 0, events |-> 0, lastIs |-> "none"]

Handle(c, e) ==
    CASE c.fn = "SRead" -> SRead(c, e)
      [] c.fn = "SRecv" -> SRecv(c, e)
      [] c.fn = "PRead" -> PRead(c, e)
      [] c.fn = "SWrite" -> SWrite(c, e)
      [] c.fn = "SSend" -> SSend(c, e)
      [] c.fn = "PWrite" -> PWrite(c, e)
      [] c.fn = "SRecvfrom" -> SRecvfrom(c, e)
      [] c.fn = "URecvfrom" -> URecvfrom(c, e)
      [] c.fn = "SRecvmsg" -> SRecvmsg(c, e)
      [] c.fn = "SSendto" -> SSendto(c, e)
      [] c.fn = "USendto" -> USendto(c, e)
      [] c.fn = "SWaitUntilReadyForReading" -> SWaitUntilReadyForReading(c, e)
      [] c.fn = "SWaitUntilReadyForWriting" -> SWaitUntilReadyForWriting(c, e)
      [] c.fn = "SAccept" -> SAccept(c, e)
      [] c.fn = "UAccept" -> UAccept(c, e)
      [] c.fn = "_SConnect" -> _SConnect(c, e)
      [] c.fn = "SNewStreamServer" -> SNewStreamServer(c, e)
      [] c.fn = "UNewStreamServer" -> UNewStreamServer(c, e)
      [] c.fn = "SNewDatagramServer" -> SNewDatagramServer(c, e)

\* The arguments a routine accepts: its first checks refuse the others.
Begin ==
    /\ call.pc = "idle" /\ srl.pc = "idle"
    /\ \E fn \in Functions, size \in Sizes, tlen \in Limits, opts \in Options, tries \in Tries :
          /\ tlen > 0 \/ fn \in Unlimited
          /\ fn \notin Reading \cup {"SWrite"} => opts = {}
          /\ fn = "SWrite" => opts \subseteq {"NoFirstSelect"}
          /\ fn = "PRead" => "NoFirstSelect" \notin opts
          /\ fn \notin Serving => tries = 1
          /\ fn \in Serving => tlen = 1 /\ size = 1
          /\ call' = [Blank EXCEPT !.fn = fn, !.pc = "run", !.size = size, !.left = size,
                                   !.opts = opts, !.tlen = tlen, !.tleft = tlen, !.nTries = tries]
    /\ UNCHANGED srl

\* Something happens on the socket.
Happens(e) ==
    /\ call.pc \notin {"idle", "done"} /\ call.events < MaxEvents
    /\ call' = [Handle(call, e) EXCEPT !.events = @ + 1, !.lastIs = e.is,
                                       !.signals = @ + IF e.is \in {"intr", "lost"} THEN 1 ELSE 0]
    /\ UNCHANGED srl

-----------------------------------------------------------------------------
(* SReadline.  A byte is one of a few values: LF, CR and NUL are special.  *)

LF == "LF"
CR == "CR"
NUL == "NUL"

NoReader == [pc |-> "idle", sent |-> <<>>, coming |-> <<>>, buf |-> <<>>, dst |-> <<>>,
             used |-> 0, illegals |-> 0, room |-> 0, requireEOLN |-> FALSE, lines |-> <<>>,
             lost |-> FALSE]

ScanByte_LinesAsSent(s, i) ==
    IF s.pc = "line" THEN s
    ELSE IF s.buf[i] = CR /\ i < Len(s.buf) /\ s.buf[i + 1] = LF
         THEN [s EXCEPT !.used = i]
         ELSE [s EXCEPT !.used = i, !.dst = Append(@, s.buf[i]),
                        !.pc = IF s.buf[i] = LF THEN "line" ELSE @]

\* One byte of the buffer.  A carriage return is dropped; it is an illegal byte
\* when the next byte is in the buffer too and is not a line feed.
ScanByte(s, i) ==
    LET b == s.buf[i]
        Kept == IF Len(s.dst) < s.room THEN Append(s.dst, b) ELSE s.dst
    IN  CASE s.pc = "line" -> s
          [] s.pc # "line" /\ ~s.requireEOLN /\ Len(s.dst) >= s.room -> [s EXCEPT !.pc = "line"]
          [] OTHER ->
               CASE b = NUL -> [s EXCEPT !.used = i, !.illegals = @ + 1]
                 [] b = CR -> [s EXCEPT !.used = i, !.illegals =
                                   @ + IF i < Len(s.buf) /\ s.buf[i + 1] # LF THEN 1 ELSE 0]
                 [] b = LF -> [s EXCEPT !.used = i, !.dst = Kept, !.pc = "line"]
                 [] OTHER -> [s EXCEPT !.used = i, !.dst = Kept]

\* The line goes to the caller; an empty one ends the reading.  Where a line end is
\* required a line of nothing but illegal bytes is returned as an empty line.
ReturnLine(s) ==
    LET line == IF s.requireEOLN /\ s.dst = <<>> /\ s.illegals > 0 THEN <<LF>> ELSE s.dst
    IN  IF line = <<>> THEN [s EXCEPT !.pc = "end"]
        ELSE [s EXCEPT !.pc = "next", !.lines = Append(@, line)]

\* The bytes of the buffer one after the other.
Scanned(s) ==
    LET after[k \in 0..Len(s.buf)] ==
            IF k = 0 THEN [s EXCEPT !.pc = "scan"] ELSE ScanByte(after[k - 1], k)
    IN  after[Len(s.buf)]

\* The buffer up to the end of the line.  Without one the buffer is filled again,
\* unless more than one byte so far was illegal.
Scan(s) ==
    LET r == Scanned(s)
        full == ~s.requireEOLN /\ Len(r.dst) >= s.room
        t == [r EXCEPT !.buf = SubSeq(s.buf, r.used + 1, Len(s.buf)), !.used = 0]
    IN  IF r.pc = "line" \/ full \/ r.illegals > 1 THEN ReturnLine(t) ELSE [t EXCEPT !.pc = "fill"]

\* InitSReadlineInfo on a connection whose peer sends text, and the first call.
Listen ==
    /\ call.pc = "idle" /\ srl.pc = "idle"
    /\ \E text \in Texts, room \in LineRooms, eoln \in BOOLEAN :
          srl' = [NoReader EXCEPT !.pc = "fill", !.sent = text, !.coming = text,
                                  !.room = room, !.requireEOLN = eoln]
    /\ UNCHANGED call

\* SRead brings what has come, at most a buffer of it; 0 at the end of the text.  When
\* it fails or runs out of time so does SReadline; the program may call it again, and
\* what was read of the line is lost (srl.lost, which only the property looks at).
Fill ==
    /\ srl.pc = "fill"
    /\ \/ \E n \in 1..Least(BufSize, Len(srl.coming)) :
             srl' = Scan([srl EXCEPT !.buf = SubSeq(srl.coming, 1, n),
                                     !.coming = SubSeq(srl.coming, n + 1, Len(srl.coming))])
       \/ /\ srl.coming = <<>>
          /\ srl' = ReturnLine(srl)
       \/ srl' = [srl EXCEPT !.pc = "next", !.lost = @ \/ srl.dst # <<>>]
    /\ UNCHANGED call

\* The next call of SReadline goes on in the buffer where the last one stopped.
NextLine ==
    /\ srl.pc = "next"
    /\ srl' = Scan([srl EXCEPT !.dst = <<>>, !.illegals = 0])
    /\ UNCHANGED call

Init == call = Blank /\ srl = NoReader

Next == Begin \/ (\E e \in Event : Happens(e)) \/ Listen \/ Fill \/ NextLine

Spec == Init /\ [][Next]_vars

-----------------------------------------------------------------------------
(* Properties.                                                             *)

\* What a routine says it has done is what the kernel has done.  A count above zero
\* is the number of bytes moved, over all the system calls the routine made
\* (SRead.c:129, SWrite.c:108, PRead.c:52); a call that was not asked for a whole
\* buffer and returns no count has taken no byte off the socket, and a write that
\* timed out has sent none (SWrite.c:60).  A socket reported connected is connected,
\* and blocks again (SConnect.c:219-262).  A server that could not be made leaves no
\* descriptor open (SNew.c:45-57).
ResultsAreTrue ==
    call.pc = "done" =>
        /\ call.fn \in Reading \cup Writing /\ call.ret > 0 => call.ret = call.moved
        /\ call.fn \in Reading /\ ~Whole(call) /\ call.ret <= 0 => call.moved = 0
        /\ call.fn = "SRead" /\ "FullBufferRequiredExceptLast" \in call.opts /\ call.ret >= 0 =>
               call.ret = call.moved
        /\ call.fn \in Writing /\ call.ret = kTimeoutErr => call.moved = 0
        /\ call.fn = "_SConnect" /\ call.ret = 0 => call.lastIs = "data" /\ call.blocking
        /\ call.fn \in Serving => (call.ret < 0 <=> call.open = 0)

\* A call with a time limit comes back within it when no signal arrives; a write,
\* whose every select is given the whole limit, within twice of it (SWrite.c:50).
\* Waiting for a socket keeps to it under signals too (SWait.c:100-107).  Calls with
\* kNoFirstSelect, which block in the system call, are left out.
InTime ==
    /\ call.pc = "done" /\ call.tlen > 0 /\ "NoFirstSelect" \notin call.opts
    /\ call.fn \notin Untimed \cup Serving
    /\ call.signals = 0 \/ call.fn \in Waiting
    => call.now <= IF call.fn \in Writing THEN 2 * call.tlen - 1 ELSE call.tlen

\* What the reader gets of one line: where a line end is required the beginning that
\* its buffer holds, and otherwise the line in pieces of that size.
Pieces(line, room, eoln) ==
    IF eoln THEN <<SubSeq(line, 1, Least(room, Len(line)))>>
    ELSE [k \in 1..((Len(line) + room - 1) \div room) |->
            SubSeq(line, (k - 1) * room + 1, Least(k * room, Len(line)))]

\* A text is cut after each line feed, and its carriage returns and NULs are dropped.
CutByte(c, b, room, eoln) ==
    CASE b \in {CR, NUL} -> c
      [] b = LF -> [done |-> c.done \o Pieces(Append(c.cur, LF), room, eoln), cur |-> <<>>]
      [] OTHER -> [c EXCEPT !.cur = Append(@, b)]
Cut(text, room, eoln) ==
    LET after[k \in 0..Len(text)] ==
            IF k = 0 THEN [done |-> <<>>, cur |-> <<>>]
            ELSE CutByte(after[k - 1], text[k], room, eoln)
    IN  after

\* The lines of a text, and of what follows its last line feed.
LastLine(s) == Cut(s.sent, s.room, s.requireEOLN)[Len(s.sent)].cur
LinesOf(s) ==
    Cut(s.sent, s.room, s.requireEOLN)[Len(s.sent)].done
        \o IF LastLine(s) = <<>> THEN <<>> ELSE Pieces(LastLine(s), s.room, s.requireEOLN)

\* Of the bytes that SReadline counts as illegal no line has two, and none is on a last
\* line that is otherwise empty; and no read has failed in the middle of a line.
Illegal(text) ==
    {i \in 1..Len(text) :
        \/ text[i] = NUL
        \/ text[i] = CR /\ i < Len(text) /\ text[i + 1] # LF}
EndsIn(text, i, j) == \E k \in i..j : text[k] = LF
Tidy(s) ==
    /\ ~s.lost
    /\ \A i, j \in Illegal(s.sent) : i < j => EndsIn(s.sent, i, j)
    /\ LastLine(s) = <<>> => \A i \in Illegal(s.sent) : EndsIn(s.sent, i, Len(s.sent))

\* However the network cuts the text into packets, the lines SReadline returns are
\* the lines of the text, in order and each once (SReadline.c:112-169), also when it is
\* called again after a read that failed between two lines.  Not covered: a read that
\* failed within a line, the beginning of which the next call does not know
\* (SReadline.c:126-130), and lines with illegal bytes, as above.
LinesAsSent ==
    Tidy(srl) =>
        /\ srl.pc \in {"next", "fill", "end"} => IsPrefix(srl.lines, LinesOf(srl))
        /\ srl.pc = "end" => srl.lines = LinesOf(srl)

=============================================================================
