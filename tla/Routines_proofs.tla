-------------------------- MODULE Routines_proofs --------------------------
(***************************************************************************)
(* Four of the routines beside the library's commands. The timed socket    *)
(* routines of libsio, for any sizes, limits and delays and any number of  *)
(* events: what a routine says it has done is what the kernel has done     *)
(* (ResultsAreTrue), and it comes back in time (InTime). SReadline, for    *)
(* any texts, buffers and packets: the lines it returns are the lines of   *)
(* the text (LinesAsSent). The lists of lines and of files, for any items  *)
(* and any number of calls: each list is what was put into it and not      *)
(* taken out (ListsHold). The decompression of an image that was           *)
(* compressed, for any image: it stays in its buffer (DecompressionFits).  *)
(***************************************************************************)
EXTENDS StreamIO, FileLists, ImageRle, FiniteSetTheorems, WellFoundedInduction, SequenceTheorems, TLAPS

-----------------------------------------------------------------------------
(***************************************************************************)
(* The invariant.                                                          *)
(***************************************************************************)
\* A call that has not returned.
Runs(c) == c.pc \in {"run", "bind", "listen"}

\* While it runs: nothing is left out of the count, and a call that need not fill its
\* buffer returns with the first bytes.
CountInv(c) ==
    /\ c.fn \in Reading \cup Writing =>
          /\ c.left \in 1 .. c.size /\ c.moved = c.size - c.left
          /\ c.fn \in Reading /\ ~Whole(c) => c.moved = 0
    /\ c.fn = "_SConnect" /\ c.tlen <= 0 => c.blocking
    /\ c.fn \in Serving => c.open = IF c.pc = "run" THEN 0 ELSE 1

\* A call with a limit, as InTime speaks of it.
Limited(c) ==
    /\ c.tlen > 0 /\ "NoFirstSelect" \notin c.opts
    /\ c.fn \notin Untimed \cup Serving
    /\ c.signals = 0 \/ c.fn \in Waiting

\* While it runs it has time left and knows how much; SAccept and _SConnect have not
\* waited yet.
TimeInv(c) ==
    Limited(c) =>
        /\ c.now \in 0 .. c.tlen - 1 /\ c.tleft = c.tlen - c.now
        /\ c.fn \in {"SAccept", "UAccept"} => ~c.selected
        /\ c.fn \in {"SAccept", "UAccept", "_SConnect"} => c.now = 0

\* What ResultsAreTrue and InTime say of a call that has returned; is is the last event.
ResultTrue(c, is) ==
    /\ c.fn \in Reading \cup Writing /\ c.ret > 0 => c.ret = c.moved
    /\ c.fn \in Reading /\ ~Whole(c) /\ c.ret <= 0 => c.moved = 0
    /\ c.fn = "SRead" /\ "FullBufferRequiredExceptLast" \in c.opts /\ c.ret >= 0 =>
           c.ret = c.moved
    /\ c.fn \in Writing /\ c.ret = kTimeoutErr => c.moved = 0
    /\ c.fn = "_SConnect" /\ c.ret = 0 => is = "data" /\ c.blocking
    /\ c.fn \in Serving => (c.ret < 0 <=> c.open = 0)
BackInTime(c) ==
    Limited(c) => c.now <= IF c.fn \in Writing THEN 2 * c.tlen - 1 ELSE c.tlen

Calls ==
    [fn : Functions \cup {"none"}, pc : {"idle", "run", "bind", "listen", "done"},
     size : Nat, left : Int, opts : Options, tlen : Int, tleft : Int, now : Int,
     first : BOOLEAN, selected : BOOLEAN, blocking : BOOLEAN, open : Int, nTries : Int,
     tried : Int, ret : Int, moved : Int, signals : Nat, events : Nat,
     lastIs : EventIs \cup {"none"}]

CallInv ==
    /\ call \in Calls
    /\ Runs(call) => CountInv(call) /\ TimeInv(call)
    /\ call.pc = "done" => ResultTrue(call, call.lastIs) /\ BackInTime(call)
    /\ call.pc \in {"bind", "listen"} => call.fn \in Serving
    /\ call.pc # "idle" => call.fn \in Functions

Signals == {"intr", "lost"}

\* What one event must make of a call.
Right(c, e, d) ==
    /\ d \in Calls /\ d.fn = c.fn /\ d.opts = c.opts /\ d.tlen = c.tlen /\ d.signals = c.signals
    /\ d.pc \in IF c.fn \in Serving THEN {"bind", "listen", "done"} ELSE {"run", "done"}
    /\ Runs(d) => CountInv(d) /\ (e.is \notin Signals \/ c.fn \in Waiting => TimeInv(d))
    /\ d.pc = "done" => /\ ResultTrue(d, e.is)
                        /\ e.is \notin Signals \/ c.fn \in Waiting => BackInTime(d)

LEMMA EventType ==
    ASSUME NEW e \in Event
    PROVE  e.is \in EventIs /\ e.after \in Nat /\ e.n \in Nat \ {0}
  BY ValuesAssumption DEF Event

\* What no step of a routine changes.
Same(c, d) ==
    /\ d \in Calls /\ d.fn = c.fn /\ d.opts = c.opts /\ d.tlen = c.tlen /\ d.signals = c.signals
    /\ d.size = c.size

\* What the small operators change.
LEMMA ReturnsIs ==
    ASSUME NEW c \in Calls, NEW r \in Int
    PROVE  /\ Same(c, Returns(c, r)) /\ Returns(c, r).pc = "done" /\ Returns(c, r).ret = r
           /\ Returns(c, r).left = c.left /\ Returns(c, r).moved = c.moved
           /\ Returns(c, r).now = c.now /\ Returns(c, r).tleft = c.tleft
           /\ Returns(c, r).open = c.open /\ Returns(c, r).blocking = c.blocking
  BY DEF Returns, Calls, Same

LEMMA WaitsIs ==
    ASSUME NEW c \in Calls, NEW s \in Int
    PROVE  /\ Same(c, Waits(c, s)) /\ Waits(c, s).pc = c.pc /\ Waits(c, s).now = c.now + s
           /\ Waits(c, s).left = c.left /\ Waits(c, s).moved = c.moved
           /\ Waits(c, s).tleft = c.tleft /\ Waits(c, s).open = c.open
           /\ Waits(c, s).blocking = c.blocking /\ Waits(c, s).selected = c.selected
  BY DEF Waits, Calls, Same

\* As Select hands the call on.
Readied(c, s) == [Waits(c, s) EXCEPT !.first = FALSE]

LEMMA ReadyIs ==
    ASSUME NEW c \in Calls, NEW s \in Int, NEW d, d = Readied(c, s)
    PROVE  /\ Same(c, d) /\ d.pc = c.pc /\ d.now = c.now + s
           /\ d.left = c.left /\ d.moved = c.moved
           /\ d.tleft = c.tleft /\ d.open = c.open
           /\ d.blocking = c.blocking /\ d.selected = c.selected
<1> DEFINE b == Waits(c, s)
<1>1. /\ Same(c, b) /\ b.pc = c.pc /\ b.now = c.now + s /\ b.left = c.left
      /\ b.moved = c.moved /\ b.tleft = c.tleft /\ b.open = c.open
      /\ b.blocking = c.blocking /\ b.selected = c.selected
  BY WaitsIs
<1>2. d = [b EXCEPT !.first = FALSE]
  BY DEF Readied
<1> HIDE DEF b
<1>3. b \in Calls
  BY <1>1 DEF Same
<1>4. /\ Same(b, d) /\ d.pc = b.pc /\ d.now = b.now /\ d.left = b.left
      /\ d.moved = b.moved /\ d.tleft = b.tleft /\ d.open = b.open
      /\ d.blocking = b.blocking /\ d.selected = b.selected
  BY <1>2, <1>3 DEF Calls, Same
<1> QED
  BY <1>1, <1>4 DEF Same

LEMMA RemainingIs ==
    ASSUME NEW c \in Calls
    PROVE  /\ Same(c, Remaining(c)) /\ Remaining(c).pc = c.pc /\ Remaining(c).now = c.now
           /\ Remaining(c).left = c.left /\ Remaining(c).moved = c.moved
           /\ Remaining(c).tleft = AtLeast0(c.tlen - c.now) /\ Remaining(c).open = c.open
           /\ Remaining(c).blocking = c.blocking /\ Remaining(c).selected = c.selected
<1>1. AtLeast0(c.tlen - c.now) \in Int
  BY DEF Calls, AtLeast0
<1> QED
  BY <1>1 DEF Remaining, Calls, Same

\* n bytes more, which are off the count of what is left.
Moved(c, n) == [Moves(c, n) EXCEPT !.left = @ - n]

LEMMA MovesIs ==
    ASSUME NEW c \in Calls, NEW n \in Int, NEW d, d = Moved(c, n)
    PROVE  /\ Same(c, d) /\ d.pc = c.pc /\ d.now = c.now
           /\ d.left = c.left - n /\ d.moved = c.moved + n
           /\ d.tleft = c.tleft /\ d.open = c.open
           /\ d.blocking = c.blocking /\ d.selected = c.selected
<1> DEFINE b == Moves(c, n)
<1>1. /\ Same(c, b) /\ b.pc = c.pc /\ b.now = c.now /\ b.left = c.left
      /\ b.moved = c.moved + n /\ b.tleft = c.tleft /\ b.open = c.open
      /\ b.blocking = c.blocking /\ b.selected = c.selected
  BY DEF Moves, Calls, Same
<1>2. d = [b EXCEPT !.left = b.left - n]
  BY DEF Moved
<1> HIDE DEF b
<1>3. b.left - n \in Int /\ b \in Calls
  BY <1>1 DEF Calls, Same
<1>4. /\ Same(b, d) /\ d.pc = b.pc /\ d.now = b.now /\ d.left = b.left - n
      /\ d.moved = b.moved /\ d.tleft = b.tleft /\ d.open = b.open
      /\ d.blocking = b.blocking /\ d.selected = b.selected
  BY <1>2, <1>3 DEF Calls, Same
<1> QED
  BY <1>1, <1>4 DEF Same

LEMMA SameCall ==
    ASSUME NEW c, NEW d, Same(c, d)
    PROVE  /\ Whole(d) <=> Whole(c)
           /\ Limited(d) <=> Limited(c)
  BY DEF Same, Whole, Limited

-----------------------------------------------------------------------------
(***************************************************************************)
(* Reads and writes.                                                       *)
(***************************************************************************)
Transfers == Reading \cup Writing

\* A read or write d that has come from c and ends with r, or goes on.
LEMMA TransferEnds ==
    ASSUME NEW c, NEW e, NEW d \in Calls, Same(c, d), c.fn \in Transfers, NEW r \in Int,
           r > 0 => r = d.moved,
           c.fn \in Reading /\ ~Whole(c) /\ r <= 0 => d.moved = 0,
           c.fn = "SRead" /\ "FullBufferRequiredExceptLast" \in c.opts /\ r >= 0 => r = d.moved,
           c.fn \in Writing /\ r = kTimeoutErr => d.moved = 0,
           e.is \notin Signals /\ Limited(c) =>
               d.now <= IF c.fn \in Writing THEN 2 * c.tlen - 1 ELSE c.tlen
    PROVE  Right(c, e, Returns(d, r))
<1> DEFINE b == Returns(d, r)
<1>1. /\ Same(d, b) /\ b.pc = "done" /\ b.ret = r /\ b.moved = d.moved /\ b.now = d.now
  BY ReturnsIs
<1> HIDE DEF b
<1>2. Same(c, b) /\ (Whole(b) <=> Whole(c)) /\ (Limited(b) <=> Limited(c))
  BY <1>1, SameCall DEF Same
<1>3. c.fn \notin Serving \cup Waiting /\ c.fn # "_SConnect"
  BY DEF Transfers, Reading, Writing, Serving, Waiting
<1>4. ResultTrue(b, e.is)
  BY <1>1, <1>2, <1>3 DEF ResultTrue, Same
<1>5. e.is \notin Signals => BackInTime(b)
  BY <1>1, <1>2 DEF BackInTime, Same
<1>6. Right(c, e, b)
  BY <1>1, <1>2, <1>3, <1>4, <1>5 DEF Right, Runs, Same
<1> QED
  BY <1>6 DEF b

LEMMA TransferGoesOn ==
    ASSUME NEW c, NEW e, NEW d \in Calls, Same(c, d), c.fn \in Transfers, d.pc = "run",
           d.left \in 1 .. d.size, d.moved = d.size - d.left,
           c.fn \in Reading /\ ~Whole(c) => d.moved = 0,
           e.is \notin Signals /\ Limited(c) => d.now \in 0 .. d.tlen - 1 /\ d.tleft = d.tlen - d.now
    PROVE  Right(c, e, d)
<1>1. (Whole(d) <=> Whole(c)) /\ (Limited(d) <=> Limited(c))
  BY SameCall
<1>2. c.fn \notin Serving \cup Waiting \cup {"_SConnect", "SAccept", "UAccept"}
  BY DEF Transfers, Reading, Writing, Serving, Waiting
<1>3. CountInv(d)
  BY <1>1, <1>2 DEF CountInv, Same
<1>4. e.is \notin Signals => TimeInv(d)
  BY <1>1, <1>2 DEF TimeInv, Same
<1> QED
  BY <1>1, <1>2, <1>3, <1>4 DEF Right, Same

\* Where a read or a write d that came from c stands between two system calls.
Standing(c, d) ==
    /\ Same(c, d) /\ d.pc = "run" /\ c.fn \in Transfers
    /\ d.left \in 1 .. d.size /\ d.moved = d.size - d.left
    /\ c.fn \in Reading /\ ~Whole(c) => d.moved = 0

LEMMA ReadLateRight ==
    ASSUME NEW c \in Calls, NEW e, NEW d, Standing(c, d), c.fn \in Reading,
           e.is \notin Signals /\ Limited(c) => d.now <= c.tlen
    PROVE  Right(c, e, ReadLate(d))
<1> DEFINE r == IF Got(d) = 0 \/ Whole(d) THEN kTimeoutErr ELSE Got(d)
<1>1. d \in Calls /\ Same(c, d) /\ c.fn \in Transfers /\ c.fn \notin Writing
  BY DEF Standing, Same, Reading, Writing
<1>2. d.moved \in Int /\ Got(d) = d.moved /\ d.moved >= 0
  BY <1>1 DEF Standing, Got, Calls
<1>3. r \in Int /\ (r > 0 => r = d.moved) /\ (r >= 0 => r = d.moved)
  BY <1>2 DEF kTimeoutErr
<1>4. ~Whole(c) => d.moved = 0
  BY DEF Standing
<1> HIDE DEF r
<1>5. Right(c, e, Returns(d, r))
  BY <1>1, <1>3, <1>4, TransferEnds
<1> QED
  BY <1>5 DEF ReadLate, r

LEMMA ReadOnRight ==
    ASSUME NEW c \in Calls, NEW e, NEW d, Standing(c, d), c.fn \in Reading,
           e.is \notin Signals /\ Limited(c) => d.now \in 0 .. c.tlen
    PROVE  Right(c, e, ReadOn(d))
<1> DEFINE x == Remaining(d)
<1>1. d \in Calls /\ Same(c, d) /\ c.fn \in Transfers
  BY DEF Standing, Same
<1>2. /\ Same(d, x) /\ x.pc = d.pc /\ x.now = d.now /\ x.left = d.left /\ x.moved = d.moved
      /\ x.tleft = AtLeast0(d.tlen - d.now)
  BY <1>1, RemainingIs
<1> HIDE DEF x
<1>3. CASE x.tleft < 1
  <2>1. e.is \notin Signals /\ Limited(c) => d.now <= c.tlen
    OBVIOUS
  <2>2. Right(c, e, ReadLate(d))
    BY <2>1, ReadLateRight
  <2> QED
    BY <1>3, <2>2 DEF ReadOn, x
<1>4. CASE ~(x.tleft < 1)
  <2>1. Same(c, x) /\ x \in Calls
    BY <1>1, <1>2 DEF Same
  <2>2. e.is \notin Signals /\ Limited(c) => x.now \in 0 .. x.tlen - 1 /\ x.tleft = x.tlen - x.now
    BY <1>1, <1>2, <1>4 DEF Same, AtLeast0, Calls
  <2>3. x.left \in 1 .. x.size /\ x.moved = x.size - x.left /\ x.pc = "run"
    BY <1>2 DEF Standing, Same
  <2>4. ~Whole(c) => x.moved = 0
    BY <1>2 DEF Standing
  <2>5. Right(c, e, x)
    BY <1>1, <2>1, <2>2, <2>3, <2>4, TransferGoesOn
  <2> QED
    BY <1>4, <2>5 DEF ReadOn, x
<1> QED
  BY <1>3, <1>4

\* d has been given n bytes that are not off the count of what is left.
LEMMA TakesInRight ==
    ASSUME NEW c \in Calls, NEW e, NEW d, Same(c, d), d.pc = "run", c.fn \in {"SRead", "SRecv"},
           d.left \in 1 .. d.size, NEW n \in 0 .. d.left, d.moved = d.size - d.left + n,
           ~Whole(c) => d.left = d.size,
           e.is \notin Signals /\ Limited(c) => d.now \in 0 .. c.tlen
    PROVE  Right(c, e, TakesIn(d, n))
<1> DEFINE x == [d EXCEPT !.left = @ - n]
<1>1. d \in Calls /\ c.fn \in Transfers /\ c.fn \in Reading /\ c.fn \notin Writing
  BY DEF Same, Transfers, Reading, Writing
<1>2. Same(d, x) /\ x.pc = "run" /\ x.left = d.left - n /\ x.moved = d.moved /\ x.now = d.now
  BY <1>1 DEF Calls, Same
<1> HIDE DEF x
<1>3. Same(c, x) /\ x \in Calls /\ (Whole(x) <=> Whole(c))
  BY <1>2, SameCall DEF Same
<1>4. x.moved \in Int /\ Got(x) = x.moved /\ x.moved >= 0 /\ x.moved = x.size - x.left
  BY <1>2, <1>3 DEF Same, Got, Calls
<1>5. e.is \notin Signals /\ Limited(c) => x.now \in 0 .. c.tlen
  BY <1>2
<1>6. CASE x.left = 0 \/ (~Whole(x) /\ x.left # x.size)
  <2>1. x.moved > 0
    BY <1>1, <1>2, <1>3, <1>4, <1>6 DEF Same, Calls
  <2> DEFINE r == Got(x)
  <2>2. r \in Int /\ r = x.moved /\ r > 0
    BY <1>4, <2>1
  <2> HIDE DEF r
  <2>3. ~(r <= 0)
    BY <2>2
  <2>4. e.is \notin Signals /\ Limited(c) => x.now <= IF c.fn \in Writing THEN 2 * c.tlen - 1 ELSE c.tlen
    BY <1>1, <1>5
  <2>5. Right(c, e, Returns(x, r))
    BY <1>1, <1>3, <2>2, <2>3, <2>4, TransferEnds
  <2>6. Right(c, e, Returns(x, Got(x)))
    BY <2>5 DEF r
  <2> QED
    BY <1>6, <2>6 DEF TakesIn, x
<1>7. CASE ~(x.left = 0 \/ (~Whole(x) /\ x.left # x.size))
  <2>a. x.left \in 1 .. x.size
    <3>1. x.left # 0 /\ x.size = d.size /\ x.left = d.left - n
      BY <1>2, <1>7 DEF Same
    <3>2. d.left \in 1 .. d.size /\ d.size \in Nat /\ n \in 0 .. d.left
      BY <1>1 DEF Calls
    <3> QED
      BY <3>1, <3>2
  <2>b. ~Whole(c) => x.moved = 0
    <3>1. ~Whole(c) => x.left = x.size
      BY <1>3, <1>7
    <3>2. x.size \in Nat
      BY <1>3 DEF Calls
    <3> QED
      BY <1>4, <3>1, <3>2
  <2>1. Standing(c, x)
    BY <1>1, <1>2, <1>3, <1>4, <2>a, <2>b DEF Standing
  <2>2. Right(c, e, ReadOn(x))
    BY <1>1, <1>5, <2>1, ReadOnRight
  <2> QED
    BY <1>7, <2>2 DEF TakesIn, x
<1> QED
  BY <1>6, <1>7

LEMMA ReadFailsRight ==
    ASSUME NEW c \in Calls, NEW e, NEW d, Standing(c, d),
           e.is \notin Signals /\ Limited(c) =>
               d.now <= IF c.fn \in Writing THEN 2 * c.tlen - 1 ELSE c.tlen
    PROVE  Right(c, e, ReadFails(d))
<1> DEFINE r == IF Got(d) = 0 THEN -1 ELSE Got(d)
<1>1. d \in Calls /\ Same(c, d) /\ c.fn \in Transfers
  BY DEF Standing, Same
<1>2. d.moved \in Int /\ Got(d) = d.moved /\ d.moved >= 0
  BY <1>1 DEF Standing, Got, Calls
<1>3. r \in Int /\ (r > 0 => r = d.moved) /\ (r >= 0 => r = d.moved) /\ r # kTimeoutErr
  BY <1>2 DEF kTimeoutErr
<1>4. c.fn \in Reading /\ ~Whole(c) => d.moved = 0
  BY DEF Standing
<1> HIDE DEF r
<1>5. Right(c, e, Returns(d, r))
  BY <1>1, <1>3, <1>4, TransferEnds
<1> QED
  BY <1>5 DEF ReadFails, r

LEMMA ReadsRight ==
    ASSUME NEW c \in Calls, NEW e \in Event, NEW d, Standing(c, d), c.fn \in {"SRead", "SRecv"},
           e.is \notin Signals /\ Limited(c) => d.now \in 0 .. c.tlen,
           NEW atEof \in Int, atEof \in {0, d.moved},
           c.fn = "SRead" /\ "FullBufferRequiredExceptLast" \in c.opts => atEof = d.moved
    PROVE  Right(c, e, Reads(d, e, atEof))
<1>1. /\ d \in Calls /\ Same(c, d) /\ c.fn \in Transfers /\ c.fn \in Reading /\ c.fn \notin Writing
      /\ d.left \in 1 .. d.size /\ d.moved = d.size - d.left /\ d.pc = "run"
      /\ ~Whole(c) => d.moved = 0
  BY DEF Standing, Same, Transfers, Reading, Writing
<1>2. d.left \in Int /\ d.size \in Nat /\ d.moved \in Int
  BY <1>1 DEF Calls
<1>3. ~Whole(c) => d.left = d.size
  BY <1>1, <1>2
<1>4. CASE e.is = "data"
  <2> DEFINE n == Least(e.n, d.left)
             x == Moves(d, n)
  <2>1. n \in 0 .. d.left /\ n \in Int
    BY <1>1, <1>2, EventType DEF Least
  <2> HIDE DEF n
  <2>2. Same(d, x) /\ x.pc = "run" /\ x.left = d.left /\ x.moved = d.moved + n /\ x.now = d.now
    BY <1>1, <2>1 DEF Moves, Calls, Same
  <2> HIDE DEF x
  <2>3. Same(c, x)
    BY <1>1, <2>2 DEF Same
  <2>4. /\ x.left \in 1 .. x.size /\ n \in 0 .. x.left /\ x.moved = x.size - x.left + n
        /\ ~Whole(c) => x.left = x.size
    BY <1>1, <1>3, <2>1, <2>2 DEF Same
  <2>5. e.is \notin Signals /\ Limited(c) => x.now \in 0 .. c.tlen
    BY <2>2
  <2>6. Right(c, e, TakesIn(x, n))
    BY <2>2, <2>3, <2>4, <2>5, TakesInRight
  <2> QED
    BY <1>4, <2>6 DEF Reads, x, n
<1>5. CASE e.is = "eof"
  <2>1. e.is \notin Signals /\ Limited(c) => d.now <= IF c.fn \in Writing THEN 2 * c.tlen - 1 ELSE c.tlen
    BY <1>1
  <2>2. atEof > 0 => atEof = d.moved
    OBVIOUS
  <2>3. c.fn \in Reading /\ ~Whole(c) /\ atEof <= 0 => d.moved = 0
    BY <1>1
  <2>4. c.fn = "SRead" /\ "FullBufferRequiredExceptLast" \in c.opts /\ atEof >= 0 => atEof = d.moved
    OBVIOUS
  <2>5. Right(c, e, Returns(d, atEof))
    BY <1>1, <2>1, <2>2, <2>3, <2>4, TransferEnds
  <2> QED
    BY <1>5, <2>5 DEF Reads
<1>6. CASE e.is \in {"err", "bad"}
  <2>1. e.is \notin Signals /\ Limited(c) => d.now <= c.tlen
    OBVIOUS
  <2>2. Right(c, e, ReadFails(d))
    BY <1>1, <2>1, ReadFailsRight
  <2> QED
    BY <1>6, <2>2 DEF Reads
<1>7. CASE e.is \in Signals
  <2>1. 0 \in 0 .. d.left /\ d.moved = d.size - d.left + 0
    BY <1>1, <1>2
  <2>2. Right(c, e, TakesIn(d, 0))
    BY <1>1, <1>3, <2>1, TakesInRight
  <2>3. Reads(d, e, atEof) = TakesIn(d, 0)
    BY <1>7 DEF Reads, Signals
  <2> QED
    BY <2>2, <2>3
<1> QED
  BY <1>4, <1>5, <1>6, <1>7, EventType DEF EventIs, Signals

\* A call that is under way.
Going(c) ==
    /\ c \in Calls /\ Runs(c) /\ CountInv(c) /\ TimeInv(c) /\ c.fn \in Functions
    /\ c.pc \in {"bind", "listen"} => c.fn \in Serving

\* A read or a write that has only waited stands where it stood.
LEMMA WaitStands ==
    ASSUME NEW c, Going(c), c.fn \in Transfers, NEW d, Same(c, d), d.pc = c.pc,
           d.left = c.left, d.moved = c.moved
    PROVE  Standing(c, d)
<1>1. c.fn \notin Serving
  BY DEF Transfers, Reading, Writing, Serving
<1>2. c.pc = "run"
  BY <1>1 DEF Going, Runs
<1>3. c.left \in 1 .. c.size /\ c.moved = c.size - c.left
  BY DEF Going, CountInv, Transfers
<1>4. c.fn \in Reading /\ ~Whole(c) => c.moved = 0
  BY DEF Going, CountInv, Transfers
<1> QED
  BY <1>2, <1>3, <1>4 DEF Standing, Same

LEMMA StandingGoesOn ==
    ASSUME NEW c, NEW e, NEW d, Standing(c, d),
           e.is \notin Signals /\ Limited(c) => d.now \in 0 .. d.tlen - 1 /\ d.tleft = d.tlen - d.now
    PROVE  Right(c, e, d)
<1>1. d \in Calls
  BY DEF Standing, Same
<1> QED
  BY <1>1, TransferGoesOn DEF Standing

\* A call that the kernel refuses.
LEMMA RefusedRight ==
    ASSUME NEW c, NEW e, NEW d, Standing(c, d),
           c.fn \in Reading /\ ~Whole(c) => d.moved = 0,
           e.is \notin Signals /\ Limited(c) =>
               d.now <= IF c.fn \in Writing THEN 2 * c.tlen - 1 ELSE c.tlen
    PROVE  Right(c, e, Returns(d, -1))
<1>1. d \in Calls /\ Same(c, d) /\ c.fn \in Transfers
  BY DEF Standing, Same
<1>2. -1 \in Int /\ ~(-1 > 0) /\ ~(-1 >= 0) /\ -1 # kTimeoutErr
  BY DEF kTimeoutErr
<1> QED
  BY <1>1, <1>2, TransferEnds

\* The time of a call that waits less than a limit, and that waits it out.
LEMMA TimeGoes ==
    ASSUME NEW c, Going(c), Limited(c)
    PROVE  /\ c.tlen \in Nat /\ c.tlen > 0 /\ c.now \in 0 .. c.tlen - 1
           /\ c.tleft = c.tlen - c.now /\ c.now + c.tleft = c.tlen
           /\ \A s \in Nat : ~(s > 0 /\ s >= c.tleft) => c.now + s \in 0 .. c.tlen - 1
           /\ \A s \in Nat : ~(s > 0 /\ s >= c.tlen) => c.now + s \in 0 .. 2 * c.tlen - 2
<1>1. c.tlen \in Int /\ c.tlen > 0 /\ c.now \in 0 .. c.tlen - 1 /\ c.tleft = c.tlen - c.now
  BY DEF Going, Limited, TimeInv, Calls
<1> QED
  BY <1>1

LEMMA TimedReadRight ==
    ASSUME NEW c, Going(c), NEW e \in Event, c.fn \in {"SRead", "SRecv"},
           NEW atEof \in Int, atEof \in {0, c.moved},
           c.fn = "SRead" /\ "FullBufferRequiredExceptLast" \in c.opts => atEof = c.moved
    PROVE  Right(c, e, TimedRead(c, e, atEof))
<1>1. c.fn \in Transfers /\ c.fn \in Reading /\ c.fn \notin Writing /\ c \in Calls
  BY DEF Transfers, Reading, Writing, Going
<1>2. e.after \in Int /\ e.after \in Nat /\ c.tleft \in Int
  BY <1>1, EventType DEF Calls
<1>3. CASE c.first /\ "NoFirstSelect" \in c.opts
  <2> DEFINE d == Waits(c, e.after)
  <2>1. Same(c, d) /\ d.pc = c.pc /\ d.left = c.left /\ d.moved = c.moved
    BY <1>1, <1>2, WaitsIs
  <2> HIDE DEF d
  <2>2. Standing(c, d)
    BY <1>1, <2>1, WaitStands
  <2>3. ~Limited(c)
    BY <1>3 DEF Limited
  <2>4. Right(c, e, Reads(d, e, atEof))
    BY <1>1, <2>1, <2>2, <2>3, ReadsRight
  <2> QED
    BY <1>3, <2>4 DEF TimedRead, d
<1>4. CASE ~(c.first /\ "NoFirstSelect" \in c.opts) /\ e.after > 0 /\ e.after >= c.tleft
  <2> DEFINE d == Waits(c, c.tleft)
  <2>1. Same(c, d) /\ d.pc = c.pc /\ d.left = c.left /\ d.moved = c.moved /\ d.now = c.now + c.tleft
    BY <1>1, <1>2, WaitsIs
  <2> HIDE DEF d
  <2>2. Standing(c, d)
    BY <1>1, <2>1, WaitStands
  <2>3. Limited(c) => d.now <= c.tlen
    BY <2>1, TimeGoes
  <2>4. Right(c, e, ReadLate(d))
    BY <1>1, <2>2, <2>3, ReadLateRight
  <2> QED
    BY <1>4, <2>4 DEF TimedRead, Select, d
<1>5. CASE ~(c.first /\ "NoFirstSelect" \in c.opts) /\ ~(e.after > 0 /\ e.after >= c.tleft)
  <2> DEFINE d == Waits(c, e.after)
             x == Readied(c, e.after)
  <2>1. Same(c, d) /\ d.pc = c.pc /\ d.left = c.left /\ d.moved = c.moved /\ d.now = c.now + e.after
    BY <1>1, <1>2, WaitsIs
  <2>2. x = Readied(c, e.after)
    OBVIOUS
  <2>3. TimedRead(c, e, atEof) = CASE e.is = "intr" -> d
                                   [] e.is = "bad" -> Returns(d, -1)
                                   [] OTHER -> Reads(x, e, atEof)
    BY <1>5 DEF TimedRead, Select, Readied
  <2> HIDE DEF d, x
  <2>r. Same(c, x) /\ x.pc = c.pc /\ x.left = c.left /\ x.moved = c.moved /\ x.now = c.now + e.after
    BY <1>1, <1>2, <2>2, ReadyIs
  <2>4. Standing(c, d) /\ Standing(c, x)
    BY <1>1, <2>1, <2>r, WaitStands
  <2>5. Limited(c) => c.now + e.after \in 0 .. c.tlen - 1 /\ c.tlen \in Nat
    BY <1>2, <1>5, TimeGoes
  <2>6. Limited(c) => d.now \in 0 .. c.tlen /\ x.now \in 0 .. c.tlen
    BY <2>1, <2>r, <2>5
  <2>7. CASE e.is = "intr"
    <3>1. e.is \in Signals
      BY <2>7 DEF Signals
    <3>2. Right(c, e, d)
      BY <2>4, <3>1, StandingGoesOn
    <3> QED
      BY <2>3, <2>7, <3>2
  <2>8. CASE e.is = "bad"
    <3>1. c.fn \in Reading /\ ~Whole(c) => d.moved = 0
      BY <2>4 DEF Standing
    <3>2. e.is \notin Signals /\ Limited(c) =>
              d.now <= IF c.fn \in Writing THEN 2 * c.tlen - 1 ELSE c.tlen
      BY <1>1, <2>6
    <3>3. Right(c, e, Returns(d, -1))
      BY <2>4, <3>1, <3>2, RefusedRight
    <3> QED
      BY <2>3, <2>8, <3>3
  <2>9. CASE e.is \notin {"intr", "bad"}
    <3>1. Right(c, e, Reads(x, e, atEof))
      BY <1>1, <2>r, <2>4, <2>6, ReadsRight
    <3> QED
      BY <2>3, <2>9, <3>1
  <2> QED
    BY <2>7, <2>8, <2>9
<1> QED
  BY <1>3, <1>4, <1>5

LEMMA SReadRight ==
    ASSUME NEW c, Going(c), NEW e \in Event, c.fn \in {"SRead", "SRecv"}
    PROVE  Right(c, e, IF c.fn = "SRead" THEN SRead(c, e) ELSE SRecv(c, e))
<1>1. c.fn \in Transfers /\ c \in Calls
  BY DEF Transfers, Reading, Going
<1>2. Got(c) = c.moved /\ c.moved \in Int
  BY <1>1 DEF Got, Going, CountInv, Calls, Transfers
<1>3. CASE c.fn = "SRead"
  <2> DEFINE atEof == IF "FullBufferRequiredExceptLast" \in c.opts THEN Got(c) ELSE 0
  <2>1. atEof \in Int /\ atEof \in {0, c.moved}
    BY <1>2
  <2>2. "FullBufferRequiredExceptLast" \in c.opts => atEof = c.moved
    BY <1>2
  <2> HIDE DEF atEof
  <2>3. Right(c, e, TimedRead(c, e, atEof))
    BY <1>3, <2>1, <2>2, TimedReadRight
  <2> QED
    BY <1>3, <2>3 DEF SRead, atEof
<1>4. CASE c.fn = "SRecv"
  <2>1. Right(c, e, TimedRead(c, e, 0))
    BY <1>4, TimedReadRight
  <2> QED
    BY <1>4, <2>1 DEF SRecv
<1> QED
  BY <1>3, <1>4

\* n bytes more of a read or a write that stood at d.
LEMMA StandingMoves ==
    ASSUME NEW c \in Calls, NEW d, Standing(c, d), NEW n \in 0 .. d.left, NEW x, x = Moved(d, n)
    PROVE  /\ Same(c, x) /\ x \in Calls /\ x.pc = "run" /\ x.now = d.now /\ x.tleft = d.tleft
           /\ x.left \in 0 .. x.size /\ x.moved = x.size - x.left /\ x.moved \in Nat
           /\ Got(x) = x.moved /\ x.size \in Nat /\ x.left = d.left - n
<1>1. d \in Calls /\ Same(c, d) /\ d.pc = "run" /\ d.left \in 1 .. d.size /\ d.moved = d.size - d.left
  BY DEF Standing, Same
<1>2. d.left \in Int /\ d.size \in Nat /\ n \in Int
  BY <1>1 DEF Calls
<1>3. /\ Same(d, x) /\ x.pc = d.pc /\ x.now = d.now /\ x.tleft = d.tleft
      /\ x.left = d.left - n /\ x.moved = d.moved + n
  BY <1>1, <1>2, MovesIs
<1>4. Same(c, x) /\ x \in Calls /\ x.size = d.size
  BY <1>1, <1>3 DEF Same
<1>5. x.left \in 0 .. x.size /\ x.moved = x.size - x.left /\ x.moved \in Nat
  BY <1>1, <1>2, <1>3, <1>4
<1> QED
  BY <1>1, <1>2, <1>3, <1>4, <1>5 DEF Got

LEMMA PReadRight ==
    ASSUME NEW c, Going(c), NEW e \in Event, c.fn = "PRead"
    PROVE  Right(c, e, PRead(c, e))
<1>1. c.fn \in Transfers /\ c.fn \in Reading /\ c.fn \notin Writing /\ c \in Calls /\ ~Limited(c)
  BY DEF Transfers, Reading, Writing, Going, Limited, Untimed
<1>2. Standing(c, c)
  BY <1>1, WaitStands DEF Same
<1>3. c.left \in 1 .. c.size /\ c.moved = c.size - c.left /\ (~Whole(c) => c.moved = 0)
  BY <1>1, <1>2 DEF Standing
<1>4. c.left \in Int /\ c.size \in Nat /\ Got(c) = c.moved /\ c.moved \in Nat
  BY <1>1, <1>3 DEF Calls, Got
<1>5. Right(c, e, Returns(c, Got(c)))
  <2> DEFINE r == Got(c)
  <2>1. r \in Int /\ r = c.moved
    BY <1>4
  <2> HIDE DEF r
  <2>2. Right(c, e, Returns(c, r))
    BY <1>1, <1>3, <2>1, TransferEnds DEF Same
  <2> QED
    BY <2>2 DEF r
<1>6. CASE e.is = "data"
  <2> DEFINE n == Least(e.n, c.left)
             x == Moved(c, n)
  <2>1. n \in 0 .. c.left /\ n > 0
    BY <1>3, <1>4, EventType DEF Least
  <2>2. PRead(c, e) = IF x.left = 0 \/ ~Whole(x) THEN Returns(x, Got(x)) ELSE x
    BY <1>6 DEF PRead, Moved
  <2> HIDE DEF n
  <2>3. x = Moved(c, n)
    OBVIOUS
  <2> HIDE DEF x
  <2>4. /\ Same(c, x) /\ x \in Calls /\ x.pc = "run" /\ x.left \in 0 .. x.size
        /\ x.moved = x.size - x.left /\ x.moved \in Nat /\ Got(x) = x.moved /\ x.size \in Nat
        /\ x.left = c.left - n
    BY <1>1, <1>2, <2>1, <2>3, StandingMoves
  <2>5. x.moved > 0
    BY <1>3, <1>4, <2>1, <2>4 DEF Same
  <2>6. CASE x.left = 0 \/ ~Whole(x)
    <3> DEFINE r == Got(x)
    <3>1. r \in Int /\ r = x.moved /\ ~(r <= 0)
      BY <2>4, <2>5
    <3> HIDE DEF r
    <3>2. Right(c, e, Returns(x, r))
      BY <1>1, <2>4, <3>1, TransferEnds
    <3> QED
      BY <2>2, <2>6, <3>2 DEF r
  <2>7. CASE ~(x.left = 0 \/ ~Whole(x))
    <3>1. Whole(c)
      BY <2>4, <2>7, SameCall
    <3>2. x.left \in 1 .. x.size
      BY <2>4, <2>7
    <3>3. Right(c, e, x)
      BY <1>1, <2>4, <3>1, <3>2, TransferGoesOn
    <3> QED
      BY <2>2, <2>7, <3>3
  <2> QED
    BY <2>6, <2>7
<1>7. CASE e.is = "eof"
  BY <1>5, <1>7 DEF PRead
<1>8. CASE e.is \in {"err", "bad"}
  <2>1. Right(c, e, ReadFails(c))
    BY <1>1, <1>2, ReadFailsRight
  <2> QED
    BY <1>8, <2>1 DEF PRead
<1>9. CASE e.is \in Signals
  <2>1. Right(c, e, c)
    BY <1>1, <1>2, StandingGoesOn
  <2> QED
    BY <1>5, <1>9, <2>1 DEF PRead, Signals
<1> QED
  BY <1>6, <1>7, <1>8, <1>9, EventType DEF EventIs, Signals

LEMMA WriteLateRight ==
    ASSUME NEW c \in Calls, NEW e, NEW d \in Calls, Same(c, d), c.fn \in Writing,
           d.moved \in Nat, Got(d) = d.moved,
           e.is \notin Signals /\ Limited(c) => d.now <= 2 * c.tlen - 1
    PROVE  Right(c, e, WriteLate(d))
<1> DEFINE r == IF Got(d) = 0 THEN kTimeoutErr ELSE Got(d)
<1>1. c.fn \in Transfers /\ c.fn \notin Reading /\ c.fn # "SRead"
  BY DEF Transfers, Reading, Writing
<1>2. r \in Int /\ (r > 0 => r = d.moved) /\ (r = kTimeoutErr => d.moved = 0)
  BY DEF kTimeoutErr
<1> HIDE DEF r
<1>3. Right(c, e, Returns(d, r))
  BY <1>1, <1>2, TransferEnds
<1> QED
  BY <1>3 DEF WriteLate, r

LEMMA GivesOutRight ==
    ASSUME NEW c \in Calls, NEW e, NEW d, Standing(c, d), c.fn \in Writing, NEW n \in 0 .. d.left,
           e.is \notin Signals /\ Limited(c) => d.now \in 0 .. 2 * c.tlen - 2
    PROVE  Right(c, e, GivesOut(d, n))
<1> DEFINE x == Moved(d, n)
           y == Remaining(x)
<1>1. GivesOut(d, n) = CASE x.left = 0 -> Returns(x, x.size)
                         [] x.left # 0 /\ y.tleft < 1 -> WriteLate(x)
                         [] OTHER -> y
  BY DEF GivesOut, Moved
<1>2. x = Moved(d, n) /\ y = Remaining(x)
  OBVIOUS
<1> HIDE DEF x, y
<1>3. /\ Same(c, x) /\ x \in Calls /\ x.pc = "run" /\ x.now = d.now
      /\ x.left \in 0 .. x.size /\ x.moved = x.size - x.left /\ x.moved \in Nat
      /\ Got(x) = x.moved /\ x.size \in Nat
  BY <1>2, StandingMoves
<1>4. c.fn \in Transfers /\ c.fn \notin Reading /\ c.fn # "SRead"
  BY DEF Transfers, Reading, Writing
<1>5. e.is \notin Signals /\ Limited(c) => x.now <= 2 * c.tlen - 1 /\ x.now \in Nat
  BY <1>3 DEF Calls
<1>6. CASE x.left = 0
  <2> DEFINE r == x.size
  <2>1. r \in Int /\ r = x.moved /\ r # kTimeoutErr
    BY <1>3, <1>6 DEF kTimeoutErr
  <2> HIDE DEF r
  <2>2. Right(c, e, Returns(x, r))
    BY <1>3, <1>4, <1>5, <2>1, TransferEnds
  <2> QED
    BY <1>1, <1>6, <2>2 DEF r
<1>7. CASE x.left # 0 /\ y.tleft < 1
  <2>1. Right(c, e, WriteLate(x))
    BY <1>3, <1>5, WriteLateRight
  <2> QED
    BY <1>1, <1>7, <2>1
<1>8. CASE x.left # 0 /\ ~(y.tleft < 1)
  <2>1. /\ Same(x, y) /\ y.pc = x.pc /\ y.now = x.now /\ y.left = x.left /\ y.moved = x.moved
        /\ y.tleft = AtLeast0(x.tlen - x.now)
    BY <1>2, <1>3, RemainingIs
  <2>2. Same(c, y) /\ y \in Calls /\ y.pc = "run" /\ y.tlen = x.tlen /\ y.tlen = c.tlen
    BY <1>3, <2>1 DEF Same
  <2>3. y.left \in 1 .. y.size /\ y.moved = y.size - y.left
    BY <1>3, <1>8, <2>1 DEF Same
  <2>4. x.tlen - x.now >= 1 /\ y.tleft = x.tlen - x.now
    BY <1>3, <1>8, <2>1 DEF AtLeast0, Calls
  <2>5. e.is \notin Signals /\ Limited(c) => y.now \in 0 .. y.tlen - 1 /\ y.tleft = y.tlen - y.now
    <3>1. x.tlen \in Int
      BY <1>3 DEF Calls
    <3> QED
      BY <1>5, <2>1, <2>2, <2>4, <3>1
  <2>6. Right(c, e, y)
    BY <1>4, <2>2, <2>3, <2>5, TransferGoesOn
  <2> QED
    BY <1>1, <1>8, <2>6
<1> QED
  BY <1>6, <1>7, <1>8

LEMMA WritesRight ==
    ASSUME NEW c \in Calls, NEW e \in Event, NEW d, Standing(c, d), c.fn \in Writing,
           e.is \notin Signals /\ Limited(c) => d.now \in 0 .. 2 * c.tlen - 2
    PROVE  Right(c, e, Writes(d, e))
<1>1. d.left \in 1 .. d.size /\ d.size \in Nat
  BY DEF Standing, Same, Calls
<1>2. CASE e.is \in {"data", "eof"}
  <2> DEFINE n == Least(e.n, d.left)
  <2>1. n \in 0 .. d.left
    BY <1>1, EventType DEF Least
  <2> HIDE DEF n
  <2>2. Right(c, e, GivesOut(d, n))
    BY <2>1, GivesOutRight
  <2> QED
    BY <1>2, <2>2 DEF Writes, n
<1>3. CASE e.is \in {"err", "bad"}
  <2>1. e.is \notin Signals /\ Limited(c) =>
            d.now <= IF c.fn \in Writing THEN 2 * c.tlen - 1 ELSE c.tlen
    BY DEF Calls
  <2>2. Right(c, e, ReadFails(d))
    BY <2>1, ReadFailsRight
  <2> QED
    BY <1>3, <2>2 DEF Writes
<1>4. CASE e.is \in Signals
  <2>1. 0 \in 0 .. d.left
    BY <1>1
  <2>2. Right(c, e, GivesOut(d, 0))
    BY <2>1, GivesOutRight
  <2>3. Writes(d, e) = GivesOut(d, 0)
    BY <1>4 DEF Writes, Signals
  <2> QED
    BY <2>2, <2>3
<1> QED
  BY <1>2, <1>3, <1>4, EventType DEF EventIs, Signals

\* Every select of a write is given all of its limit.
LEMMA TimedWriteRight ==
    ASSUME NEW c, Going(c), NEW e \in Event, c.fn \in {"SWrite", "SSend"}
    PROVE  Right(c, e, Select(c, e, c.tlen, WriteLate, LAMBDA d : Writes(d, e)))
<1>1. c.fn \in Transfers /\ c.fn \notin Reading /\ c.fn \in Writing /\ c \in Calls
  BY DEF Transfers, Reading, Writing, Going
<1>2. e.after \in Int /\ e.after \in Nat /\ c.tlen \in Int
  BY <1>1, EventType DEF Calls
<1>3. CASE e.after > 0 /\ e.after >= c.tlen
  <2> DEFINE d == Waits(c, c.tlen)
  <2>1. Same(c, d) /\ d.pc = c.pc /\ d.left = c.left /\ d.moved = c.moved /\ d.now = c.now + c.tlen
    BY <1>1, <1>2, WaitsIs
  <2>2. Select(c, e, c.tlen, WriteLate, LAMBDA x : Writes(x, e)) = WriteLate(d)
    BY <1>3 DEF Select
  <2> HIDE DEF d
  <2>3. Standing(c, d)
    BY <1>1, <2>1, WaitStands
  <2>4. d \in Calls /\ d.left \in 1 .. d.size /\ d.size \in Nat /\ d.moved = d.size - d.left
    BY <2>3 DEF Standing, Same, Calls
  <2>5. d.moved \in Nat /\ Got(d) = d.moved
    BY <2>4 DEF Got
  <2>6. Limited(c) => d.now <= 2 * c.tlen - 1
    <3> SUFFICES ASSUME Limited(c)
                 PROVE  d.now <= 2 * c.tlen - 1
      OBVIOUS
    <3>1. c.tlen \in Nat /\ c.now \in 0 .. c.tlen - 1
      BY TimeGoes
    <3> QED
      BY <2>1, <3>1
  <2>7. Right(c, e, WriteLate(d))
    BY <1>1, <2>1, <2>4, <2>5, <2>6, WriteLateRight
  <2> QED
    BY <2>2, <2>7
<1>4. CASE ~(e.after > 0 /\ e.after >= c.tlen)
  <2> DEFINE d == Waits(c, e.after)
             x == Readied(c, e.after)
  <2>1. Same(c, d) /\ d.pc = c.pc /\ d.left = c.left /\ d.moved = c.moved /\ d.now = c.now + e.after
    BY <1>1, <1>2, WaitsIs
  <2>2. x = Readied(c, e.after)
    OBVIOUS
  <2>3. Select(c, e, c.tlen, WriteLate, LAMBDA y : Writes(y, e)) =
            CASE e.is = "intr" -> d
              [] e.is = "bad" -> Returns(d, -1)
              [] OTHER -> Writes(x, e)
    BY <1>4 DEF Select, Readied
  <2> HIDE DEF d, x
  <2>4. Same(c, x) /\ x.pc = c.pc /\ x.left = c.left /\ x.moved = c.moved /\ x.now = c.now + e.after
    BY <1>1, <1>2, <2>2, ReadyIs
  <2>5. Standing(c, d) /\ Standing(c, x)
    BY <1>1, <2>1, <2>4, WaitStands
  <2>6. Limited(c) => c.now + e.after \in 0 .. 2 * c.tlen - 2 /\ c.tlen \in Nat
    BY <1>2, <1>4, TimeGoes
  <2>7. Limited(c) => d.now <= 2 * c.tlen - 1 /\ x.now \in 0 .. 2 * c.tlen - 2
    BY <2>1, <2>4, <2>6
  <2>8. CASE e.is = "intr"
    <3>1. e.is \in Signals
      BY <2>8 DEF Signals
    <3>2. Right(c, e, d)
      BY <2>5, <3>1, StandingGoesOn
    <3> QED
      BY <2>3, <2>8, <3>2
  <2>9. CASE e.is = "bad"
    <3>1. e.is \notin Signals /\ Limited(c) =>
              d.now <= IF c.fn \in Writing THEN 2 * c.tlen - 1 ELSE c.tlen
      BY <1>1, <2>7
    <3>2. Right(c, e, Returns(d, -1))
      BY <1>1, <2>5, <3>1, RefusedRight
    <3> QED
      BY <2>3, <2>9, <3>2
  <2>10. CASE e.is \notin {"intr", "bad"}
    <3>1. Right(c, e, Writes(x, e))
      BY <1>1, <2>5, <2>7, WritesRight
    <3> QED
      BY <2>3, <2>10, <3>1
  <2> QED
    BY <2>8, <2>9, <2>10
<1> QED
  BY <1>3, <1>4

LEMMA SWriteRight ==
    ASSUME NEW c, Going(c), NEW e \in Event, c.fn = "SWrite"
    PROVE  Right(c, e, SWrite(c, e))
<1>1. CASE c.first /\ "NoFirstSelect" \in c.opts
  <2> DEFINE d == Waits(c, e.after)
  <2>1. c \in Calls /\ c.fn \in Transfers /\ c.fn \in Writing /\ e.after \in Int
    BY EventType DEF Going, Transfers, Writing
  <2>2. Same(c, d) /\ d.pc = c.pc /\ d.left = c.left /\ d.moved = c.moved
    BY <2>1, WaitsIs
  <2> HIDE DEF d
  <2>3. Standing(c, d)
    BY <2>1, <2>2, WaitStands
  <2>4. ~Limited(c)
    BY <1>1 DEF Limited
  <2>5. Right(c, e, Writes(d, e))
    BY <2>1, <2>3, <2>4, WritesRight
  <2> QED
    BY <1>1, <2>5 DEF SWrite, d
<1>2. CASE ~(c.first /\ "NoFirstSelect" \in c.opts)
  <2>1. Right(c, e, Select(c, e, c.tlen, WriteLate, LAMBDA d : Writes(d, e)))
    BY TimedWriteRight
  <2> QED
    BY <1>2, <2>1 DEF SWrite
<1> QED
  BY <1>1, <1>2

LEMMA SSendRight ==
    ASSUME NEW c, Going(c), NEW e \in Event, c.fn = "SSend"
    PROVE  Right(c, e, SSend(c, e))
<1>1. Right(c, e, Select(c, e, c.tlen, WriteLate, LAMBDA d : Writes(d, e)))
  BY TimedWriteRight
<1> QED
  BY <1>1 DEF SSend

LEMMA PWriteRight ==
    ASSUME NEW c, Going(c), NEW e \in Event, c.fn = "PWrite"
    PROVE  Right(c, e, PWrite(c, e))
<1>1. c.fn \in Transfers /\ c.fn \notin Reading /\ c.fn \in Writing /\ c \in Calls /\ ~Limited(c)
  BY DEF Transfers, Reading, Writing, Going, Limited, Untimed
<1>2. Standing(c, c)
  BY <1>1, WaitStands DEF Same
<1>3. c.left \in 1 .. c.size /\ c.size \in Nat /\ c.left \in Int
  BY <1>1, <1>2 DEF Standing, Calls
<1>4. CASE e.is \in {"err", "bad"}
  <2>1. Right(c, e, ReadFails(c))
    BY <1>1, <1>2, ReadFailsRight
  <2> QED
    BY <1>4, <2>1 DEF PWrite
<1>5. CASE e.is \in Signals
  <2>1. Right(c, e, c)
    BY <1>1, <1>2, StandingGoesOn
  <2> QED
    BY <1>5, <2>1 DEF PWrite, Signals
<1>6. CASE e.is \in {"data", "eof"} /\ e.n >= c.left
  <2> DEFINE b == Moves(c, c.left)
             x == [b EXCEPT !.left = 0]
             r == c.size
  <2>1. PWrite(c, e) = Returns(x, r)
    BY <1>6 DEF PWrite
  <2>2. /\ Same(c, b) /\ b.pc = c.pc /\ b.moved = c.moved + c.left
    BY <1>1, <1>3 DEF Moves, Calls, Same
  <2> HIDE DEF b
  <2>3. Same(b, x) /\ x.moved = b.moved
    BY <2>2 DEF Calls, Same
  <2> HIDE DEF x
  <2>4. Same(c, x) /\ x \in Calls
    BY <2>2, <2>3 DEF Same
  <2>5. c.moved = c.size - c.left
    BY <1>2 DEF Standing
  <2>6. x.moved = r /\ r \in Int /\ r # kTimeoutErr /\ c.fn # "SRead"
    BY <1>1, <1>3, <2>2, <2>3, <2>5 DEF kTimeoutErr, Reading
  <2> HIDE DEF r
  <2>7. Right(c, e, Returns(x, r))
    BY <1>1, <2>4, <2>6, TransferEnds
  <2> QED
    BY <2>1, <2>7
<1>7. CASE e.is \in {"data", "eof"} /\ ~(e.n >= c.left)
  <2> DEFINE n == e.n
             x == Moved(c, n)
  <2>1. PWrite(c, e) = x
    BY <1>7 DEF PWrite, Moved
  <2>2. n \in 0 .. c.left /\ n < c.left
    BY <1>3, <1>7, EventType
  <2>3. x = Moved(c, n)
    OBVIOUS
  <2> HIDE DEF n, x
  <2>4. /\ Same(c, x) /\ x \in Calls /\ x.pc = "run" /\ x.left \in 0 .. x.size
        /\ x.moved = x.size - x.left /\ x.size \in Nat /\ x.left = c.left - n
    BY <1>1, <1>2, <2>2, <2>3, StandingMoves
  <2>5. x.left \in 1 .. x.size
    BY <1>3, <2>2, <2>4
  <2>6. Right(c, e, x)
    BY <1>1, <2>4, <2>5, TransferGoesOn
  <2> QED
    BY <2>1, <2>6
<1> QED
  BY <1>4, <1>5, <1>6, <1>7, EventType DEF EventIs, Signals

-----------------------------------------------------------------------------
(***************************************************************************)
(* Datagrams, waiting, accepting and connecting.                           *)
(***************************************************************************)
Datagrams == {"SRecvfrom", "URecvfrom", "SRecvmsg", "SSendto", "USendto"}
Accepting == {"SAccept", "UAccept"}
Others == Datagrams \cup Waiting \cup Accepting \cup {"_SConnect"}

\* The events whose time counts.
Counts(c, e) == e.is \notin Signals \/ c.fn \in Waiting

LEMMA OtherEnds ==
    ASSUME NEW c, NEW e, NEW d \in Calls, Same(c, d), c.fn \in Others, NEW r \in Int,
           c.fn = "_SConnect" /\ r = 0 => e.is = "data" /\ d.blocking,
           Counts(c, e) /\ Limited(c) => d.now <= c.tlen
    PROVE  Right(c, e, Returns(d, r))
<1> DEFINE b == Returns(d, r)
<1>1. Same(d, b) /\ b.pc = "done" /\ b.ret = r /\ b.now = d.now /\ b.blocking = d.blocking
  BY ReturnsIs
<1> HIDE DEF b
<1>2. Same(c, b) /\ (Limited(b) <=> Limited(c))
  BY <1>1, SameCall DEF Same
<1>3. c.fn \notin Serving \cup Reading \cup Writing
  BY DEF Others, Datagrams, Accepting, Reading, Writing, Serving, Waiting
<1>4. ResultTrue(b, e.is)
  BY <1>1, <1>2, <1>3 DEF ResultTrue, Same, Reading
<1>5. Counts(c, e) => BackInTime(b)
  BY <1>1, <1>2, <1>3 DEF BackInTime, Same
<1>6. Right(c, e, b)
  BY <1>1, <1>2, <1>3, <1>4, <1>5 DEF Right, Runs, Same, Counts
<1> QED
  BY <1>6 DEF b

\* Time left, as TimeInv speaks of it, for a call that goes on as d.
TimeLeft(c, d) ==
    /\ d.now \in 0 .. d.tlen - 1 /\ d.tleft = d.tlen - d.now
    /\ c.fn \in Accepting => ~d.selected
    /\ c.fn \in Accepting \cup {"_SConnect"} => d.now = 0

LEMMA OtherGoesOn ==
    ASSUME NEW c, NEW e, NEW d \in Calls, Same(c, d), c.fn \in Others, d.pc = "run",
           c.fn = "_SConnect" /\ c.tlen <= 0 => d.blocking,
           Counts(c, e) /\ Limited(c) => TimeLeft(c, d)
    PROVE  Right(c, e, d)
<1>1. Limited(d) <=> Limited(c)
  BY SameCall
<1>2. c.fn \notin Serving \cup Reading \cup Writing
  BY DEF Others, Datagrams, Accepting, Reading, Writing, Serving, Waiting
<1>3. CountInv(d)
  BY <1>2 DEF CountInv, Same
<1>4. Counts(c, e) => TimeInv(d)
  BY <1>1 DEF TimeInv, TimeLeft, Accepting, Same
<1> QED
  BY <1>2, <1>3, <1>4 DEF Right, Counts, Same

LEMMA NoTimeRight ==
    ASSUME NEW c, NEW e, NEW d \in Calls, Same(c, d), c.fn \in Others,
           Counts(c, e) /\ Limited(c) => d.now <= c.tlen
    PROVE  Right(c, e, NoTime(d))
<1>1. kTimeoutErr \in Int /\ kTimeoutErr # 0
  BY DEF kTimeoutErr
<1>2. Right(c, e, Returns(d, kTimeoutErr))
  BY <1>1, OtherEnds
<1> QED
  BY <1>2 DEF NoTime

\* What they have in common at the start.
LEMMA OtherGoing ==
    ASSUME NEW c, Going(c), c.fn \in Others, NEW e \in Event
    PROVE  /\ c \in Calls /\ c.pc = "run" /\ e.after \in Int /\ e.after \in Nat
           /\ c.tleft \in Int /\ c.tlen \in Int
           /\ c.fn = "_SConnect" /\ c.tlen <= 0 => c.blocking
           /\ Limited(c) /\ c.fn \in Accepting => ~c.selected
           /\ Limited(c) /\ c.fn \in Accepting \cup {"_SConnect"} => c.now = 0
<1>1. c.fn \notin Serving
  BY DEF Others, Datagrams, Accepting, Serving, Waiting
<1>2. c \in Calls /\ c.pc = "run"
  BY <1>1 DEF Going, Runs
<1>3. c.fn = "_SConnect" /\ c.tlen <= 0 => c.blocking
  BY DEF Going, CountInv
<1>4. /\ Limited(c) /\ c.fn \in Accepting => ~c.selected
      /\ Limited(c) /\ c.fn \in Accepting \cup {"_SConnect"} => c.now = 0
  BY DEF Going, TimeInv, Accepting
<1> QED
  BY <1>2, <1>3, <1>4, EventType DEF Calls

\* A signal that interrupts a call which then goes on: the time of it does not count.
LEMMA InterruptedRight ==
    ASSUME NEW c, Going(c), c.fn \in Others, NEW e \in Event, ~(Counts(c, e) /\ Limited(c))
    PROVE  Right(c, e, Waits(c, e.after))
<1> DEFINE d == Waits(c, e.after)
<1>1. /\ c \in Calls /\ c.pc = "run" /\ e.after \in Int
      /\ c.fn = "_SConnect" /\ c.tlen <= 0 => c.blocking
  BY OtherGoing
<1>2. Same(c, d) /\ d.pc = c.pc /\ d.blocking = c.blocking
  BY <1>1, WaitsIs
<1> HIDE DEF d
<1>3. Right(c, e, d)
  BY <1>1, <1>2, OtherGoesOn DEF Same
<1> QED
  BY <1>3 DEF d

LEMMA SRecvfromRight ==
    ASSUME NEW c, Going(c), NEW e \in Event, c.fn \in Datagrams
    PROVE  Right(c, e, SRecvfrom(c, e))
<1>1. c.fn \in Others /\ c.fn \notin Waiting /\ c.fn # "_SConnect" /\ c.fn \notin Accepting
  BY DEF Others, Datagrams, Waiting, Accepting
<1>2. c \in Calls /\ c.pc = "run" /\ e.after \in Int /\ e.after \in Nat /\ c.tleft \in Int
  BY <1>1, OtherGoing
<1>3. CASE e.after > 0 /\ e.after >= c.tleft
  <2> DEFINE d == Waits(c, c.tleft)
  <2>1. Same(c, d) /\ d.now = c.now + c.tleft
    BY <1>2, WaitsIs
  <2>2. SRecvfrom(c, e) = NoTime(d)
    BY <1>3 DEF SRecvfrom, Select
  <2> HIDE DEF d
  <2>3. Limited(c) => d.now <= c.tlen
    BY <2>1, TimeGoes
  <2>4. Right(c, e, NoTime(d))
    BY <1>1, <2>1, <2>3, NoTimeRight DEF Same
  <2> QED
    BY <2>2, <2>4
<1>4. CASE ~(e.after > 0 /\ e.after >= c.tleft)
  <2> DEFINE d == Waits(c, e.after)
             x == Readied(c, e.after)
             y == Remaining(x)
  <2>1. x = Readied(c, e.after) /\ y = Remaining(x)
    OBVIOUS
  <2>2. SRecvfrom(c, e) =
            CASE e.is = "intr" -> d
              [] e.is = "bad" -> Returns(d, -1)
              [] OTHER -> CASE e.is = "data" -> Returns(x, Least(e.n, x.size))
                            [] e.is = "eof" -> Returns(x, 0)
                            [] e.is = "err" -> Returns(x, -1)
                            [] OTHER -> IF y.tleft < 1 THEN NoTime(x) ELSE y
    BY <1>4 DEF SRecvfrom, Select, Readied
  <2>3. Same(c, d) /\ d.now = c.now + e.after
    BY <1>2, WaitsIs
  <2>4. e.is \in Signals => Right(c, e, d)
    BY <1>1, InterruptedRight DEF Counts
  <2> HIDE DEF d, x, y
  <2>5. Same(c, x) /\ x.pc = "run" /\ x.now = c.now + e.after /\ x \in Calls
    BY <1>2, <2>1, ReadyIs DEF Same
  <2>6. Same(c, y) /\ y.pc = "run" /\ y \in Calls
    BY <2>1, <2>5, RemainingIs DEF Same
  <2>7. Limited(c) => c.now + e.after \in 0 .. c.tlen - 1 /\ c.tlen \in Nat
    BY <1>2, <1>4, TimeGoes
  <2>8. Limited(c) => d.now <= c.tlen /\ x.now <= c.tlen
    BY <2>3, <2>5, <2>7
  <2>9. \A r \in Int : Right(c, e, Returns(d, r)) /\ Right(c, e, Returns(x, r))
    BY <1>1, <2>3, <2>5, <2>8, OtherEnds DEF Same
  <2>10. Least(e.n, x.size) \in Int
    BY <2>5, EventType DEF Least, Calls
  <2>11. Right(c, e, NoTime(x))
    BY <1>1, <2>5, <2>8, NoTimeRight
  <2>12. e.is \in Signals => Right(c, e, y)
    BY <1>1, <2>6, OtherGoesOn DEF Counts
  <2>13. CASE e.is \in {"data", "eof", "err", "bad"}
    <3>1. -1 \in Int /\ 0 \in Int
      OBVIOUS
    <3> QED
      BY <2>2, <2>9, <2>10, <2>13, <3>1
  <2>14. CASE e.is \in Signals
    BY <2>2, <2>4, <2>11, <2>12, <2>14 DEF Signals
  <2> QED
    BY <2>13, <2>14, EventType DEF EventIs, Signals
<1> QED
  BY <1>3, <1>4

LEMMA SRecvmsgRight ==
    ASSUME NEW c, Going(c), NEW e \in Event, c.fn = "SRecvmsg"
    PROVE  Right(c, e, SRecvmsg(c, e))
<1>1. CASE c.tlen > 0
  <2>1. Right(c, e, SRecvfrom(c, e))
    BY SRecvfromRight DEF Datagrams
  <2>2. c.tlen \in Int
    BY DEF Going, Calls
  <2> QED
    BY <1>1, <2>1, <2>2 DEF SRecvmsg
<1>2. CASE ~(c.tlen > 0)
  <2> DEFINE d == Waits(c, e.after)
             r == CASE e.is = "data" -> Least(e.n, c.size) [] e.is = "eof" -> 0 [] OTHER -> -1
  <2>1. c.fn \in Others /\ c \in Calls /\ c.pc = "run" /\ e.after \in Int /\ c.tlen \in Int
    BY OtherGoing DEF Others, Datagrams
  <2>2. ~Limited(c)
    BY <1>2 DEF Limited
  <2>3. Right(c, e, d)
    BY <2>1, <2>2, InterruptedRight
  <2>4. Same(c, d)
    BY <2>1, WaitsIs
  <2>5. Least(e.n, c.size) \in Int
    BY <2>1, EventType DEF Least, Calls
  <2>6. r \in Int
    BY <2>5
  <2>7. SRecvmsg(c, e) = IF e.is \in {"intr", "lost"} THEN d ELSE Returns(d, r)
    BY <1>2, <2>1 DEF SRecvmsg
  <2> HIDE DEF d, r
  <2>8. Right(c, e, Returns(d, r))
    BY <2>1, <2>2, <2>4, <2>6, OtherEnds DEF Same
  <2> QED
    BY <2>3, <2>7, <2>8
<1> QED
  BY <1>1, <1>2

LEMMA SSendtoRight ==
    ASSUME NEW c, Going(c), NEW e \in Event, c.fn \in Datagrams
    PROVE  Right(c, e, SSendto(c, e))
<1>1. c.fn \in Others /\ c.fn \notin Waiting /\ c.fn # "_SConnect" /\ c.fn \notin Accepting
  BY DEF Others, Datagrams, Waiting, Accepting
<1>2. c \in Calls /\ c.pc = "run" /\ e.after \in Int /\ e.after \in Nat /\ c.tleft \in Int
  BY <1>1, OtherGoing
<1>3. CASE e.after > 0 /\ e.after >= c.tleft
  <2> DEFINE d == Waits(c, c.tleft)
  <2>1. Same(c, d) /\ d.now = c.now + c.tleft
    BY <1>2, WaitsIs
  <2> HIDE DEF d
  <2>2. Limited(c) => d.now <= c.tlen
    BY <2>1, TimeGoes
  <2>3. Right(c, e, NoTime(d))
    BY <1>1, <2>1, <2>2, NoTimeRight DEF Same
  <2> QED
    BY <1>3, <2>3 DEF SSendto, d
<1>4. CASE ~(e.after > 0 /\ e.after >= c.tleft)
  <2> DEFINE d == Waits(c, e.after)
             y == Remaining(d)
  <2>1. y = Remaining(d)
    OBVIOUS
  <2>2. SSendto(c, e) = CASE e.is = "data" -> Returns(d, c.size)
                          [] e.is = "lost" -> d
                          [] e.is = "intr" -> IF y.tleft < 1 THEN NoTime(d) ELSE y
                          [] OTHER -> Returns(d, -1)
    BY <1>4 DEF SSendto
  <2>3. Same(c, d) /\ d.pc = "run" /\ d.now = c.now + e.after
    BY <1>2, WaitsIs
  <2>4. e.is \in Signals => Right(c, e, d)
    BY <1>1, InterruptedRight DEF Counts
  <2> HIDE DEF d, y
  <2>5. Same(c, y) /\ y.pc = "run" /\ y \in Calls /\ d \in Calls
    BY <2>1, <2>3, RemainingIs DEF Same
  <2>6. Limited(c) => c.now + e.after \in 0 .. c.tlen - 1 /\ c.tlen \in Nat
    BY <1>2, <1>4, TimeGoes
  <2>7. Limited(c) => d.now <= c.tlen
    BY <2>3, <2>6
  <2>8. \A r \in Int : Right(c, e, Returns(d, r))
    BY <1>1, <2>3, <2>5, <2>7, OtherEnds
  <2>9. Right(c, e, NoTime(d))
    BY <1>1, <2>3, <2>5, <2>7, NoTimeRight
  <2>10. e.is \in Signals => Right(c, e, y)
    BY <1>1, <2>5, OtherGoesOn DEF Counts
  <2>11. c.size \in Int /\ -1 \in Int
    BY <1>2 DEF Calls
  <2>12. CASE e.is \in Signals
    BY <2>2, <2>4, <2>9, <2>10, <2>12 DEF Signals
  <2>13. CASE e.is \notin Signals
    BY <2>2, <2>8, <2>11, <2>13 DEF Signals
  <2> QED
    BY <2>12, <2>13
<1> QED
  BY <1>3, <1>4

\* Waiting keeps to its limit under signals too.
LEMMA SWaitRight ==
    ASSUME NEW c, Going(c), NEW e \in Event, c.fn \in Waiting
    PROVE  Right(c, e, SWaitUntilReadyForReading(c, e))
<1>1. c.fn \in Others /\ c.fn # "_SConnect" /\ c.fn \notin Accepting
  BY DEF Others, Waiting, Accepting
<1>2. /\ c \in Calls /\ c.pc = "run" /\ e.after \in Int /\ e.after \in Nat
      /\ c.tleft \in Int /\ c.tlen \in Int
  BY <1>1, OtherGoing
<1>3. CASE c.tlen >= 0 /\ e.after > 0 /\ e.after >= c.tleft
  <2> DEFINE d == Waits(c, c.tleft)
  <2>1. Same(c, d) /\ d.now = c.now + c.tleft
    BY <1>2, WaitsIs
  <2> HIDE DEF d
  <2>2. Limited(c) => d.now <= c.tlen
    BY <2>1, TimeGoes
  <2>3. Right(c, e, Returns(d, 0))
    <3>1. d \in Calls /\ 0 \in Int
      BY <2>1 DEF Same
    <3>2. c.fn # "_SConnect" /\ (Counts(c, e) /\ Limited(c) => d.now <= c.tlen)
      BY <1>1, <2>2
    <3> QED
      BY <1>1, <2>1, <3>1, <3>2, OtherEnds
  <2> QED
    BY <1>3, <2>3 DEF SWaitUntilReadyForReading, d
<1>4. CASE ~(c.tlen >= 0 /\ e.after > 0 /\ e.after >= c.tleft)
  <2> DEFINE d == Waits(c, e.after)
             y == Remaining(d)
  <2>1. y = Remaining(d)
    OBVIOUS
  <2>2. SWaitUntilReadyForReading(c, e) =
            CASE e.is = "intr" -> IF c.tlen <= 0 THEN d ELSE y
              [] e.is = "bad" -> Returns(d, 0)
              [] OTHER -> Returns(d, 1)
    BY <1>4 DEF SWaitUntilReadyForReading
  <2>3. Same(c, d) /\ d.pc = "run" /\ d.now = c.now + e.after
    BY <1>2, WaitsIs
  <2>4. c.tlen <= 0 => Right(c, e, d)
    <3>1. c.tlen <= 0 => ~Limited(c)
      BY <1>2 DEF Limited
    <3> QED
      BY <1>1, <3>1, InterruptedRight
  <2> HIDE DEF d, y
  <2>5. d \in Calls /\ d.tlen = c.tlen
    BY <2>3 DEF Same
  <2>6. /\ Same(c, y) /\ y.pc = "run" /\ y \in Calls /\ y.now = d.now /\ y.tlen = c.tlen
        /\ y.tleft = AtLeast0(c.tlen - d.now)
    BY <2>1, <2>3, <2>5, RemainingIs DEF Same
  <2>7. ASSUME Limited(c)
        PROVE  c.now + e.after \in 0 .. c.tlen - 1 /\ c.tlen \in Nat
    <3>1. c.tlen >= 0
      BY <1>2, <2>7 DEF Limited
    <3> QED
      BY <1>2, <1>4, <2>7, <3>1, TimeGoes
  <2>8. Limited(c) => d.now <= c.tlen
    BY <2>3, <2>7
  <2>9. \A r \in Int : Right(c, e, Returns(d, r))
    BY <1>1, <2>3, <2>5, <2>8, OtherEnds
  <2>10. Limited(c) => TimeLeft(c, y)
    BY <1>1, <2>3, <2>6, <2>7 DEF TimeLeft, AtLeast0
  <2>11. Right(c, e, y)
    BY <1>1, <2>6, <2>10, OtherGoesOn
  <2> QED
    BY <1>2, <2>2, <2>4, <2>9, <2>11
<1> QED
  BY <1>3, <1>4

\* accept() on d, which c has come to.
LEMMA AcceptsRight ==
    ASSUME NEW c, NEW e \in Event, NEW d, Same(c, d), d.pc = "run", c.fn \in Accepting,
           Counts(c, e) /\ Limited(c) => d.now <= c.tlen
    PROVE  Right(c, e, Accepts(d, e))
<1>1. c.fn \in Others /\ c.fn # "_SConnect" /\ c.fn \notin Waiting /\ d \in Calls
  BY DEF Others, Waiting, Accepting, Same
<1>2. CASE e.is = "data"
  <2> DEFINE x == [d EXCEPT !.open = @ + 1]
  <2>1. Same(d, x) /\ x.now = d.now
    BY <1>1 DEF Calls, Same
  <2> HIDE DEF x
  <2>2. Same(c, x) /\ x \in Calls
    BY <2>1 DEF Same
  <2>3. Right(c, e, Returns(x, 4))
    BY <1>1, <2>1, <2>2, OtherEnds
  <2> QED
    BY <1>2, <2>3 DEF Accepts, x
<1>3. CASE e.is \in Signals
  <2> DEFINE x == [d EXCEPT !.selected = TRUE]
  <2>1. Same(d, x) /\ x.pc = "run"
    BY <1>1 DEF Calls, Same
  <2>2. Accepts(d, e) = x
    BY <1>3 DEF Accepts, Signals
  <2> HIDE DEF x
  <2>3. Same(c, x) /\ x \in Calls
    BY <2>1 DEF Same
  <2>4. Right(c, e, x)
    BY <1>1, <1>3, <2>1, <2>3, OtherGoesOn DEF Counts
  <2> QED
    BY <2>2, <2>4
<1>4. CASE e.is \notin Signals \cup {"data"}
  <2>1. Right(c, e, Returns(d, -1))
    BY <1>1, OtherEnds
  <2> QED
    BY <1>4, <2>1 DEF Accepts, Signals
<1> QED
  BY <1>2, <1>3, <1>4

LEMMA SAcceptRight ==
    ASSUME NEW c, Going(c), NEW e \in Event, c.fn \in Accepting
    PROVE  Right(c, e, SAccept(c, e))
<1>1. c.fn \in Others /\ c.fn # "_SConnect" /\ c.fn \notin Waiting
  BY DEF Others, Waiting, Accepting
<1>2. /\ c \in Calls /\ c.pc = "run" /\ e.after \in Int /\ e.after \in Nat
      /\ c.tleft \in Int /\ c.tlen \in Int
      /\ Limited(c) => ~c.selected /\ c.now = 0 /\ c.tlen > 0
  BY <1>1, OtherGoing DEF Limited
<1> DEFINE d == Waits(c, e.after)
<1>3. Same(c, d) /\ d.pc = "run" /\ d.now = c.now + e.after
  BY <1>2, WaitsIs
<1>4. CASE c.tlen <= 0 \/ c.selected
  <2>1. SAccept(c, e) = Accepts(d, e)
    BY <1>4 DEF SAccept
  <2> HIDE DEF d
  <2>2. ~Limited(c)
    BY <1>2, <1>4
  <2>3. Right(c, e, Accepts(d, e))
    BY <1>3, <2>2, AcceptsRight
  <2> QED
    BY <2>1, <2>3
<1>5. CASE ~(c.tlen <= 0 \/ c.selected) /\ e.after > 0 /\ e.after >= c.tlen
  <2> DEFINE x == Waits(c, c.tlen)
  <2>1. Same(c, x) /\ x.now = c.now + c.tlen
    BY <1>2, WaitsIs
  <2>2. SAccept(c, e) = NoTime(x)
    BY <1>5 DEF SAccept, Select
  <2> HIDE DEF x
  <2>3. Limited(c) => x.now <= c.tlen
    BY <1>2, <2>1
  <2>4. Right(c, e, NoTime(x))
    BY <1>1, <2>1, <2>3, NoTimeRight DEF Same
  <2> QED
    BY <2>2, <2>4
<1>6. CASE ~(c.tlen <= 0 \/ c.selected) /\ ~(e.after > 0 /\ e.after >= c.tlen)
  <2> DEFINE x == Readied(c, e.after)
  <2>1. x = Readied(c, e.after)
    OBVIOUS
  <2>2. SAccept(c, e) = CASE e.is = "intr" -> d
                          [] e.is = "bad" -> Returns(d, -1)
                          [] OTHER -> Accepts(x, e)
    BY <1>6 DEF SAccept, Select, Readied
  <2>3. e.is \in Signals => Right(c, e, d)
    BY <1>1, InterruptedRight DEF Counts
  <2> HIDE DEF d, x
  <2>4. Same(c, x) /\ x.pc = "run" /\ x.now = c.now + e.after
    BY <1>2, <2>1, ReadyIs
  <2>5. Limited(c) => d.now <= c.tlen /\ x.now <= c.tlen
    BY <1>2, <1>3, <1>6, <2>4
  <2>6. Right(c, e, Returns(d, -1))
    <3>1. d \in Calls /\ -1 \in Int
      BY <1>3 DEF Same
    <3> QED
      BY <1>1, <1>3, <2>5, <3>1, OtherEnds
  <2>7. Right(c, e, Accepts(x, e))
    BY <2>4, <2>5, AcceptsRight
  <2> QED
    BY <2>2, <2>3, <2>6, <2>7 DEF Signals
<1> QED
  BY <1>4, <1>5, <1>6

\* A connection that is made: the socket blocks again.
LEMMA ConnectedRight ==
    ASSUME NEW c, NEW e, NEW d \in Calls, Same(c, d), c.fn = "_SConnect", e.is = "data",
           Counts(c, e) /\ Limited(c) => d.now <= c.tlen
    PROVE  Right(c, e, Connected(d))
<1> DEFINE x == [d EXCEPT !.blocking = TRUE]
<1>1. Same(d, x) /\ x.now = d.now /\ x.blocking
  BY DEF Calls, Same
<1> HIDE DEF x
<1>2. Same(c, x) /\ x \in Calls /\ c.fn \in Others
  BY <1>1 DEF Same, Others
<1>3. Right(c, e, Returns(x, 0))
  BY <1>1, <1>2, OtherEnds
<1> QED
  BY <1>3 DEF Connected, x

LEMMA ConnectNowRight ==
    ASSUME NEW c, Going(c), NEW e \in Event, c.fn = "_SConnect", c.tlen > 0
    PROVE  Right(c, e, ConnectNow(c, e))
<1>1. c.fn \in Others /\ c.fn \notin Waiting \cup Accepting
  BY DEF Others, Waiting, Accepting
<1>2. c \in Calls /\ c.pc = "run" /\ c.tlen \in Int /\ (Limited(c) => c.now = 0)
  BY <1>1, OtherGoing
<1>3. Same(c, c)
  BY <1>2 DEF Same
<1>4. CASE e.is = "data"
  <2>1. Right(c, e, Connected(c))
    BY <1>2, <1>3, <1>4, ConnectedRight
  <2> QED
    BY <1>4, <2>1 DEF ConnectNow
<1>5. CASE e.is \in {"err", "bad"}
  <2> DEFINE x == [c EXCEPT !.blocking = FALSE]
  <2>1. Same(c, x) /\ x.now = c.now /\ x \in Calls
    BY <1>2 DEF Calls, Same
  <2> HIDE DEF x
  <2>2. -1 \in Int /\ -1 # 0 /\ (Limited(c) => x.now <= c.tlen)
    BY <1>2, <2>1
  <2>3. Right(c, e, Returns(x, -1))
    BY <1>1, <2>1, <2>2, OtherEnds
  <2> QED
    BY <1>5, <2>3 DEF ConnectNow, x
<1>6. CASE e.is \in {"eof", "intr", "lost"}
  <2> DEFINE x == [c EXCEPT !.selected = TRUE, !.blocking = FALSE]
  <2>1. Same(c, x) /\ x.now = c.now /\ x.tleft = c.tleft /\ x \in Calls /\ x.pc = c.pc
    BY <1>2 DEF Calls, Same
  <2>2. ConnectNow(c, e) = x
    BY <1>6 DEF ConnectNow
  <2> HIDE DEF x
  <2>3. Limited(c) => TimeLeft(c, x)
    <3> SUFFICES ASSUME Limited(c)
                 PROVE  TimeLeft(c, x)
      OBVIOUS
    <3>1. c.now \in 0 .. c.tlen - 1 /\ c.tleft = c.tlen - c.now
      BY TimeGoes
    <3> QED
      BY <1>1, <1>2, <2>1, <3>1 DEF TimeLeft, Same
  <2>4. Right(c, e, x)
    BY <1>1, <1>2, <2>1, <2>3, OtherGoesOn
  <2> QED
    BY <2>2, <2>4
<1> QED
  BY <1>4, <1>5, <1>6, EventType DEF EventIs

LEMMA SConnectRight ==
    ASSUME NEW c, Going(c), NEW e \in Event, c.fn = "_SConnect"
    PROVE  Right(c, e, _SConnect(c, e))
<1>1. c.fn \in Others /\ c.fn \notin Waiting \cup Accepting
  BY DEF Others, Waiting, Accepting
<1>2. /\ c \in Calls /\ c.pc = "run" /\ e.after \in Int /\ e.after \in Nat
      /\ c.tlen \in Int /\ (Limited(c) => c.now = 0)
      /\ c.tlen <= 0 => c.blocking
  BY <1>1, OtherGoing
<1> DEFINE d == Waits(c, e.after)
<1>3. Same(c, d) /\ d.pc = "run" /\ d.now = c.now + e.after /\ d.blocking = c.blocking /\ d \in Calls
  BY <1>2, WaitsIs DEF Same
<1>4. CASE c.tlen <= 0
  <2> DEFINE r == IF e.is = "data" THEN 0 ELSE -1
  <2>1. _SConnect(c, e) = IF e.is = "intr" THEN d ELSE Returns(d, r)
    BY <1>2, <1>4 DEF _SConnect
  <2>2. ~Limited(c)
    BY <1>2, <1>4 DEF Limited
  <2>3. Right(c, e, d)
    BY <1>1, <2>2, InterruptedRight
  <2>4. r \in Int /\ (r = 0 => e.is = "data")
    OBVIOUS
  <2> HIDE DEF d, r
  <2>5. Right(c, e, Returns(d, r))
    BY <1>1, <1>2, <1>3, <1>4, <2>2, <2>4, OtherEnds
  <2> QED
    BY <2>1, <2>3, <2>5
<1>5. CASE c.tlen > 0 /\ ~c.selected
  <2>1. Right(c, e, ConnectNow(c, e))
    BY <1>5, ConnectNowRight
  <2> QED
    BY <1>2, <1>5, <2>1 DEF _SConnect
<1>6. CASE c.tlen > 0 /\ c.selected
  <2>1. _SConnect(c, e) = Select(c, e, c.tlen, NoTime, LAMBDA x : SoError(x, e))
    BY <1>2, <1>6 DEF _SConnect
  <2>2. CASE e.after > 0 /\ e.after >= c.tlen
    <3> DEFINE x == Waits(c, c.tlen)
    <3>1. Same(c, x) /\ x.now = c.now + c.tlen
      BY <1>2, WaitsIs
    <3>2. _SConnect(c, e) = NoTime(x)
      BY <2>1, <2>2 DEF Select
    <3> HIDE DEF x
    <3>3. (Limited(c) => x.now <= c.tlen) /\ x \in Calls
      BY <1>2, <3>1 DEF Same
    <3>4. Right(c, e, NoTime(x))
      BY <1>1, <3>1, <3>3, NoTimeRight
    <3> QED
      BY <3>2, <3>4
  <2>3. CASE ~(e.after > 0 /\ e.after >= c.tlen)
    <3> DEFINE x == Readied(c, e.after)
    <3>1. x = Readied(c, e.after)
      OBVIOUS
    <3>2. _SConnect(c, e) = CASE e.is = "intr" -> d
                              [] e.is = "bad" -> Returns(d, -1)
                              [] OTHER -> IF e.is = "data" THEN Connected(x) ELSE Returns(x, -1)
      BY <2>1, <2>3 DEF Select, SoError, Readied
    <3>3. e.is \in Signals => Right(c, e, d)
      BY <1>1, InterruptedRight DEF Counts
    <3> HIDE DEF d, x
    <3>4. Same(c, x) /\ x.pc = "run" /\ x.now = c.now + e.after /\ x \in Calls
      BY <1>2, <3>1, ReadyIs DEF Same
    <3>5. Limited(c) => d.now <= c.tlen /\ x.now <= c.tlen
      BY <1>2, <1>3, <1>6, <2>3, <3>4
    <3>6. -1 \in Int /\ -1 # 0
      OBVIOUS
    <3>7. Right(c, e, Returns(d, -1)) /\ Right(c, e, Returns(x, -1))
      BY <1>1, <1>3, <3>4, <3>5, <3>6, OtherEnds
    <3>8. e.is = "data" => Right(c, e, Connected(x))
      BY <3>4, <3>5, ConnectedRight
    <3> QED
      BY <3>2, <3>3, <3>7, <3>8 DEF Signals
  <2> QED
    BY <2>2, <2>3
<1> QED
  BY <1>2, <1>4, <1>5, <1>6

-----------------------------------------------------------------------------
(***************************************************************************)
(* Making servers.                                                         *)
(***************************************************************************)
LEMMA ServerRight ==
    ASSUME NEW c, NEW e, NEW d \in Calls, Same(c, d), c.fn \in Serving,
           \/ d.pc \in {"bind", "listen"} /\ d.open = 1
           \/ d.pc = "done" /\ (d.ret < 0 <=> d.open = 0)
    PROVE  Right(c, e, d)
<1>1. c.fn \notin Reading \cup Writing /\ c.fn # "_SConnect" /\ c.fn # "SRead"
  BY DEF Serving, Reading, Writing
<1>2. ~Limited(d)
  BY DEF Limited, Same
<1>3. TimeInv(d) /\ BackInTime(d)
  BY <1>2 DEF TimeInv, BackInTime
<1>4. d.pc \in {"bind", "listen"} => CountInv(d)
  BY <1>1 DEF CountInv, Same
<1>5. d.pc = "done" => ResultTrue(d, e.is)
  BY <1>1 DEF ResultTrue, Same
<1> QED
  BY <1>3, <1>4, <1>5 DEF Right, Runs, Same

\* A server that cannot be made closes the socket it has.
LEMMA ServerFails ==
    ASSUME NEW c \in Calls, c.fn \in Serving, c.open = 1, NEW e, NEW r \in Int, r < 0
    PROVE  Right(c, e, Returns([c EXCEPT !.open = @ - 1], r))
<1> DEFINE b == [c EXCEPT !.open = @ - 1]
           d == Returns(b, r)
<1>1. Same(c, b) /\ b.open = 0 /\ b \in Calls
  BY DEF Calls, Same
<1> HIDE DEF b
<1>2. Same(b, d) /\ d.pc = "done" /\ d.ret = r /\ d.open = b.open
  BY <1>1, ReturnsIs
<1> HIDE DEF d
<1>3. Same(c, d) /\ d \in Calls
  BY <1>1, <1>2 DEF Same
<1>4. Right(c, e, d)
  BY <1>1, <1>2, <1>3, ServerRight
<1> QED
  BY <1>4 DEF d, b

LEMMA ServerMade ==
    ASSUME NEW c \in Calls, c.fn \in Serving, c.open = 1, NEW e
    PROVE  Right(c, e, Returns(c, 3))
<1> DEFINE d == Returns(c, 3)
<1>1. Same(c, d) /\ d.pc = "done" /\ d.ret = 3 /\ d.open = c.open
  BY ReturnsIs
<1> HIDE DEF d
<1>2. Right(c, e, d)
  BY <1>1, ServerRight DEF Same
<1> QED
  BY <1>2 DEF d

LEMMA SBindAddrRight ==
    ASSUME NEW c \in Calls, c.fn \in Serving, c.open = 1, c.pc \in {"bind", "listen"}, NEW e,
           NEW ok \in BOOLEAN
    PROVE  Right(c, e, SBindAddr(c, ok))
<1>1. CASE ok
  <2> DEFINE d == [c EXCEPT !.pc = "listen"]
  <2>1. Same(c, d) /\ d.pc = "listen" /\ d.open = 1 /\ d \in Calls
    BY DEF Calls, Same
  <2> HIDE DEF d
  <2>2. Right(c, e, d)
    BY <2>1, ServerRight
  <2> QED
    BY <1>1, <2>2 DEF SBindAddr, d
<1>2. CASE ~ok /\ c.tried = c.nTries
  <2>1. Right(c, e, Returns([c EXCEPT !.open = @ - 1], kSBindFailed))
    BY ServerFails DEF kSBindFailed
  <2> QED
    BY <1>2, <2>1 DEF SBindAddr
<1>3. CASE ~ok /\ c.tried # c.nTries
  <2> DEFINE b == [c EXCEPT !.tried = @ + 1]
             d == Waits(b, c.tried * 3)
  <2>1. Same(c, b) /\ b.pc = c.pc /\ b.open = c.open /\ b \in Calls /\ c.tried * 3 \in Int
    BY DEF Calls, Same
  <2> HIDE DEF b
  <2>2. Same(b, d) /\ d.pc = b.pc /\ d.open = b.open
    BY <2>1, WaitsIs
  <2> HIDE DEF d
  <2>3. Same(c, d) /\ d \in Calls
    BY <2>1, <2>2 DEF Same
  <2>4. Right(c, e, d)
    BY <2>1, <2>2, <2>3, ServerRight
  <2> QED
    BY <1>3, <2>4 DEF SBindAddr, d, b
<1> QED
  BY <1>1, <1>2, <1>3

LEMMA SListenRight ==
    ASSUME NEW c \in Calls, c.fn \in Serving, c.open = 1, NEW e, NEW ok \in BOOLEAN
    PROVE  Right(c, e, SListen(c, ok))
<1>1. Right(c, e, Returns(c, 3))
  BY ServerMade
<1>2. Right(c, e, Returns([c EXCEPT !.open = @ - 1], kSListenFailed))
  BY ServerFails DEF kSListenFailed
<1> QED
  BY <1>1, <1>2 DEF SListen

LEMMA NewSocketRight ==
    ASSUME NEW c \in Calls, c.fn \in Serving, c.open = 0, NEW e, NEW ok \in BOOLEAN
    PROVE  Right(c, e, NewSocket(c, ok))
<1>1. CASE ok
  <2> DEFINE d == [c EXCEPT !.pc = "bind", !.open = @ + 1]
  <2>1. Same(c, d) /\ d.pc = "bind" /\ d.open = 1 /\ d \in Calls
    <3> DEFINE b == [c EXCEPT !.pc = "bind"]
    <3>1. Same(c, b) /\ b.pc = "bind" /\ b.open = 0 /\ b \in Calls
      BY DEF Calls, Same
    <3>2. d = [b EXCEPT !.open = 1]
      BY DEF Calls
    <3> HIDE DEF b, d
    <3>3. Same(b, d) /\ d.pc = b.pc /\ d.open = 1 /\ d \in Calls
      BY <3>1, <3>2 DEF Calls, Same
    <3> QED
      BY <3>1, <3>3 DEF Same
  <2> HIDE DEF d
  <2>2. Right(c, e, d)
    BY <2>1, ServerRight
  <2> QED
    BY <1>1, <2>2 DEF NewSocket, d
<1>2. CASE ~ok
  <2> DEFINE d == Returns(c, kSNewFailed)
  <2>1. kSNewFailed \in Int /\ kSNewFailed < 0
    BY DEF kSNewFailed
  <2>2. Same(c, d) /\ d.pc = "done" /\ d.ret = kSNewFailed /\ d.open = c.open
    BY <2>1, ReturnsIs
  <2> HIDE DEF d
  <2>3. Right(c, e, d)
    BY <2>1, <2>2, ServerRight DEF Same
  <2> QED
    BY <1>2, <2>3 DEF NewSocket, d
<1> QED
  BY <1>1, <1>2

LEMMA ServingGoing ==
    ASSUME NEW c, Going(c), c.fn \in Serving
    PROVE  /\ c \in Calls /\ c.pc \in {"run", "bind", "listen"}
           /\ c.open = IF c.pc = "run" THEN 0 ELSE 1
  BY DEF Going, Runs, CountInv

LEMMA StreamServerRight ==
    ASSUME NEW c, Going(c), NEW e \in Event, c.fn \in Serving
    PROVE  /\ Right(c, e, SNewStreamServer(c, e))
           /\ Right(c, e, UNewStreamServer(c, e))
<1> DEFINE ok == e.is = "data"
<1>1. /\ c \in Calls /\ c.pc \in {"run", "bind", "listen"}
      /\ c.open = IF c.pc = "run" THEN 0 ELSE 1
  BY ServingGoing
<1>2. CASE c.pc = "run"
  BY <1>1, <1>2, NewSocketRight DEF SNewStreamServer, UNewStreamServer
<1>3. CASE c.pc = "bind"
  BY <1>1, <1>3, SBindAddrRight DEF SNewStreamServer, UNewStreamServer, UBind
<1>4. CASE c.pc = "listen"
  BY <1>1, <1>4, SListenRight DEF SNewStreamServer, UNewStreamServer
<1> QED
  BY <1>1, <1>2, <1>3, <1>4

LEMMA DatagramServerRight ==
    ASSUME NEW c, Going(c), NEW e \in Event, c.fn \in Serving
    PROVE  Right(c, e, SNewDatagramServer(c, e))
<1> DEFINE ok == e.is = "data"
<1>1. /\ c \in Calls /\ c.pc \in {"run", "bind", "listen"}
      /\ c.open = IF c.pc = "run" THEN 0 ELSE 1
  BY ServingGoing
<1>2. CASE c.pc = "run"
  BY <1>1, <1>2, NewSocketRight DEF SNewDatagramServer
<1>3. CASE c.pc # "run"
  <2>1. Right(c, e, Returns(c, 3)) /\ Right(c, e, SBindAddr(c, FALSE))
    BY <1>1, <1>3, ServerMade, SBindAddrRight
  <2> QED
    BY <1>3, <2>1 DEF SNewDatagramServer
<1> QED
  BY <1>2, <1>3

-----------------------------------------------------------------------------
(***************************************************************************)
(* One event, and the steps.                                               *)
(***************************************************************************)
LEMMA HandleRight ==
    ASSUME NEW c, Going(c), NEW e \in Event
    PROVE  Right(c, e, Handle(c, e))
<1>1. CASE c.fn \in {"SRead", "SRecv"}
  <2>1. Handle(c, e) = IF c.fn = "SRead" THEN SRead(c, e) ELSE SRecv(c, e)
    BY <1>1 DEF Handle
  <2> QED
    BY <1>1, <2>1, SReadRight
<1>2. CASE c.fn = "PRead"
  BY <1>2, PReadRight DEF Handle
<1>3. CASE c.fn = "SWrite"
  BY <1>3, SWriteRight DEF Handle
<1>4. CASE c.fn = "SSend"
  BY <1>4, SSendRight DEF Handle
<1>5. CASE c.fn = "PWrite"
  BY <1>5, PWriteRight DEF Handle
<1>6. CASE c.fn \in {"SRecvfrom", "URecvfrom"}
  <2>1. Handle(c, e) = SRecvfrom(c, e)
    BY <1>6 DEF Handle, URecvfrom
  <2> QED
    BY <1>6, <2>1, SRecvfromRight DEF Datagrams
<1>7. CASE c.fn = "SRecvmsg"
  BY <1>7, SRecvmsgRight DEF Handle
<1>8. CASE c.fn \in {"SSendto", "USendto"}
  <2>1. Handle(c, e) = SSendto(c, e)
    BY <1>8 DEF Handle, USendto
  <2> QED
    BY <1>8, <2>1, SSendtoRight DEF Datagrams
<1>9. CASE c.fn \in Waiting
  <2>1. Handle(c, e) = SWaitUntilReadyForReading(c, e)
    BY <1>9 DEF Handle, SWaitUntilReadyForWriting, Waiting
  <2> QED
    BY <1>9, <2>1, SWaitRight
<1>10. CASE c.fn \in Accepting
  <2>1. Handle(c, e) = SAccept(c, e)
    BY <1>10 DEF Handle, UAccept, Accepting
  <2> QED
    BY <1>10, <2>1, SAcceptRight
<1>11. CASE c.fn = "_SConnect"
  BY <1>11, SConnectRight DEF Handle
<1>12. CASE c.fn \in {"SNewStreamServer", "UNewStreamServer"}
  <2>1. Handle(c, e) = SNewStreamServer(c, e) \/ Handle(c, e) = UNewStreamServer(c, e)
    BY <1>12 DEF Handle
  <2> QED
    BY <1>12, <2>1, StreamServerRight DEF Serving
<1>13. CASE c.fn = "SNewDatagramServer"
  BY <1>13, DatagramServerRight DEF Handle, Serving
<1>14. c.fn \in Functions
  BY DEF Going
<1> QED
  BY <1>1, <1>2, <1>3, <1>4, <1>5, <1>6, <1>7, <1>8, <1>9, <1>10, <1>11, <1>12, <1>13, <1>14
  DEF Functions, Reading, Writing, Serving, Waiting, Accepting

\* What Happens writes down of an event, besides.
Noted(d, e) == [d EXCEPT !.events = @ + 1, !.lastIs = e.is,
                         !.signals = @ + IF e.is \in {"intr", "lost"} THEN 1 ELSE 0]

LEMMA EventNoted ==
    ASSUME NEW d \in Calls, NEW e \in Event, NEW x, x = Noted(d, e)
    PROVE  /\ x \in Calls /\ x.lastIs = e.is
           /\ x.signals = IF e.is \in Signals THEN d.signals + 1 ELSE d.signals
           /\ x.fn = d.fn /\ x.pc = d.pc /\ x.size = d.size /\ x.left = d.left /\ x.opts = d.opts
           /\ x.tlen = d.tlen /\ x.tleft = d.tleft /\ x.now = d.now /\ x.selected = d.selected
           /\ x.blocking = d.blocking /\ x.open = d.open /\ x.ret = d.ret /\ x.moved = d.moved
<1> DEFINE n == IF e.is \in {"intr", "lost"} THEN 1 ELSE 0
           a == [d EXCEPT !.events = @ + 1]
           b == [a EXCEPT !.lastIs = e.is]
           m == b.signals + n
<1>1. x = [b EXCEPT !.signals = m]
  BY DEF Noted, Calls
<1>2. /\ a \in Calls /\ a.signals = d.signals
      /\ a.fn = d.fn /\ a.pc = d.pc /\ a.size = d.size /\ a.left = d.left /\ a.opts = d.opts
      /\ a.tlen = d.tlen /\ a.tleft = d.tleft /\ a.now = d.now /\ a.selected = d.selected
      /\ a.blocking = d.blocking /\ a.open = d.open /\ a.ret = d.ret /\ a.moved = d.moved
  BY DEF Calls
<1> HIDE DEF a
<1>3. /\ b \in Calls /\ b.signals = a.signals /\ b.lastIs = e.is
      /\ b.fn = a.fn /\ b.pc = a.pc /\ b.size = a.size /\ b.left = a.left /\ b.opts = a.opts
      /\ b.tlen = a.tlen /\ b.tleft = a.tleft /\ b.now = a.now /\ b.selected = a.selected
      /\ b.blocking = a.blocking /\ b.open = a.open /\ b.ret = a.ret /\ b.moved = a.moved
  BY <1>2, EventType DEF Calls
<1> HIDE DEF b
<1>4. n \in Nat
  OBVIOUS
<1>n. m \in Nat
  BY <1>3, <1>4 DEF Calls
<1> HIDE DEF n, m
<1>5. /\ x \in Calls /\ x.signals = m /\ x.lastIs = b.lastIs
      /\ x.fn = b.fn /\ x.pc = b.pc /\ x.size = b.size /\ x.left = b.left /\ x.opts = b.opts
      /\ x.tlen = b.tlen /\ x.tleft = b.tleft /\ x.now = b.now /\ x.selected = b.selected
      /\ x.blocking = b.blocking /\ x.open = b.open /\ x.ret = b.ret /\ x.moved = b.moved
  BY <1>1, <1>3, <1>n DEF Calls
<1>6. x.signals = IF e.is \in Signals THEN d.signals + 1 ELSE d.signals
  BY <1>2, <1>3, <1>5 DEF Signals, n, m, Calls
<1> QED
  BY <1>2, <1>3, <1>5, <1>6

LEMMA HappensStep ==
    ASSUME CallInv, NEW e \in Event, Happens(e)
    PROVE  CallInv'
<1> DEFINE d == Handle(call, e)
           x == call'
<1>1. Going(call)
  BY DEF CallInv, Happens, Going, Runs, Calls
<1>2. Right(call, e, d)
  BY <1>1, HandleRight
<1>3. x = Noted(d, e)
  BY DEF Happens, Noted
<1> HIDE DEF d
<1>4. /\ x \in Calls /\ x.lastIs = e.is
      /\ x.signals = IF e.is \in Signals THEN d.signals + 1 ELSE d.signals
      /\ x.fn = d.fn /\ x.pc = d.pc /\ x.size = d.size /\ x.left = d.left /\ x.opts = d.opts
      /\ x.tlen = d.tlen /\ x.tleft = d.tleft /\ x.now = d.now /\ x.selected = d.selected
      /\ x.blocking = d.blocking /\ x.open = d.open /\ x.ret = d.ret /\ x.moved = d.moved
  BY <1>2, <1>3, EventNoted DEF Right
<1> HIDE DEF x
<1>5. (Whole(x) <=> Whole(d)) /\ (Runs(x) <=> Runs(d))
  BY <1>4 DEF Whole, Runs
<1>6. d.signals \in Nat /\ d.fn = call.fn /\ d.fn \in Functions
  BY <1>1, <1>2 DEF Right, Calls, Going
<1>7. Limited(x) => Limited(d) /\ (e.is \notin Signals \/ call.fn \in Waiting)
  BY <1>4, <1>6 DEF Limited
<1>8. Runs(x) => CountInv(x)
  BY <1>2, <1>4, <1>5 DEF Right, CountInv
<1>9. Runs(x) => TimeInv(x)
  BY <1>2, <1>4, <1>5, <1>7 DEF Right, TimeInv
<1>10. x.pc = "done" => ResultTrue(x, x.lastIs)
  BY <1>2, <1>4, <1>5 DEF Right, ResultTrue
<1>11. x.pc = "done" => BackInTime(x)
  BY <1>2, <1>4, <1>7 DEF Right, BackInTime
<1>12. x.pc \in {"bind", "listen"} => x.fn \in Serving
  BY <1>2, <1>4, <1>6 DEF Right
<1> QED
  BY <1>4, <1>6, <1>8, <1>9, <1>10, <1>11, <1>12 DEF CallInv, x

\* The call as Begin makes it.
LEMMA BeginStep ==
    ASSUME CallInv, Begin
    PROVE  CallInv'
<1> DEFINE x == call'
<1>1. PICK fn \in Functions, size \in Sizes, tlen \in Limits, opts \in Options, tries \in Tries :
          /\ tlen > 0 \/ fn \in Unlimited
          /\ fn \notin Reading \cup {"SWrite"} => opts = {}
          /\ fn = "SWrite" => opts \subseteq {"NoFirstSelect"}
          /\ fn = "PRead" => "NoFirstSelect" \notin opts
          /\ fn \notin Serving => tries = 1
          /\ fn \in Serving => tlen = 1 /\ size = 1
          /\ call' = [Blank EXCEPT !.fn = fn, !.pc = "run", !.size = size, !.left = size,
                                   !.opts = opts, !.tlen = tlen, !.tleft = tlen, !.nTries = tries]
  BY Zenon DEF Begin
<1>2. size \in Nat \ {0} /\ tlen \in Int /\ tries \in Int
  BY ValuesAssumption
<1>3. x = [fn |-> fn, pc |-> "run", size |-> size, left |-> size, opts |-> opts, tlen |-> tlen,
           tleft |-> tlen, now |-> 0, first |-> TRUE, selected |-> FALSE, blocking |-> TRUE,
           open |-> 0, nTries |-> tries, tried |-> 1, ret |-> 0,
           moved |-> 0, signals |-> 0, events |-> 0, lastIs |-> "none"]
  BY <1>1 DEF Blank
<1> HIDE DEF x
<1>4. /\ x.fn = fn /\ x.pc = "run" /\ x.size = size /\ x.left = size /\ x.tlen = tlen
      /\ x.tleft = tlen /\ x.now = 0 /\ ~x.selected /\ x.blocking /\ x.open = 0 /\ x.moved = 0
      /\ x.signals = 0 /\ x.opts = opts
  BY <1>3
<1>5. x \in Calls
  BY <1>2, <1>3 DEF Calls
<1>6. CountInv(x)
  BY <1>2, <1>4 DEF CountInv
<1>7. TimeInv(x)
  BY <1>2, <1>4 DEF TimeInv, Limited
<1> QED
  BY <1>4, <1>5, <1>6, <1>7 DEF CallInv, x

\* Every step keeps the invariant; SReadline leaves the call alone.
LEMMA CallInvStep ==
    ASSUME CallInv, [Next]_vars
    PROVE  CallInv'
<1>1. CASE Begin
  BY <1>1, BeginStep
<1>2. CASE \E e \in Event : Happens(e)
  BY <1>2, HappensStep
<1>3. CASE UNCHANGED call
  BY <1>3 DEF CallInv
<1>4. Listen \/ Fill \/ NextLine \/ UNCHANGED vars => UNCHANGED call
  BY DEF Listen, Fill, NextLine, vars
<1> QED
  BY <1>1, <1>2, <1>3, <1>4 DEF Next

LEMMA CallInvInit ==
    ASSUME Init
    PROVE  CallInv
<1>1. call \in Calls /\ call.pc = "idle"
  BY DEF Init, Blank, Calls, Options
<1> QED
  BY <1>1 DEF CallInv, Runs

LEMMA CallInvHolds == Spec => []CallInv
<1>1. Init => CallInv
  BY CallInvInit
<1>2. CallInv /\ [Next]_vars => CallInv'
  BY CallInvStep
<1> QED
  BY <1>1, <1>2, PTL DEF Spec

\* What a routine of libsio reports is what the kernel has done (SRead.c:129,
\* SWrite.c:108, PRead.c:52, SConnect.c:219-262, SNew.c:45-57): for any buffer sizes,
\* limits and delays, however many system calls a call makes and whatever each of
\* them meets.
THEOREM ResultsAreTrueHolds == Spec => []ResultsAreTrue
<1>1. CallInv => ResultsAreTrue
  BY DEF CallInv, ResultTrue, ResultsAreTrue
<1> QED
  BY <1>1, CallInvHolds, PTL

\* A timed call comes back within its limit when no signal interrupts it, a write
\* within twice of it less a second (SWrite.c:50), and waiting for a socket keeps to
\* its limit under signals too (SWait.c:100-107): for any limits and delays.
THEOREM InTimeHolds == Spec => []InTime
<1>1. CallInv => InTime
  BY DEF CallInv, BackInTime, Limited, InTime
<1> QED
  BY <1>1, CallInvHolds, PTL

-----------------------------------------------------------------------------
(***************************************************************************)
(* SReadline.  Cut says what the lines of a text are.  A reader that has   *)
(* taken p bytes of the text is where Cut is after p bytes (Holds): it has *)
(* returned the lines that are cut, and holds what is cut of the next one. *)
(* Each byte of a buffer keeps it there (HoldsByte), so a whole buffer     *)
(* does (ScanEnds), whatever the packets (ScanKeepsLines).                 *)
(***************************************************************************)
\* A set of numbers has a least one.
LEMMA Smallest ==
    ASSUME NEW T, T \subseteq Nat, T # {}
    PROVE  \E x \in T : \A y \in T : x <= y
<1>1. PICK x \in T : \A y \in T : ~(<<y, x>> \in OpToRel(<, Nat))
  BY NatLessThanWellFounded, WFMin
<1>2. ASSUME NEW y \in T, ~(x <= y) PROVE FALSE
  <2>1. y \in Nat /\ x \in Nat /\ y < x
    BY <1>2
  <2>2. <<y, x>> \in OpToRel(<, Nat)
    BY <2>1 DEF OpToRel
  <2> QED
    BY <2>2, <1>1
<1> QED
  BY <1>2

\* What a quotient is.
LEMMA DivIs ==
    ASSUME NEW a \in Nat, NEW b \in Nat \ {0}, NEW q \in Nat, b * q <= a, a < b * q + b
    PROVE  a \div b = q
<1> DEFINE d == a \div b
<1>1. d \in Int /\ b * d <= a /\ a < b * d + b
  OBVIOUS
<1> HIDE DEF d
<1>2. ASSUME d < q PROVE FALSE
  <2>1. b * (d + 1) <= b * q
    BY <1>1, <1>2
  <2> QED
    BY <1>1, <2>1
<1>3. ASSUME q < d PROVE FALSE
  <2>1. b * (q + 1) <= b * d
    BY <1>1, <1>3
  <2> QED
    BY <1>1, <2>1
<1> QED
  BY <1>1, <1>2, <1>3 DEF d

\* The place an induction over numbers would break down at.
LEMMA FirstBreak ==
    ASSUME NEW n \in Nat, NEW T, T \subseteq 0..n, T # {}
    PROVE  \/ 0 \in T
           \/ \E x \in 1..n : x \in T /\ x - 1 \in 0..n /\ x - 1 \notin T
<1>0. T \subseteq Nat
  OBVIOUS
<1>1. PICK x \in T : \A y \in T : x <= y
  BY <1>0, Smallest
<1>2. CASE x = 0
  BY <1>2
<1>3. CASE x # 0
  <2>1. x \in 1..n /\ x - 1 \in 0..n /\ ~(x <= x - 1)
    BY <1>3
  <2> QED
    BY <2>1, <1>1
<1> QED
  BY <1>2, <1>3

\* A piece of a sequence is a piece of the sequence with one element more.
LEMMA PieceOfAppend ==
    ASSUME NEW S, NEW s \in Seq(S), NEW e \in S, NEW i \in Nat \ {0}, NEW j \in Int, j <= Len(s)
    PROVE  /\ SubSeq(Append(s, e), i, j) = SubSeq(s, i, j)
           /\ SubSeq(s, i, j) \in Seq(S)
           /\ Len(SubSeq(s, i, j)) = IF i <= j THEN j - i + 1 ELSE 0
<1> DEFINE t == Append(s, e)
<1>1. Len(s) \in Nat /\ t \in Seq(S) /\ Len(t) = Len(s) + 1 /\ \A k \in 1..Len(s) : t[k] = s[k] /\ s[k] \in S
  BY AppendProperties, LenProperties, ElementOfSeq
<1> HIDE DEF t
<1>2. \A k \in i..j : s[k] \in S /\ t[k] \in S
  BY <1>1
<1>3. /\ SubSeq(s, i, j) \in Seq(S)
      /\ Len(SubSeq(s, i, j)) = IF i <= j THEN j - i + 1 ELSE 0
      /\ \A k \in 1..j-i+1 : SubSeq(s, i, j)[k] = s[i+k-1]
  BY <1>2, SubSeqProperties
<1>4. /\ SubSeq(t, i, j) \in Seq(S)
      /\ Len(SubSeq(t, i, j)) = IF i <= j THEN j - i + 1 ELSE 0
      /\ \A k \in 1..j-i+1 : SubSeq(t, i, j)[k] = t[i+k-1]
  BY <1>2, SubSeqProperties
<1>5. \A k \in 1..Len(SubSeq(t, i, j)) : SubSeq(t, i, j)[k] = SubSeq(s, i, j)[k]
  BY <1>1, <1>3, <1>4
<1>6. SubSeq(t, i, j) = SubSeq(s, i, j)
  BY <1>3, <1>4, <1>5, SeqEqual
<1> QED
  BY <1>3, <1>6 DEF t

\* What texts are made of; for the provers a literal need not be a STRING.
Byte == STRING \cup {LF}

\* Where a cut is: the lines that are cut and what there is of the next one.
CutState == [done : Seq(Seq(Byte)), cur : Seq(Byte)]

\* What the reader gets of a line is lines.
LEMMA PiecesType ==
    ASSUME NEW line \in Seq(Byte), NEW room \in Nat \ {0}, NEW eoln \in BOOLEAN
    PROVE  Pieces(line, room, eoln) \in Seq(Seq(Byte))
<1>0. Len(line) \in Nat /\ \A k \in 1..Len(line) : line[k] \in Byte
  BY ElementOfSeq, LenProperties
<1>1. ASSUME NEW i \in Nat \ {0}, NEW j \in Int, j <= Len(line) PROVE SubSeq(line, i, j) \in Seq(Byte)
  <2>1. \A k \in i..j : line[k] \in Byte
    BY <1>0, <1>1
  <2> QED
    BY <2>1, SubSeqProperties
<1>2. CASE eoln
  BY <1>0, <1>1, <1>2 DEF Pieces, Least
<1>3. CASE ~eoln
  <2> DEFINE n == (Len(line) + room - 1) \div room
             P == [k \in 1..n |-> SubSeq(line, (k - 1) * room + 1, Least(k * room, Len(line)))]
  <2>1. n \in Nat
    BY <1>0
  <2>2. ASSUME NEW k \in 1..n PROVE P[k] \in Seq(Byte)
    <3>1. (k - 1) * room \in Nat /\ k * room \in Int
      BY <2>1
    <3>2. (k - 1) * room + 1 \in Nat \ {0} /\ Least(k * room, Len(line)) \in Int /\ Least(k * room, Len(line)) <= Len(line)
      BY <3>1, <1>0 DEF Least
    <3>3. SubSeq(line, (k - 1) * room + 1, Least(k * room, Len(line))) \in Seq(Byte)
      BY <3>2, <1>1
    <3> QED
      BY <3>3
  <2> HIDE DEF n
  <2>3. P \in [1..n -> Seq(Byte)]
    BY <2>2
  <2> HIDE DEF P
  <2>4. P \in Seq(Seq(Byte))
    BY <2>1, <2>3, SeqDef
  <2> QED
    BY <2>4, <1>3 DEF Pieces, n, P
<1> QED
  BY <1>2, <1>3

\* Cut is the recursion its definition says.
LEMMA CutRecursion ==
    ASSUME NEW text \in Seq(Byte), NEW room, NEW eoln
    PROVE  /\ DOMAIN Cut(text, room, eoln) = 0..Len(text)
           /\ Cut(text, room, eoln)[0] = [done |-> <<>>, cur |-> <<>>]
           /\ \A k \in 1..Len(text) :
                 Cut(text, room, eoln)[k] = CutByte(Cut(text, room, eoln)[k - 1], text[k], room, eoln)
<1> DEFINE base == [done |-> <<>>, cur |-> <<>>]
           Step(c, k) == CutByte(c, text[k], room, eoln)
           N == Len(text)
           T == {n \in 0..N : ~\E g : g = [k \in 0..n |-> IF k = 0 THEN base ELSE Step(g[k - 1], k)]}
           after == CHOOSE g : g = [k \in 0..N |-> IF k = 0 THEN base ELSE Step(g[k - 1], k)]
<1>1. N \in Nat
  BY LenProperties
<1>2. Cut(text, room, eoln) = after
  BY DEF Cut
<1> HIDE DEF base, Step, N
<1>3. T = {}
  <2> SUFFICES ASSUME T # {} PROVE FALSE
    OBVIOUS
  <2>1. CASE 0 \in T
    <3>1. [k \in 0..0 |-> base] = [k \in 0..0 |-> IF k = 0 THEN base ELSE Step([j \in 0..0 |-> base][k - 1], k)]
      OBVIOUS
    <3> QED
      BY <3>1, <2>1
  <2>2. ASSUME NEW x \in 1..N, x \in T, x - 1 \in 0..N, x - 1 \notin T PROVE FALSE
    <3>1. PICK g : g = [k \in 0..(x - 1) |-> IF k = 0 THEN base ELSE Step(g[k - 1], k)]
      BY <2>2
    <3> DEFINE h == [k \in 0..x |-> IF k = x THEN Step(g[x - 1], x) ELSE g[k]]
               R == [k \in 0..x |-> IF k = 0 THEN base ELSE Step(h[k - 1], k)]
    <3>2. ASSUME NEW k \in 0..x PROVE h[k] = R[k]
      <4>1. CASE k = 0
        BY <4>1, <3>1, <1>1
      <4>2. CASE k = x
        <5>1. k - 1 \in 0..x /\ k - 1 # x /\ k # 0
          BY <4>2, <1>1
        <5> QED
          BY <5>1, <4>2
      <4>3. CASE k # 0 /\ k # x
        <5>1. k \in 0..(x - 1) /\ k - 1 \in 0..x /\ k - 1 # x
          BY <4>3, <1>1
        <5>2. g[k] = Step(g[k - 1], k)
          BY <3>1, <5>1, <4>3
        <5> QED
          BY <5>1, <5>2, <4>3
      <4> QED
        BY <4>1, <4>2, <4>3
    <3>3. h = R
      BY <3>2
    <3> HIDE DEF h
    <3>4. \E f : f = [k \in 0..x |-> IF k = 0 THEN base ELSE Step(f[k - 1], k)]
      BY <3>3
    <3> QED
      BY <3>4, <2>2
  <2>3. T \subseteq 0..N
    OBVIOUS
  <2> HIDE DEF T
  <2> QED
    BY <2>1, <2>2, <2>3, <1>1, FirstBreak
<1>4. \E g : g = [k \in 0..N |-> IF k = 0 THEN base ELSE Step(g[k - 1], k)]
  BY <1>1, <1>3
<1>5. after = [k \in 0..N |-> IF k = 0 THEN base ELSE Step(after[k - 1], k)]
  BY <1>4
<1> HIDE DEF after
<1>6. /\ DOMAIN after = 0..N /\ after[0] = base
      /\ \A k \in 1..N : after[k] = Step(after[k - 1], k)
  BY <1>5, <1>1
<1> QED
  BY <1>6, <1>2 DEF base, Step, N

\* The lines of a text are lines.
LEMMA CutTypes ==
    ASSUME NEW text \in Seq(Byte), NEW room \in Nat \ {0}, NEW eoln \in BOOLEAN
    PROVE  \A k \in 0..Len(text) : Cut(text, room, eoln)[k] \in CutState
<1> DEFINE C == Cut(text, room, eoln)
           T == {n \in 0..Len(text) : C[n] \notin CutState}
<1>0. Len(text) \in Nat
  BY LenProperties
<1>1. /\ C[0] = [done |-> <<>>, cur |-> <<>>]
      /\ \A k \in 1..Len(text) : C[k] = CutByte(C[k - 1], text[k], room, eoln)
  BY CutRecursion
<1> HIDE DEF C
<1>2. C[0] \in CutState
  BY <1>1, EmptySeq DEF CutState
<1>3. ASSUME NEW x \in 1..Len(text), C[x - 1] \in CutState PROVE C[x] \in CutState
  <2> DEFINE c == C[x - 1]  b == text[x]
  <2>1. b \in Byte /\ LF \in Byte
    <3>1. b \in Byte
      BY ElementOfSeq
    <3>2. LF \in Byte
      BY DEF Byte
    <3> HIDE DEF b
    <3> QED
      BY <3>1, <3>2
  <2>2. c.done \in Seq(Seq(Byte)) /\ c.cur \in Seq(Byte) /\ c \in CutState
    BY <1>3 DEF CutState
  <2>3. Append(c.cur, b) \in Seq(Byte) /\ Append(c.cur, LF) \in Seq(Byte)
    BY <2>1, <2>2, AppendProperties
  <2>4. Pieces(Append(c.cur, LF), room, eoln) \in Seq(Seq(Byte))
    BY <2>3, PiecesType
  <2>5. c.done \o Pieces(Append(c.cur, LF), room, eoln) \in Seq(Seq(Byte))
    BY <2>2, <2>4, ConcatProperties
  <2>6. <<>> \in Seq(Byte)
    BY EmptySeq
  <2> HIDE DEF c, b
  <2>7. CutByte(c, b, room, eoln) \in CutState
    BY <2>2, <2>3, <2>5, <2>6 DEF CutByte, CutState, CR, NUL, LF
  <2> QED
    BY <2>7, <1>1 DEF c, b
<1>4. T = {}
  <2>1. T \subseteq 0..Len(text)
    OBVIOUS
  <2>2. 0 \notin T
    BY <1>2
  <2>3. ASSUME NEW x \in 1..Len(text), x \in T, x - 1 \in 0..Len(text), x - 1 \notin T PROVE FALSE
    BY <2>3, <1>3
  <2> HIDE DEF T
  <2> QED
    BY <2>1, <2>2, <2>3, <1>0, FirstBreak
<1> QED
  BY <1>4 DEF C

\* Where the m pieces of room bytes each lie.
LEMMA Multiples ==
    ASSUME NEW m \in Nat, NEW room \in Nat \ {0}
    PROVE  /\ m * room \in Nat /\ room * m = m * room
           /\ (m + 1) * room = m * room + room /\ room * (m + 1) = m * room + room
           /\ m <= m * room
           /\ \A k \in 1..m : /\ k * room \in Nat /\ (k - 1) * room \in Nat
                             /\ k * room = (k - 1) * room + room /\ k * room <= m * room
<1>1. /\ m * room \in Nat /\ room * m = m * room
      /\ (m + 1) * room = m * room + room /\ room * (m + 1) = m * room + room
  OBVIOUS
<1>2. m <= m * room
  <2>1. \A x, y, z \in Nat : x <= y => z * x <= z * y
    OBVIOUS
  <2>2. m * 1 <= m * room
    BY <2>1
  <2> QED
    BY <2>2
<1>3. ASSUME NEW k \in 1..m
      PROVE  /\ k * room \in Nat /\ (k - 1) * room \in Nat
             /\ k * room = (k - 1) * room + room /\ k * room <= m * room
  <2>1. k \in Nat /\ k - 1 \in Nat /\ m - k \in Nat
    BY <1>3
  <2>2. (m - k) * room \in Nat /\ (m - k) * room = m * room - k * room
    BY <2>1
  <2>3. k * room \in Nat /\ (k - 1) * room \in Nat /\ (k - 1) * room = k * room - room
    BY <2>1
  <2> QED
    BY <1>1, <2>2, <2>3
<1> QED
  BY <1>1, <1>2, <1>3

\* A function on 1..n is a sequence, and one element more is appended to it.
LEMMA SeqIs ==
    ASSUME NEW S, NEW n \in Nat, NEW f \in [1..n -> S]
    PROVE  f \in Seq(S) /\ Len(f) = n
<1>1. f \in Seq(S)
  BY SeqDef
<1>2. DOMAIN f = 1..Len(f) /\ DOMAIN f = 1..n /\ Len(f) \in Nat
  BY <1>1, LenProperties
<1> QED
  BY <1>1, <1>2

\* A function that goes on from another by one value is that one with a value appended.
LEMMA AppendIs ==
    ASSUME NEW S, NEW n \in Nat, NEW f \in [1..n -> S], NEW e \in S, NEW g \in [1..n + 1 -> S],
           \A k \in 1..n : g[k] = f[k], g[n + 1] = e
    PROVE  g = Append(f, e)
<1>1. f \in Seq(S) /\ Len(f) = n
  BY SeqIs
<1>3. n + 1 \in Nat
  OBVIOUS
<1>4. g \in Seq(S) /\ Len(g) = n + 1
  BY <1>3, SeqIs
<1>5. /\ Append(f, e) \in Seq(S) /\ Len(Append(f, e)) = n + 1
      /\ \A k \in 1..n + 1 : Append(f, e)[k] = g[k]
  <2>1. /\ Append(f, e) \in Seq(S) /\ Len(Append(f, e)) = n + 1
        /\ \A k \in 1..n : Append(f, e)[k] = f[k] /\ Append(f, e)[n + 1] = e
    BY <1>1, AppendProperties
  <2>2. ASSUME NEW k \in 1..n + 1 PROVE Append(f, e)[k] = g[k]
    <3>1. k \in 1..n \/ k = n + 1
      OBVIOUS
    <3>2. Append(f, e)[n + 1] = e
      BY <1>1, AppendProperties
    <3> QED
      BY <2>1, <3>1, <3>2
  <2> QED
    BY <2>1, <2>2
<1> QED
  BY <1>4, <1>5, SeqEqual

\* Three lists of lines one after the other.
LEMMA JoinLines == \A a, b, c \in Seq(Seq(Byte)) : (a \o b) \o c = a \o (b \o c)
<1> SUFFICES ASSUME NEW a \in Seq(Seq(Byte)), NEW b \in Seq(Seq(Byte)), NEW c \in Seq(Seq(Byte))
             PROVE  (a \o b) \o c = a \o (b \o c)
  OBVIOUS
<1> QED
  BY ConcatAssociative, SMT

\* The reader that has returned got and holds line so far is where c says: with a line
\* end required it has the beginning of each line; otherwise the pieces of m times room
\* bytes of the line under way are among its lines already.
At(c, got, line, room, eoln) ==
    IF eoln THEN got = c.done /\ line = SubSeq(c.cur, 1, Least(room, Len(c.cur)))
    ELSE \E m \in 0..Len(c.cur) :
            /\ m * room <= Len(c.cur) /\ Len(c.cur) < m * room + room
            /\ got = c.done \o [k \in 1..m |-> SubSeq(c.cur, (k - 1) * room + 1, k * room)]
            /\ line = SubSeq(c.cur, m * room + 1, Len(c.cur))

Empty(s) == s = <<>>
WithHeld(got, line) == got \o (IF line = <<>> THEN <<>> ELSE <<line>>)
AllOf(c, room, eoln) == c.done \o (IF c.cur = <<>> THEN <<>> ELSE Pieces(c.cur, room, eoln))

\* What is left of the line that held at the end of the text is the last line.
LEMMA AtEnd ==
    \A c, got, line, room, eoln :
       At(c, got, line, room, eoln) /\ c \in CutState /\ room \in Nat \ {0} /\ eoln \in BOOLEAN =>
           /\ got \in Seq(Seq(Byte)) /\ line \in Seq(Byte)
           /\ Empty(line) /\ eoln => Empty(c.cur)
           /\ ~eoln => Len(line) < room
           /\ AllOf(c, room, eoln) = WithHeld(got, line)
<1> SUFFICES ASSUME NEW c \in CutState, NEW got, NEW line, NEW room \in Nat \ {0}, NEW eoln \in BOOLEAN,
           At(c, got, line, room, eoln)
    PROVE  /\ got \in Seq(Seq(Byte)) /\ line \in Seq(Byte)
           /\ Empty(line) /\ eoln => Empty(c.cur)
           /\ ~eoln => Len(line) < room
           /\ AllOf(c, room, eoln) = WithHeld(got, line)
  OBVIOUS
<1> SUFFICES /\ got \in Seq(Seq(Byte)) /\ line \in Seq(Byte)
             /\ line = <<>> /\ eoln => c.cur = <<>>
             /\ ~eoln => Len(line) < room
             /\ c.done \o (IF c.cur = <<>> THEN <<>> ELSE Pieces(c.cur, room, eoln))
                  = got \o (IF line = <<>> THEN <<>> ELSE <<line>>)
  BY DEF AllOf, WithHeld, Empty
<1>0. c.done \in Seq(Seq(Byte)) /\ c.cur \in Seq(Byte) /\ Len(c.cur) \in Nat
  BY LenProperties DEF CutState
<1> DEFINE L == Len(c.cur)
<1>1. \A k \in 1..L : c.cur[k] \in Byte
  BY <1>0, ElementOfSeq
<1>2. ASSUME NEW i \in Nat \ {0}, NEW j \in Int, j <= L
      PROVE  /\ SubSeq(c.cur, i, j) \in Seq(Byte)
             /\ Len(SubSeq(c.cur, i, j)) = IF i <= j THEN j - i + 1 ELSE 0
  <2>1. \A k \in i..j : c.cur[k] \in Byte
    BY <1>1, <1>2
  <2> QED
    BY <2>1, SubSeqProperties
<1>3. c.cur = <<>> <=> L = 0
  BY <1>0, EmptySeq
<1>4. CASE eoln
  <2>1. Least(room, L) \in Int /\ Least(room, L) <= L /\ (L > 0 => Least(room, L) > 0)
    BY <1>0 DEF Least
  <2>2. got = c.done /\ line = SubSeq(c.cur, 1, Least(room, L))
    BY <1>4 DEF At
  <2>3. line \in Seq(Byte) /\ (L > 0 => Len(line) > 0) /\ (L = 0 => Len(line) = 0)
    BY <2>1, <2>2, <1>2, <1>0 DEF Least
  <2>4. line = <<>> <=> L = 0
    BY <2>3, <1>0, EmptySeq
  <2>5. Pieces(c.cur, room, eoln) = <<line>>
    BY <2>2, <1>4 DEF Pieces
  <2> QED
    BY <2>2, <2>3, <2>4, <2>5, <1>0, <1>3, <1>4
<1>5. CASE ~eoln
  <2>1. PICK m \in 0..L :
            /\ m * room <= L /\ L < m * room + room
            /\ got = c.done \o [k \in 1..m |-> SubSeq(c.cur, (k - 1) * room + 1, k * room)]
            /\ line = SubSeq(c.cur, m * room + 1, L)
    BY <1>5 DEF At
  <2> DEFINE Low(k) == (k - 1) * room + 1
             High(k) == k * room
             M == m * room
             P == [k \in 1..m |-> SubSeq(c.cur, Low(k), High(k))]
             n == (L + room - 1) \div room
             Q == [k \in 1..n |-> SubSeq(c.cur, Low(k), Least(High(k), L))]
  <2>2. /\ m \in Nat /\ L \in Nat /\ M \in Nat /\ m <= M /\ M <= L /\ L < M + room
        /\ Low(m + 1) = M + 1 /\ High(m + 1) = M + room
        /\ m = 0 => M = 0
    BY <2>1, <1>0, Multiples
  <2>15. room * m = M /\ room * (m + 1) = M + room
    BY <2>1, <1>0, Multiples
  <2>3. ASSUME NEW k \in 1..m PROVE Low(k) \in Nat \ {0} /\ High(k) \in Nat /\ High(k) <= M
    <3>1. m \in Nat
      BY <2>2
    <3>2. k * room \in Nat /\ (k - 1) * room \in Nat /\ k * room <= m * room
      BY <3>1, Multiples
    <3> QED
      BY <3>2
  <2>13. got = c.done \o P /\ line = SubSeq(c.cur, M + 1, L)
    BY <2>1
  <2>14. Pieces(c.cur, room, eoln) = Q
    BY <1>5 DEF Pieces
  <2> HIDE DEF Low, High, M
  <2>4. ASSUME NEW k \in 1..m PROVE P[k] \in Seq(Byte)
    <3>1. Low(k) \in Nat \ {0} /\ High(k) \in Int /\ High(k) <= L
      BY <2>2, <2>3
    <3>2. SubSeq(c.cur, Low(k), High(k)) \in Seq(Byte)
      BY <3>1, <1>2
    <3> QED
      BY <3>2
  <2>5. P \in [1..m -> Seq(Byte)]
    BY <2>4
  <2>6. P \in Seq(Seq(Byte)) /\ Len(P) = m
    <3> HIDE DEF P
    <3> QED
      BY <2>2, <2>5, SeqIs
  <2>7. got \in Seq(Seq(Byte))
    <3> HIDE DEF P
    <3> QED
      BY <2>13, <2>6, <1>0, ConcatProperties
  <2>8. M + 1 \in Nat \ {0} /\ L \in Int /\ L <= L
    BY <2>2
  <2>9. line \in Seq(Byte) /\ Len(line) = L - M
    <3>1. SubSeq(c.cur, M + 1, L) \in Seq(Byte) /\ Len(SubSeq(c.cur, M + 1, L)) = IF M + 1 <= L THEN L - (M + 1) + 1 ELSE 0
      BY <2>8, <1>2
    <3> QED
      BY <3>1, <2>2, <2>13
  <2>10. Len(line) < room /\ (line = <<>> <=> L = M)
    BY <2>9, <2>2, EmptySeq
  <2>11. CASE L = M
    <3>1. n = m
      <4>1. L + room - 1 \in Nat /\ room * m <= L + room - 1 /\ L + room - 1 < room * m + room
        BY <2>11, <2>2, <2>15
      <4> QED
        BY <4>1, <2>2, DivIs
    <3>2. \A k \in 1..m : Least(High(k), L) = High(k)
      BY <2>3, <2>11, <2>2 DEF Least
    <3>3. Q = P
      <4> HIDE DEF n
      <4> QED
        BY <3>1, <3>2
    <3>5. c.cur = <<>> => P = <<>>
      <4>1. L = 0 => m = 0
        BY <2>11, <2>2
      <4> HIDE DEF P
      <4> QED
        BY <4>1, <1>3, <2>6, EmptySeq
    <3> HIDE DEF P, Q
    <3>6. c.done \o (IF c.cur = <<>> THEN <<>> ELSE Pieces(c.cur, room, eoln)) = got
      BY <3>3, <3>5, <2>13, <2>14
    <3>7. got \o <<>> = got
      BY <2>7, ConcatEmptySeq
    <3> QED
      BY <3>6, <3>7, <2>7, <2>9, <2>10, <2>11, <1>5
  <2>12. CASE L # M
    <3>1. n = m + 1
      <4>1. /\ m + 1 \in Nat /\ L + room - 1 \in Nat /\ room * (m + 1) <= L + room - 1
            /\ L + room - 1 < room * (m + 1) + room
        BY <2>12, <2>2, <2>15
      <4> QED
        BY <4>1, DivIs
    <3>2. \A k \in 1..m : Least(High(k), L) = High(k)
      BY <2>3, <2>2 DEF Least
    <3>3. Least(High(m + 1), L) = L
      BY <2>2 DEF Least
    <3> HIDE DEF n
    <3>4. ASSUME NEW k \in 1..m PROVE Q[k] = P[k]
      <4>1. k \in 1..n
        BY <3>1, <2>2
      <4>2. Q[k] = SubSeq(c.cur, Low(k), Least(High(k), L))
        BY <4>1
      <4>3. P[k] = SubSeq(c.cur, Low(k), High(k))
        BY <3>4
      <4> QED
        BY <3>2, <4>2, <4>3
    <3>5. Q[m + 1] = line
      <4>1. m + 1 \in 1..n
        BY <3>1, <2>2
      <4>2. Q[m + 1] = SubSeq(c.cur, Low(m + 1), Least(High(m + 1), L))
        BY <4>1
      <4> QED
        BY <4>2, <3>3, <2>2, <2>13
    <3>13. Q = [k \in 1..m + 1 |-> Q[k]]
      BY <3>1
    <3> HIDE DEF P, Q
    <3>8. Q = Append(P, line)
      <4>1. m \in Nat /\ P \in [1..m -> Seq(Byte)] /\ line \in Seq(Byte)
        BY <2>2, <2>5, <2>9
      <4>2. \A k \in 1..m : Q[k] = P[k]
        BY <3>4
      <4>3. ASSUME NEW k \in 1..m + 1 PROVE Q[k] \in Seq(Byte)
        <5>1. k \in 1..m \/ k = m + 1
          BY <2>2
        <5> QED
          BY <5>1, <4>1, <4>2, <3>5, <2>4
      <4>4. Q \in [1..m + 1 -> Seq(Byte)]
        BY <4>3, <3>13
      <4> QED
        BY <4>1, <4>2, <4>4, <3>5, AppendIs
    <3>10. c.cur # <<>>
      BY <2>2, <2>12, <1>3
    <3>11. Append(P, line) = P \o <<line>>
      BY <2>6, <2>9, AppendIsConcat
    <3> DEFINE one == <<line>>
    <3>14. one \in Seq(Seq(Byte))
      BY <2>9
    <3> HIDE DEF one
    <3>12. c.done \o (P \o <<line>>) = got \o <<line>>
      <4>1. c.done \o (P \o one) = (c.done \o P) \o one
        BY <1>0, <3>14, <2>6, JoinLines
      <4> QED
        BY <4>1, <2>13 DEF one
    <3> QED
      BY <3>8, <3>10, <3>11, <3>12, <2>7, <2>9, <2>10, <2>12, <2>14, <1>5
  <2> QED
    BY <2>11, <2>12
<1> QED
  BY <1>4, <1>5

\* The end of a sequence is the end of the sequence without its last element, and that element.
LEMMA AppendPiece ==
    ASSUME NEW S, NEW s \in Seq(S), NEW e \in S, NEW i \in 1..Len(s) + 1
    PROVE  SubSeq(Append(s, e), i, Len(s) + 1) = Append(SubSeq(s, i, Len(s)), e)
<1> DEFINE t == Append(s, e)  n == Len(s)
<1>1. n \in Nat /\ t \in Seq(S) /\ Len(t) = n + 1 /\ t[n + 1] = e /\ \A k \in 1..n : t[k] = s[k]
  BY AppendProperties, LenProperties
<1>2. i \in 1..n + 1 /\ i \in Nat \ {0}
  BY <1>1
<1>3. SubSeq(t, i, n) = SubSeq(s, i, n) /\ SubSeq(s, i, n) \in Seq(S)
  BY <1>1, <1>2, PieceOfAppend
<1> HIDE DEF t, n
<1>4. i \in 1..Len(t) /\ n + 1 \in i..Len(t)
  BY <1>1, <1>2
<1>5. SubSeq(t, i, n + 1) = SubSeq(t, i, (n + 1) - 1) \o <<t[n + 1]>>
  BY <1>1, <1>4, SubSeqRecursiveSecond
<1>6. SubSeq(t, i, n + 1) = SubSeq(s, i, n) \o <<e>>
  <2>1. (n + 1) - 1 = n
    BY <1>1
  <2> QED
    BY <2>1, <1>1, <1>3, <1>5
<1>7. Append(SubSeq(s, i, n), e) = SubSeq(s, i, n) \o <<e>>
  BY <1>3, AppendIsConcat
<1> QED
  BY <1>6, <1>7 DEF t, n

\* A line can be added to a part or to the whole.
LEMMA AppendLine ==
    ASSUME NEW a \in Seq(Seq(Byte)), NEW b \in Seq(Seq(Byte)), NEW e \in Seq(Byte)
    PROVE  a \o Append(b, e) = Append(a \o b, e)
<1> DEFINE one == <<e>>
<1>1. one \in Seq(Seq(Byte)) /\ a \o b \in Seq(Seq(Byte))
  BY ConcatProperties
<1>2. Append(b, e) = b \o one /\ Append(a \o b, e) = (a \o b) \o one
  BY <1>1, AppendIsConcat
<1>3. (a \o b) \o one = a \o (b \o one)
  <2> HIDE DEF one
  <2> QED
    BY <1>1, JoinLines
<1> QED
  BY <1>2, <1>3

\* At the end of a line nothing of the next one is held.
LEMMA AtLineEnd ==
    ASSUME NEW done \in Seq(Seq(Byte)), NEW room \in Nat \ {0}, NEW eoln \in BOOLEAN
    PROVE  At([done |-> done, cur |-> <<>>], done, <<>>, room, eoln)
<1> DEFINE c == [done |-> done, cur |-> <<>>]
<1>1. c.done = done /\ c.cur = <<>> /\ Len(c.cur) = 0
  BY EmptySeq
<1> HIDE DEF c
<1>2. CASE eoln
  <2>1. Least(room, Len(c.cur)) = 0
    BY <1>1 DEF Least
  <2>2. SubSeq(c.cur, 1, 0) = <<>>
    BY SubSeqEmpty
  <2> QED
    BY <2>1, <2>2, <1>1, <1>2 DEF At, c
<1>3. CASE ~eoln
  <2>1. [k \in 1..0 |-> SubSeq(c.cur, (k - 1) * room + 1, k * room)] = <<>>
    OBVIOUS
  <2>2. done \o <<>> = done
    BY ConcatEmptySeq
  <2>3. 0 * room = 0 /\ 0 \in 0..Len(c.cur)
    BY <1>1
  <2>4. SubSeq(c.cur, 0 + 1, 0) = <<>>
    BY SubSeqEmpty
  <2>5. /\ 0 * room <= Len(c.cur) /\ Len(c.cur) < 0 * room + room
        /\ done = c.done \o [k \in 1..0 |-> SubSeq(c.cur, (k - 1) * room + 1, k * room)]
        /\ <<>> = SubSeq(c.cur, 0 * room + 1, Len(c.cur))
    BY <2>1, <2>2, <2>3, <2>4, <1>1
  <2>6. At(c, done, <<>>, room, eoln)
    BY <2>3, <2>5, <1>3 DEF At
  <2> QED
    BY <2>6 DEF c
<1> QED
  BY <1>2, <1>3

Plus(c, b) == [c EXCEPT !.cur = Append(@, b)]
Kept(line, b, room) == IF Len(line) < room THEN Append(line, b) ELSE line

OneMore(c, b, got, line, room, eoln) ==
    /\ Plus(c, b) \in CutState /\ Plus(c, b).done = c.done /\ ~Empty(Plus(c, b).cur)
    /\ Kept(line, b, room) \in Seq(Byte) /\ ~Empty(Kept(line, b, room))
    /\ Len(Kept(line, b, room)) <= room
    /\ ~eoln /\ Len(Kept(line, b, room)) = room =>
          At(Plus(c, b), Append(got, Kept(line, b, room)), <<>>, room, eoln)
    /\ eoln \/ Len(Kept(line, b, room)) < room =>
          At(Plus(c, b), got, Kept(line, b, room), room, eoln)

\* A byte of the line is kept as long as there is room; without a line end required a
\* full line is done.
LEMMA AtMore ==
    \A c, b, got, line, room, eoln :
       At(c, got, line, room, eoln) /\ c \in CutState /\ b \in Byte /\ room \in Nat \ {0} /\ eoln \in BOOLEAN =>
           OneMore(c, b, got, line, room, eoln)
<1> SUFFICES ASSUME NEW c \in CutState, NEW b \in Byte, NEW got, NEW line, NEW room \in Nat \ {0},
           NEW eoln \in BOOLEAN, At(c, got, line, room, eoln)
    PROVE  OneMore(c, b, got, line, room, eoln)
  OBVIOUS
<1> DEFINE d == Plus(c, b)
           K == Kept(line, b, room)
           L == Len(c.cur)
<1> SUFFICES /\ d \in CutState /\ d.done = c.done /\ ~Empty(d.cur)
             /\ K \in Seq(Byte) /\ ~Empty(K) /\ Len(K) <= room
             /\ ~eoln /\ Len(K) = room => At(d, Append(got, K), <<>>, room, eoln)
             /\ eoln \/ Len(K) < room => At(d, got, K, room, eoln)
  BY DEF OneMore
<1>1. c.done \in Seq(Seq(Byte)) /\ c.cur \in Seq(Byte) /\ L \in Nat
  BY LenProperties DEF CutState
<1>2. d.cur = Append(c.cur, b) /\ d.done = c.done /\ d \in CutState
  BY <1>1, AppendProperties DEF CutState, Plus
<1> HIDE DEF d, K
<1>3. d.cur \in Seq(Byte) /\ Len(d.cur) = L + 1 /\ ~Empty(d.cur)
  <2>1. /\ Append(c.cur, b) \in Seq(Byte) /\ Len(Append(c.cur, b)) = L + 1
        /\ Append(c.cur, b) # <<>>
    BY <1>1, AppendProperties
  <2> QED
    BY <2>1, <1>2 DEF Empty
<1>4. ASSUME NEW i \in Nat \ {0}, NEW j \in Int, j <= L
      PROVE  /\ SubSeq(d.cur, i, j) = SubSeq(c.cur, i, j)
             /\ SubSeq(c.cur, i, j) \in Seq(Byte)
             /\ Len(SubSeq(c.cur, i, j)) = IF i <= j THEN j - i + 1 ELSE 0
  <2>1. /\ SubSeq(Append(c.cur, b), i, j) = SubSeq(c.cur, i, j)
        /\ SubSeq(c.cur, i, j) \in Seq(Byte)
        /\ Len(SubSeq(c.cur, i, j)) = IF i <= j THEN j - i + 1 ELSE 0
    BY <1>1, <1>4, PieceOfAppend
  <2> QED
    BY <2>1, <1>2
<1>5. ASSUME NEW i \in 1..L + 1 PROVE SubSeq(d.cur, i, L + 1) = Append(SubSeq(c.cur, i, L), b)
  BY <1>1, <1>2, <1>5, AppendPiece
<1>6. got \in Seq(Seq(Byte)) /\ line \in Seq(Byte) /\ Len(line) \in Nat
  <2>1. got \in Seq(Seq(Byte)) /\ line \in Seq(Byte)
    BY AtEnd
  <2> QED
    BY <2>1, LenProperties
<1>7. /\ Append(line, b) \in Seq(Byte) /\ ~Empty(Append(line, b)) /\ Len(Append(line, b)) = Len(line) + 1
  BY <1>6, AppendProperties DEF Empty
<1>8. CASE eoln
  <2>1. line = SubSeq(c.cur, 1, Least(room, L))
    BY <1>8 DEF At
  <2>2. CASE L < room
    <3>1. line = SubSeq(c.cur, 1, L) /\ Least(room, L + 1) = L + 1
      BY <2>1, <2>2, <1>1 DEF Least
    <3>2. Len(line) = L
      BY <3>1, <1>1, <1>4
    <3>3. SubSeq(d.cur, 1, L + 1) = Append(line, b)
      BY <3>1, <1>1, <1>5
    <3>4. K = Append(line, b) /\ Len(K) <= room
      BY <3>2, <2>2, <1>1, <1>7 DEF K, Kept
    <3>5. K = SubSeq(d.cur, 1, Least(room, Len(d.cur)))
      BY <3>1, <3>3, <3>4, <1>3
    <3>6. At(d, got, K, room, eoln)
      BY <3>5, <1>2, <1>8 DEF At
    <3> QED
      BY <3>4, <3>6, <1>2, <1>3, <1>7, <1>8
  <2>3. CASE L >= room
    <3>1. line = SubSeq(c.cur, 1, room) /\ Least(room, L + 1) = room
      BY <2>1, <2>3, <1>1 DEF Least
    <3>2. Len(line) = room /\ SubSeq(d.cur, 1, room) = line
      <4>1. room \in Int /\ room <= L /\ room >= 1
        BY <2>3, <1>1
      <4>2. /\ SubSeq(d.cur, 1, room) = SubSeq(c.cur, 1, room)
            /\ Len(SubSeq(c.cur, 1, room)) = IF 1 <= room THEN room - 1 + 1 ELSE 0
        BY <4>1, <1>4
      <4> QED
        BY <4>1, <4>2, <3>1
    <3>3. K = line /\ ~Empty(K)
      BY <3>2, EmptySeq DEF K, Kept, Empty
    <3>4. K = SubSeq(d.cur, 1, Least(room, Len(d.cur)))
      BY <3>1, <3>2, <3>3, <1>3
    <3>5. At(d, got, K, room, eoln)
      BY <3>4, <1>2, <1>8 DEF At
    <3> QED
      BY <3>2, <3>3, <3>5, <1>2, <1>3, <1>6, <1>8
  <2> QED
    BY <2>2, <2>3, <1>1
<1>9. CASE ~eoln
  <2>1. PICK m \in 0..L :
            /\ m * room <= L /\ L < m * room + room
            /\ got = c.done \o [k \in 1..m |-> SubSeq(c.cur, (k - 1) * room + 1, k * room)]
            /\ line = SubSeq(c.cur, m * room + 1, L)
    BY <1>9 DEF At
  <2> DEFINE Low(k) == (k - 1) * room + 1
             High(k) == k * room
             M == m * room
             P == [k \in 1..m |-> SubSeq(c.cur, Low(k), High(k))]
  <2>2. /\ m \in Nat /\ M \in Nat /\ m <= M /\ M <= L /\ L < M + room
        /\ Low(m + 1) = M + 1 /\ High(m + 1) = M + room
    BY <2>1, <1>1, Multiples
  <2>3. ASSUME NEW k \in 1..m PROVE Low(k) \in Nat \ {0} /\ High(k) \in Nat /\ High(k) <= M
    <3>1. m \in Nat
      BY <2>2
    <3>2. k * room \in Nat /\ (k - 1) * room \in Nat /\ k * room <= m * room
      BY <3>1, Multiples
    <3> QED
      BY <3>2
  <2>4. got = c.done \o P /\ line = SubSeq(c.cur, M + 1, L)
    BY <2>1
  <2>5. ASSUME NEW n \in 0..L + 1, NEW ls, NEW l,
               n * room <= L + 1, L + 1 < n * room + room,
               ls = c.done \o [k \in 1..n |-> SubSeq(d.cur, Low(k), High(k))],
               l = SubSeq(d.cur, n * room + 1, L + 1)
        PROVE  At(d, ls, l, room, eoln)
    BY <2>5, <1>2, <1>3, <1>9 DEF At
  <2>6. ASSUME NEW k \in 1..m
        PROVE  /\ SubSeq(d.cur, Low(k), High(k)) = SubSeq(c.cur, Low(k), High(k))
               /\ SubSeq(c.cur, Low(k), High(k)) \in Seq(Byte)
    <3> HIDE DEF Low, High, M
    <3>1. Low(k) \in Nat \ {0} /\ High(k) \in Int /\ High(k) <= L
      BY <2>2, <2>3, <1>1
    <3> QED
      BY <3>1, <1>4
  <2>13. (m + 1) * room = M + room
    BY <2>2, Multiples
  <2> HIDE DEF Low, High, M
  <2>7. P \in [1..m -> Seq(Byte)]
    BY <2>6
  <2>8. Len(line) = L - M
    <3>1. M + 1 \in Nat \ {0} /\ L \in Int
      BY <2>2, <1>1
    <3>2. Len(SubSeq(c.cur, M + 1, L)) = IF M + 1 <= L THEN L - (M + 1) + 1 ELSE 0
      BY <3>1, <1>4
    <3> QED
      BY <3>2, <2>2, <2>4, <1>1
  <2>9. K = Append(line, b) /\ Len(K) = L - M + 1 /\ Len(K) <= room
    BY <2>2, <2>8, <1>1, <1>7 DEF K, Kept
  <2>14. Len(K) = L - M + 1
    BY <2>9
  <2>15. L - M + 1 <= room /\ L - M + 1 \in Nat
    BY <2>2, <1>1
  <2>10. SubSeq(d.cur, M + 1, L + 1) = K
    <3>1. M + 1 \in 1..L + 1
      BY <2>2, <1>1
    <3> QED
      BY <3>1, <2>4, <2>9, <1>5
  <2>11. CASE Len(K) < room
    <3>1. [k \in 1..m |-> SubSeq(d.cur, Low(k), High(k))] = P
      BY <2>6
    <3>2. m \in 0..L + 1 /\ M <= L + 1 /\ L + 1 < M + room
      BY <2>2, <2>9, <2>11, <1>1
    <3>3. At(d, got, K, room, eoln)
      BY <3>1, <3>2, <2>4, <2>5, <2>10 DEF M
    <3> QED
      BY <3>3, <2>9, <2>11, <1>2, <1>3, <1>7, <1>9
  <2>12. CASE Len(K) = room
    <3> DEFINE R == [k \in 1..m + 1 |-> SubSeq(d.cur, Low(k), High(k))]
    <3>1. L + 1 = M + room
      <4>1. L \in Int /\ M \in Int /\ room \in Int
        BY <2>2, <1>1
      <4>2. L - M + 1 = room
        BY <2>14, <2>12
      <4> HIDE DEF L
      <4> QED
        BY <4>1, <4>2
    <3>2. ASSUME NEW k \in 1..m PROVE R[k] = P[k]
      <4>1. k \in 1..m + 1
        BY <2>2
      <4>2. R[k] = SubSeq(d.cur, Low(k), High(k)) /\ P[k] = SubSeq(c.cur, Low(k), High(k))
        BY <4>1
      <4> QED
        BY <4>2, <2>6
    <3>3. R[m + 1] = K
      <4>1. m + 1 \in 1..m + 1
        BY <2>2
      <4> QED
        BY <4>1, <3>1, <2>2, <2>10
    <3>4. R \in [1..m + 1 -> Seq(Byte)]
      <4>1. ASSUME NEW k \in 1..m + 1 PROVE R[k] \in Seq(Byte)
        <5>1. k \in 1..m \/ k = m + 1
          BY <2>2
        <5>2. K \in Seq(Byte)
          BY <2>9, <1>7
        <5> QED
          BY <5>1, <5>2, <3>2, <3>3, <2>7
      <4> QED
        BY <4>1
    <3>5. K \in Seq(Byte) /\ m \in Nat
      BY <2>2, <2>9, <1>7
    <3>6. P \in Seq(Seq(Byte))
      <4> HIDE DEF P
      <4> QED
        BY <2>7, <3>5, SeqIs
    <3>7. R = Append(P, K)
      <4> HIDE DEF P, R
      <4> QED
        BY <3>2, <3>3, <3>4, <3>5, <2>7, AppendIs
    <3>8. Append(got, K) = c.done \o R
      <4> HIDE DEF P, R
      <4>1. c.done \o Append(P, K) = Append(c.done \o P, K)
        BY <3>5, <3>6, <1>1, AppendLine
      <4> QED
        BY <4>1, <3>7, <2>4
    <3>9. m + 1 \in 0..L + 1 /\ M + room <= L + 1 /\ L + 1 < M + room + room
      BY <3>1, <2>2, <1>1
    <3>10. SubSeq(d.cur, M + room + 1, L + 1) = <<>>
      <4>1. M + room + 1 \in Int /\ L + 1 \in Int /\ L + 1 < M + room + 1
        BY <3>1, <2>2, <1>1
      <4> QED
        BY <4>1, SubSeqEmpty
    <3>11. At(d, Append(got, K), <<>>, room, eoln)
      BY <3>8, <3>9, <3>10, <2>5, <2>13
    <3> QED
      BY <3>5, <3>11, <2>9, <2>12, <1>2, <1>3, <1>7, <1>9
  <2> QED
    BY <2>14, <2>15, <2>11, <2>12
<1> QED
  BY <1>8, <1>9

OneByte(c, b, got, line, room, eoln) ==
    /\ Kept(line, b, room) \in Seq(Byte) /\ ~Empty(Kept(line, b, room))
    /\ Len(Kept(line, b, room)) <= room
    /\ b \in {CR, NUL} => At(CutByte(c, b, room, eoln), got, line, room, eoln)
    /\ b = LF => At(CutByte(c, b, room, eoln), Append(got, Kept(line, b, room)), <<>>, room, eoln)
    /\ b \notin {CR, NUL, LF} =>
          /\ ~eoln /\ Len(Kept(line, b, room)) = room =>
                At(CutByte(c, b, room, eoln), Append(got, Kept(line, b, room)), <<>>, room, eoln)
          /\ eoln \/ Len(Kept(line, b, room)) < room =>
                At(CutByte(c, b, room, eoln), got, Kept(line, b, room), room, eoln)

\* One byte of the text, cut and held.
LEMMA AtByte ==
    \A c, b, got, line, room, eoln :
       At(c, got, line, room, eoln) /\ c \in CutState /\ b \in Byte /\ room \in Nat \ {0} /\ eoln \in BOOLEAN =>
           OneByte(c, b, got, line, room, eoln)
<1> SUFFICES ASSUME NEW c \in CutState, NEW b \in Byte, NEW got, NEW line, NEW room \in Nat \ {0},
           NEW eoln \in BOOLEAN, At(c, got, line, room, eoln)
    PROVE  OneByte(c, b, got, line, room, eoln)
  OBVIOUS
<1> DEFINE d == CutByte(c, b, room, eoln)
           e == Plus(c, b)
           K == Kept(line, b, room)
<1> SUFFICES /\ K \in Seq(Byte) /\ ~Empty(K) /\ Len(K) <= room
             /\ b \in {CR, NUL} => At(d, got, line, room, eoln)
             /\ b = LF => At(d, Append(got, K), <<>>, room, eoln)
             /\ b \notin {CR, NUL, LF} =>
                     /\ ~eoln /\ Len(K) = room => At(d, Append(got, K), <<>>, room, eoln)
                     /\ eoln \/ Len(K) < room => At(d, got, K, room, eoln)
  BY DEF OneByte
<1>5. e.cur = Append(c.cur, b)
  BY DEF CutState, Plus
<1> HIDE DEF e, K
<1>1. /\ e \in CutState /\ e.done = c.done /\ ~Empty(e.cur)
      /\ K \in Seq(Byte) /\ ~Empty(K) /\ Len(K) <= room
      /\ ~eoln /\ Len(K) = room => At(e, Append(got, K), <<>>, room, eoln)
      /\ eoln \/ Len(K) < room => At(e, got, K, room, eoln)
  BY AtMore DEF e, K, OneMore
<1>0. CR # LF /\ NUL # LF /\ CR # NUL
  BY DEF CR, NUL, LF
<1>2. b \in {CR, NUL} => d = c
  BY <1>0 DEF CutByte
<1>3. b \notin {CR, NUL, LF} => d = e
  BY <1>0 DEF CutByte, Plus, e
<1>6. b = LF => d = [done |-> c.done \o Pieces(e.cur, room, eoln), cur |-> <<>>]
  BY <1>0, <1>5 DEF CutByte
<1>4. c.done \in Seq(Seq(Byte))
  BY DEF CutState
<1>7. got \in Seq(Seq(Byte))
  BY AtEnd
<1> HIDE DEF d
<1>8. Append(got, K) \in Seq(Seq(Byte)) /\ Append(got, K) = got \o <<K>>
  BY <1>1, <1>7, AppendProperties, AppendIsConcat
<1>9. Len(K) \in Nat
  BY <1>1, LenProperties
<1>10. c.done \o Pieces(e.cur, room, eoln) = Append(got, K)
  <2>1. AllOf(e, room, eoln) = Append(got, K)
    <3>1. CASE ~eoln /\ Len(K) = room
      <4>1. At(e, Append(got, K), <<>>, room, eoln)
        BY <1>1, <3>1
      <4>2. AllOf(e, room, eoln) = WithHeld(Append(got, K), <<>>)
        BY <4>1, <1>1, AtEnd
      <4> QED
        BY <4>2, <1>8, ConcatEmptySeq DEF WithHeld
    <3>2. CASE eoln \/ Len(K) < room
      <4>1. At(e, got, K, room, eoln)
        BY <1>1, <3>2
      <4>2. AllOf(e, room, eoln) = WithHeld(got, K)
        BY <4>1, <1>1, AtEnd
      <4> QED
        BY <4>2, <1>1, <1>8 DEF WithHeld, Empty
    <3>3. (~eoln /\ Len(K) = room) \/ eoln \/ Len(K) < room
      BY <1>1, <1>9
    <3> QED
      BY <3>1, <3>2, <3>3
  <2> QED
    BY <2>1, <1>1 DEF AllOf, Empty
<1>11. At([done |-> Append(got, K), cur |-> <<>>], Append(got, K), <<>>, room, eoln)
  BY <1>8, AtLineEnd
<1> QED
  BY <1>1, <1>2, <1>3, <1>6, <1>10, <1>11

\* What comes first is a prefix.
LEMMA PrefixOf ==
    ASSUME NEW a \in Seq(Seq(Byte)), NEW b \in Seq(Seq(Byte))
    PROVE  IsPrefix(a, a \o b)
<1> DEFINE s == a \o b
<1>1. /\ Len(a) \in Nat /\ Len(b) \in Nat /\ s \in Seq(Seq(Byte)) /\ Len(s) = Len(a) + Len(b)
      /\ \A i \in 1..Len(a) : s[i] = a[i]
  <2>1. Len(a) \in Nat /\ Len(b) \in Nat
    BY LenProperties
  <2>2. /\ s \in Seq(Seq(Byte)) /\ Len(s) = Len(a) + Len(b)
        /\ \A i \in 1..Len(a) + Len(b) : s[i] = IF i <= Len(a) THEN a[i] ELSE b[i - Len(a)]
    BY ConcatProperties
  <2> HIDE DEF s
  <2> QED
    BY <2>1, <2>2
<1> HIDE DEF s
<1>2. \A i \in 1..Len(a) : a[i] \in Seq(Byte) /\ s[i] \in Seq(Byte)
  BY <1>1, ElementOfSeq
<1>3. /\ SubSeq(a, 1, Len(a)) \in Seq(Seq(Byte)) /\ Len(SubSeq(a, 1, Len(a))) = Len(a)
      /\ \A i \in 1..Len(a) : SubSeq(a, 1, Len(a))[i] = a[i]
  <2>1. SubSeq(a, 1, Len(a)) = a
    BY SubSeqFull
  <2> QED
    BY <2>1
<1>4. /\ SubSeq(s, 1, Len(a)) \in Seq(Seq(Byte)) /\ Len(SubSeq(s, 1, Len(a))) = Len(a)
      /\ \A i \in 1..Len(a) : SubSeq(s, 1, Len(a))[i] = s[i]
  <2>1. /\ SubSeq(s, 1, Len(a)) \in Seq(Seq(Byte))
        /\ Len(SubSeq(s, 1, Len(a))) = IF 1 <= Len(a) THEN Len(a) - 1 + 1 ELSE 0
        /\ \A i \in 1 .. Len(a) - 1 + 1 : SubSeq(s, 1, Len(a))[i] = s[1 + i - 1]
    BY <1>1, <1>2, SubSeqProperties
  <2> QED
    BY <2>1, <1>1
<1>5. SubSeq(a, 1, Len(a)) = SubSeq(s, 1, Len(a))
  BY <1>1, <1>3, <1>4, SeqEqual
<1> QED
  BY <1>1, <1>5 DEF IsPrefix, s

\* A reader on a text of at least one byte for a line.
Reader == [pc : {"idle", "fill", "next", "end", "scan", "line"}, sent : Seq(Byte), coming : Seq(Byte), buf : Seq(Byte),
           dst : Seq(Byte), used : Nat, illegals : Nat, room : Nat \ {0}, requireEOLN : BOOLEAN,
           lines : Seq(Seq(Byte)), lost : BOOLEAN]

\* The reader has returned got and holds line after p bytes of the text.
Holds(s, p, got, line) ==
    At(Cut(s.sent, s.room, s.requireEOLN)[p], got, line, s.room, s.requireEOLN)

CutAt(s, p) == Cut(s.sent, s.room, s.requireEOLN)[p]

Keep(s, p, line) == Kept(line, s.sent[p + 1], s.room)

\* What the byte at place p + 1 does to a reader.
LEMMA HoldsByte ==
    \A s, p, got, line :
       Holds(s, p, got, line) /\ s \in Reader /\ p \in 0..Len(s.sent) - 1 =>
           /\ got \in Seq(Seq(Byte)) /\ line \in Seq(Byte) /\ (~s.requireEOLN => Len(line) < s.room)
           /\ Keep(s, p, line) \in Seq(Byte) /\ ~Empty(Keep(s, p, line)) /\ Len(Keep(s, p, line)) <= s.room
           /\ s.sent[p + 1] \in {CR, NUL} => Holds(s, p + 1, got, line)
           /\ s.sent[p + 1] = LF => Holds(s, p + 1, Append(got, Keep(s, p, line)), <<>>)
           /\ s.sent[p + 1] \notin {CR, NUL, LF} =>
                 /\ ~s.requireEOLN /\ Len(Keep(s, p, line)) = s.room =>
                       Holds(s, p + 1, Append(got, Keep(s, p, line)), <<>>)
                 /\ s.requireEOLN \/ Len(Keep(s, p, line)) < s.room =>
                       Holds(s, p + 1, got, Keep(s, p, line))
<1> TAKE s, p, got, line
<1> HAVE Holds(s, p, got, line) /\ s \in Reader /\ p \in 0..Len(s.sent) - 1
<1> DEFINE b == s.sent[p + 1]  c == CutAt(s, p)
<1>1. s.sent \in Seq(Byte) /\ s.room \in Nat \ {0} /\ s.requireEOLN \in BOOLEAN /\ Len(s.sent) \in Nat
  BY LenProperties DEF Reader
<1>2. p \in 0..Len(s.sent) /\ p + 1 \in 1..Len(s.sent) /\ (p + 1) - 1 = p
  BY <1>1
<1>3. c \in CutState
  BY <1>1, <1>2, CutTypes DEF CutAt
<1>4. CutAt(s, p + 1) = CutByte(c, b, s.room, s.requireEOLN)
  BY <1>1, <1>2, CutRecursion DEF CutAt
<1>5. b \in Byte
  BY <1>1, <1>2, ElementOfSeq
<1> HIDE DEF b, c
<1>6. At(c, got, line, s.room, s.requireEOLN)
  BY DEF Holds, c, CutAt
<1>7. got \in Seq(Seq(Byte)) /\ line \in Seq(Byte) /\ (~s.requireEOLN => Len(line) < s.room)
  BY <1>1, <1>3, <1>6, AtEnd
<1>8. \A ls, l : Holds(s, p + 1, ls, l) <=> At(CutByte(c, b, s.room, s.requireEOLN), ls, l, s.room, s.requireEOLN)
  BY <1>4 DEF Holds, CutAt
<1> DEFINE K == Kept(line, b, s.room)  d == CutByte(c, b, s.room, s.requireEOLN)
<1>9. /\ K \in Seq(Byte) /\ ~Empty(K) /\ Len(K) <= s.room
      /\ b \in {CR, NUL} => At(d, got, line, s.room, s.requireEOLN)
      /\ b = LF => At(d, Append(got, K), <<>>, s.room, s.requireEOLN)
      /\ b \notin {CR, NUL, LF} =>
            /\ ~s.requireEOLN /\ Len(K) = s.room => At(d, Append(got, K), <<>>, s.room, s.requireEOLN)
            /\ s.requireEOLN \/ Len(K) < s.room => At(d, got, K, s.room, s.requireEOLN)
  BY <1>1, <1>3, <1>5, <1>6, AtByte DEF OneByte
<1>10. Keep(s, p, line) = K
  BY DEF Keep, b
<1> HIDE DEF K
<1> QED
  BY <1>7, <1>8, <1>9, <1>10 DEF b

\* At the end of the text the lines returned and the one held are the lines of the text.
LEMMA HoldsEnd ==
    \A s, got, line :
       Holds(s, Len(s.sent), got, line) /\ s \in Reader =>
           /\ got \in Seq(Seq(Byte)) /\ line \in Seq(Byte)
           /\ Empty(line) /\ s.requireEOLN => Empty(LastLine(s))
           /\ LinesOf(s) = WithHeld(got, line)
<1> SUFFICES ASSUME NEW s \in Reader, NEW got, NEW line, Holds(s, Len(s.sent), got, line)
    PROVE  /\ got \in Seq(Seq(Byte)) /\ line \in Seq(Byte)
           /\ Empty(line) /\ s.requireEOLN => Empty(LastLine(s))
           /\ LinesOf(s) = WithHeld(got, line)
  OBVIOUS
<1> DEFINE c == CutAt(s, Len(s.sent))
<1>1. s.sent \in Seq(Byte) /\ s.room \in Nat \ {0} /\ s.requireEOLN \in BOOLEAN /\ Len(s.sent) \in Nat
  BY LenProperties DEF Reader
<1>2. c \in CutState
  BY <1>1, CutTypes DEF CutAt
<1>3. At(c, got, line, s.room, s.requireEOLN)
  BY DEF Holds, CutAt
<1>4. LastLine(s) = c.cur
  BY DEF LastLine, CutAt
<1>5. LinesOf(s) = AllOf(c, s.room, s.requireEOLN)
  BY <1>4 DEF LinesOf, CutAt, AllOf
<1> HIDE DEF c
<1>6. /\ got \in Seq(Seq(Byte)) /\ line \in Seq(Byte)
      /\ Empty(line) /\ s.requireEOLN => Empty(c.cur)
      /\ AllOf(c, s.room, s.requireEOLN) = WithHeld(got, line)
  BY <1>1, <1>2, <1>3, AtEnd
<1> QED
  BY <1>4, <1>5, <1>6

\* The lines returned so far are the first lines of the text.
LEMMA HoldsPrefix ==
    \A s, p, got, line :
       Holds(s, p, got, line) /\ s \in Reader /\ p \in 0..Len(s.sent) =>
           IsPrefix(got, LinesOf(s))
<1> SUFFICES ASSUME NEW s \in Reader, NEW p \in 0..Len(s.sent), NEW got, NEW line, Holds(s, p, got, line)
    PROVE  IsPrefix(got, LinesOf(s))
  OBVIOUS
<1> DEFINE N == Len(s.sent)
           Goes(n) == \E more \in Seq(Seq(Byte)) : \E l : Holds(s, p + n, got \o more, l)
           T == {n \in 0..N - p : ~Goes(n)}
<1>1. s.sent \in Seq(Byte) /\ s.room \in Nat \ {0} /\ s.requireEOLN \in BOOLEAN /\ N \in Nat
  BY LenProperties DEF Reader
<1>2. got \in Seq(Seq(Byte)) /\ <<>> \in Seq(Seq(Byte)) /\ got \o <<>> = got
  <2>1. CutAt(s, p) \in CutState
    BY <1>1, CutTypes DEF CutAt
  <2>3. At(CutAt(s, p), got, line, s.room, s.requireEOLN)
    BY DEF Holds, CutAt
  <2>2. got \in Seq(Seq(Byte))
    BY <2>1, <2>3, <1>1, AtEnd
  <2> QED
    BY <2>2, ConcatEmptySeq, EmptySeq
<1>3. Goes(0)
  <2>1. p + 0 = p
    BY <1>1
  <2> QED
    BY <2>1, <1>2
<1>4. ASSUME NEW n \in 1..N - p, Goes(n - 1) PROVE Goes(n)
  <2>0. PICK more \in Seq(Seq(Byte)) : \E l : Holds(s, p + (n - 1), got \o more, l)
    BY <1>4
  <2>1. PICK l : Holds(s, p + (n - 1), got \o more, l)
    BY <2>0
  <2> DEFINE q == p + (n - 1)  K == Keep(s, q, l)
  <2>2. q \in 0..Len(s.sent) - 1 /\ q + 1 = p + n
    BY <1>1
  <2> HIDE DEF q
  <2>3. /\ K \in Seq(Byte) /\ got \o more \in Seq(Seq(Byte))
        /\ \/ Holds(s, q + 1, got \o more, l)
           \/ Holds(s, q + 1, Append(got \o more, K), <<>>)
           \/ Holds(s, q + 1, got \o more, K)
    <3>1. Holds(s, q, got \o more, l)
      BY <2>1 DEF q
    <3>3. got \o more \in Seq(Seq(Byte))
      BY <1>2, ConcatProperties
    <3>2. Len(K) \in Nat /\ K \in Seq(Byte) /\ Len(K) <= s.room
      <4>1. K \in Seq(Byte) /\ Len(K) <= s.room
        BY <2>2, <3>1, HoldsByte
      <4> HIDE DEF K
      <4> QED
        BY <4>1, LenProperties
    <3> DEFINE b == s.sent[q + 1]  ls == got \o more
    <3> HIDE DEF ls, K
    <3>4. /\ b \in {CR, NUL} => Holds(s, q + 1, ls, l)
          /\ b = LF => Holds(s, q + 1, Append(ls, K), <<>>)
          /\ b \notin {CR, NUL, LF} =>
                /\ ~s.requireEOLN /\ Len(K) = s.room => Holds(s, q + 1, Append(ls, K), <<>>)
                /\ s.requireEOLN \/ Len(K) < s.room => Holds(s, q + 1, ls, K)
      BY <2>2, <3>1, HoldsByte DEF K, ls
    <3> HIDE DEF b
    <3> QED
      BY <3>2, <3>3, <3>4, <1>1 DEF ls
  <2> HIDE DEF K
  <2>4. Append(more, K) \in Seq(Seq(Byte))
    BY <2>3, AppendProperties
  <2>5. Append(got \o more, K) = got \o Append(more, K)
    BY <2>3, <1>2, AppendLine
  <2> QED
    BY <2>2, <2>3, <2>4, <2>5
<1> HIDE DEF Goes
<1>5. T = {}
  <2>1. T \subseteq 0..N - p /\ N - p \in Nat
    BY <1>1
  <2>2. 0 \notin T
    BY <1>3
  <2>3. ASSUME NEW x \in 1..N - p, x \in T, x - 1 \in 0..N - p, x - 1 \notin T PROVE FALSE
    BY <2>3, <1>4
  <2> HIDE DEF T
  <2> QED
    BY <2>1, <2>2, <2>3, FirstBreak
<1>6. Goes(N - p)
  BY <1>1, <1>5
<1>7. PICK more \in Seq(Seq(Byte)) : \E l : Holds(s, N, got \o more, l)
  <2>1. p + (N - p) = N
    BY <1>1
  <2> QED
    BY <2>1, <1>6 DEF Goes
<1>13. PICK l : Holds(s, N, got \o more, l)
  BY <1>7
<1> DEFINE rest == IF l = <<>> THEN <<>> ELSE <<l>>
<1>8. l \in Seq(Byte) /\ LinesOf(s) = WithHeld(got \o more, l)
  BY <1>13, HoldsEnd
<1>9. rest \in Seq(Seq(Byte))
  BY <1>8, <1>2
<1>12. LinesOf(s) = (got \o more) \o rest
  BY <1>8 DEF WithHeld
<1> HIDE DEF rest
<1>10. (got \o more) \o rest = got \o (more \o rest)
  BY <1>2, <1>9, JoinLines
<1>11. more \o rest \in Seq(Seq(Byte))
  BY <1>9, ConcatProperties
<1> QED
  BY <1>2, <1>10, <1>11, <1>12, PrefixOf

\* What the reader holds is less than its buffer takes, where no line end is required.
HoldsType ==
    \A s, p, got, line :
       Holds(s, p, got, line) /\ s \in Reader /\ p \in 0..Len(s.sent) =>
          /\ got \in Seq(Seq(Byte)) /\ line \in Seq(Byte)
          /\ ~s.requireEOLN => Len(line) < s.room

\* By what it holds of the cut.
LEMMA HoldsTypes == HoldsType
<1> SUFFICES ASSUME NEW s \in Reader, NEW p \in 0..Len(s.sent), NEW got, NEW line, Holds(s, p, got, line)
             PROVE  /\ got \in Seq(Seq(Byte)) /\ line \in Seq(Byte)
                    /\ ~s.requireEOLN => Len(line) < s.room
  BY DEF HoldsType
<1>1. s.sent \in Seq(Byte) /\ s.room \in Nat \ {0} /\ s.requireEOLN \in BOOLEAN
  BY DEF Reader
<1>2. CutAt(s, p) \in CutState
  BY <1>1, CutTypes DEF CutAt
<1>3. At(CutAt(s, p), got, line, s.room, s.requireEOLN)
  BY DEF Holds, CutAt
<1> QED
  BY <1>1, <1>2, <1>3, AtEnd

\* Of two illegal bytes that come one after the other a line ends in between.
LEMMA TidyOnce ==
    ASSUME NEW s \in Reader, Tidy(s), NEW i \in Illegal(s.sent), NEW q \in Nat, i <= q,
           q + 1 \in Illegal(s.sent), ~EndsIn(s.sent, i, q)
    PROVE  FALSE
<1>1. i \in Nat /\ i < q + 1
  BY DEF Illegal
<1>2. PICK k \in i..(q + 1) : s.sent[k] = LF
  BY <1>1 DEF Tidy, EndsIn
<1>3. s.sent[q + 1] # LF
  BY DEF Illegal, CR, NUL, LF
<1>4. k \in i..q
  BY <1>1, <1>2, <1>3
<1> QED
  BY <1>2, <1>4 DEF EndsIn

\* The bytes of the text before the buffer, and the bytes on either side of it.
Place(s) == Len(s.sent) - Len(s.coming) - Len(s.buf)
StreamKept(s) ==
    /\ s \in Reader /\ Place(s) \in 0..Len(s.sent)
    /\ \A i \in 1..Len(s.buf) : s.buf[i] = s.sent[Place(s) + i]
    /\ \A i \in 1..Len(s.coming) : s.coming[i] = s.sent[Place(s) + Len(s.buf) + i]

\* One byte at most was counted as illegal, and it is on the line that the first q bytes
\* end in.
SeenIllegal(s, q) ==
    /\ s.illegals <= 1
    /\ s.illegals > 0 => \E i \in Illegal(s.sent) : i <= q /\ ~EndsIn(s.sent, i, q)

\* It stays so with a byte that ends no line.
LEMMA SeenOn ==
    ASSUME NEW s, NEW a, a.sent = s.sent, a.illegals = s.illegals, NEW q \in Nat, SeenIllegal(s, q),
           s.sent[q + 1] # LF
    PROVE  SeenIllegal(a, q + 1)
<1>1. ASSUME NEW i \in Illegal(s.sent), i <= q, ~EndsIn(s.sent, i, q)
      PROVE  i <= q + 1 /\ ~EndsIn(s.sent, i, q + 1)
  <2>1. i \in Nat
    BY DEF Illegal
  <2>2. \A k \in i..(q + 1) : k \in i..q \/ k = q + 1
    BY <2>1
  <2> QED
    BY <1>1, <2>1, <2>2 DEF EndsIn
<1> QED
  BY <1>1 DEF SeenIllegal

\* A buffer is scanned byte by byte.
LEMMA ScanRecursion ==
    ASSUME NEW s \in Reader
    PROVE  \E f : /\ f[0] = [s EXCEPT !.pc = "scan"]
                  /\ \A k \in 1..Len(s.buf) : f[k] = ScanByte(f[k - 1], k)
                  /\ Scanned(s) = f[Len(s.buf)]
<1> DEFINE base == [s EXCEPT !.pc = "scan"]
           N == Len(s.buf)
           T == {n \in 0..N : ~\E g : g = [k \in 0..n |-> IF k = 0 THEN base ELSE ScanByte(g[k - 1], k)]}
           after == CHOOSE g : g = [k \in 0..N |-> IF k = 0 THEN base ELSE ScanByte(g[k - 1], k)]
<1>1. N \in Nat
  BY LenProperties DEF Reader
<1>2. Scanned(s) = after[N]
  BY DEF Scanned
<1> HIDE DEF base, N
<1>3. T = {}
  <2> SUFFICES ASSUME T # {} PROVE FALSE
    OBVIOUS
  <2>1. CASE 0 \in T
    <3>1. [k \in 0..0 |-> base] = [k \in 0..0 |-> IF k = 0 THEN base ELSE ScanByte([j \in 0..0 |-> base][k - 1], k)]
      OBVIOUS
    <3> QED
      BY <3>1, <2>1
  <2>2. ASSUME NEW x \in 1..N, x \in T, x - 1 \in 0..N, x - 1 \notin T PROVE FALSE
    <3>1. PICK g : g = [k \in 0..(x - 1) |-> IF k = 0 THEN base ELSE ScanByte(g[k - 1], k)]
      BY <2>2
    <3> DEFINE h == [k \in 0..x |-> IF k = x THEN ScanByte(g[x - 1], x) ELSE g[k]]
               R == [k \in 0..x |-> IF k = 0 THEN base ELSE ScanByte(h[k - 1], k)]
    <3>2. ASSUME NEW k \in 0..x PROVE h[k] = R[k]
      <4>1. CASE k = 0
        BY <4>1, <3>1, <1>1
      <4>2. CASE k = x
        <5>1. k - 1 \in 0..x /\ k - 1 # x /\ k # 0
          BY <4>2, <1>1
        <5> QED
          BY <5>1, <4>2
      <4>3. CASE k # 0 /\ k # x
        <5>1. k \in 0..(x - 1) /\ k - 1 \in 0..x /\ k - 1 # x
          BY <4>3, <1>1
        <5>2. g[k] = ScanByte(g[k - 1], k)
          BY <3>1, <5>1, <4>3
        <5> QED
          BY <5>1, <5>2, <4>3
      <4> QED
        BY <4>1, <4>2, <4>3
    <3>3. h = R
      BY <3>2
    <3> HIDE DEF h
    <3>4. \E f : f = [k \in 0..x |-> IF k = 0 THEN base ELSE ScanByte(f[k - 1], k)]
      BY <3>3
    <3> QED
      BY <3>4, <2>2
  <2>3. T \subseteq 0..N
    OBVIOUS
  <2> HIDE DEF T
  <2> QED
    BY <2>1, <2>2, <2>3, <1>1, FirstBreak
<1>4. \E g : g = [k \in 0..N |-> IF k = 0 THEN base ELSE ScanByte(g[k - 1], k)]
  BY <1>1, <1>3
<1>5. after = [k \in 0..N |-> IF k = 0 THEN base ELSE ScanByte(after[k - 1], k)]
  BY <1>4
<1> HIDE DEF after
<1>6. /\ after[0] = base
      /\ \A k \in 1..N : after[k] = ScanByte(after[k - 1], k)
  BY <1>5, <1>1
<1> QED
  BY <1>6, <1>2 DEF base, N

\* The scan a of the first k bytes of the buffer of s.
LineDone(s, a) == a.pc = "line" \/ (~s.requireEOLN /\ Len(a.dst) >= s.room)
SameReader(s, a) ==
    /\ a.sent = s.sent /\ a.coming = s.coming /\ a.buf = s.buf /\ a.lines = s.lines
    /\ a.room = s.room /\ a.requireEOLN = s.requireEOLN /\ a.lost = s.lost
ScanOk(s, a, k) ==
    /\ a \in Reader /\ a.pc \in {"scan", "line"} /\ SameReader(s, a)
    /\ a.used \in 0..k /\ (a.pc = "scan" => a.used = k)
    /\ LineDone(s, a) => ~Empty(a.dst) /\ Holds(s, Place(s) + a.used, Append(s.lines, a.dst), <<>>)
    /\ ~LineDone(s, a) => Holds(s, Place(s) + a.used, s.lines, a.dst)
    /\ a.illegals <= 1
    /\ ~LineDone(s, a) => SeenIllegal(a, Place(s) + a.used)

\* Before the first byte of a buffer the reader is where it was.
LEMMA ScanStarts ==
    ASSUME NEW s, StreamKept(s), s.used = 0, Holds(s, Place(s), s.lines, s.dst), SeenIllegal(s, Place(s))
    PROVE  ScanOk(s, [s EXCEPT !.pc = "scan"], 0)
<1> DEFINE a == [s EXCEPT !.pc = "scan"]
<1>1. s \in Reader /\ Place(s) \in 0..Len(s.sent) /\ s.dst \in Seq(Byte) /\ s.room \in Nat \ {0} /\ Len(s.dst) \in Nat
  BY LenProperties DEF StreamKept, Reader
<1>2. /\ a \in Reader /\ a.pc = "scan" /\ SameReader(s, a) /\ a.used = 0 /\ a.dst = s.dst
      /\ a.illegals = s.illegals /\ a.sent = s.sent
  BY <1>1 DEF Reader, SameReader
<1>3. ~s.requireEOLN => Len(s.dst) < s.room
  BY <1>1, HoldsTypes DEF HoldsType
<1> HIDE DEF a
<1>4. ~LineDone(s, a)
  BY <1>1, <1>2, <1>3 DEF LineDone
<1>5. Place(s) + 0 = Place(s)
  BY <1>1 DEF Reader
<1>6. ScanOk(s, a, 0)
  BY <1>2, <1>4, <1>5 DEF ScanOk, SeenIllegal
<1> QED
  BY <1>6 DEF a

\* Each byte of the buffer keeps the reader where Cut is (SReadline.c, the loop over the bytes).
LEMMA ScanGoesOn ==
    ASSUME NEW s, StreamKept(s), Tidy(s), NEW k \in 1..Len(s.buf), NEW a, ScanOk(s, a, k - 1)
    PROVE  ScanOk(s, ScanByte(a, k), k)
<1> DEFINE r == ScanByte(a, k)  p == Place(s)
<1>1. /\ s \in Reader /\ p \in 0..Len(s.sent) /\ s.room \in Nat \ {0} /\ s.requireEOLN \in BOOLEAN
      /\ Len(s.buf) \in Nat /\ Len(s.coming) \in Nat /\ Len(s.sent) \in Nat
      /\ p = Len(s.sent) - Len(s.coming) - Len(s.buf)
      /\ s.lines \in Seq(Seq(Byte))
  BY LenProperties DEF StreamKept, Reader, Place
<1>2. /\ a \in Reader /\ a.pc \in {"scan", "line"} /\ SameReader(s, a)
      /\ a.used \in 0..k-1 /\ (a.pc = "scan" => a.used = k-1)
      /\ LineDone(s, a) => ~Empty(a.dst) /\ Holds(s, p + a.used, Append(s.lines, a.dst), <<>>)
      /\ ~LineDone(s, a) => Holds(s, p + a.used, s.lines, a.dst)
      /\ a.illegals <= 1 /\ (~LineDone(s, a) => SeenIllegal(a, p + a.used))
  BY DEF ScanOk
<1> DEFINE B == Len(s.buf)  S == Len(s.sent)
<1>6. B \in Nat /\ S \in Nat /\ p \in Nat /\ p + B <= S /\ k \in 1..B
  <2> DEFINE C == Len(s.coming)
  <2>1. B \in Nat /\ S \in Nat /\ C \in Nat /\ p \in 0..S /\ p = S - C - B /\ k \in 1..B
    BY <1>1
  <2> HIDE DEF B, S, C, p
  <2> QED
    BY <2>1
<1> HIDE DEF p
<1>3. CASE a.pc = "line"
  <2>1. r = a
    BY <1>3 DEF ScanByte
  <2>2. a.used \in 0..k
    BY <1>1, <1>2
  <2>3. ScanOk(s, a, k)
    BY <1>2, <1>3, <2>2 DEF ScanOk, p
  <2> QED
    BY <2>1, <2>3
<1>4. CASE a.pc = "scan" /\ ~s.requireEOLN /\ Len(a.dst) >= s.room
  <2>1. r = [a EXCEPT !.pc = "line"]
    BY <1>2, <1>4 DEF ScanByte, SameReader
  <2>2. /\ r \in Reader /\ r.pc = "line" /\ SameReader(s, r) /\ r.used = a.used /\ r.dst = a.dst
        /\ r.illegals = a.illegals /\ r.sent = a.sent
    BY <1>2, <2>1 DEF Reader, SameReader
  <2>3. LineDone(s, a) /\ LineDone(s, r)
    BY <1>4, <2>2 DEF LineDone
  <2>4. a.used \in 0..k
    BY <1>1, <1>2
  <2> HIDE DEF r
  <2>5. ScanOk(s, r, k)
    BY <1>2, <2>2, <2>3, <2>4 DEF ScanOk, p
  <2> QED
    BY <2>5 DEF r
<1>5. CASE a.pc = "scan" /\ ~(~s.requireEOLN /\ Len(a.dst) >= s.room)
  <2> DEFINE q == p + (k - 1)  b == a.buf[k]  K == Keep(s, q, a.dst)
  <2>1. /\ q \in 0..Len(s.sent) - 1 /\ q + 1 = p + k /\ q + 1 \in 1..Len(s.sent) /\ q + 1 \in Nat /\ p \in Nat
    <3> HIDE DEF B, S
    <3>1. q \in 0..S - 1 /\ q + 1 = p + k /\ q + 1 \in 1..S /\ q + 1 \in Nat /\ p \in Nat
      BY <1>6
    <3> QED
      BY <3>1 DEF S
  <2>2. b = s.sent[q + 1]
    BY <1>1, <1>2, <2>1 DEF SameReader, StreamKept, p
  <2>3. Holds(s, q, s.lines, a.dst) /\ SeenIllegal(a, q)
    BY <1>2, <1>5 DEF LineDone
  <2> HIDE DEF q
  <2>4. /\ K \in Seq(Byte) /\ ~Empty(K) /\ Len(K) <= s.room
        /\ b \in {CR, NUL} => Holds(s, q + 1, s.lines, a.dst)
        /\ b = LF => Holds(s, q + 1, Append(s.lines, K), <<>>)
        /\ b \notin {CR, NUL, LF} =>
              /\ ~s.requireEOLN /\ Len(K) = s.room => Holds(s, q + 1, Append(s.lines, K), <<>>)
              /\ s.requireEOLN \/ Len(K) < s.room => Holds(s, q + 1, s.lines, K)
    BY <1>1, <2>1, <2>2, <2>3, HoldsByte
  <2>5. K = IF Len(a.dst) < a.room THEN Append(a.dst, b) ELSE a.dst
    BY <1>2, <2>2 DEF Keep, Kept, SameReader
  <2> HIDE DEF K
  <2>6. CR # LF /\ NUL # LF /\ CR # NUL
    BY DEF CR, NUL, LF
  <2>7. /\ a.used = k - 1 /\ a.illegals \in Nat /\ a.sent = s.sent /\ k \in Nat /\ k \in 0..k
        /\ a.dst \in Seq(Byte) /\ Len(a.dst) \in Nat /\ Len(K) \in Nat
    BY <1>1, <1>2, <1>5, <2>4, LenProperties DEF Reader, SameReader
  <2>8. ASSUME q + 1 \in Illegal(s.sent) PROVE a.illegals = 0
    <3>1. ASSUME NEW i \in Illegal(s.sent), i <= q, ~EndsIn(s.sent, i, q) PROVE FALSE
      BY <1>1, <2>1, <2>8, <3>1, TidyOnce
    <3> QED
      BY <2>3, <2>7, <3>1 DEF SeenIllegal
  <2>9. ASSUME b = NUL \/ (b = CR /\ k < Len(a.buf) /\ a.buf[k + 1] # LF)
        PROVE  q + 1 \in Illegal(s.sent)
    <3>1. CASE b = NUL
      BY <2>1, <2>2, <3>1 DEF Illegal
    <3>2. CASE b = CR /\ k < Len(a.buf) /\ a.buf[k + 1] # LF
      <4>1. a.buf = s.buf
        BY <1>2 DEF SameReader
      <4>2. k + 1 \in 1..Len(s.buf)
        BY <3>2, <4>1, <1>1
      <4>3. a.buf[k + 1] = s.sent[p + (k + 1)] /\ p + (k + 1) = (q + 1) + 1 /\ q + 1 < Len(s.sent)
        <5>1. a.buf[k + 1] = s.sent[p + (k + 1)]
          BY <4>1, <4>2 DEF StreamKept, p
        <5>2. p + (k + 1) = (q + 1) + 1 /\ q + 1 < S
          <6> HIDE DEF B, S
          <6>1. k + 1 \in 1..B
            BY <4>2 DEF B
          <6> QED
            BY <2>1, <6>1, <1>6
        <5> QED
          BY <5>1, <5>2
      <4> QED
        BY <2>1, <2>2, <3>2, <4>3 DEF Illegal
    <3> QED
      BY <2>9, <3>1, <3>2
  <2>10. CASE b \in {CR, NUL}
    <3> DEFINE n == IF b = NUL \/ (b = CR /\ k < Len(a.buf) /\ a.buf[k + 1] # LF) THEN 1 ELSE 0
           m == a.illegals + n
    <3>1. r = [a EXCEPT !.used = k, !.illegals = m]
      BY <1>2, <1>5, <2>6, <2>10 DEF ScanByte, SameReader
    <3>2. n \in {0, 1} /\ (n = 1 => q + 1 \in Illegal(s.sent) /\ a.illegals = 0)
      BY <2>8, <2>9
    <3> HIDE DEF n
    <3>7. m \in Nat
      BY <2>7, <3>2
    <3> HIDE DEF m
    <3>3. /\ r \in Reader /\ r.pc = "scan" /\ SameReader(s, r) /\ r.used = k /\ r.dst = a.dst
          /\ r.illegals = m /\ r.sent = s.sent
      BY <1>2, <1>5, <2>7, <3>1, <3>7 DEF Reader, SameReader
    <3> HIDE DEF r
    <3>4. ~LineDone(s, r)
      BY <1>5, <3>3 DEF LineDone
    <3>5. SeenIllegal(r, q + 1)
      <4>1. CASE n = 1
        <5>1. r.illegals = 1 /\ q + 1 \in Illegal(r.sent) /\ q + 1 <= q + 1
          BY <2>1, <3>2, <3>3, <4>1 DEF m
        <5>2. ~EndsIn(r.sent, q + 1, q + 1)
          BY <2>1, <2>2, <2>6, <2>10, <3>3 DEF EndsIn
        <5> QED
          BY <5>1, <5>2 DEF SeenIllegal
      <4>2. CASE n = 0
        <5>1. r.illegals = a.illegals /\ r.sent = a.sent
          BY <3>3, <2>7, <4>2 DEF m
        <5>2. a.sent[q + 1] # LF
          BY <2>2, <2>6, <2>7, <2>10
        <5> QED
          BY <5>1, <5>2, <2>1, <2>3, SeenOn
      <4> QED
        BY <3>2, <4>1, <4>2
    <3>6. ScanOk(s, r, k)
      BY <2>1, <2>4, <2>7, <2>10, <3>3, <3>4, <3>5 DEF ScanOk, SeenIllegal, p
    <3> QED
      BY <3>6 DEF r
  <2>11. CASE b = LF
    <3>1. r = [a EXCEPT !.used = k, !.dst = K, !.pc = "line"]
      BY <1>2, <1>5, <2>5, <2>6, <2>11 DEF ScanByte, SameReader
    <3>3. /\ r \in Reader /\ r.pc = "line" /\ SameReader(s, r) /\ r.used = k /\ r.dst = K
          /\ r.illegals = a.illegals /\ r.sent = s.sent
      BY <1>2, <2>4, <2>7, <3>1 DEF Reader, SameReader
    <3> HIDE DEF r
    <3>4. LineDone(s, r)
      BY <3>3 DEF LineDone
    <3>6. ScanOk(s, r, k)
      BY <2>1, <2>4, <2>7, <2>11, <3>3, <3>4, <1>2 DEF ScanOk, p
    <3> QED
      BY <3>6 DEF r
  <2>12. CASE b \notin {CR, NUL, LF}
    <3>1. r = [a EXCEPT !.used = k, !.dst = K]
      BY <1>2, <1>5, <2>5, <2>12 DEF ScanByte, SameReader
    <3>3. /\ r \in Reader /\ r.pc = "scan" /\ SameReader(s, r) /\ r.used = k /\ r.dst = K
          /\ r.illegals = a.illegals /\ r.sent = s.sent
      BY <1>2, <1>5, <2>4, <2>7, <3>1 DEF Reader, SameReader
    <3> HIDE DEF r
    <3>4. LineDone(s, r) <=> ~s.requireEOLN /\ Len(K) = s.room
      BY <3>3, <2>4, <2>7, <1>1 DEF LineDone
    <3>7. ~LineDone(s, r) => s.requireEOLN \/ Len(K) < s.room
      BY <3>4, <2>4, <2>7, <1>1
    <3>5. SeenIllegal(r, q + 1)
      BY <2>1, <2>2, <2>3, <2>7, <2>12, <3>3, SeenOn
    <3>6. ScanOk(s, r, k)
      BY <2>1, <2>4, <2>7, <2>12, <3>3, <3>4, <3>5, <3>7, <1>2 DEF ScanOk, p
    <3> QED
      BY <3>6 DEF r
  <2> QED
    BY <2>10, <2>11, <2>12
<1> QED
  BY <1>2, <1>3, <1>4, <1>5

\* The whole buffer.
LEMMA ScanEnds ==
    ASSUME NEW s, StreamKept(s), Tidy(s), s.used = 0, Holds(s, Place(s), s.lines, s.dst), SeenIllegal(s, Place(s))
    PROVE  ScanOk(s, Scanned(s), Len(s.buf))
<1>1. s \in Reader /\ Len(s.buf) \in Nat
  BY LenProperties DEF StreamKept, Reader
<1>2. PICK f : /\ f[0] = [s EXCEPT !.pc = "scan"]
               /\ \A k \in 1..Len(s.buf) : f[k] = ScanByte(f[k - 1], k)
               /\ Scanned(s) = f[Len(s.buf)]
  BY <1>1, ScanRecursion
<1> DEFINE N == Len(s.buf)
           T == {n \in 0..N : ~ScanOk(s, f[n], n)}
<1>3. ScanOk(s, f[0], 0)
  BY <1>2, ScanStarts
<1>4. ASSUME NEW k \in 1..N, ScanOk(s, f[k - 1], k - 1) PROVE ScanOk(s, f[k], k)
  BY <1>2, <1>4, ScanGoesOn
<1>5. T = {}
  <2>1. T \subseteq 0..N
    OBVIOUS
  <2>2. 0 \notin T
    BY <1>3
  <2>3. ASSUME NEW x \in 1..N, x \in T, x - 1 \in 0..N, x - 1 \notin T PROVE FALSE
    BY <2>3, <1>4
  <2> HIDE DEF T
  <2> QED
    BY <2>1, <2>2, <2>3, <1>1, FirstBreak
<1> QED
  BY <1>1, <1>2, <1>5

\* The reader that has returned the last line, which had no line end.
Flushed(s) == s.buf = <<>> /\ s.coming = <<>> /\ s.lines = LinesOf(s)

LineOk(s) ==
    /\ StreamKept(s) /\ s.used = 0
    /\ s.pc \in {"fill", "next", "end"}
    /\ s.pc = "next" => Holds(s, Place(s), s.lines, <<>>) \/ Flushed(s)
    /\ s.pc = "fill" =>
          /\ s.buf = <<>>
          /\ \/ Holds(s, Place(s), s.lines, s.dst) /\ SeenIllegal(s, Place(s))
             \/ Flushed(s) /\ s.dst = <<>> /\ s.illegals = 0
    /\ s.pc = "end" => s.lines = LinesOf(s)

LineInv ==
    srl.pc # "idle" =>
        /\ srl \in Reader
        /\ Tidy(srl) => LineOk(srl)

\* What is known of a text does not depend on how much of it was read.
SameText(s, a) ==
    a.sent = s.sent /\ a.room = s.room /\ a.requireEOLN = s.requireEOLN /\ a.lost = s.lost

\* So it is the same text.
LEMMA SameTexts ==
    ASSUME NEW s, NEW a, SameText(s, a)
    PROVE  /\ Tidy(a) <=> Tidy(s)
           /\ LinesOf(a) = LinesOf(s)
           /\ \A p, got, line : Holds(a, p, got, line) <=> Holds(s, p, got, line)
BY DEF SameText, Tidy, LinesOf, LastLine, Holds

\* What is left of a sequence.
LEMMA RestOf ==
    ASSUME NEW S, NEW s \in Seq(S), NEW n \in 0..Len(s)
    PROVE  /\ SubSeq(s, n + 1, Len(s)) \in Seq(S)
           /\ Len(SubSeq(s, n + 1, Len(s))) = Len(s) - n
           /\ \A i \in 1..Len(s) - n : SubSeq(s, n + 1, Len(s))[i] = s[n + i]
<1> DEFINE N == Len(s)
<1>1. N \in Nat /\ \A i \in 1..N : s[i] \in S
  BY ElementOfSeq, LenProperties
<1>2. \A i \in n + 1..N : s[i] \in S
  BY <1>1
<1> HIDE DEF N
<1>4. n + 1 \in Nat /\ n \in Nat /\ N - n \in Nat
  BY <1>1 DEF N
<1>3. /\ SubSeq(s, n + 1, N) \in Seq(S)
      /\ Len(SubSeq(s, n + 1, N)) = IF n + 1 <= N THEN N - (n + 1) + 1 ELSE 0
      /\ \A i \in 1..N - (n + 1) + 1 : SubSeq(s, n + 1, N)[i] = s[(n + 1) + i - 1]
  BY <1>1, <1>2, <1>4, SubSeqProperties
<1>5. Len(SubSeq(s, n + 1, N)) = N - n
  BY <1>1, <1>3, <1>4
<1>6. ASSUME NEW i \in 1..N - n PROVE SubSeq(s, n + 1, N)[i] = s[n + i]
  <2>1. i \in 1..N - (n + 1) + 1 /\ (n + 1) + i - 1 = n + i
    BY <1>1, <1>4
  <2> QED
    BY <2>1, <1>3
<1> QED
  BY <1>3, <1>5, <1>6 DEF N

\* The reader a goes on behind the n bytes of the buffer it has scanned.
After(s, a, n) == [a EXCEPT !.buf = SubSeq(s.buf, n + 1, Len(s.buf)), !.used = 0]
GoesOn(s, a, n, t) ==
    /\ StreamKept(t) /\ Place(t) = Place(s) + n /\ SameText(s, t) /\ t.used = 0
    /\ t.lines = s.lines /\ t.dst = a.dst /\ t.illegals = a.illegals /\ t.pc = a.pc
    /\ n = Len(s.buf) => t.buf = <<>>

\* It goes on like this after any part of the buffer.
LEMMA StreamGoesOn ==
    \A s, a, n :
       StreamKept(s) /\ a \in Reader /\ SameReader(s, a) /\ n \in 0..Len(s.buf) => GoesOn(s, a, n, After(s, a, n))
<1> SUFFICES ASSUME NEW s, StreamKept(s), NEW n \in 0..Len(s.buf), NEW a \in Reader, SameReader(s, a)
             PROVE  GoesOn(s, a, n, After(s, a, n))
  OBVIOUS
<1> DEFINE t == After(s, a, n)
<1> DEFINE B == Len(s.buf)  C == Len(s.coming)  S == Len(s.sent)  p == Place(s)
<1>1. s \in Reader /\ s.buf \in Seq(Byte) /\ B \in Nat /\ C \in Nat /\ S \in Nat /\ p \in 0..S /\ p = S - C - B
  BY LenProperties DEF StreamKept, Reader, Place
<1>2. /\ SubSeq(s.buf, n + 1, B) \in Seq(Byte)
      /\ Len(SubSeq(s.buf, n + 1, B)) = B - n
      /\ \A i \in 1..B - n : SubSeq(s.buf, n + 1, B)[i] = s.buf[n + i]
  BY <1>1, RestOf
<1> DEFINE b == SubSeq(s.buf, n + 1, B)
<1> HIDE DEF b
<1>3. /\ t \in Reader /\ t.buf = b /\ t.used = 0 /\ t.lines = s.lines /\ t.dst = a.dst /\ t.illegals = a.illegals
      /\ t.pc = a.pc /\ t.sent = s.sent /\ t.coming = s.coming /\ t.room = s.room
      /\ t.requireEOLN = s.requireEOLN /\ t.lost = s.lost
  BY <1>2 DEF Reader, SameReader, b, After
<1> HIDE DEF t
<1>4. Len(b) = B - n /\ \A i \in 1..B - n : b[i] = s.buf[n + i]
  BY <1>2 DEF b
<1>5. Place(t) = p + n /\ p + n \in 0..S
  <2>1. Place(t) = S - C - (B - n)
    BY <1>3, <1>4 DEF Place
  <2> HIDE DEF B, C, S, p
  <2>2. n \in 0..B
    BY DEF B
  <2> QED
    BY <2>1, <2>2, <1>1
<1>6. ASSUME NEW i \in 1..Len(t.buf) PROVE t.buf[i] = t.sent[Place(t) + i]
  <2>1. i \in 1..B - n /\ t.buf[i] = s.buf[n + i]
    BY <1>3, <1>4
  <2>2. n + i \in 1..B /\ p + (n + i) = (p + n) + i
    <3> HIDE DEF B, C, S, p
    <3>1. n \in 0..B /\ B \in Nat /\ p \in Nat /\ i \in 1..B - n
      BY <2>1, <1>1 DEF B
    <3> QED
      BY <3>1
  <2>3. s.buf[n + i] = s.sent[p + (n + i)]
    BY <2>2 DEF StreamKept
  <2> QED
    BY <2>1, <2>2, <2>3, <1>3, <1>5
<1>7. ASSUME NEW i \in 1..Len(t.coming) PROVE t.coming[i] = t.sent[Place(t) + Len(t.buf) + i]
  <2>1. s.coming[i] = s.sent[p + B + i]
    BY <1>3 DEF StreamKept
  <2>2. Place(t) + Len(t.buf) = p + B
    <3>1. Len(t.buf) = B - n
      BY <1>3, <1>4
    <3> HIDE DEF B, C, S, p
    <3>2. n \in 0..B
      BY DEF B
    <3> QED
      BY <3>1, <3>2, <1>1, <1>5
  <2> QED
    BY <2>1, <2>2, <1>3
<1>8. n = B => b = <<>>
  <2>1. n = B => Len(b) = 0
    BY <1>1, <1>4
  <2> QED
    BY <2>1, <1>2, EmptySeq DEF b
<1> QED
  BY <1>3, <1>5, <1>6, <1>7, <1>8 DEF StreamKept, SameText, GoesOn, t

\* The line that is returned is the one the text has there.
LEMMA ReturnsLine ==
    ASSUME NEW t, StreamKept(t), t.used = 0, ~Empty(t.dst),
           \/ Holds(t, Place(t), Append(t.lines, t.dst), <<>>)
           \/ t.buf = <<>> /\ t.coming = <<>> /\ Append(t.lines, t.dst) = LinesOf(t)
    PROVE  LineOk(ReturnLine(t))
<1> DEFINE u == ReturnLine(t)
<1>1. t \in Reader /\ t.lines \in Seq(Seq(Byte)) /\ t.dst \in Seq(Byte)
  BY DEF StreamKept, Reader
<1>2. u = [t EXCEPT !.pc = "next", !.lines = Append(t.lines, t.dst)]
  BY DEF ReturnLine, Empty
<1>3. Append(t.lines, t.dst) \in Seq(Seq(Byte))
  BY <1>1, AppendProperties
<1>4. /\ u \in Reader /\ u.pc = "next" /\ u.lines = Append(t.lines, t.dst) /\ u.sent = t.sent
      /\ u.coming = t.coming /\ u.buf = t.buf /\ u.room = t.room /\ u.requireEOLN = t.requireEOLN
      /\ u.used = t.used /\ u.lost = t.lost
  BY <1>1, <1>2, <1>3 DEF Reader
<1> HIDE DEF u
<1>5. StreamKept(u) /\ Place(u) = Place(t)
  <2>1. Place(u) = Place(t)
    BY <1>4 DEF Place
  <2> QED
    BY <2>1, <1>4 DEF StreamKept
<1>6. SameText(t, u)
  BY <1>4 DEF SameText
<1>7. Holds(t, Place(t), u.lines, <<>>) => Holds(u, Place(u), u.lines, <<>>)
  BY <1>5, <1>6, SameTexts
<1>8. LinesOf(u) = LinesOf(t)
  BY <1>6, SameTexts
<1>9. LineOk(u)
  BY <1>4, <1>5, <1>7, <1>8 DEF LineOk, Flushed
<1> QED
  BY <1>9 DEF u

\* A scan of the buffer of a reader that is right leaves it right.
LEMMA ScanKeepsLines ==
    ASSUME NEW s, StreamKept(s), Tidy(s), s.used = 0, Holds(s, Place(s), s.lines, s.dst),
           SeenIllegal(s, Place(s))
    PROVE  LineOk(Scan(s)) /\ SameText(s, Scan(s))
<1> DEFINE r == Scanned(s)
           n == r.used
           t == After(s, r, n)
           full == ~s.requireEOLN /\ Len(r.dst) >= s.room
<1>1. ScanOk(s, r, Len(s.buf))
  BY ScanEnds
<1> HIDE DEF r
<1>2. /\ r \in Reader /\ r.pc \in {"scan", "line"} /\ SameReader(s, r)
      /\ n \in 0..Len(s.buf) /\ (r.pc = "scan" => n = Len(s.buf))
      /\ LineDone(s, r) => ~Empty(r.dst) /\ Holds(s, Place(s) + n, Append(s.lines, r.dst), <<>>)
      /\ ~LineDone(s, r) => Holds(s, Place(s) + n, s.lines, r.dst)
      /\ r.illegals <= 1 /\ (~LineDone(s, r) => SeenIllegal(r, Place(s) + n))
  BY <1>1 DEF ScanOk
<1>6. Scan(s) = IF r.pc = "line" \/ full \/ r.illegals > 1 THEN ReturnLine(t) ELSE [t EXCEPT !.pc = "fill"]
  BY DEF Scan, r, After
<1> HIDE DEF t, full, n
<1>3. /\ StreamKept(t) /\ Place(t) = Place(s) + n /\ SameText(s, t) /\ t.used = 0
      /\ t.lines = s.lines /\ t.dst = r.dst /\ t.illegals = r.illegals /\ t.pc = r.pc
      /\ n = Len(s.buf) => t.buf = <<>>
  BY <1>2, StreamGoesOn DEF t, GoesOn
<1>4. ~(r.illegals > 1)
  BY <1>2 DEF Reader
<1>5. LineDone(s, r) <=> (r.pc = "line" \/ full)
  BY DEF LineDone, full
<1>7. CASE LineDone(s, r)
  <2>1. Scan(s) = ReturnLine(t)
    BY <1>4, <1>5, <1>6, <1>7
  <2>2. Holds(t, Place(t), Append(t.lines, t.dst), <<>>) /\ ~Empty(t.dst)
    BY <1>2, <1>3, <1>7, SameTexts
  <2>3. LineOk(ReturnLine(t))
    BY <1>3, <2>2, ReturnsLine
  <2>4. SameText(t, ReturnLine(t))
    BY <1>3 DEF SameText, ReturnLine, StreamKept, Reader
  <2> QED
    BY <1>3, <2>1, <2>3, <2>4 DEF SameText
<1>8. CASE ~LineDone(s, r)
  <2> DEFINE u == [t EXCEPT !.pc = "fill"]
  <2>1. Scan(s) = u
    BY <1>4, <1>5, <1>6, <1>8
  <2>2. r.pc = "scan" /\ t.buf = <<>>
    BY <1>2, <1>3, <1>8 DEF LineDone
  <2>3. /\ u \in Reader /\ u.pc = "fill" /\ u.lines = t.lines /\ u.sent = t.sent
        /\ u.coming = t.coming /\ u.buf = t.buf /\ u.room = t.room /\ u.requireEOLN = t.requireEOLN
        /\ u.used = t.used /\ u.dst = t.dst /\ u.illegals = t.illegals /\ u.lost = t.lost
    BY <1>3 DEF StreamKept, Reader
  <2> HIDE DEF u
  <2>4. StreamKept(u) /\ Place(u) = Place(t) /\ SameText(s, u)
    BY <1>3, <2>3 DEF StreamKept, Place, SameText
  <2>5. Holds(u, Place(u), u.lines, u.dst)
    BY <1>2, <1>3, <1>8, <2>3, <2>4, SameTexts
  <2>6. SeenIllegal(u, Place(u))
    <3>1. u.sent = r.sent
      BY <1>2, <2>4 DEF SameText, SameReader
    <3> QED
      BY <1>2, <1>3, <1>8, <2>3, <2>4, <3>1 DEF SeenIllegal
  <2>7. LineOk(u)
    BY <1>3, <2>2, <2>3, <2>4, <2>5, <2>6 DEF LineOk
  <2> QED
    BY <2>1, <2>4, <2>7
<1> QED
  BY <1>7, <1>8

\* The texts that are sent are bytes.
LEMMA TextsAreBytes ==
    ASSUME NEW text \in Texts PROVE text \in Seq(Byte)
<1>1. text \in Seq(STRING)
  BY ValuesAssumption
<1> HIDE DEF Byte
<1>2. \A i \in 1..Len(text) : text[i] \in Byte
  <2>1. \A i \in 1..Len(text) : text[i] \in STRING
    BY <1>1, ElementOfSeq
  <2> QED
    BY <2>1 DEF Byte
<1>3. Len(text) \in Nat /\ text \in [1..Len(text) -> STRING]
  BY <1>1, LenProperties
<1>4. text \in [1..Len(text) -> Byte]
  BY <1>2, <1>3
<1> QED
  BY <1>3, <1>4, SeqDef

\* A reader that has read nothing is where Cut starts.
LEMMA ListenLines ==
    ASSUME NEW text \in Texts, NEW room \in LineRooms, NEW eoln \in BOOLEAN,
           NEW s, s = [NoReader EXCEPT !.pc = "fill", !.sent = text, !.coming = text,
                                       !.room = room, !.requireEOLN = eoln]
    PROVE  LineOk(s)
<1>1. text \in Seq(Byte) /\ Len(text) \in Nat /\ room \in Nat \ {0}
  BY TextsAreBytes, LenProperties, ValuesAssumption
<1>2. <<>> \in Seq(Byte) /\ <<>> \in Seq(Seq(Byte)) /\ Len(<<>>) = 0
  BY EmptySeq
<1>3. /\ s \in Reader /\ s.pc = "fill" /\ s.sent = text /\ s.coming = text /\ s.buf = <<>> /\ s.dst = <<>>
      /\ s.used = 0 /\ s.illegals = 0 /\ s.room = room /\ s.requireEOLN = eoln /\ s.lines = <<>>
  BY <1>1, <1>2 DEF NoReader, Reader
<1>4. Place(s) = 0
  BY <1>1, <1>2, <1>3 DEF Place
<1>5. StreamKept(s)
  BY <1>1, <1>2, <1>3, <1>4 DEF StreamKept
<1>6. Holds(s, 0, <<>>, <<>>)
  <2>1. Cut(text, room, eoln)[0] = [done |-> <<>>, cur |-> <<>>]
    BY <1>1, CutRecursion
  <2>2. At([done |-> <<>>, cur |-> <<>>], <<>>, <<>>, room, eoln)
    BY <1>1, <1>2, AtLineEnd
  <2> QED
    BY <2>1, <2>2, <1>3 DEF Holds
<1>7. SeenIllegal(s, 0)
  BY <1>3 DEF SeenIllegal
<1> QED
  BY <1>3, <1>4, <1>5, <1>6, <1>7 DEF LineOk

\* A packet.
LEMMA FillLines ==
    ASSUME NEW s, LineOk(s), Tidy(s), s.pc = "fill", NEW n \in 1..Len(s.coming),
           NEW c, c = [s EXCEPT !.buf = SubSeq(s.coming, 1, n),
                                !.coming = SubSeq(s.coming, n + 1, Len(s.coming))]
    PROVE  LineOk(Scan(c)) /\ SameText(s, Scan(c))
<1> DEFINE C == Len(s.coming)  S == Len(s.sent)  p == Place(s)
           b == SubSeq(s.coming, 1, n)  d == SubSeq(s.coming, n + 1, C)
<1>1. /\ s \in Reader /\ s.coming \in Seq(Byte) /\ C \in Nat /\ S \in Nat /\ p \in 0..S /\ p = S - C - 0
      /\ s.buf = <<>> /\ s.used = 0 /\ n \in 0..C /\ n \in Nat
  <2>1. StreamKept(s) /\ s.buf = <<>> /\ s.used = 0
    BY DEF LineOk
  <2>2. s \in Reader /\ s.coming \in Seq(Byte) /\ C \in Nat /\ S \in Nat
    BY <2>1, LenProperties DEF StreamKept, Reader
  <2>3. Len(s.buf) = 0
    BY <2>1, EmptySeq
  <2>4. p \in 0..S /\ n \in 1..C
    BY <2>1 DEF StreamKept
  <2>5. p = S - C - 0
    BY <2>3 DEF Place
  <2> HIDE DEF C, S, p
  <2>6. n \in 0..C /\ n \in Nat
    BY <2>2, <2>4
  <2> QED
    BY <2>1, <2>2, <2>4, <2>5, <2>6
<1>2. /\ d \in Seq(Byte) /\ Len(d) = C - n
      /\ \A i \in 1..C - n : d[i] = s.coming[n + i]
  BY <1>1, RestOf
<1>3. b \in Seq(Byte) /\ Len(b) = n /\ \A i \in 1..n : b[i] = s.coming[i]
  <2>1. \A i \in 1..n : s.coming[i] \in Byte
    BY <1>1, ElementOfSeq
  <2>2. /\ b \in Seq(Byte)
        /\ Len(b) = IF 1 <= n THEN n - 1 + 1 ELSE 0
        /\ \A i \in 1..n - 1 + 1 : b[i] = s.coming[1 + i - 1]
    BY <2>1, <1>1, SubSeqProperties
  <2> HIDE DEF b
  <2> QED
    BY <2>2, <1>1
<1> HIDE DEF b, d
<1>4. /\ c \in Reader /\ c.buf = b /\ c.coming = d /\ c.sent = s.sent /\ c.used = 0 /\ c.lines = s.lines
      /\ c.dst = s.dst /\ c.illegals = s.illegals /\ c.room = s.room /\ c.requireEOLN = s.requireEOLN
  BY <1>1, <1>2, <1>3 DEF Reader, b, d
<1>5. Place(c) = p
  <2>1. Place(c) = S - (C - n) - n
    BY <1>2, <1>3, <1>4 DEF Place
  <2> HIDE DEF S, C, p
  <2> QED
    BY <2>1, <1>1
<1>6. StreamKept(c)
  <2>1. ASSUME NEW i \in 1..n PROVE b[i] = s.sent[p + i]
    <3>1. i \in 1..C /\ p + 0 + i = p + i
      <4> HIDE DEF S, C, p
      <4> QED
        BY <1>1
    <3>2. s.coming[i] = s.sent[p + Len(s.buf) + i] /\ Len(s.buf) = 0
      BY <3>1, <1>1, EmptySeq DEF LineOk, StreamKept
    <3> QED
      BY <3>1, <3>2, <1>3
  <2>2. ASSUME NEW i \in 1..C - n PROVE d[i] = s.sent[p + n + i]
    <3>1. n + i \in 1..C /\ p + 0 + (n + i) = p + n + i
      <4> HIDE DEF S, C, p
      <4> QED
        BY <1>1
    <3>2. s.coming[n + i] = s.sent[p + Len(s.buf) + (n + i)] /\ Len(s.buf) = 0
      BY <3>1, <1>1, EmptySeq DEF LineOk, StreamKept
    <3> QED
      BY <3>1, <3>2, <1>2
  <2> HIDE DEF C, S, p
  <2>3. Len(c.buf) = n /\ Len(c.coming) = C - n /\ Len(c.sent) = S
    BY <1>2, <1>3, <1>4 DEF S
  <2>4. \A i \in 1..Len(c.buf) : c.buf[i] = c.sent[Place(c) + i]
    BY <2>1, <2>3, <1>4, <1>5
  <2>5. \A i \in 1..Len(c.coming) : c.coming[i] = c.sent[Place(c) + Len(c.buf) + i]
    BY <2>2, <2>3, <1>4, <1>5
  <2>6. Place(c) \in 0..Len(c.sent)
    BY <2>3, <1>1, <1>5
  <2> QED
    BY <2>4, <2>5, <2>6, <1>4 DEF StreamKept
<1>7. Holds(s, p, s.lines, s.dst) /\ SeenIllegal(s, p)
  <2>1. s.coming # <<>>
    BY <1>1, EmptySeq
  <2> QED
    BY <2>1 DEF LineOk, Flushed
<1>8. SameText(s, c)
  BY <1>4 DEF SameText
<1>9. Tidy(c) /\ Holds(c, Place(c), c.lines, c.dst) /\ SeenIllegal(c, Place(c))
  BY <1>4, <1>5, <1>7, <1>8, SameTexts DEF SeenIllegal
<1>10. LineOk(Scan(c)) /\ SameText(c, Scan(c))
  BY <1>4, <1>6, <1>9, ScanKeepsLines
<1> QED
  BY <1>8, <1>10 DEF SameText

\* The reader ends.
LEMMA EndsLines ==
    ASSUME NEW s, StreamKept(s), s.used = 0, s.lines = LinesOf(s), s.buf = <<>>, s.coming = <<>>,
           Empty(s.dst), ~(s.requireEOLN /\ s.illegals > 0)
    PROVE  LineOk(ReturnLine(s))
<1> DEFINE u == [s EXCEPT !.pc = "end"]
<1>1. ReturnLine(s) = u
  BY DEF ReturnLine, Empty
<1>2. s \in Reader
  BY DEF StreamKept
<1>4. /\ u \in Reader /\ u.pc = "end" /\ u.lines = s.lines /\ u.sent = s.sent
      /\ u.coming = s.coming /\ u.buf = s.buf /\ u.room = s.room /\ u.requireEOLN = s.requireEOLN
      /\ u.used = s.used /\ u.lost = s.lost
  BY <1>2 DEF Reader
<1> HIDE DEF u
<1>5. StreamKept(u) /\ Place(u) = Place(s)
  <2>1. Place(u) = Place(s)
    BY <1>4 DEF Place
  <2> QED
    BY <2>1, <1>4 DEF StreamKept
<1>6. LinesOf(u) = LinesOf(s)
  <2>1. SameText(s, u)
    BY <1>4 DEF SameText
  <2> QED
    BY <2>1, SameTexts
<1>7. LineOk(u)
  BY <1>4, <1>5, <1>6 DEF LineOk
<1> QED
  BY <1>1, <1>7

\* The end of the text.
LEMMA LastLines ==
    ASSUME NEW s, LineOk(s), Tidy(s), s.pc = "fill", s.coming = <<>>
    PROVE  LineOk(ReturnLine(s)) /\ SameText(s, ReturnLine(s))
<1>1. /\ StreamKept(s) /\ s \in Reader /\ s.buf = <<>> /\ s.used = 0 /\ s.illegals \in Nat
      /\ s.requireEOLN \in BOOLEAN
  BY DEF LineOk, StreamKept, Reader
<1>2. SameText(s, ReturnLine(s))
  BY <1>1 DEF SameText, ReturnLine, Reader
<1>3. Place(s) = Len(s.sent)
  <2>1. Len(s.buf) = 0 /\ Len(s.coming) = 0 /\ Len(s.sent) \in Nat
    BY <1>1, EmptySeq, LenProperties DEF Reader
  <2> QED
    BY <2>1 DEF Place
<1>4. CASE Flushed(s) /\ s.dst = <<>> /\ s.illegals = 0
  BY <1>1, <1>2, <1>4, EndsLines DEF Flushed, Empty
<1>5. CASE Holds(s, Place(s), s.lines, s.dst) /\ SeenIllegal(s, Place(s))
  <2>1. /\ s.lines \in Seq(Seq(Byte)) /\ s.dst \in Seq(Byte)
        /\ Empty(s.dst) /\ s.requireEOLN => Empty(LastLine(s))
        /\ LinesOf(s) = WithHeld(s.lines, s.dst)
    BY <1>1, <1>3, <1>5, HoldsEnd
  <2>2. CASE ~Empty(s.dst)
    <3>1. Append(s.lines, s.dst) = LinesOf(s)
      <4>1. WithHeld(s.lines, s.dst) = s.lines \o <<s.dst>>
        BY <2>2 DEF WithHeld, Empty
      <4>2. Append(s.lines, s.dst) = s.lines \o <<s.dst>>
        BY <2>1, AppendIsConcat
      <4> QED
        BY <2>1, <4>1, <4>2
    <3> QED
      BY <1>1, <1>2, <2>2, <3>1, ReturnsLine
  <2>3. CASE Empty(s.dst)
    <3>1. s.lines = LinesOf(s)
      <4>1. WithHeld(s.lines, s.dst) = s.lines \o <<>>
        BY <2>3 DEF WithHeld, Empty
      <4>2. s.lines \o <<>> = s.lines
        BY <2>1, ConcatEmptySeq
      <4> QED
        BY <2>1, <4>1, <4>2
    <3>2. ~(s.requireEOLN /\ s.illegals > 0)
      <4>1. ASSUME s.requireEOLN, NEW i \in Illegal(s.sent), ~EndsIn(s.sent, i, Len(s.sent)) PROVE FALSE
        BY <2>1, <2>3, <4>1 DEF Tidy, Empty
      <4> QED
        BY <1>3, <1>5, <4>1 DEF SeenIllegal
    <3> QED
      BY <1>1, <1>2, <2>3, <3>1, <3>2, EndsLines
  <2> QED
    BY <2>2, <2>3
<1> QED
  BY <1>4, <1>5 DEF LineOk

\* The next call.
LEMMA NextLines ==
    ASSUME NEW s, LineOk(s), Tidy(s), s.pc = "next",
           NEW c, c = [s EXCEPT !.dst = <<>>, !.illegals = 0]
    PROVE  LineOk(Scan(c)) /\ SameText(s, Scan(c))
<1>1. s \in Reader /\ StreamKept(s) /\ s.used = 0 /\ <<>> \in Seq(Byte)
  BY EmptySeq DEF LineOk, StreamKept
<1>2. /\ c \in Reader /\ c.buf = s.buf /\ c.coming = s.coming /\ c.sent = s.sent /\ c.used = 0 /\ c.lines = s.lines
      /\ c.dst = <<>> /\ c.illegals = 0 /\ c.room = s.room /\ c.requireEOLN = s.requireEOLN
  BY <1>1 DEF Reader
<1>3. SameText(s, c)
  BY <1>2 DEF SameText
<1>4. StreamKept(c) /\ Place(c) = Place(s)
  <2>1. Place(c) = Place(s)
    BY <1>2 DEF Place
  <2> QED
    BY <2>1, <1>1, <1>2 DEF StreamKept
<1>5. CASE Holds(s, Place(s), s.lines, <<>>)
  <2>1. Tidy(c) /\ Holds(c, Place(c), c.lines, c.dst) /\ SeenIllegal(c, Place(c))
    BY <1>2, <1>3, <1>4, <1>5, SameTexts DEF SeenIllegal
  <2>2. LineOk(Scan(c)) /\ SameText(c, Scan(c))
    BY <1>2, <1>4, <2>1, ScanKeepsLines
  <2> QED
    BY <1>3, <2>2 DEF SameText
<1>6. CASE Flushed(s)
  <2> DEFINE a == [c EXCEPT !.pc = "scan"]
             u == [After(c, a, 0) EXCEPT !.pc = "fill"]
  <2>1. Len(c.buf) = 0 /\ c.buf = <<>> /\ c.coming = <<>>
    BY <1>2, <1>6, EmptySeq DEF Flushed
  <2>2. Scanned(c) = a
    <3>1. PICK f : /\ f[0] = [c EXCEPT !.pc = "scan"]
                   /\ Scanned(c) = f[Len(c.buf)]
      BY <1>2, ScanRecursion
    <3> QED
      BY <2>1, <3>1
  <2>3. /\ a \in Reader /\ SameReader(c, a) /\ a.pc = "scan" /\ a.used = 0 /\ a.dst = <<>> /\ a.illegals = 0
    BY <1>2 DEF Reader, SameReader
  <2>4. c.room \in Nat \ {0} /\ Len(a.dst) = 0
    BY <1>2, <2>3, EmptySeq DEF Reader
  <2>5. Scan(c) = u
    <3>1. ~(~c.requireEOLN /\ Len(a.dst) >= c.room) /\ ~(a.illegals > 1)
      BY <2>3, <2>4
    <3> HIDE DEF a
    <3> QED
      BY <2>2, <2>3, <3>1 DEF Scan, After
  <2> HIDE DEF a
  <2>6. GoesOn(c, a, 0, After(c, a, 0))
    <3>1. 0 \in 0..Len(c.buf)
      BY <2>1
    <3> QED
      BY <1>4, <2>3, <3>1, StreamGoesOn
  <2> DEFINE t == After(c, a, 0)
  <2>7. /\ StreamKept(t) /\ SameText(c, t) /\ t.used = 0 /\ t.lines = c.lines /\ t.dst = <<>>
        /\ t.illegals = 0 /\ t.buf = <<>>
    BY <2>1, <2>3, <2>6 DEF GoesOn
  <2>8. t.coming = <<>>
    BY <2>1, <2>3 DEF After, Reader, SameReader
  <2> HIDE DEF t
  <2>9. u = [t EXCEPT !.pc = "fill"]
    BY DEF t
  <2> HIDE DEF u
  <2>10. /\ u \in Reader /\ u.pc = "fill" /\ u.lines = t.lines /\ u.sent = t.sent
         /\ u.coming = t.coming /\ u.buf = t.buf /\ u.room = t.room /\ u.requireEOLN = t.requireEOLN
         /\ u.used = t.used /\ u.dst = t.dst /\ u.illegals = t.illegals /\ u.lost = t.lost
    BY <2>7, <2>9 DEF StreamKept, Reader
  <2>11. Place(u) = Place(t)
    BY <2>10 DEF Place
  <2>12. StreamKept(u) /\ SameText(s, u)
    BY <2>7, <2>10, <2>11, <1>3 DEF StreamKept, SameText
  <2>13. u.lines = LinesOf(u)
    BY <1>2, <1>6, <2>7, <2>10, <2>12, SameTexts DEF Flushed
  <2>14. LineOk(u)
    BY <2>7, <2>8, <2>10, <2>12, <2>13 DEF LineOk, Flushed
  <2> QED
    BY <2>5, <2>12, <2>14
<1> QED
  BY <1>5, <1>6 DEF LineOk

\* Whatever the text, the reader keeps to its types and to its text.
LEMMA ReaderReturns ==
    \A t : t \in Reader => ReturnLine(t) \in Reader /\ SameText(t, ReturnLine(t))
<1> SUFFICES ASSUME NEW t \in Reader PROVE ReturnLine(t) \in Reader /\ SameText(t, ReturnLine(t))
  OBVIOUS
<1> DEFINE line == IF t.requireEOLN /\ t.dst = <<>> /\ t.illegals > 0 THEN <<LF>> ELSE t.dst
<1>1. line \in Seq(Byte) /\ t.lines \in Seq(Seq(Byte))
  <2>1. <<LF>> \in Seq(Byte)
    <3>1. LF \in Byte
      BY DEF Byte
    <3> HIDE DEF Byte
    <3> QED
      BY <3>1
  <2> QED
    BY <2>1 DEF Reader
<1> HIDE DEF line
<1>2. Append(t.lines, line) \in Seq(Seq(Byte))
  BY <1>1, AppendProperties
<1> DEFINE all == Append(t.lines, line)
<1>3. ReturnLine(t) = [t EXCEPT !.pc = "end"] \/ ReturnLine(t) = [t EXCEPT !.pc = "next", !.lines = all]
  BY DEF ReturnLine, line
<1>4. all \in Seq(Seq(Byte))
  BY <1>2
<1> HIDE DEF all
<1>5. [t EXCEPT !.pc = "end"] \in Reader /\ SameText(t, [t EXCEPT !.pc = "end"])
  BY DEF Reader, SameText
<1>6. [t EXCEPT !.pc = "next", !.lines = all] \in Reader /\ SameText(t, [t EXCEPT !.pc = "next", !.lines = all])
  BY <1>4 DEF Reader, SameText
<1> QED
  BY <1>3, <1>5, <1>6

\* A reader that is scanning the same buffer of the same text.
SameBuffer(s, a) == a \in Reader /\ SameText(s, a) /\ a.buf = s.buf

\* A byte keeps the reader's types, also in a text whose bytes are illegal.
LEMMA ReaderScansByte ==
    ASSUME NEW s \in Reader, NEW k \in 1..Len(s.buf), NEW a, SameBuffer(s, a)
    PROVE  SameBuffer(s, ScanByte(a, k))
<1> DEFINE b == a.buf[k]
           K == IF Len(a.dst) < a.room THEN Append(a.dst, b) ELSE a.dst
           n == a.illegals + IF k < Len(a.buf) /\ a.buf[k + 1] # LF THEN 1 ELSE 0
           m == a.illegals + 1
<1>1. a \in Reader /\ b \in Byte /\ a.dst \in Seq(Byte) /\ a.illegals \in Nat /\ k \in Nat
  <2>1. a \in Reader /\ a.buf = s.buf /\ s.buf \in Seq(Byte) /\ Len(s.buf) \in Nat
    BY LenProperties DEF SameBuffer, Reader
  <2>2. b \in Byte
    BY <2>1, ElementOfSeq
  <2> HIDE DEF b
  <2> QED
    BY <2>1, <2>2 DEF Reader
<1>2. K \in Seq(Byte) /\ n \in Nat /\ m \in Nat
  <2>1. Append(a.dst, b) \in Seq(Byte)
    BY <1>1, AppendProperties
  <2>2. n \in Nat /\ m \in Nat
    BY <1>1
  <2> QED
    BY <2>1, <2>2, <1>1
<1>3. \/ ScanByte(a, k) = a
      \/ ScanByte(a, k) = [a EXCEPT !.pc = "line"]
      \/ ScanByte(a, k) = [a EXCEPT !.used = k, !.illegals = m]
      \/ ScanByte(a, k) = [a EXCEPT !.used = k, !.illegals = n]
      \/ ScanByte(a, k) = [a EXCEPT !.used = k, !.dst = K, !.pc = "line"]
      \/ ScanByte(a, k) = [a EXCEPT !.used = k, !.dst = K]
  BY DEF ScanByte
<1> HIDE DEF b, K, n, m
<1>4. SameBuffer(s, [a EXCEPT !.pc = "line"])
  BY <1>1 DEF SameBuffer, SameText, Reader
<1>5. ASSUME NEW i \in Nat PROVE SameBuffer(s, [a EXCEPT !.used = k, !.illegals = i])
  BY <1>1 DEF SameBuffer, SameText, Reader
<1>6. SameBuffer(s, [a EXCEPT !.used = k, !.dst = K, !.pc = "line"])
  BY <1>1, <1>2 DEF SameBuffer, SameText, Reader
<1>7. SameBuffer(s, [a EXCEPT !.used = k, !.dst = K])
  BY <1>1, <1>2 DEF SameBuffer, SameText, Reader
<1> QED
  BY <1>2, <1>3, <1>4, <1>5, <1>6, <1>7

\* A buffer keeps the reader's types.
LEMMA ReaderScans ==
    \A s : s \in Reader => Scan(s) \in Reader /\ SameText(s, Scan(s))
<1> SUFFICES ASSUME NEW s \in Reader PROVE Scan(s) \in Reader /\ SameText(s, Scan(s))
  OBVIOUS
<1> DEFINE N == Len(s.buf)  r == Scanned(s)
<1>1. N \in Nat /\ s.buf \in Seq(Byte)
  BY LenProperties DEF Reader
<1>2. SameBuffer(s, r)
  <2>1. PICK f : /\ f[0] = [s EXCEPT !.pc = "scan"]
                 /\ \A k \in 1..Len(s.buf) : f[k] = ScanByte(f[k - 1], k)
                 /\ Scanned(s) = f[Len(s.buf)]
    BY ScanRecursion
  <2> DEFINE T == {n \in 0..N : ~SameBuffer(s, f[n])}
  <2>2. SameBuffer(s, f[0])
    BY <2>1 DEF SameBuffer, SameText, Reader
  <2>3. ASSUME NEW k \in 1..N, SameBuffer(s, f[k - 1]) PROVE SameBuffer(s, f[k])
    BY <2>1, <2>3, ReaderScansByte
  <2>4. T = {}
    <3>1. T \subseteq 0..N
      OBVIOUS
    <3>2. 0 \notin T
      BY <2>2
    <3>3. ASSUME NEW x \in 1..N, x \in T, x - 1 \in 0..N, x - 1 \notin T PROVE FALSE
      BY <3>3, <2>3
    <3> HIDE DEF T
    <3> QED
      BY <3>1, <3>2, <3>3, <1>1, FirstBreak
  <2> QED
    BY <2>1, <2>4, <1>1
<1> HIDE DEF r
<1> DEFINE b == SubSeq(s.buf, r.used + 1, N)
           t == [r EXCEPT !.buf = b, !.used = 0]
<1>3. b \in Seq(Byte)
  <2>1. r.used + 1 \in Nat \ {0}
    BY <1>2 DEF SameBuffer, Reader
  <2>2. \A i \in r.used + 1..N : s.buf[i] \in Byte
    <3> HIDE DEF N
    <3>1. \A i \in r.used + 1..N : i \in 1..N
      BY <1>1, <2>1
    <3>2. \A i \in 1..N : s.buf[i] \in Byte
      BY <1>1, ElementOfSeq DEF N
    <3> QED
      BY <3>1, <3>2
  <2> QED
    BY <1>1, <2>1, <2>2, SubSeqProperties
<1>4. Scan(s) = ReturnLine(t) \/ Scan(s) = [t EXCEPT !.pc = "fill"]
  BY DEF Scan, r
<1> HIDE DEF b
<1>5. t \in Reader /\ SameText(s, t)
  BY <1>2, <1>3 DEF SameBuffer, SameText, Reader
<1> HIDE DEF t
<1>6. [t EXCEPT !.pc = "fill"] \in Reader /\ SameText(s, [t EXCEPT !.pc = "fill"])
  BY <1>5 DEF SameText, Reader
<1>7. ReturnLine(t) \in Reader /\ SameText(s, ReturnLine(t))
  BY <1>5, ReaderReturns DEF SameText
<1> QED
  BY <1>4, <1>6, <1>7

\* A read that fails between two lines.
LEMMA BrokenLines ==
    ASSUME NEW s, LineOk(s), s.pc = "fill", s.dst = <<>>, NEW t, t = [s EXCEPT !.pc = "next"], SameText(s, t)
    PROVE  LineOk(t)
<1>1. StreamKept(s) /\ s \in Reader
  BY DEF LineOk, StreamKept
<1>2. /\ t.pc = "next" /\ t.used = s.used /\ t.buf = s.buf /\ t.coming = s.coming /\ t.lines = s.lines
      /\ t.sent = s.sent /\ Place(t) = Place(s)
  BY <1>1 DEF Reader, Place
<1>3. StreamKept(t)
  BY <1>1, <1>2 DEF StreamKept, Reader, Place
<1>4. \A p, got, line : Holds(t, p, got, line) <=> Holds(s, p, got, line)
  BY SameTexts
<1>5. LinesOf(t) = LinesOf(s)
  BY SameTexts
<1>6. Holds(s, Place(s), s.lines, <<>>) \/ Flushed(s)
  BY DEF LineOk
<1> QED
  BY <1>2, <1>3, <1>4, <1>5, <1>6 DEF LineOk, Flushed

\* What LineInv says of the lines.
LEMMA LinesFollow == LineInv => LinesAsSent
<1> SUFFICES ASSUME LineInv, Tidy(srl)
             PROVE  /\ srl.pc \in {"next", "fill", "end"} => IsPrefix(srl.lines, LinesOf(srl))
                    /\ srl.pc = "end" => srl.lines = LinesOf(srl)
  BY DEF LinesAsSent
<1>1. CASE srl.pc \notin {"next", "fill", "end"}
  BY <1>1
<1>2. CASE srl.pc \in {"next", "fill", "end"}
  <2> DEFINE s == srl
  <2>1. LineOk(s)
    BY <1>2 DEF LineInv
  <2> HIDE DEF s
  <2>2. s \in Reader /\ Place(s) \in 0..Len(s.sent) /\ s.lines \in Seq(Seq(Byte))
    BY <2>1 DEF LineOk, StreamKept, Reader
  <2>3. IsPrefix(s.lines, LinesOf(s))
    <3>1. CASE s.lines = LinesOf(s)
      <4>1. <<>> \in Seq(Seq(Byte)) /\ s.lines \o <<>> = s.lines
        BY <2>2, EmptySeq, ConcatEmptySeq
      <4>2. IsPrefix(s.lines, s.lines \o <<>>)
        BY <2>2, <4>1, PrefixOf
      <4> QED
        BY <3>1, <4>1, <4>2
    <3>2. CASE \E line : Holds(s, Place(s), s.lines, line)
      BY <2>2, <3>2, HoldsPrefix
    <3> QED
      BY <2>1, <3>1, <3>2 DEF LineOk, Flushed
  <2> QED
    BY <2>1, <2>3 DEF LineOk, s
<1> QED
  BY <1>1, <1>2

\* The lines SReadline returns are the lines of the text (SReadline.c:112-169), for every
\* text, every size of the caller's buffer and of the reader's own, and however the text is
\* split into packets.
THEOREM LinesAreAsSent == Spec => []LinesAsSent
<1>1. Init => LineInv
  BY DEF Init, NoReader, LineInv
<1>2. LineInv /\ [Next]_vars => LineInv'
  <2> SUFFICES ASSUME LineInv, [Next]_vars PROVE LineInv'
    OBVIOUS
  <2>1. CASE Begin
    BY <2>1 DEF Begin, LineInv
  <2>2. ASSUME NEW e \in Event, Happens(e) PROVE LineInv'
    BY <2>2 DEF Happens, LineInv
  <2>3. CASE Listen
    <3>1. PICK text \in Texts, room \in LineRooms, eoln \in BOOLEAN :
             srl' = [NoReader EXCEPT !.pc = "fill", !.sent = text, !.coming = text,
                                     !.room = room, !.requireEOLN = eoln]
      BY <2>3 DEF Listen
    <3>2. LineOk(srl')
      BY <3>1, ListenLines
    <3> QED
      BY <3>2 DEF LineInv, LineOk, StreamKept
  <2>4. CASE Fill
    <3>1. srl.pc = "fill" /\ srl \in Reader
      BY <2>4 DEF Fill, LineInv
    <3>2. ASSUME NEW n \in 1..Least(BufSize, Len(srl.coming)),
                 srl' = Scan([srl EXCEPT !.buf = SubSeq(srl.coming, 1, n),
                                     !.coming = SubSeq(srl.coming, n + 1, Len(srl.coming))])
          PROVE  LineInv'
      <4> DEFINE c == [srl EXCEPT !.buf = SubSeq(srl.coming, 1, n),
                                  !.coming = SubSeq(srl.coming, n + 1, Len(srl.coming))]
      <4>1. srl.coming \in Seq(Byte) /\ Len(srl.coming) \in Nat
        BY <3>1, LenProperties DEF Reader
      <4>2. n \in 1..Len(srl.coming)
        BY <4>1, ValuesAssumption DEF Least
      <4>3. SubSeq(srl.coming, 1, n) \in Seq(Byte) /\ SubSeq(srl.coming, n + 1, Len(srl.coming)) \in Seq(Byte)
        <5>1. n \in Nat /\ n \in 0..Len(srl.coming)
          BY <4>1, <4>2
        <5>2. \A i \in 1..n : srl.coming[i] \in Byte
          BY <4>1, <4>2, ElementOfSeq
        <5> QED
          BY <4>1, <5>1, <5>2, RestOf, SubSeqProperties
      <4>4. c \in Reader /\ SameText(srl, c)
        BY <3>1, <4>3 DEF Reader, SameText
      <4>5. srl' \in Reader /\ SameText(srl, srl')
        <5> HIDE DEF c
        <5>1. srl' = Scan(c)
          BY <3>2 DEF c
        <5> QED
          BY <4>4, <5>1, ReaderScans DEF SameText
      <4>6. ASSUME Tidy(srl') PROVE LineOk(srl')
        <5>1. Tidy(srl)
          BY <4>5, <4>6, SameTexts
        <5>2. LineOk(srl)
          BY <3>1, <5>1 DEF LineInv
        <5> QED
          BY <3>1, <3>2, <4>2, <5>1, <5>2, FillLines
      <4> QED
        BY <4>5, <4>6 DEF LineInv
    <3>3. ASSUME srl.coming = <<>>, srl' = ReturnLine(srl)
          PROVE  LineInv'
      <4>1. srl' \in Reader /\ SameText(srl, srl')
        BY <3>1, <3>3, ReaderReturns
      <4>2. ASSUME Tidy(srl') PROVE LineOk(srl')
        <5>1. Tidy(srl)
          BY <4>1, <4>2, SameTexts
        <5>2. LineOk(srl)
          BY <3>1, <5>1 DEF LineInv
        <5> QED
          BY <3>1, <3>3, <5>1, <5>2, LastLines
      <4> QED
        BY <4>1, <4>2 DEF LineInv
    <3>4. ASSUME srl' = [srl EXCEPT !.pc = "next", !.lost = @ \/ srl.dst # <<>>]
          PROVE  LineInv'
      <4>1. srl' \in Reader
        BY <3>1, <3>4 DEF Reader
      <4>2. ASSUME Tidy(srl') PROVE LineOk(srl')
        <5>1. srl.dst = <<>> /\ ~srl.lost
          BY <3>1, <3>4, <4>2 DEF Tidy, Reader
        <5>2. srl' = [srl EXCEPT !.pc = "next"]
          BY <3>1, <3>4, <5>1 DEF Reader
        <5>3. SameText(srl, srl')
          BY <3>1, <5>2 DEF SameText, Reader
        <5>4. Tidy(srl)
          BY <4>2, <5>3, SameTexts
        <5>5. LineOk(srl)
          BY <3>1, <5>4 DEF LineInv
        <5> QED
          BY <3>1, <5>1, <5>2, <5>3, <5>5, BrokenLines
      <4> QED
        BY <4>1, <4>2 DEF LineInv
    <3> QED
      BY <2>4, <3>2, <3>3, <3>4 DEF Fill
  <2>5. CASE NextLine
    <3> DEFINE c == [srl EXCEPT !.dst = <<>>, !.illegals = 0]
    <3>1. srl.pc = "next" /\ srl \in Reader /\ srl' = Scan(c)
      BY <2>5 DEF NextLine, LineInv
    <3>2. c \in Reader /\ SameText(srl, c)
      BY <3>1, EmptySeq DEF Reader, SameText
    <3>3. srl' \in Reader /\ SameText(srl, srl')
      <4> HIDE DEF c
      <4> QED
        BY <3>1, <3>2, ReaderScans DEF SameText
    <3>4. ASSUME Tidy(srl') PROVE LineOk(srl')
      <4>1. Tidy(srl)
        BY <3>3, <3>4, SameTexts
      <4>2. LineOk(srl)
        BY <3>1, <4>1 DEF LineInv
      <4> QED
        BY <3>1, <4>1, <4>2, NextLines
    <3> QED
      BY <3>3, <3>4 DEF LineInv
  <2>6. CASE UNCHANGED vars
    BY <2>6 DEF vars, LineInv
  <2> QED
    BY <2>1, <2>2, <2>3, <2>4, <2>5, <2>6 DEF Next
<1>3. LineInv => LinesAsSent
  BY LinesFollow
<1> QED
  BY <1>1, <1>2, <1>3, PTL DEF Spec

-----------------------------------------------------------------------------
Addr == Nat \ {0}
NodeType == [item : ItemType, next : Nat, prev : Nat]
HeapOK(h) == DOMAIN h \subseteq Addr /\ IsFiniteSet(DOMAIN h) /\ h \in [DOMAIN h -> NodeType]

Succ(w, k) == IF k < Len(w) THEN w[k + 1] ELSE NULL
Pred(w, k) == IF k = 1 THEN NULL ELSE w[k - 1]
FirstNode(w) == IF w = <<>> THEN NULL ELSE w[1]
LastNode(w) == IF w = <<>> THEN NULL ELSE w[Len(w)]

\* A sequence of addresses without repetition.
Path(w) == w \in Seq(Addr) /\ IsInjective(w)

Linked(h, w) ==
    \A k \in 1..Len(w) : w[k] \in DOMAIN h /\ h[w[k]].next = Succ(w, k) /\ h[w[k]].prev = Pred(w, k)
Ends(l, w) == l.first = FirstNode(w) /\ l.last = LastNode(w) /\ l.n = Len(w)
Chained(h, l, w) == Path(w) /\ Linked(h, w) /\ Ends(l, w)

LineListType == [first : Nat, last : Nat, n : Nat]
FileListType == [first : Nat, last : Nat, n : Nat, vec : Seq(Addr), vectored : BOOLEAN,
                 sortKey : {"", "n", "t", "s", "b"}, sortOrder : {"", "a", "d"}]
IsList(l) == {"first", "last", "n"} \subseteq DOMAIN l

\* h2 has the nodes of S as h has them, or at least their items.
SameNodes(h, h2, S) == \A x \in S : x \in DOMAIN h2 /\ h2[x] = h[x]
SameItems(h, h2, S) == \A x \in S : x \in DOMAIN h2 /\ h2[x].item = h[x].item

-----------------------------------------------------------------------------
LEMMA PathFacts ==
    ASSUME NEW w, Path(w)
    PROVE  /\ w \in Seq(Addr) /\ Len(w) \in Nat /\ DOMAIN w = 1..Len(w)
           /\ \A k \in 1..Len(w) : w[k] \in Addr
           /\ \A j, k \in 1..Len(w) : w[j] = w[k] => j = k
           /\ w = <<>> <=> Len(w) = 0
           /\ Range(w) = {w[k] : k \in 1..Len(w)}
<1>1. w \in Seq(Addr) /\ \A j, k \in DOMAIN w : w[j] = w[k] => j = k
  BY DEF Path, IsInjective
<1>2. Len(w) \in Nat /\ DOMAIN w = 1..Len(w) /\ \A k \in 1..Len(w) : w[k] \in Addr
  BY <1>1
<1>3. w = <<>> <=> Len(w) = 0
  BY <1>1
<1> QED
  BY <1>1, <1>2, <1>3 DEF Range

LEMMA LinkedFrame ==
    ASSUME NEW h, NEW h2, NEW w, Path(w), Linked(h, w), SameNodes(h, h2, Range(w))
    PROVE  Linked(h2, w)
<1>1. \A k \in 1..Len(w) : w[k] \in Range(w)
  BY PathFacts
<1> QED
  BY <1>1 DEF Linked, SameNodes

\* h2 is h with the node at address a.
Stored(h, h2, a, node) ==
    /\ HeapOK(h2) /\ DOMAIN h2 = DOMAIN h \cup {a}
    /\ h2[a] = node /\ \A x \in DOMAIN h \ {a} : h2[x] = h[x]

LEMMA WithFacts ==
    ASSUME NEW h, HeapOK(h), NEW a \in Addr, NEW node \in NodeType
    PROVE  Stored(h, With(h, a, node), a, node)
<1>1. IsFiniteSet(DOMAIN h \cup {a})
  BY FS_AddElement DEF HeapOK
<1> QED
  BY <1>1 DEF HeapOK, With, Stored

LEMMA PointFacts ==
    ASSUME NEW h, HeapOK(h), NEW a \in DOMAIN h \cup {NULL}, NEW field \in {"next", "prev"}, NEW to \in Nat
    PROVE  /\ HeapOK(Point(h, a, field, to)) /\ DOMAIN Point(h, a, field, to) = DOMAIN h
           /\ \A x \in DOMAIN h \ {a} : Point(h, a, field, to)[x] = h[x]
           /\ a \in DOMAIN h => Point(h, a, field, to)[a] = [h[a] EXCEPT ![field] = to]
           /\ SameItems(h, Point(h, a, field, to), DOMAIN h)
<1>1. CASE a = NULL
  BY <1>1 DEF Point, HeapOK, Addr, NULL, SameItems
<1>2. CASE a # NULL
  <2>1. a \in DOMAIN h /\ h[a] \in NodeType
    BY <1>2 DEF HeapOK
  <2>2. [h[a] EXCEPT ![field] = to] \in NodeType /\ [h[a] EXCEPT ![field] = to].item = h[a].item
    BY <2>1 DEF NodeType
  <2>3. Point(h, a, field, to) = [x \in DOMAIN h |-> IF x = a THEN [h[a] EXCEPT ![field] = to] ELSE h[x]]
    BY <1>2, <2>1 DEF Point, HeapOK
  <2> QED
    BY <2>1, <2>2, <2>3 DEF HeapOK, SameItems
<1> QED
  BY <1>1, <1>2

LEMMA WithoutFacts ==
    ASSUME NEW h, HeapOK(h), NEW S
    PROVE  LET r == [x \in DOMAIN h \ S |-> h[x]]
           IN  HeapOK(r) /\ DOMAIN r = DOMAIN h \ S /\ SameNodes(h, r, DOMAIN h \ S)
<1>1. IsFiniteSet(DOMAIN h \ S)
  BY FS_Subset DEF HeapOK
<1> QED
  BY <1>1 DEF HeapOK, SameNodes

\* A node put last is the last of the list.
LEMMA AppendPath ==
    ASSUME NEW w, Path(w), NEW a \in Addr, a \notin Range(w)
    PROVE  /\ Path(Append(w, a)) /\ Len(Append(w, a)) = Len(w) + 1
           /\ \A k \in 1..Len(w) : Append(w, a)[k] = w[k]
           /\ Append(w, a)[Len(w) + 1] = a
           /\ Append(w, a) # <<>>
           /\ Range(Append(w, a)) = Range(w) \cup {a}
<1> DEFINE v == Append(w, a)
<1>1. /\ v \in Seq(Addr) /\ Len(v) = Len(w) + 1 /\ \A k \in 1..Len(w) : v[k] = w[k]
      /\ v[Len(w) + 1] = a
  BY PathFacts
<1>2. DOMAIN v = 1..Len(w) + 1 /\ Len(w) \in Nat
  BY <1>1, PathFacts
<1>3. \A k \in 1..Len(w) : w[k] # a
  BY PathFacts
<1>4. IsInjective(v)
  BY <1>1, <1>2, <1>3, PathFacts DEF IsInjective
<1>5. Range(v) = Range(w) \cup {a}
  <2>1. Range(v) = {v[k] : k \in 1..Len(w) + 1}
    BY <1>2 DEF Range
  <2>2. 1..Len(w) + 1 = (1..Len(w)) \cup {Len(w) + 1}
    BY <1>2
  <2> QED
    BY <2>1, <2>2, <1>1, PathFacts
<1>6. v # <<>>
  BY <1>1, <1>2
<1> QED
  BY <1>1, <1>4, <1>5, <1>6 DEF Path

\* r is heap and list after node a was put after the nodes w.
Added(h, l, w, a, r) ==
    /\ HeapOK(r[1]) /\ DOMAIN r[1] = DOMAIN h \cup {a}
    /\ Chained(r[1], r[2], Append(w, a))
    /\ SameNodes(h, r[1], DOMAIN h \ Range(w)) /\ SameItems(h, r[1], DOMAIN h)
    /\ \E first \in Nat : r[2] = [l EXCEPT !.first = first, !.last = a, !.n = Len(w) + 1]

LEMMA AddLineFacts ==
    ASSUME NEW h, HeapOK(h), NEW l, IsList(l), NEW w, Chained(h, l, w),
           NEW a \in Addr, a \notin DOMAIN h, NEW item \in ItemType
    PROVE  Added(h, l, w, a, AddLine(h, l, a, item))
<1> DEFINE node == [item |-> item, next |-> NULL, prev |-> IF l.first = NULL THEN NULL ELSE l.last]
           r == AddLine(h, l, a, item)
           h1 == With(h, a, node)
           v == Append(w, a)
<1>1. Path(w) /\ Linked(h, w) /\ Ends(l, w)
  BY DEF Chained
<1>2. Len(w) \in Nat /\ (\A k \in 1..Len(w) : w[k] \in Addr /\ w[k] \in DOMAIN h) /\ (w = <<>> <=> Len(w) = 0)
  BY <1>1, PathFacts DEF Linked
<1>3. a \notin Range(w)
  BY <1>1, <1>2, PathFacts
<1>4. (l.first = NULL <=> w = <<>>) /\ (w # <<>> => l.last = w[Len(w)])
  BY <1>1, <1>2 DEF Ends, FirstNode, LastNode, Addr, NULL
<1>5. node \in NodeType /\ node.item = item /\ node.next = NULL /\ node.prev = LastNode(w)
  BY <1>2, <1>4 DEF NodeType, NULL, Addr, LastNode
<1>6. HeapOK(h1) /\ DOMAIN h1 = DOMAIN h \cup {a} /\ h1[a] = node /\ \A x \in DOMAIN h \ {a} : h1[x] = h[x]
  <2>1. Stored(h, h1, a, node)
    <3> HIDE DEF node
    <3> QED
      BY <1>5, WithFacts
  <2> QED
    BY <2>1 DEF Stored
<1>7. /\ Path(v) /\ Len(v) = Len(w) + 1 /\ (\A k \in 1..Len(w) : v[k] = w[k])
      /\ v[Len(w) + 1] = a /\ v # <<>>
  BY <1>1, <1>3, AppendPath
<1>8. CASE w = <<>>
  <2>1. r = <<h1, [l EXCEPT !.first = a, !.last = a, !.n = 1]>>
    BY <1>4, <1>8 DEF AddLine
  <2>2. Ends(r[2], v)
    <3>1. r[2].first = a /\ r[2].last = a /\ r[2].n = 1
      <4>1. r[2] = [l EXCEPT !.first = a, !.last = a, !.n = 1]
        BY <2>1
      <4> HIDE DEF r
      <4> QED
        BY <4>1 DEF IsList
    <3>2. Len(v) = 1 /\ v[1] = a
      BY <1>7, <1>8, <1>2
    <3> QED
      BY <3>1, <3>2, <1>7 DEF Ends, FirstNode, LastNode
  <2>3. Linked(h1, v)
    BY <1>7, <1>8, <1>2, <1>5, <1>6 DEF Linked, Succ, Pred, LastNode
  <2>4. SameNodes(h, h1, DOMAIN h \ Range(w)) /\ SameItems(h, h1, DOMAIN h)
    BY <1>6 DEF SameNodes, SameItems
  <2>5. r[1] = h1 /\ r[2] = [l EXCEPT !.first = a, !.last = a, !.n = 1] /\ Len(w) + 1 = 1 /\ a \in Nat
    BY <2>1, <1>2, <1>8 DEF Addr
  <2> QED
    <3>1. Chained(r[1], r[2], v) /\ HeapOK(r[1]) /\ DOMAIN r[1] = DOMAIN h \cup {a}
      BY <2>2, <2>3, <2>5, <1>6, <1>7 DEF Chained
    <3>2. SameNodes(h, r[1], DOMAIN h \ Range(w)) /\ SameItems(h, r[1], DOMAIN h)
      BY <2>4, <2>5
    <3>3. \E first \in Nat : r[2] = [l EXCEPT !.first = first, !.last = a, !.n = Len(w) + 1]
      BY <2>5
    <3> HIDE DEF r, v, h1
    <3> QED
      BY <3>1, <3>2, <3>3 DEF Added, r, v
<1>9. CASE w # <<>>
  <2> DEFINE z == w[Len(w)]
             h2 == Point(h1, z, "next", a)
  <2>1. r = <<h2, [l EXCEPT !.last = a, !.n = l.n + 1]>>
    BY <1>4, <1>9 DEF AddLine, IsList
  <2>2. z \in DOMAIN h /\ Len(w) > 0 /\ z # a /\ z \in DOMAIN h1 /\ a \in Nat /\ z \in Range(w)
    BY <1>2, <1>9, <1>6, <1>1, PathFacts DEF Addr
  <2>3. /\ HeapOK(h2) /\ DOMAIN h2 = DOMAIN h \cup {a}
        /\ \A x \in DOMAIN h1 \ {z} : h2[x] = h1[x]
        /\ h2[z] = [h1[z] EXCEPT !["next"] = a]
        /\ SameItems(h1, h2, DOMAIN h1)
    BY <2>2, <1>6, PointFacts
  <2>4. h1[z] = h[z] /\ h[z] \in NodeType
    BY <2>2, <1>6 DEF HeapOK
  <2>5. h2[z].next = a /\ h2[z].prev = h[z].prev
    BY <2>3, <2>4 DEF NodeType
  <2>6. h2[a] = node
    BY <2>2, <2>3, <1>6
  <2>7. \A x \in DOMAIN h \ {z} : h2[x] = h[x]
    BY <2>3, <1>6
  <2>8. Linked(h2, v)
    <3> SUFFICES ASSUME NEW k \in 1..Len(v)
                 PROVE  v[k] \in DOMAIN h2 /\ h2[v[k]].next = Succ(v, k) /\ h2[v[k]].prev = Pred(v, k)
      BY DEF Linked
    <3>1. CASE k = Len(w) + 1
      BY <3>1, <2>6, <1>5, <1>7, <2>3, <1>2, <1>9 DEF Succ, Pred, LastNode
    <3>2. CASE k = Len(w)
      <4>1. v[k] = z /\ h[z].prev = Pred(w, k)
        BY <3>2, <1>7, <2>2, <1>1, <1>2 DEF Linked
      <4>2. Pred(v, k) = Pred(w, k)
        BY <3>2, <1>7, <2>2, <1>2 DEF Pred
      <4>3. Succ(v, k) = a
        BY <3>2, <1>7, <2>2, <1>2 DEF Succ
      <4> QED
        BY <4>1, <4>2, <4>3, <2>5, <2>2, <2>3
    <3>3. CASE k \in 1..Len(w) - 1
      <4>1. v[k] = w[k] /\ w[k] # z /\ w[k] \in DOMAIN h
        BY <3>3, <1>7, <1>1, <1>2, PathFacts
      <4>2. h[w[k]].next = Succ(w, k) /\ h[w[k]].prev = Pred(w, k)
        BY <3>3, <1>1, <1>2 DEF Linked
      <4>3. Pred(v, k) = Pred(w, k)
        BY <3>3, <1>7, <1>2 DEF Pred
      <4>4. Succ(v, k) = Succ(w, k)
        BY <3>3, <1>7, <1>2 DEF Succ
      <4> QED
        BY <4>1, <4>2, <4>3, <4>4, <2>7, <2>3
    <3> QED
      BY <3>1, <3>2, <3>3, <1>7, <1>2
  <2>9. l.first = w[1] /\ l.n = Len(w)
    BY <1>1, <1>9 DEF Ends, FirstNode
  <2>10. /\ [l EXCEPT !.last = a, !.n = l.n + 1] = [l EXCEPT !.first = w[1], !.last = a, !.n = Len(w) + 1]
         /\ w[1] \in Nat /\ v[1] = w[1]
    <3>1. w[1] \in Nat /\ v[1] = w[1]
      BY <2>2, <1>2, <1>7 DEF Addr
    <3> QED
      BY <3>1, <2>9 DEF IsList
  <2>11. Ends([l EXCEPT !.first = w[1], !.last = a, !.n = Len(w) + 1], v)
    BY <2>10, <1>7 DEF Ends, FirstNode, LastNode, IsList
  <2>12. SameNodes(h, h2, DOMAIN h \ Range(w)) /\ SameItems(h, h2, DOMAIN h)
    BY <2>2, <2>7, <2>3, <1>6 DEF SameNodes, SameItems
  <2>13. Chained(h2, r[2], v) /\ r[1] = h2
    BY <2>1, <2>8, <2>10, <2>11, <1>7 DEF Chained
  <2>14. \E first \in Nat : r[2] = [l EXCEPT !.first = first, !.last = a, !.n = Len(w) + 1]
    <3> HIDE DEF r, h2
    <3> QED
      BY <2>1, <2>10
  <2> HIDE DEF node, h1, h2, r, v
  <2>15. HeapOK(r[1]) /\ DOMAIN r[1] = DOMAIN h \cup {a} /\ Chained(r[1], r[2], v)
    BY <2>3, <2>13
  <2>16. SameNodes(h, r[1], DOMAIN h \ Range(w)) /\ SameItems(h, r[1], DOMAIN h)
    BY <2>12, <2>13
  <2> QED
    BY <2>14, <2>15, <2>16 DEF Added, r, v
<1> QED
  BY <1>8, <1>9

\* The path without its k-th node.
LEMMA RemoveAtFacts ==
    ASSUME NEW w, Path(w), NEW k \in 1..Len(w)
    PROVE  /\ Path(RemoveAt(w, k)) /\ Len(RemoveAt(w, k)) = Len(w) - 1
           /\ \A i \in 1..Len(w) - 1 : RemoveAt(w, k)[i] = IF i < k THEN w[i] ELSE w[i + 1]
           /\ Range(RemoveAt(w, k)) = Range(w) \ {w[k]}
<1> DEFINE v == RemoveAt(w, k)
           s == SubSeq(w, 1, k - 1)
           t == SubSeq(w, k + 1, Len(w))
<1>1. w \in Seq(Addr) /\ Len(w) \in Nat /\ k \in Nat /\ 1 <= k /\ k <= Len(w)
  BY PathFacts
<1>2. s \in Seq(Addr) /\ Len(s) = k - 1 /\ \A i \in 1..k - 1 : s[i] = w[i]
  BY <1>1
<1>3. t \in Seq(Addr) /\ Len(t) = Len(w) - k /\ \A i \in 1..Len(w) - k : t[i] = w[k + i]
  BY <1>1
<1>4. v \in Seq(Addr) /\ Len(v) = Len(w) - 1
  <2>1. v = s \o t
    BY DEF RemoveAt
  <2> HIDE DEF s, t, v
  <2>2. s \o t \in Seq(Addr) /\ Len(s \o t) = Len(s) + Len(t)
    BY <1>2, <1>3, ConcatProperties
  <2> QED
    BY <2>1, <2>2, <1>1, <1>2, <1>3
<1>5. \A i \in 1..Len(w) - 1 : v[i] = IF i < k THEN w[i] ELSE w[i + 1]
  <2> SUFFICES ASSUME NEW i \in 1..Len(w) - 1
               PROVE  v[i] = IF i < k THEN w[i] ELSE w[i + 1]
    OBVIOUS
  <2> HIDE DEF s, t
  <2>1. v = s \o t
    BY DEF RemoveAt, s, t
  <2>2. CASE i < k
    BY <2>1, <2>2, <1>1, <1>2, <1>3
  <2>3. CASE i >= k
    <3>1. i - (k - 1) \in 1..Len(w) - k /\ k + (i - (k - 1)) = i + 1
      BY <2>3, <1>1
    <3>2. v[i] = t[i - (k - 1)]
      <4>1. i \in 1..Len(s) + Len(t) /\ ~(i <= Len(s))
        BY <2>3, <1>1, <1>2, <1>3
      <4>2. (s \o t)[i] = IF i <= Len(s) THEN s[i] ELSE t[i - Len(s)]
        BY <4>1, <1>2, <1>3, ConcatProperties
      <4> QED
        BY <4>1, <4>2, <2>1, <1>2
    <3> QED
      BY <3>1, <3>2, <1>3, <2>3, <1>1
  <2> QED
    BY <2>2, <2>3, <1>1
<1> HIDE DEF v
<1>6. \A i, j \in 1..Len(w) : w[i] = w[j] => i = j
  BY PathFacts
<1>7. DOMAIN v = 1..Len(w) - 1
  BY <1>4, <1>1
<1>8. IsInjective(v)
  <2> SUFFICES ASSUME NEW i \in 1..Len(w) - 1, NEW j \in 1..Len(w) - 1, v[i] = v[j]
               PROVE  i = j
    BY <1>7 DEF IsInjective
  <2>1. i \in 1..Len(w) /\ i + 1 \in 1..Len(w) /\ j \in 1..Len(w) /\ j + 1 \in 1..Len(w)
    BY <1>1
  <2>2. (IF i < k THEN w[i] ELSE w[i + 1]) = (IF j < k THEN w[j] ELSE w[j + 1])
    BY <1>5
  <2>3. (IF i < k THEN i ELSE i + 1) = (IF j < k THEN j ELSE j + 1)
    BY <2>1, <2>2, <1>6
  <2> QED
    BY <2>3, <1>1
<1>9. Range(v) = Range(w) \ {w[k]}
  <2>1. Range(v) = {v[i] : i \in 1..Len(w) - 1} /\ Range(w) = {w[i] : i \in 1..Len(w)}
    BY <1>7, PathFacts DEF Range
  <2>2. ASSUME NEW i \in 1..Len(w) - 1 PROVE v[i] \in Range(w) \ {w[k]}
    <3>1. \E j \in 1..Len(w) : v[i] = w[j] /\ j # k
      <4>1. CASE i < k
        BY <4>1, <1>5, <1>1
      <4>2. CASE i >= k
        <5>1. i + 1 \in 1..Len(w) /\ i + 1 # k /\ ~(i < k)
          BY <4>2, <1>1
        <5> QED
          BY <5>1, <1>5
      <4> QED
        BY <4>1, <4>2, <1>1
    <3> QED
      BY <3>1, <2>1, <1>6
  <2>3. ASSUME NEW j \in 1..Len(w), j # k PROVE \E i \in 1..Len(w) - 1 : v[i] = w[j]
    <3>1. CASE j < k
      <4>1. j \in 1..Len(w) - 1
        BY <3>1, <1>1
      <4> QED
        BY <3>1, <4>1, <1>5
    <3>2. CASE j > k
      <4>1. j - 1 \in 1..Len(w) - 1 /\ ~(j - 1 < k) /\ (j - 1) + 1 = j
        BY <3>2, <1>1
      <4>2. v[j - 1] = w[(j - 1) + 1]
        BY <4>1, <1>5
      <4> QED
        BY <4>1, <4>2
    <3> QED
      BY <3>1, <3>2, <2>3, <1>1
  <2>4. Range(v) \subseteq Range(w) \ {w[k]}
    BY <2>1, <2>2
  <2>5. ASSUME NEW x \in Range(w) \ {w[k]} PROVE x \in Range(v)
    <3>1. PICK j \in 1..Len(w) : x = w[j]
      BY <2>1
    <3>2. j # k
      BY <3>1
    <3> QED
      BY <3>1, <3>2, <2>1, <2>3
  <2> QED
    BY <2>4, <2>5
<1> QED
  BY <1>4, <1>5, <1>8, <1>9 DEF Path, v

\* h3 is h after the links around node a were put past it, and it was freed.
PutPast(h, h3, a, next, prev) ==
    /\ HeapOK(h3) /\ DOMAIN h3 = DOMAIN h \ {a}
    /\ \A x \in DOMAIN h \ {a} :
          /\ h3[x].next = IF x = prev THEN next ELSE h[x].next
          /\ h3[x].prev = IF x = next THEN prev ELSE h[x].prev
          /\ h3[x].item = h[x].item
          /\ x \notin {next, prev} => h3[x] = h[x]

LEMMA UnlinkFacts ==
    ASSUME NEW h, HeapOK(h), NEW a \in DOMAIN h,
           NEW next \in DOMAIN h \cup {NULL}, NEW prev \in DOMAIN h \cup {NULL}
    PROVE  PutPast(h, Without(Point(Point(h, next, "prev", prev), prev, "next", next), a), a, next, prev)
<1> DEFINE h1 == Point(h, next, "prev", prev)
           h2 == Point(h1, prev, "next", next)
           h3 == Without(h2, a)
<1>1. next \in Nat /\ prev \in Nat
  BY DEF HeapOK, Addr, NULL
<1>2. /\ HeapOK(h1) /\ DOMAIN h1 = DOMAIN h
      /\ (\A x \in DOMAIN h \ {next} : h1[x] = h[x])
      /\ (next \in DOMAIN h => h1[next] = [h[next] EXCEPT !["prev"] = prev])
  BY <1>1, PointFacts
<1> HIDE DEF h1
<1>3. /\ HeapOK(h2) /\ DOMAIN h2 = DOMAIN h
      /\ (\A x \in DOMAIN h \ {prev} : h2[x] = h1[x])
      /\ (prev \in DOMAIN h => h2[prev] = [h1[prev] EXCEPT !["next"] = next])
  BY <1>1, <1>2, PointFacts
<1> HIDE DEF h2
<1>4. HeapOK(h3) /\ DOMAIN h3 = DOMAIN h \ {a} /\ \A x \in DOMAIN h \ {a} : h3[x] = h2[x]
  <2>1. h3 = [x \in DOMAIN h2 \ {a} |-> h2[x]]
    BY DEF Without
  <2> HIDE DEF h3
  <2>2. HeapOK(h3) /\ DOMAIN h3 = DOMAIN h2 \ {a} /\ SameNodes(h2, h3, DOMAIN h2 \ {a})
    BY <2>1, <1>3, WithoutFacts
  <2> QED
    BY <2>2, <1>3 DEF SameNodes
<1> HIDE DEF h3
<1>5. ASSUME NEW x \in DOMAIN h \ {a}
      PROVE  /\ h3[x].next = IF x = prev THEN next ELSE h[x].next
             /\ h3[x].prev = IF x = next THEN prev ELSE h[x].prev
             /\ h3[x].item = h[x].item
             /\ x \notin {next, prev} => h3[x] = h[x]
  <2>1. h[x] \in NodeType /\ h1[x] \in NodeType /\ h3[x] = h2[x]
    BY <1>2, <1>4 DEF HeapOK
  <2>2. /\ h1[x].next = h[x].next /\ h1[x].prev = IF x = next THEN prev ELSE h[x].prev
        /\ h1[x].item = h[x].item
    BY <2>1, <1>2 DEF NodeType
  <2>3. /\ h2[x].next = IF x = prev THEN next ELSE h1[x].next
        /\ h2[x].prev = h1[x].prev /\ h2[x].item = h1[x].item
    BY <2>1, <1>3 DEF NodeType
  <2>4. x \notin {next, prev} => h3[x] = h[x]
    BY <2>1, <1>2, <1>3
  <2> QED
    BY <2>1, <2>2, <2>3, <2>4
<1> QED
  BY <1>4, <1>5 DEF h1, h2, h3, PutPast

\* r is heap and list after the k-th of the nodes w was taken out and freed.
Removed(h, l, w, k, r) ==
    /\ HeapOK(r[1]) /\ DOMAIN r[1] = DOMAIN h \ {w[k]}
    /\ Chained(r[1], r[2], RemoveAt(w, k))
    /\ SameNodes(h, r[1], DOMAIN h \ Range(w)) /\ SameItems(h, r[1], DOMAIN h \ {w[k]})
    /\ \E first, last \in Nat : r[2] = [l EXCEPT !.first = first, !.last = last, !.n = Len(w) - 1]

LEMMA RemoveLineFacts ==
    ASSUME NEW h, HeapOK(h), NEW l, IsList(l), NEW w, Chained(h, l, w), NEW k \in 1..Len(w)
    PROVE  Removed(h, l, w, k, RemoveLine(h, l, w[k]))
<1> DEFINE a == w[k]
           next == h[a].next
           prev == h[a].prev
           v == RemoveAt(w, k)
           r == RemoveLine(h, l, a)
           h3 == Without(Point(Point(h, next, "prev", prev), prev, "next", next), a)
<1>1. Path(w) /\ Linked(h, w) /\ Ends(l, w)
  BY DEF Chained
<1>2. /\ Len(w) \in Nat /\ k \in Nat /\ 1 <= k /\ k <= Len(w)
      /\ (\A i \in 1..Len(w) : w[i] \in Addr /\ w[i] \in DOMAIN h)
      /\ \A i, j \in 1..Len(w) : w[i] = w[j] => i = j
  BY <1>1, PathFacts DEF Linked
<1>3. /\ next = Succ(w, k) /\ prev = Pred(w, k) /\ a \in DOMAIN h
      /\ next \in DOMAIN h \cup {NULL} /\ prev \in DOMAIN h \cup {NULL}
  <2>1. next = Succ(w, k) /\ prev = Pred(w, k) /\ a \in DOMAIN h
    BY <1>1, <1>2 DEF Linked
  <2>2. (k < Len(w) => k + 1 \in 1..Len(w)) /\ (k # 1 => k - 1 \in 1..Len(w))
    BY <1>2
  <2>3. Succ(w, k) \in DOMAIN h \cup {NULL}
    BY <2>2, <1>2 DEF Succ
  <2>4. Pred(w, k) \in DOMAIN h \cup {NULL}
    BY <2>2, <1>2 DEF Pred
  <2> HIDE DEF next, prev, a
  <2> QED
    BY <2>1, <2>3, <2>4
<1>4. /\ HeapOK(h3) /\ DOMAIN h3 = DOMAIN h \ {a}
      /\ \A x \in DOMAIN h \ {a} :
            /\ h3[x].next = IF x = prev THEN next ELSE h[x].next
            /\ h3[x].prev = IF x = next THEN prev ELSE h[x].prev
            /\ h3[x].item = h[x].item
            /\ x \notin {next, prev} => h3[x] = h[x]
  <2>1. PutPast(h, h3, a, next, prev)
    <3> HIDE DEF next, prev, a
    <3> QED
      BY <1>3, UnlinkFacts
  <2> QED
    BY <2>1, Zenon DEF PutPast
<1> HIDE DEF h3
<1>5. /\ Path(v) /\ Len(v) = Len(w) - 1
      /\ (\A i \in 1..Len(w) - 1 : v[i] = IF i < k THEN w[i] ELSE w[i + 1])
      /\ (v = <<>> <=> Len(v) = 0)
  BY <1>1, RemoveAtFacts, PathFacts
<1> HIDE DEF v
<1>6. Linked(h3, v)
  <2> SUFFICES ASSUME NEW i \in 1..Len(w) - 1
               PROVE  v[i] \in DOMAIN h3 /\ h3[v[i]].next = Succ(v, i) /\ h3[v[i]].prev = Pred(v, i)
    BY <1>5 DEF Linked
  <2> DEFINE j == IF i < k THEN i ELSE i + 1
  <2>1. j \in 1..Len(w) /\ j # k /\ v[i] = w[j] /\ i \in Nat /\ 1 <= i /\ i <= Len(w) - 1
    BY <1>2, <1>5
  <2>2. /\ w[j] \in DOMAIN h \ {a} /\ h[w[j]].next = Succ(w, j) /\ h[w[j]].prev = Pred(w, j)
    BY <2>1, <1>1, <1>2 DEF Linked
  <2>3. NULL \notin DOMAIN h
    BY DEF HeapOK, Addr, NULL
  <2>4. h3[v[i]].next = IF w[j] = prev THEN next ELSE Succ(w, j)
    BY <2>1, <2>2, <1>4
  <2>5. h3[v[i]].prev = IF w[j] = next THEN prev ELSE Pred(w, j)
    BY <2>1, <2>2, <1>4
  <2>6. (w[j] = prev) <=> (i = k - 1)
    <3>1. CASE k = 1
      BY <3>1, <1>2, <1>3, <2>1, <2>2, <2>3 DEF Pred
    <3>2. CASE k > 1
      <4>1. prev = w[k - 1] /\ k - 1 \in 1..Len(w)
        BY <3>2, <1>2, <1>3 DEF Pred
      <4>2. (w[j] = prev) <=> (j = k - 1)
        BY <4>1, <1>2, <2>1
      <4> QED
        BY <4>2, <1>2, <2>1
    <3> QED
      BY <3>1, <3>2, <1>2
  <2>7. (w[j] = next) <=> (i = k)
    <3>1. CASE k = Len(w)
      BY <3>1, <1>2, <1>3, <2>1, <2>2, <2>3 DEF Succ
    <3>2. CASE k < Len(w)
      <4>1. next = w[k + 1] /\ k + 1 \in 1..Len(w)
        BY <3>2, <1>2, <1>3 DEF Succ
      <4>2. (w[j] = next) <=> (j = k + 1)
        BY <4>1, <1>2, <2>1
      <4> QED
        BY <4>2, <1>2, <2>1
    <3> QED
      BY <3>1, <3>2, <1>2
  <2>8. Succ(v, i) = IF i = k - 1 THEN Succ(w, k) ELSE Succ(w, j)
    <3>1. CASE i = Len(w) - 1
      BY <3>1, <1>2, <1>5 DEF Succ
    <3>2. CASE i < Len(w) - 1
      <4>1. Succ(v, i) = v[i + 1] /\ i + 1 \in 1..Len(w) - 1
        BY <3>2, <2>1, <1>2, <1>5 DEF Succ
      <4>2. v[i + 1] = IF i + 1 < k THEN w[i + 1] ELSE w[i + 2]
        BY <4>1, <1>5, <1>2, <2>1
      <4>3. CASE i = k - 1
        BY <4>1, <4>2, <4>3, <3>2, <1>2, <2>1 DEF Succ
      <4>4. CASE i < k - 1
        BY <4>1, <4>2, <4>4, <3>2, <1>2, <2>1 DEF Succ
      <4>5. CASE i >= k
        BY <4>1, <4>2, <4>5, <3>2, <1>2, <2>1 DEF Succ
      <4> QED
        BY <4>3, <4>4, <4>5, <1>2, <2>1
    <3> QED
      BY <3>1, <3>2, <2>1, <1>2
  <2>9. Pred(v, i) = IF i = k THEN Pred(w, k) ELSE Pred(w, j)
    <3>1. CASE i = 1
      BY <3>1, <1>2 DEF Pred
    <3>2. CASE i > 1
      <4>1. Pred(v, i) = v[i - 1] /\ i - 1 \in 1..Len(w) - 1
        BY <3>2, <2>1, <1>2 DEF Pred
      <4>2. v[i - 1] = IF i - 1 < k THEN w[i - 1] ELSE w[i]
        BY <4>1, <1>5, <1>2, <2>1
      <4>3. CASE i <= k
        BY <4>1, <4>2, <4>3, <3>2, <1>2, <2>1 DEF Pred
      <4>4. CASE i > k
        BY <4>1, <4>2, <4>4, <3>2, <1>2, <2>1 DEF Pred
      <4> QED
        BY <4>3, <4>4, <1>2, <2>1
    <3> QED
      BY <3>1, <3>2, <2>1
  <2>10. v[i] \in DOMAIN h3
    BY <2>1, <2>2, <1>4
  <2> HIDE DEF j, next, prev
  <2> QED
    BY <2>4, <2>5, <2>6, <2>7, <2>8, <2>9, <2>10, <1>3
<1> DEFINE first == IF l.first = a THEN next ELSE l.first
           last == IF l.last = a THEN prev ELSE l.last
<1>7. r = <<h3, [l EXCEPT !.first = first, !.last = last, !.n = l.n - 1]>>
  BY DEF RemoveLine, h3, IsList
<1>8. l.first = w[1] /\ l.last = w[Len(w)] /\ l.n = Len(w)
  BY <1>1, <1>2 DEF Ends, FirstNode, LastNode
<1>9. first = FirstNode(v) /\ last = LastNode(v)
  <2>1. (w[1] = a <=> k = 1) /\ (w[Len(w)] = a <=> k = Len(w))
    BY <1>2
  <2>2. first = IF k = 1 THEN Succ(w, 1) ELSE w[1]
    BY <2>1, <1>8, <1>3
  <2>3. last = IF k = Len(w) THEN Pred(w, k) ELSE w[Len(w)]
    BY <2>1, <1>8, <1>3
  <2> HIDE DEF first, last
  <2>4. CASE Len(w) = 1
    BY <2>2, <2>3, <2>4, <1>2, <1>5 DEF FirstNode, LastNode, Succ, Pred
  <2>5. CASE Len(w) > 1
    <3>1. v # <<>> /\ 1 \in 1..Len(w) - 1 /\ Len(w) - 1 \in 1..Len(w) - 1 /\ Len(v) = Len(w) - 1
      BY <2>5, <1>2, <1>5
    <3>2. v[1] = (IF 1 < k THEN w[1] ELSE w[1 + 1]) /\ v[Len(v)] = (IF Len(w) - 1 < k THEN w[Len(w) - 1] ELSE w[(Len(w) - 1) + 1])
      BY <3>1, <1>5
    <3>3. first = v[1]
      BY <2>2, <2>5, <3>2, <1>2 DEF Succ
    <3>4. last = v[Len(v)]
      BY <2>3, <2>5, <3>2, <1>2 DEF Pred
    <3> QED
      BY <3>1, <3>3, <3>4 DEF FirstNode, LastNode
  <2>6. Len(w) = 1 \/ Len(w) > 1
    <3>1. Len(w) \in Nat /\ k \in Nat /\ 1 <= k /\ k <= Len(w)
      BY <1>2
    <3>2. \A n, m \in Nat : 1 <= m /\ m <= n => n = 1 \/ n > 1
      OBVIOUS
    <3> QED
      BY <3>1, <3>2
  <2> QED
    BY <2>4, <2>5, <2>6
<1>10. first \in Nat /\ last \in Nat
  <2>1. \A i \in 1..Len(v) : v[i] \in Addr
    BY <1>5, PathFacts
  <2>2. Len(v) \in Nat
    BY <1>5, <1>2
  <2> HIDE DEF first, last
  <2> QED
    BY <1>9, <1>5, <2>1, <2>2 DEF FirstNode, LastNode, Addr, NULL
<1> HIDE DEF first, last, a
<1>11. r[1] = h3 /\ r[2] = [l EXCEPT !.first = first, !.last = last, !.n = Len(w) - 1]
  BY <1>7, <1>8
<1> HIDE DEF r
<1>12. Ends(r[2], v)
  BY <1>11, <1>9, <1>5 DEF Ends, IsList
<1>13. SameNodes(h, h3, DOMAIN h \ Range(w))
  <2> SUFFICES ASSUME NEW x \in DOMAIN h \ Range(w)
               PROVE  x \in DOMAIN h3 /\ h3[x] = h[x]
    BY DEF SameNodes
  <2>1. \A i \in 1..Len(w) : x # w[i]
    BY <1>1, PathFacts
  <2>2. x # NULL /\ (k < Len(w) => k + 1 \in 1..Len(w)) /\ (k # 1 => k - 1 \in 1..Len(w))
    BY <1>2 DEF HeapOK, Addr, NULL
  <2>3. x # Succ(w, k) /\ x # Pred(w, k)
    BY <2>1, <2>2 DEF Succ, Pred
  <2>4. x # a
    BY <2>1 DEF a
  <2> HIDE DEF next, prev
  <2> QED
    BY <2>3, <2>4, <1>3, <1>4
<1>14. SameItems(h, h3, DOMAIN h \ {a})
  BY <1>4 DEF SameItems
<1>15. \E f, g \in Nat : r[2] = [l EXCEPT !.first = f, !.last = g, !.n = Len(w) - 1]
  BY <1>10, <1>11
<1>16. Chained(r[1], r[2], v)
  BY <1>5, <1>6, <1>11, <1>12 DEF Chained
<1>17. HeapOK(r[1]) /\ DOMAIN r[1] = DOMAIN h \ {a} /\ SameNodes(h, r[1], DOMAIN h \ Range(w)) /\ SameItems(h, r[1], DOMAIN h \ {a})
  BY <1>4, <1>11, <1>13, <1>14
<1> QED
  BY <1>15, <1>16, <1>17 DEF Removed, r, v, a
-----------------------------------------------------------------------------
(***************************************************************************)
(* Walks: the recursive functions of the model exist, by a witness, and    *)
(* are unique, by a smallest counterexample.                               *)
(***************************************************************************)
\* A path is not longer than the set its nodes are taken from.
LEMMA PathFits ==
    ASSUME NEW h, HeapOK(h), NEW w, Path(w), \A k \in 1..Len(w) : w[k] \in DOMAIN h
    PROVE  Cardinality(DOMAIN h) \in Nat /\ Len(w) <= Cardinality(DOMAIN h)
<1>1. w \in [1..Len(w) -> DOMAIN h] /\ IsInjective(w) /\ Len(w) \in Nat
  BY PathFacts DEF Path
<1>2. w \in Injection(1..Len(w), DOMAIN h)
  BY <1>1 DEF Injection
<1>3. IsFiniteSet(DOMAIN h)
  BY DEF HeapOK
<1>4. Cardinality(1..Len(w)) <= Cardinality(DOMAIN h)
  BY <1>2, <1>3, FS_Injection
<1>5. Cardinality(1..Len(w)) = Len(w)
  <2>1. Cardinality(1..Len(w)) = IF 1 > Len(w) THEN 0 ELSE Len(w) - 1 + 1
    BY <1>1, FS_Interval
  <2> QED
    BY <2>1, <1>1
<1>6. Cardinality(DOMAIN h) \in Nat
  BY <1>3, FS_CardinalityType
<1> QED
  BY <1>4, <1>5, <1>6

\* The loop from the first node of a chain meets its nodes, in order, and ends.
LEMMA WalkFacts ==
    ASSUME NEW h, HeapOK(h), NEW w, Path(w), Linked(h, w), NEW a, a = FirstNode(w)
    PROVE  Walk(h, a) = w
<1> DEFINE Step(b) == IF b \in DOMAIN h THEN h[b].next ELSE NULL
           at == CHOOSE f : f = [k \in Nat |-> IF k <= 1 THEN a ELSE IF f[k - 1] \in DOMAIN h THEN h[f[k - 1]].next ELSE NULL]
           g == [k \in Nat |-> IF k <= 1 THEN a ELSE IF k <= Len(w) THEN w[k] ELSE NULL]
<1>1. /\ Len(w) \in Nat /\ (\A k \in 1..Len(w) : w[k] \in DOMAIN h)
      /\ (w = <<>> <=> Len(w) = 0)
  BY PathFacts DEF Linked
<1>2. NULL \notin DOMAIN h
  BY DEF HeapOK, Addr, NULL
<1>3. \A k \in Nat : g[k] = (IF k <= 1 THEN a ELSE IF g[k - 1] \in DOMAIN h THEN h[g[k - 1]].next ELSE NULL)
  <2> SUFFICES ASSUME NEW k \in Nat
               PROVE  g[k] = (IF k <= 1 THEN a ELSE IF g[k - 1] \in DOMAIN h THEN h[g[k - 1]].next ELSE NULL)
    OBVIOUS
  <2>1. CASE k <= 1
    BY <2>1
  <2>2. CASE k > 1
    <3>1. k - 1 \in Nat /\ k - 1 >= 1 /\ g[k] = IF k <= Len(w) THEN w[k] ELSE NULL
      BY <2>2
    <3>2. CASE k - 1 <= Len(w)
      <4>1. k - 1 \in 1..Len(w) /\ w # <<>>
        BY <3>1, <3>2, <1>1
      <4>2. g[k - 1] = w[k - 1]
        BY <3>1, <3>2, <4>1, <1>1 DEF FirstNode
      <4>3. h[w[k - 1]].next = Succ(w, k - 1)
        BY <4>1 DEF Linked
      <4>4. Succ(w, k - 1) = IF k <= Len(w) THEN w[k] ELSE NULL
        BY <3>1, <1>1 DEF Succ
      <4> QED
        BY <2>2, <3>1, <4>1, <4>2, <4>3, <4>4, <1>1
    <3>3. CASE k - 1 > Len(w)
      <4>1. g[k - 1] = NULL
        BY <3>1, <3>3, <1>1 DEF FirstNode
      <4>2. g[k] = NULL
        BY <3>1, <3>3, <1>1
      <4> QED
        BY <2>2, <4>1, <4>2, <1>2
    <3> QED
      BY <3>1, <3>2, <3>3, <1>1
  <2> QED
    BY <2>1, <2>2
<1>4. g = [k \in Nat |-> IF k <= 1 THEN a ELSE IF g[k - 1] \in DOMAIN h THEN h[g[k - 1]].next ELSE NULL]
  <2>1. g = [k \in Nat |-> g[k]]
    BY Zenon
  <2> HIDE DEF g
  <2> QED
    BY <2>1, <1>3
<1>5. at = [k \in Nat |-> IF k <= 1 THEN a ELSE IF at[k - 1] \in DOMAIN h THEN h[at[k - 1]].next ELSE NULL]
  <2> HIDE DEF g
  <2> QED
    BY <1>4, Zenon
<1> HIDE DEF at
<1>6. \A k \in Nat : at[k] = (IF k <= 1 THEN a ELSE IF at[k - 1] \in DOMAIN h THEN h[at[k - 1]].next ELSE NULL)
  BY <1>5
<1>7. \A k \in Nat : at[k] = g[k]
  <2> HIDE DEF g
  <2> SUFFICES ASSUME NEW m \in Nat, at[m] # g[m] PROVE FALSE
    OBVIOUS
  <2> DEFINE T == {k \in Nat : at[k] # g[k]}
  <2>1. T \subseteq Nat /\ T # {}
    OBVIOUS
  <2>2. PICK x \in T : \A y \in T : x <= y
    <3> HIDE DEF T
    <3> QED
      BY <2>1, Smallest
  <2>3. x \in Nat /\ at[x] # g[x]
    OBVIOUS
  <2>4. CASE x <= 1
    BY <2>3, <2>4, <1>3, <1>6
  <2>5. CASE x > 1
    <3>1. x - 1 \in Nat /\ ~(x <= x - 1)
      BY <2>3, <2>5
    <3>2. at[x - 1] = g[x - 1]
      BY <3>1, <2>2
    <3> QED
      BY <3>2, <2>3, <1>3, <1>6
  <2> QED
    BY <2>3, <2>4, <2>5
<1> DEFINE Stops(n) == at[n + 1] \notin DOMAIN h /\ \A k \in 1..n : at[k] \in DOMAIN h
<1>8. \A k \in 1..Len(w) : at[k] = w[k]
  <2> SUFFICES ASSUME NEW k \in 1..Len(w) PROVE at[k] = w[k]
    OBVIOUS
  <2>1. g[k] = w[k]
    BY <1>1 DEF FirstNode
  <2> QED
    BY <2>1, <1>1, <1>7
<1>9. at[Len(w) + 1] = NULL
  <2>1. g[Len(w) + 1] = NULL
    BY <1>1 DEF FirstNode
  <2> QED
    BY <2>1, <1>1, <1>7
<1> HIDE DEF g
<1>10. Stops(Len(w))
  BY <1>1, <1>2, <1>8, <1>9
<1>11. ASSUME NEW n \in Nat, Stops(n) PROVE n = Len(w)
  <2>1. CASE n < Len(w)
    <3>1. n + 1 \in 1..Len(w)
      BY <2>1, <1>1
    <3> QED
      BY <3>1, <1>8, <1>1, <1>11
  <2>2. CASE n > Len(w)
    <3>1. Len(w) + 1 \in 1..n
      BY <2>2, <1>1
    <3> QED
      BY <3>1, <1>9, <1>2, <1>11
  <2> QED
    BY <2>1, <2>2, <1>1
<1>12. Len(w) \in 0..Cardinality(DOMAIN h) /\ Cardinality(DOMAIN h) \in Nat
  BY PathFits, <1>1
<1> DEFINE met == CHOOSE n \in 0..Cardinality(DOMAIN h) : Stops(n)
<1>13. met = Len(w)
  <2> HIDE DEF Stops
  <2>1. met \in 0..Cardinality(DOMAIN h) /\ Stops(met)
    BY <1>10, <1>12
  <2>2. met \in Nat
    BY <2>1, <1>12
  <2> HIDE DEF met
  <2> QED
    BY <2>1, <2>2, <1>11
<1>14. Walk(h, a) = [k \in 1..met |-> at[k]]
  BY DEF Walk, at
<1>15. w = [k \in 1..Len(w) |-> w[k]]
  BY PathFacts
<1> HIDE DEF met
<1> QED
  BY <1>8, <1>13, <1>14, <1>15
-----------------------------------------------------------------------------
(***************************************************************************)
(* A file for each line.                                                   *)
(***************************************************************************)
\* The addresses of k new nodes.
NewNodes(k) == [i \in 1..k |-> MaxNodes + i]

\* The heap and the list after k of the nodes of src.
HeapAfter(h, src, k) ==
    [x \in DOMAIN h \cup {MaxNodes + i : i \in 1..k} |->
        IF x \in DOMAIN h THEN h[x]
        ELSE [item |-> InitFileInfo(h[src[x - MaxNodes]].item),
              next |-> IF x = MaxNodes + k THEN NULL ELSE x + 1,
              prev |-> IF x = MaxNodes + 1 THEN NULL ELSE x - 1]]
ListAfter(k) ==
    [FileList EXCEPT !.first = IF k = 0 THEN NULL ELSE MaxNodes + 1,
                     !.last = IF k = 0 THEN NULL ELSE MaxNodes + k, !.n = k]

LEMMA ListAfterFacts ==
    ASSUME NEW k
    PROVE  /\ ListAfter(k).first = IF k = 0 THEN NULL ELSE MaxNodes + 1
           /\ ListAfter(k).last = IF k = 0 THEN NULL ELSE MaxNodes + k
           /\ ListAfter(k).n = k /\ IsList(ListAfter(k)) /\ IsList(FileList)
<1>1. IsList(FileList)
  BY DEF IsList, FileList
<1> QED
  BY <1>1 DEF ListAfter, IsList

LEMMA SetLast ==
    ASSUME NEW l, IsList(l), NEW f, NEW a, NEW b, NEW m, NEW n,
           NEW g
    PROVE  /\ [[l EXCEPT !.first = f, !.last = a, !.n = m] EXCEPT !.last = b, !.n = n]
                 = [l EXCEPT !.first = f, !.last = b, !.n = n]
           /\ [[l EXCEPT !.first = f, !.last = a, !.n = m] EXCEPT !.first = g, !.last = b, !.n = n]
                 = [l EXCEPT !.first = g, !.last = b, !.n = n]
  BY DEF IsList

LEMMA NewNodesFacts ==
    ASSUME NEW k \in Nat
    PROVE  /\ Path(NewNodes(k)) /\ Len(NewNodes(k)) = k
           /\ \A i \in 1..k : NewNodes(k)[i] = MaxNodes + i
           /\ Range(NewNodes(k)) = {MaxNodes + i : i \in 1..k}
<1>1. MaxNodes \in Nat
  BY ListsAssumption
<1>2. NewNodes(k) \in [1..k -> Addr]
  BY <1>1 DEF NewNodes, Addr
<1>3. NewNodes(k) \in Seq(Addr) /\ Len(NewNodes(k)) = k
  BY <1>2
<1>4. DOMAIN NewNodes(k) = 1..k /\ \A i \in 1..k : NewNodes(k)[i] = MaxNodes + i
  BY DEF NewNodes
<1>5. IsInjective(NewNodes(k))
  BY <1>1, <1>4 DEF IsInjective
<1> QED
  BY <1>3, <1>4, <1>5 DEF Path, Range

\* One more file after the k - 1 before it.
LEMMA AddEachStep ==
    ASSUME NEW h, HeapOK(h), \A x \in DOMAIN h : x <= MaxNodes,
           NEW src, Path(src), \A i \in 1..Len(src) : src[i] \in DOMAIN h,
           NEW k \in 1..Len(src)
    PROVE  AddFileInfo(HeapAfter(h, src, k - 1), ListAfter(k - 1), MaxNodes + k, InitFileInfo(h[src[k]].item))
             = <<HeapAfter(h, src, k), ListAfter(k)>>
<1> DEFINE a == MaxNodes + k
           item == InitFileInfo(h[src[k]].item)
           h1 == HeapAfter(h, src, k - 1)
           l1 == ListAfter(k - 1)
           node == [item |-> item, next |-> NULL, prev |-> IF l1.first = NULL THEN NULL ELSE l1.last]
           h2 == With(h1, a, node)
           new == {MaxNodes + i : i \in 1..k}
           old == {MaxNodes + i : i \in 1..k - 1}
<1>1. MaxNodes \in Nat /\ k \in Nat /\ k >= 1 /\ a \in Nat /\ a > MaxNodes
  BY ListsAssumption, PathFacts
<1>2. a \notin DOMAIN h /\ DOMAIN h \subseteq Nat /\ (\A i \in Nat \ {0} : MaxNodes + i \notin DOMAIN h)
  BY <1>1 DEF HeapOK, Addr
<1>3. /\ l1.first = (IF k = 1 THEN NULL ELSE MaxNodes + 1)
      /\ l1.last = (IF k = 1 THEN NULL ELSE MaxNodes + (k - 1))
      /\ l1.n = k - 1
  BY <1>1, ListAfterFacts
<1>4. l1.first = NULL <=> k = 1
  BY <1>1, <1>3 DEF NULL
<1>5. new = old \cup {a}
  <2>1. 1..k = (1..k - 1) \cup {k}
    BY <1>1
  <2> QED
    BY <2>1
<1>6. DOMAIN h1 = DOMAIN h \cup old /\ DOMAIN h2 = DOMAIN h \cup new /\ DOMAIN HeapAfter(h, src, k) = DOMAIN h \cup new
  BY <1>5 DEF HeapAfter, With
<1>7. a - MaxNodes = k /\ a - 1 = MaxNodes + (k - 1)
  BY <1>1
<1>8. HeapAfter(h, src, k)[a] = node
  <2>1. HeapAfter(h, src, k)[a] = [item |-> InitFileInfo(h[src[a - MaxNodes]].item),
                                   next |-> IF a = MaxNodes + k THEN NULL ELSE a + 1,
                                   prev |-> IF a = MaxNodes + 1 THEN NULL ELSE a - 1]
    BY <1>2, <1>5 DEF HeapAfter
  <2>2. (IF a = MaxNodes + 1 THEN NULL ELSE a - 1) = (IF l1.first = NULL THEN NULL ELSE l1.last)
    BY <1>1, <1>3, <1>4, <1>7
  <2> QED
    BY <2>1, <2>2, <1>7
<1>9. \A x \in DOMAIN h : HeapAfter(h, src, k)[x] = h[x] /\ h1[x] = h[x]
  BY DEF HeapAfter
<1>10. \A x \in old : /\ x \in Nat /\ x \notin DOMAIN h /\ x # a
                      /\ h1[x] = [item |-> InitFileInfo(h[src[x - MaxNodes]].item),
                                  next |-> IF x = MaxNodes + (k - 1) THEN NULL ELSE x + 1,
                                  prev |-> IF x = MaxNodes + 1 THEN NULL ELSE x - 1]
                      /\ HeapAfter(h, src, k)[x] = [item |-> InitFileInfo(h[src[x - MaxNodes]].item),
                                  next |-> x + 1,
                                  prev |-> IF x = MaxNodes + 1 THEN NULL ELSE x - 1]
  <2> SUFFICES ASSUME NEW x \in old
               PROVE  /\ x \in Nat /\ x \notin DOMAIN h /\ x # a
                      /\ h1[x] = [item |-> InitFileInfo(h[src[x - MaxNodes]].item),
                                  next |-> IF x = MaxNodes + (k - 1) THEN NULL ELSE x + 1,
                                  prev |-> IF x = MaxNodes + 1 THEN NULL ELSE x - 1]
                      /\ HeapAfter(h, src, k)[x] = [item |-> InitFileInfo(h[src[x - MaxNodes]].item),
                                  next |-> x + 1,
                                  prev |-> IF x = MaxNodes + 1 THEN NULL ELSE x - 1]
    OBVIOUS
  <2>1. x \in Nat /\ x \notin DOMAIN h /\ x # a /\ x \in new /\ x # MaxNodes + k
    <3>1. PICK i \in 1..k - 1 : x = MaxNodes + i
      OBVIOUS
    <3>2. i \in Nat \ {0} /\ x \in Nat /\ x # a /\ i \in 1..k
      BY <3>1, <1>1
    <3>3. x \in new
      BY <3>1, <3>2
    <3> QED
      BY <3>1, <3>2, <3>3, <1>2
  <2>2. x \in DOMAIN h \cup {MaxNodes + i : i \in 1..k - 1} /\ x \in DOMAIN h \cup {MaxNodes + i : i \in 1..k}
    BY <2>1
  <2> HIDE DEF old, new, a
  <2> QED
    BY <2>1, <2>2 DEF HeapAfter
<1>11. h2[a] = node /\ \A x \in DOMAIN h \cup old : h2[x] = h1[x]
  <2> HIDE DEF old, node
  <2> QED
    BY <1>6, <1>2, <1>10 DEF With
<1>12. CASE k = 1
  <2>1. old = {} /\ new = {a}
    BY <1>12, <1>1
  <2>2. HeapAfter(h, src, k) = h2
    <3> DEFINE hk == HeapAfter(h, src, k)
    <3>1. \A x \in DOMAIN h \cup {a} : hk[x] = h2[x]
      BY <1>8, <1>9, <1>11
    <3>2. hk = [x \in DOMAIN hk |-> hk[x]] /\ h2 = [x \in DOMAIN h2 |-> h2[x]]
      BY Zenon DEF HeapAfter, With
    <3> HIDE DEF hk, h2
    <3> QED
      BY <3>1, <3>2, <1>6, <2>1 DEF hk
  <2>3. [l1 EXCEPT !.first = a, !.last = a, !.n = 1] = ListAfter(k)
    <3>1. a = MaxNodes + 1 /\ k # 0
      BY <1>12, <1>1
    <3> HIDE DEF a
    <3>2. ListAfter(k) = [FileList EXCEPT !.first = a, !.last = a, !.n = 1]
      BY <3>1, <1>12 DEF ListAfter
    <3>3. l1 = [FileList EXCEPT !.first = IF k - 1 = 0 THEN NULL ELSE MaxNodes + 1,
                                !.last = IF k - 1 = 0 THEN NULL ELSE MaxNodes + (k - 1), !.n = k - 1]
      BY DEF ListAfter
    <3> HIDE DEF l1
    <3> QED
      BY <3>2, <3>3, SetLast, ListAfterFacts, Zenon
  <2>4. AddFileInfo(h1, l1, a, item) = <<h2, [l1 EXCEPT !.first = a, !.last = a, !.n = 1]>>
    BY <1>4, <1>12 DEF AddFileInfo, AddLine
  <2> QED
    BY <2>2, <2>3, <2>4
<1>13. CASE k > 1
  <2> DEFINE z == MaxNodes + (k - 1)
             h3 == Point(h2, z, "next", a)
  <2>1. z \in old /\ z \in Nat /\ z # NULL /\ l1.last = z /\ z \in DOMAIN h2 /\ z \notin DOMAIN h /\ z # a /\ z + 1 = a
    <3>1. k - 1 \in 1..k - 1 /\ k - 1 \in Nat \ {0}
      BY <1>13, <1>1
    <3>2. z \in Nat /\ z # NULL /\ z # a /\ z + 1 = a
      BY <3>1, <1>1, <1>13 DEF NULL
    <3>3. z \in old /\ z \notin DOMAIN h
      BY <3>1, <1>2
    <3>4. l1.last = z
      BY <1>3, <1>13
    <3> HIDE DEF old, new, z, a, h2
    <3> QED
      BY <3>2, <3>3, <3>4, <1>5, <1>6
  <2>2. h3 = [h2 EXCEPT ![z]["next"] = a]
    BY <2>1 DEF Point
  <2>3. DOMAIN h3 = DOMAIN h2 /\ (\A x \in DOMAIN h2 \ {z} : h3[x] = h2[x]) /\ h3[z] = [h2[z] EXCEPT !["next"] = a]
    <3> HIDE DEF h2, z, a, h3
    <3> QED
      BY <2>1, <2>2
  <2>4. h3[z] = HeapAfter(h, src, k)[z]
    <3>1. h2[z] = [item |-> InitFileInfo(h[src[z - MaxNodes]].item), next |-> NULL,
                   prev |-> IF z = MaxNodes + 1 THEN NULL ELSE z - 1]
      <4> HIDE DEF z, old, h2, h1
      <4>1. h1[z] = [item |-> InitFileInfo(h[src[z - MaxNodes]].item),
                     next |-> IF z = MaxNodes + (k - 1) THEN NULL ELSE z + 1,
                     prev |-> IF z = MaxNodes + 1 THEN NULL ELSE z - 1]
        BY <2>1, <1>10
      <4>2. h2[z] = h1[z] /\ z = MaxNodes + (k - 1)
        BY <2>1, <1>11 DEF z
      <4> QED
        BY <4>1, <4>2
    <3>2. HeapAfter(h, src, k)[z] = [item |-> InitFileInfo(h[src[z - MaxNodes]].item), next |-> a,
                   prev |-> IF z = MaxNodes + 1 THEN NULL ELSE z - 1]
      BY <2>1, <1>10
    <3> HIDE DEF h3, h2, z, a
    <3> QED
      BY <3>1, <3>2, <2>3
  <2>5. HeapAfter(h, src, k) = h3
    <3> DEFINE hk == HeapAfter(h, src, k)
    <3>1. \A x \in old \ {z} : hk[x] = h3[x]
      <4> SUFFICES ASSUME NEW x \in old \ {z} PROVE hk[x] = h3[x]
        OBVIOUS
      <4>1. x # z /\ x \in DOMAIN h2
        BY <1>5, <1>6
      <4>2. h1[x] = hk[x]
        BY <4>1, <1>10
      <4> HIDE DEF hk, h1, h3, h2, old, z
      <4> QED
        BY <4>1, <4>2, <1>11, <2>3
    <3>2. \A x \in DOMAIN h : hk[x] = h3[x]
      <4> HIDE DEF hk, h1, h3, h2, old, z, new
      <4> QED
        BY <1>9, <1>11, <2>3, <2>1, <1>6 DEF hk
    <3>3. hk[a] = h3[a]
      <4> HIDE DEF h1, h3, h2, old, z, new
      <4> QED
        BY <1>8, <1>11, <2>3, <2>1, <1>5, <1>6
    <3>4. hk = [x \in DOMAIN hk |-> hk[x]]
      BY DEF HeapAfter
    <3>5. h3 = [x \in DOMAIN h3 |-> h3[x]]
      <4> HIDE DEF h2
      <4> QED
        BY <2>2
    <3>6. DOMAIN hk = (DOMAIN h \cup (old \ {z})) \cup {z, a} /\ DOMAIN h3 = DOMAIN hk
      <4> HIDE DEF hk, h1, h2, h3, old, new, z, a
      <4> QED
        BY <1>5, <1>6, <2>1, <2>3 DEF hk
    <3>7. \A x \in DOMAIN hk : hk[x] = h3[x]
      <4> HIDE DEF hk, h3, h2, old, z, new, a
      <4> QED
        BY <3>1, <3>2, <3>3, <3>6, <2>4 DEF hk
    <3> HIDE DEF hk, h3
    <3> QED
      BY <3>4, <3>5, <3>6, <3>7 DEF hk
  <2>6. [l1 EXCEPT !.last = a, !.n = l1.n + 1] = ListAfter(k)
    <3>1. k # 0 /\ k - 1 # 0 /\ (k - 1) + 1 = k
      BY <1>13, <1>1
    <3>2. l1 = [FileList EXCEPT !.first = MaxNodes + 1, !.last = MaxNodes + (k - 1), !.n = k - 1]
      BY <3>1 DEF ListAfter
    <3>3. ListAfter(k) = [FileList EXCEPT !.first = MaxNodes + 1, !.last = a, !.n = k]
      BY <3>1 DEF ListAfter
    <3>4. l1.n + 1 = k
      BY <3>1, <1>3
    <3> HIDE DEF a, l1
    <3> QED
      BY <3>2, <3>3, <3>4, SetLast, ListAfterFacts, Zenon
  <2>7. AddFileInfo(h1, l1, a, item) = <<h3, [l1 EXCEPT !.last = a, !.n = l1.n + 1]>>
    <3>1. l1.first # NULL /\ IsList(l1)
      BY <1>4, <1>13, ListAfterFacts
    <3>3. [l1 EXCEPT !.last = a, !.n = @ + 1] = [l1 EXCEPT !.last = a, !.n = l1.n + 1]
      <4> HIDE DEF a, l1
      <4> QED
        BY <3>1 DEF IsList
    <3>2. l1.last = z
      BY <2>1
    <3> QED
      BY <3>1, <3>2, <3>3 DEF AddFileInfo, AddLine
  <2> QED
    BY <2>5, <2>6, <2>7
<1> QED
  BY <1>12, <1>13, <1>1

LEMMA AddEachIs ==
    ASSUME NEW h, HeapOK(h), \A x \in DOMAIN h : x <= MaxNodes,
           NEW src, Path(src), \A i \in 1..Len(src) : src[i] \in DOMAIN h
    PROVE  AddEach(h, src) = <<HeapAfter(h, src, Len(src)), ListAfter(Len(src))>>
<1> DEFINE N == Len(src)
           Step(k, r) == AddFileInfo(r[1], r[2], MaxNodes + k, InitFileInfo(h[src[k]].item))
           added == CHOOSE f : f = [k \in 0..N |-> IF k = 0 THEN <<h, FileList>> ELSE Step(k, f[k - 1])]
           g == [k \in 0..N |-> <<HeapAfter(h, src, k), ListAfter(k)>>]
<1>1. N \in Nat
  BY PathFacts
<1>2. HeapAfter(h, src, 0) = h
  <2>1. {MaxNodes + i : i \in 1..0} = {}
    OBVIOUS
  <2> QED
    BY <2>1 DEF HeapAfter, HeapOK
<1>3. ListAfter(0) = FileList
  <2>1. FileList.first = NULL /\ FileList.last = NULL /\ FileList.n = 0 /\ FileList = [x \in DOMAIN FileList |-> FileList[x]]
    BY Zenon DEF FileList
  <2>2. [FileList EXCEPT !.first = NULL, !.last = NULL, !.n = 0] = FileList
    BY <2>1
  <2> QED
    BY <2>2 DEF ListAfter
<1>4. \A k \in 1..N : Step(k, <<HeapAfter(h, src, k - 1), ListAfter(k - 1)>>) = <<HeapAfter(h, src, k), ListAfter(k)>>
  BY AddEachStep
<1> HIDE DEF Step
<1>5. \A k \in 0..N : g[k] = IF k = 0 THEN <<h, FileList>> ELSE Step(k, g[k - 1])
  <2> SUFFICES ASSUME NEW k \in 0..N PROVE g[k] = IF k = 0 THEN <<h, FileList>> ELSE Step(k, g[k - 1])
    OBVIOUS
  <2>1. CASE k = 0
    BY <2>1, <1>2, <1>3
  <2>2. CASE k # 0
    <3>1. k \in 1..N /\ k - 1 \in 0..N
      BY <2>2, <1>1
    <3>2. g[k - 1] = <<HeapAfter(h, src, k - 1), ListAfter(k - 1)>> /\ g[k] = <<HeapAfter(h, src, k), ListAfter(k)>>
      BY <3>1
    <3> HIDE DEF g
    <3> QED
      BY <3>1, <3>2, <1>4, <2>2
  <2> QED
    BY <2>1, <2>2
<1>6. g = [k \in 0..N |-> IF k = 0 THEN <<h, FileList>> ELSE Step(k, g[k - 1])]
  <2>1. g = [k \in 0..N |-> g[k]]
    OBVIOUS
  <2> HIDE DEF g
  <2> QED
    BY <2>1, <1>5
<1>7. added = [k \in 0..N |-> IF k = 0 THEN <<h, FileList>> ELSE Step(k, added[k - 1])]
  <2> HIDE DEF g
  <2> QED
    BY <1>6
<1> HIDE DEF added
<1>8. \A k \in 0..N : added[k] = IF k = 0 THEN <<h, FileList>> ELSE Step(k, added[k - 1])
  BY <1>7
<1>9. \A k \in 0..N : added[k] = g[k]
  <2> HIDE DEF g, N
  <2> SUFFICES ASSUME NEW m \in 0..N, added[m] # g[m] PROVE FALSE
    OBVIOUS
  <2> DEFINE T == {k \in 0..N : added[k] # g[k]}
  <2>1. T \subseteq Nat /\ T # {}
    BY <1>1
  <2>2. PICK x \in T : \A y \in T : x <= y
    <3> HIDE DEF T
    <3> QED
      BY <2>1, Smallest
  <2>3. x \in 0..N /\ added[x] # g[x]
    OBVIOUS
  <2>4. CASE x = 0
    BY <2>3, <2>4, <1>5, <1>8
  <2>5. CASE x # 0
    <3>1. x - 1 \in 0..N /\ ~(x <= x - 1)
      BY <2>3, <2>5, <1>1
    <3>2. added[x - 1] = g[x - 1]
      BY <3>1, <2>2
    <3> QED
      BY <3>2, <2>3, <2>5, <1>5, <1>8
  <2> QED
    BY <2>4, <2>5
<1>10. AddEach(h, src) = added[N]
  BY DEF AddEach, added, Step
<1>11. N \in 0..N
  BY <1>1
<1> QED
  BY <1>9, <1>10, <1>11

LEMMA InitFileInfoType ==
    ASSUME NEW item \in ItemType
    PROVE  InitFileInfo(item) \in ItemType
<1>1. kSizeUnknown \in Int /\ kModTimeUnknown \in Int
  BY DEF kSizeUnknown, kModTimeUnknown
<1>2. [item EXCEPT !.size = kSizeUnknown, !.mdtm = kModTimeUnknown] \in ItemType
  BY <1>1 DEF ItemType
<1> QED
  BY <1>2 DEF InitFileInfo

LEMMA AddEachFacts ==
    ASSUME NEW h, HeapOK(h), \A x \in DOMAIN h : x <= MaxNodes,
           NEW src, Path(src), \A i \in 1..Len(src) : src[i] \in DOMAIN h
    PROVE  LET r == AddEach(h, src)
           IN  /\ HeapOK(r[1]) /\ SameNodes(h, r[1], DOMAIN h)
               /\ DOMAIN r[1] = DOMAIN h \cup Range(NewNodes(Len(src)))
               /\ DOMAIN h \cap Range(NewNodes(Len(src))) = {}
               /\ Chained(r[1], r[2], NewNodes(Len(src)))
               /\ r[2] = ListAfter(Len(src))
<1> DEFINE N == Len(src)
           h2 == HeapAfter(h, src, N)
           v == NewNodes(N)
           new == {MaxNodes + i : i \in 1..N}
<1>1. N \in Nat /\ MaxNodes \in Nat
  BY PathFacts, ListsAssumption
<1>2. Path(v) /\ Len(v) = N /\ (\A i \in 1..N : v[i] = MaxNodes + i) /\ Range(v) = new
  BY <1>1, NewNodesFacts
<1>3. DOMAIN h2 = DOMAIN h \cup new
  BY DEF HeapAfter
<1>4. \A i \in 1..N : MaxNodes + i \in Addr /\ MaxNodes + i \notin DOMAIN h
  BY <1>1 DEF Addr
<1>5. ASSUME NEW i \in 1..N
      PROVE  /\ h2[MaxNodes + i] \in NodeType
             /\ h2[MaxNodes + i].next = Succ(v, i) /\ h2[MaxNodes + i].prev = Pred(v, i)
  <2> DEFINE x == MaxNodes + i
  <2>1. x \in new /\ x \notin DOMAIN h /\ x - MaxNodes = i /\ x \in Addr /\ x \in Nat
    BY <1>1, <1>4
  <2>2. h2[x] = [item |-> InitFileInfo(h[src[i]].item),
                 next |-> IF x = MaxNodes + N THEN NULL ELSE x + 1,
                 prev |-> IF x = MaxNodes + 1 THEN NULL ELSE x - 1]
    <3> HIDE DEF x
    <3> QED
      BY <2>1 DEF HeapAfter
  <2>3. src[i] \in DOMAIN h /\ h[src[i]].item \in ItemType
    BY DEF HeapOK, NodeType
  <2>4. InitFileInfo(h[src[i]].item) \in ItemType
    BY <2>3, InitFileInfoType
  <2>5. (IF x = MaxNodes + N THEN NULL ELSE x + 1) = Succ(v, i) /\ Succ(v, i) \in Nat
    <3>1. CASE i = N
      BY <3>1, <1>1, <1>2 DEF Succ, NULL
    <3>2. CASE i < N
      <4>1. i + 1 \in 1..N /\ x + 1 = MaxNodes + (i + 1) /\ x # MaxNodes + N /\ x + 1 \in Nat
        BY <3>2, <1>1
      <4>2. Succ(v, i) = v[i + 1]
        BY <3>2, <1>2 DEF Succ
      <4> HIDE DEF x, v
      <4> QED
        BY <4>1, <4>2, <1>2
    <3> QED
      BY <3>1, <3>2, <1>1
  <2>6. (IF x = MaxNodes + 1 THEN NULL ELSE x - 1) = Pred(v, i) /\ Pred(v, i) \in Nat
    <3>1. CASE i = 1
      BY <3>1, <1>1 DEF Pred, NULL
    <3>2. CASE i > 1
      <4>1. i - 1 \in 1..N /\ x - 1 = MaxNodes + (i - 1) /\ x # MaxNodes + 1 /\ x - 1 \in Nat
        BY <3>2, <1>1
      <4>2. Pred(v, i) = v[i - 1]
        BY <3>2 DEF Pred
      <4> HIDE DEF x, v
      <4> QED
        BY <4>1, <4>2, <1>2
    <3> QED
      BY <3>1, <3>2, <1>1
  <2> HIDE DEF x, v, h2
  <2>7. h2[x] = [item |-> InitFileInfo(h[src[i]].item), next |-> Succ(v, i), prev |-> Pred(v, i)]
    BY <2>2, <2>5, <2>6
  <2>8. h2[x] \in NodeType
    BY <2>7, <2>4, <2>5, <2>6 DEF NodeType
  <2> QED
    BY <2>7, <2>8 DEF x
<1>6. \A x \in DOMAIN h : h2[x] = h[x]
  BY DEF HeapAfter
<1>7. IsFiniteSet(DOMAIN h \cup new)
  <2>1. IsFiniteSet(MaxNodes + 1..MaxNodes + N)
    BY <1>1, FS_Interval
  <2>2. new \subseteq MaxNodes + 1..MaxNodes + N
    BY <1>1
  <2>3. IsFiniteSet(new)
    BY <2>1, <2>2, FS_Subset
  <2> QED
    BY <2>3, FS_Union DEF HeapOK
<1>8. h2 = [x \in DOMAIN h2 |-> h2[x]]
  BY DEF HeapAfter
<1> HIDE DEF h2, v
<1>9. HeapOK(h2)
  <2>1. \A x \in DOMAIN h2 : h2[x] \in NodeType /\ x \in Addr
    BY <1>3, <1>4, <1>5, <1>6 DEF HeapOK
  <2> QED
    BY <2>1, <1>3, <1>7, <1>8 DEF HeapOK
<1>10. Linked(h2, v)
  BY <1>2, <1>3, <1>5 DEF Linked
<1>11. Ends(ListAfter(N), v)
  <2>1. N = 0 <=> v = <<>>
    BY <1>2, PathFacts
  <2>2. N # 0 => v[1] = MaxNodes + 1 /\ v[N] = MaxNodes + N
    BY <1>1, <1>2
  <2> QED
    BY <2>1, <2>2, <1>2, ListAfterFacts DEF Ends, FirstNode, LastNode
<1>12. AddEach(h, src) = <<h2, ListAfter(N)>>
  BY AddEachIs DEF h2
<1> HIDE DEF N
<1>13. DOMAIN h \cap Range(v) = {} /\ DOMAIN h2 = DOMAIN h \cup Range(v) /\ SameNodes(h, h2, DOMAIN h)
  BY <1>2, <1>3, <1>4, <1>6 DEF SameNodes
<1>14. Chained(h2, ListAfter(N), v)
  BY <1>2, <1>10, <1>11 DEF Chained
<1> QED
  BY <1>9, <1>12, <1>13, <1>14 DEF v, N
-----------------------------------------------------------------------------
(***************************************************************************)
(* Vectors and sorts.                                                      *)
(***************************************************************************)
\* A path in another order: as many nodes, and the same.
LEMMA BijectionPath ==
    ASSUME NEW w, Path(w), NEW u \in Bijection(1..Len(w), Range(w))
    PROVE  Path(u) /\ Len(u) = Len(w) /\ Range(u) = Range(w)
<1>1. Len(w) \in Nat /\ Range(w) = {w[k] : k \in 1..Len(w)} /\ \A k \in 1..Len(w) : w[k] \in Addr
  BY PathFacts
<1>2. /\ u \in [1..Len(w) -> Range(w)] /\ (\A j, k \in 1..Len(w) : u[j] = u[k] => j = k)
      /\ \A x \in Range(w) : \E k \in 1..Len(w) : u[k] = x
  BY DEF Bijection, Injection, Surjection, IsInjective
<1>3. u \in [1..Len(w) -> Addr]
  BY <1>1, <1>2
<1>4. u \in Seq(Addr) /\ Len(u) = Len(w) /\ DOMAIN u = 1..Len(w)
  BY <1>1, <1>3
<1>5. Range(u) = Range(w)
  <2>1. Range(u) = {u[k] : k \in 1..Len(w)}
    BY <1>4 DEF Range
  <2> QED
    BY <2>1, <1>2
<1> QED
  BY <1>2, <1>4, <1>5 DEF Path, IsInjective

LEMMA PathBijection ==
    ASSUME NEW w, Path(w)
    PROVE  w \in Bijection(1..Len(w), Range(w))
<1>1. /\ w \in [1..Len(w) -> Range(w)] /\ (\A j, k \in DOMAIN w : w[j] = w[k] => j = k)
      /\ DOMAIN w = 1..Len(w) /\ Range(w) = {w[k] : k \in 1..Len(w)}
  BY PathFacts DEF Path, IsInjective, Range
<1> QED
  BY <1>1 DEF Bijection, Injection, Surjection, IsInjective

LEMMA ReversePath ==
    ASSUME NEW w, Path(w)
    PROVE  /\ Path(Reverse(w)) /\ Len(Reverse(w)) = Len(w) /\ Range(Reverse(w)) = Range(w)
           /\ \A k \in 1..Len(w) : Reverse(w)[k] = w[Len(w) - k + 1]
<1> DEFINE v == Reverse(w)
<1>1. /\ Len(w) \in Nat /\ Range(w) = {w[k] : k \in 1..Len(w)} /\ (\A k \in 1..Len(w) : w[k] \in Addr)
      /\ \A j, k \in 1..Len(w) : w[j] = w[k] => j = k
  BY PathFacts
<1>2. v = [k \in 1..Len(w) |-> w[(Len(w) - k) + 1]]
  BY DEF Reverse
<1>3. \A k \in 1..Len(w) : Len(w) - k + 1 \in 1..Len(w)
  BY <1>1
<1> HIDE DEF v
<1>4. DOMAIN v = 1..Len(w) /\ \A k \in 1..Len(w) : v[k] = w[Len(w) - k + 1]
  BY <1>2
<1>5. v \in [1..Len(w) -> Addr]
  BY <1>1, <1>2, <1>3
<1>6. v \in Seq(Addr) /\ Len(v) = Len(w)
  BY <1>1, <1>5
<1>7. ASSUME NEW j \in 1..Len(w), NEW k \in 1..Len(w), v[j] = v[k] PROVE j = k
  <2>1. w[Len(w) - j + 1] = w[Len(w) - k + 1]
    BY <1>4, <1>7
  <2>2. Len(w) - j + 1 = Len(w) - k + 1
    BY <2>1, <1>1, <1>3
  <2> QED
    BY <2>2, <1>1
<1>8. Range(v) = Range(w)
  <2>1. Range(v) = {v[k] : k \in 1..Len(w)}
    BY <1>4 DEF Range
  <2>2. \A k \in 1..Len(w) : w[k] = v[Len(w) - k + 1]
    <3> SUFFICES ASSUME NEW k \in 1..Len(w) PROVE w[k] = v[Len(w) - k + 1]
      OBVIOUS
    <3>1. Len(w) - (Len(w) - k + 1) + 1 = k
      BY <1>1
    <3> QED
      BY <3>1, <1>3, <1>4
  <2>3. Range(v) \subseteq Range(w)
    BY <2>1, <1>1, <1>3, <1>4
  <2>4. Range(w) \subseteq Range(v)
    BY <2>1, <2>2, <1>1, <1>3
  <2> QED
    BY <2>3, <2>4
<1>9. Path(v)
  BY <1>4, <1>6, <1>7 DEF Path, IsInjective
<1> QED
  BY <1>4, <1>6, <1>8, <1>9 DEF v

\* The vector gives the nodes their links, in its order.
LEMMA RelinkedFacts ==
    ASSUME NEW h, HeapOK(h), NEW v, Path(v), Range(v) \subseteq DOMAIN h
    PROVE  LET h2 == Relinked(h, v)
           IN  /\ HeapOK(h2) /\ DOMAIN h2 = DOMAIN h /\ Linked(h2, v)
               /\ SameNodes(h, h2, DOMAIN h \ Range(v)) /\ SameItems(h, h2, DOMAIN h)
<1> DEFINE h2 == Relinked(h, v)
<1>1. /\ Len(v) \in Nat /\ Range(v) = {v[k] : k \in 1..Len(v)} /\ (\A k \in 1..Len(v) : v[k] \in Addr)
      /\ \A j, k \in 1..Len(v) : v[j] = v[k] => j = k
  BY PathFacts
<1>2. DOMAIN h2 = DOMAIN h /\ h2 = [x \in DOMAIN h2 |-> h2[x]]
  BY DEF Relinked
<1>3. \A x \in DOMAIN h \ Range(v) : h2[x] = h[x]
  BY DEF Relinked
<1>4. ASSUME NEW i \in 1..Len(v)
      PROVE  /\ v[i] \in DOMAIN h /\ h2[v[i]] \in NodeType /\ h2[v[i]].item = h[v[i]].item
             /\ h2[v[i]].next = Succ(v, i) /\ h2[v[i]].prev = Pred(v, i)
  <2> DEFINE x == v[i]
             c == CHOOSE k \in 1..Len(v) : v[k] = x
  <2>1. x \in Range(v) /\ x \in DOMAIN h /\ h[x] \in NodeType
    BY <1>1 DEF HeapOK
  <2>2. c = i
    <3>1. c \in 1..Len(v) /\ v[c] = v[i]
      OBVIOUS
    <3> HIDE DEF c
    <3> QED
      BY <3>1, <1>1
  <2>3. h2[x] = [h[x] EXCEPT !.prev = IF c = 1 THEN NULL ELSE v[c - 1],
                             !.next = IF c < Len(v) THEN v[c + 1] ELSE NULL]
    <3> HIDE DEF x
    <3> QED
      BY <2>1 DEF Relinked
  <2>4. h2[x] = [h[x] EXCEPT !.prev = Pred(v, i), !.next = Succ(v, i)]
    BY <2>2, <2>3 DEF Pred, Succ
  <2>5. Pred(v, i) \in Nat /\ Succ(v, i) \in Nat
    <3>1. i \in Nat /\ (i # 1 => i - 1 \in 1..Len(v)) /\ (i < Len(v) => i + 1 \in 1..Len(v))
      BY <1>1
    <3> QED
      BY <3>1, <1>1 DEF Pred, Succ, Addr, NULL
  <2> HIDE DEF x, h2
  <2>6. h2[x] \in NodeType /\ h2[x].item = h[x].item /\ h2[x].next = Succ(v, i) /\ h2[x].prev = Pred(v, i)
    BY <2>1, <2>4, <2>5 DEF NodeType
  <2> QED
    BY <2>1, <2>6 DEF x
<1> HIDE DEF h2
<1>5. \A x \in DOMAIN h : h2[x] \in NodeType /\ h2[x].item = h[x].item
  BY <1>1, <1>3, <1>4 DEF HeapOK
<1>6. HeapOK(h2)
  BY <1>2, <1>5 DEF HeapOK
<1>7. Linked(h2, v)
  BY <1>2, <1>4 DEF Linked
<1> QED
  BY <1>2, <1>3, <1>5, <1>6, <1>7 DEF h2, SameNodes, SameItems

LEMMA OrderedFrame ==
    ASSUME NEW h, NEW h2, NEW w, Path(w), SameItems(h, h2, Range(w)),
           NEW key, NEW order, Ordered(h, w, key, order)
    PROVE  Ordered(h2, w, key, order)
<1>1. \A k \in 1..Len(w) : h2[w[k]].item = h[w[k]].item
  BY PathFacts DEF SameItems
<1> QED
  BY <1>1 DEF Ordered

LEMMA OrderedRemove ==
    ASSUME NEW h, NEW w, Path(w), NEW k \in 1..Len(w), NEW key, NEW order, Ordered(h, w, key, order)
    PROVE  Ordered(h, RemoveAt(w, k), key, order)
<1> DEFINE v == RemoveAt(w, k)
<1>1. Len(v) = Len(w) - 1 /\ (\A i \in 1..Len(w) - 1 : v[i] = IF i < k THEN w[i] ELSE w[i + 1]) /\ Len(w) \in Nat
  BY RemoveAtFacts, PathFacts
<1> HIDE DEF v
<1> SUFFICES ASSUME NEW i \in 1..Len(w) - 1, NEW j \in 1..Len(w) - 1, i < j
             PROVE  Cmp(key, order, h[v[i]].item, h[v[j]].item) <= 0
  BY <1>1 DEF Ordered, v
<1> DEFINE m == IF i < k THEN i ELSE i + 1
           n == IF j < k THEN j ELSE j + 1
<1>2. m \in 1..Len(w) /\ n \in 1..Len(w) /\ m < n
  BY <1>1
<1>3. v[i] = w[m] /\ v[j] = w[n]
  BY <1>1
<1> HIDE DEF m, n
<1> QED
  BY <1>2, <1>3 DEF Ordered

\* The comparison for one order is that for the other with the arguments exchanged.
LEMMA CmpReverse ==
    ASSUME NEW key \in {"n", "t", "s"}, NEW o1 \in {"a", "d"}, NEW o2 \in {"a", "d"}, o1 # o2, NEW a, NEW b
    PROVE  Cmp(key, o2, a, b) = Cmp(key, o1, b, a)
BY DEF Cmp, NameCmp, ReverseNameCmp, TimeCmp, ReverseTimeCmp, SizeCmp, ReverseSizeCmp

LEMMA OrderedReverse ==
    ASSUME NEW h, NEW w, Path(w), NEW key \in {"n", "t", "s"}, NEW o1 \in {"a", "d"}, NEW o2 \in {"a", "d"},
           o1 # o2, Ordered(h, w, key, o1)
    PROVE  Ordered(h, Reverse(w), key, o2)
<1> DEFINE v == Reverse(w)
<1>1. Len(w) \in Nat /\ Len(v) = Len(w) /\ \A k \in 1..Len(w) : v[k] = w[Len(w) - k + 1]
  BY ReversePath, PathFacts
<1> HIDE DEF v
<1> SUFFICES ASSUME NEW i \in 1..Len(w), NEW j \in 1..Len(w), i < j
             PROVE  Cmp(key, o2, h[v[i]].item, h[v[j]].item) <= 0
  BY <1>1 DEF Ordered, v
<1> DEFINE m == Len(w) - i + 1
           n == Len(w) - j + 1
<1>2. m \in 1..Len(w) /\ n \in 1..Len(w) /\ n < m
  BY <1>1
<1>3. v[i] = w[m] /\ v[j] = w[n]
  BY <1>1
<1> HIDE DEF m, n
<1>4. Cmp(key, o1, h[w[n]].item, h[w[m]].item) <= 0
  BY <1>2 DEF Ordered
<1>5. Cmp(key, o2, h[w[m]].item, h[w[n]].item) = Cmp(key, o1, h[w[n]].item, h[w[m]].item)
  BY CmpReverse
<1> QED
  BY <1>3, <1>4, <1>5
-----------------------------------------------------------------------------
(***************************************************************************)
(* The inductive invariant.  While the list of files is a vector its nodes *)
(* keep the links they had, which are those of a path of the same nodes in *)
(* another order: what the vector is turned back into, and what freeing    *)
(* the list walks along, depends on it.                                    *)
(***************************************************************************)
IsFileList(i) == {"first", "last", "n", "vec", "vectored", "sortKey", "sortOrder"} \subseteq DOMAIN i

LinesInv(h, l, w) == IsList(l) /\ Chained(h, l, w)

LinksOf(h, i, w) ==
    \E u \in Bijection(1..Len(w), Range(w)) : Chained(h, i, u) /\ (~i.vectored => u = w)

SortInv(h, i, w, c) ==
    /\ i.sortKey \in {"", "n", "t", "s", "b"}
    /\ i.sortKey # "" => i.sortOrder \in {"a", "d"}
    /\ i.sortKey = "b" => i.sortOrder = "a"
    /\ ~c /\ i.sortKey # "" => Ordered(h, w, i.sortKey, i.sortOrder)

FilesInv(h, i, w, c) ==
    /\ IsFileList(i) /\ i.vectored \in BOOLEAN
    /\ Path(w) /\ i.n = Len(w)
    /\ LinksOf(h, i, w)
    /\ i.vectored => i.vec = w
    /\ SortInv(h, i, w, c)

HeapInv(h, v, w) ==
    HeapOK(h) /\ Range(v) \cap Range(w) = {} /\ DOMAIN h = Range(v) \cup Range(w)

ListInv ==
    /\ HeapInv(heap, wantedLines, wanted)
    /\ LinesInv(heap, lines, wantedLines)
    /\ FilesInv(heap, infos, wanted, changed)
    /\ changed \in BOOLEAN

LEMMA EmptyFacts ==
    /\ Path(<<>>) /\ Len(<<>>) = 0 /\ Range(<<>>) = {}
    /\ \A h, l : l.first = NULL /\ l.last = NULL /\ l.n = 0 => Chained(h, l, <<>>)
<1>1. <<>> \in Seq(Addr) /\ Len(<<>>) = 0 /\ DOMAIN <<>> = {}
  OBVIOUS
<1>2. Path(<<>>) /\ Range(<<>>) = {}
  BY <1>1 DEF Path, IsInjective, Range
<1>3. ASSUME NEW h, NEW l, l.first = NULL, l.last = NULL, l.n = 0 PROVE Chained(h, l, <<>>)
  BY <1>1, <1>2, <1>3 DEF Chained, Linked, Ends, FirstNode, LastNode
<1> QED
  BY <1>1, <1>2, <1>3

LEMMA LinesFrame ==
    ASSUME NEW h, NEW h2, NEW l, NEW w, LinesInv(h, l, w), SameNodes(h, h2, Range(w))
    PROVE  LinesInv(h2, l, w)
BY LinkedFrame DEF LinesInv, Chained

LEMMA FilesFrame ==
    ASSUME NEW h, NEW h2, NEW i, NEW w, NEW c, FilesInv(h, i, w, c), SameNodes(h, h2, Range(w))
    PROVE  FilesInv(h2, i, w, c)
<1>1. Path(w) /\ LinksOf(h, i, w) /\ SortInv(h, i, w, c)
  BY DEF FilesInv
<1>2. LinksOf(h2, i, w)
  <2>1. PICK u \in Bijection(1..Len(w), Range(w)) : Chained(h, i, u) /\ (~i.vectored => u = w)
    BY <1>1 DEF LinksOf
  <2>2. Path(u) /\ Range(u) = Range(w)
    BY <1>1, BijectionPath
  <2>3. Linked(h2, u)
    BY <2>1, <2>2, LinkedFrame DEF Chained
  <2> QED
    BY <2>1, <2>3 DEF LinksOf, Chained
<1>3. SameItems(h, h2, Range(w))
  BY DEF SameNodes, SameItems
<1>4. SortInv(h2, i, w, c)
  BY <1>1, <1>3, OrderedFrame DEF SortInv
<1> QED
  BY <1>2, <1>4 DEF FilesInv

LEMMA NotVectored ==
    ASSUME NEW h, NEW i, NEW w, NEW c, IsFileList(i), i.vectored = FALSE, Chained(h, i, w), SortInv(h, i, w, c)
    PROVE  FilesInv(h, i, w, c)
<1>1. Path(w) /\ i.n = Len(w)
  BY DEF Chained, Ends
<1>2. LinksOf(h, i, w)
  BY <1>1, PathBijection DEF LinksOf
<1> QED
  BY <1>1, <1>2 DEF FilesInv

LEMMA FileListFacts ==
    /\ IsFileList(FileList) /\ FileList.vectored = FALSE /\ FileList.sortKey = ""
    /\ FileList.first = NULL /\ FileList.last = NULL /\ FileList.n = 0
<1>1. IsFileList(FileList)
  BY Zenon DEF FileList, IsFileList
<1>2. /\ FileList.vectored = FALSE /\ FileList.sortKey = ""
      /\ FileList.first = NULL /\ FileList.last = NULL /\ FileList.n = 0
  BY Zenon DEF FileList
<1> QED
  BY <1>1, <1>2

LEMMA NewSort ==
    ASSUME NEW h, NEW i, NEW w, NEW c, i.sortKey = ""
    PROVE  SortInv(h, i, w, c)
BY DEF SortInv

LEMMA EmptyFiles ==
    ASSUME NEW h, NEW c
    PROVE  FilesInv(h, FileList, <<>>, c)
BY EmptyFacts, FileListFacts, NewSort, NotVectored

LEMMA EmptyLines ==
    ASSUME NEW h
    PROVE  LinesInv(h, InitLineList, <<>>)
<1>1. InitLineList.first = NULL /\ InitLineList.last = NULL /\ InitLineList.n = 0 /\ IsList(InitLineList)
  BY DEF InitLineList, IsList
<1> QED
  BY <1>1, EmptyFacts DEF LinesInv

LEMMA ListInvInit == ListInit => ListInv
<1> SUFFICES ASSUME ListInit PROVE ListInv
  OBVIOUS
<1>1. HeapOK(<<>>) /\ DOMAIN <<>> = {}
  <2>1. DOMAIN <<>> = {} /\ <<>> = [x \in {} |-> <<>>[x]]
    OBVIOUS
  <2> QED
    BY <2>1, FS_EmptySet DEF HeapOK
<1>2. HeapInv(<<>>, <<>>, <<>>)
  BY <1>1, EmptyFacts DEF HeapInv
<1> QED
  BY <1>2, EmptyLines, EmptyFiles DEF ListInit, ListInv

-----------------------------------------------------------------------------
LEMMA FreshFacts == Room => Fresh \in Addr /\ Fresh \notin DOMAIN heap
<1> SUFFICES ASSUME Room PROVE Fresh \in Addr /\ Fresh \notin DOMAIN heap
  OBVIOUS
<1>1. Fresh \in Unused
  BY DEF Room, Fresh
<1> HIDE DEF Fresh
<1> QED
  BY <1>1, ListsAssumption DEF Unused, Addr

LEMMA AddLineInv ==
    ASSUME ListInv, NEW item \in Items, CallAddLine(item)
    PROVE  ListInv'
<1> DEFINE r == AddLine(heap, lines, Fresh, item)
<1>1. Fresh \in Addr /\ Fresh \notin DOMAIN heap /\ item \in ItemType
  BY FreshFacts, ListsAssumption DEF CallAddLine
<1>2. /\ HeapOK(heap) /\ Range(wantedLines) \cap Range(wanted) = {}
      /\ DOMAIN heap = Range(wantedLines) \cup Range(wanted)
      /\ IsList(lines) /\ Chained(heap, lines, wantedLines)
  BY DEF ListInv, HeapInv, LinesInv
<1>3. /\ HeapOK(heap') /\ DOMAIN heap' = DOMAIN heap \cup {Fresh}
      /\ Chained(heap', lines', Append(wantedLines, Fresh))
      /\ SameNodes(heap, heap', DOMAIN heap \ Range(wantedLines))
      /\ \E first \in Nat : lines' = [lines EXCEPT !.first = first, !.last = Fresh, !.n = Len(wantedLines) + 1]
  <2>1. heap' = r[1] /\ lines' = r[2]
    BY DEF CallAddLine
  <2>2. Added(heap, lines, wantedLines, Fresh, r)
    <3> HIDE DEF Fresh
    <3> QED
      BY <1>1, <1>2, AddLineFacts
  <2> HIDE DEF r
  <2> QED
    BY <2>1, <2>2 DEF Added
<1>4. wantedLines' = Append(wantedLines, Fresh) /\ UNCHANGED <<infos, wanted, changed>>
  BY DEF CallAddLine
<1>5. IsList(lines')
  BY <1>2, <1>3 DEF IsList
<1>6. Range(Append(wantedLines, Fresh)) = Range(wantedLines) \cup {Fresh}
  BY <1>1, <1>2, AppendPath DEF Chained
<1>7. HeapInv(heap', wantedLines', wanted')
  BY <1>1, <1>2, <1>3, <1>4, <1>6 DEF HeapInv
<1>8. LinesInv(heap', lines', wantedLines')
  BY <1>3, <1>4, <1>5 DEF LinesInv
<1>9. SameNodes(heap, heap', Range(wanted))
  BY <1>2, <1>3 DEF SameNodes
<1>10. FilesInv(heap', infos', wanted', changed')
  BY <1>4, <1>9, FilesFrame DEF ListInv
<1> QED
  BY <1>4, <1>7, <1>8, <1>10 DEF ListInv

LEMMA RemoveLineInv ==
    ASSUME ListInv, NEW k \in 1..Len(wantedLines), CallRemoveLine(k)
    PROVE  ListInv'
<1> DEFINE r == RemoveLine(heap, lines, wantedLines[k])
<1>2. /\ HeapOK(heap) /\ Range(wantedLines) \cap Range(wanted) = {}
      /\ DOMAIN heap = Range(wantedLines) \cup Range(wanted)
      /\ IsList(lines) /\ Chained(heap, lines, wantedLines) /\ Path(wantedLines)
  BY DEF ListInv, HeapInv, LinesInv, Chained
<1>3. /\ HeapOK(heap') /\ DOMAIN heap' = DOMAIN heap \ {wantedLines[k]}
      /\ Chained(heap', lines', RemoveAt(wantedLines, k))
      /\ SameNodes(heap, heap', DOMAIN heap \ Range(wantedLines))
      /\ \E first, last \in Nat : lines' = [lines EXCEPT !.first = first, !.last = last, !.n = Len(wantedLines) - 1]
  <2>1. heap' = r[1] /\ lines' = r[2]
    BY DEF CallRemoveLine
  <2>2. Removed(heap, lines, wantedLines, k, r)
    BY <1>2, RemoveLineFacts
  <2> HIDE DEF r
  <2> QED
    BY <2>1, <2>2 DEF Removed
<1>4. wantedLines' = RemoveAt(wantedLines, k) /\ UNCHANGED <<infos, wanted, changed>>
  BY DEF CallRemoveLine
<1>5. IsList(lines')
  BY <1>2, <1>3 DEF IsList
<1>6. Range(RemoveAt(wantedLines, k)) = Range(wantedLines) \ {wantedLines[k]} /\ wantedLines[k] \in Range(wantedLines)
  BY <1>2, RemoveAtFacts, PathFacts
<1>7. HeapInv(heap', wantedLines', wanted')
  BY <1>2, <1>3, <1>4, <1>6 DEF HeapInv
<1>8. LinesInv(heap', lines', wantedLines')
  BY <1>3, <1>4, <1>5 DEF LinesInv
<1>9. SameNodes(heap, heap', Range(wanted))
  BY <1>2, <1>3 DEF SameNodes
<1>10. FilesInv(heap', infos', wanted', changed')
  BY <1>4, <1>9, FilesFrame DEF ListInv
<1> QED
  BY <1>4, <1>7, <1>8, <1>10 DEF ListInv

\* What the invariant says of the list of files while it is not a vector.
LEMMA ChainedFiles ==
    ASSUME ListInv, ~infos.vectored
    PROVE  /\ Chained(heap, infos, wanted) /\ Path(wanted)
           /\ IsList(infos) /\ IsFileList(infos) /\ infos.vectored = FALSE
BY DEF ListInv, FilesInv, LinksOf, IsFileList, IsList

LEMMA AddFileInfoInv ==
    ASSUME ListInv, NEW item \in Items, CallAddFileInfo(item)
    PROVE  ListInv'
<1> DEFINE r == AddLine(heap, infos, Fresh, item)
<1>1. Fresh \in Addr /\ Fresh \notin DOMAIN heap /\ item \in ItemType
  BY FreshFacts, ListsAssumption DEF CallAddFileInfo
<1>2. /\ HeapOK(heap) /\ Range(wantedLines) \cap Range(wanted) = {}
      /\ DOMAIN heap = Range(wantedLines) \cup Range(wanted)
      /\ IsList(infos) /\ IsFileList(infos) /\ infos.vectored = FALSE
      /\ Chained(heap, infos, wanted) /\ Path(wanted)
  BY ChainedFiles DEF ListInv, HeapInv, CallAddFileInfo
<1>3. /\ HeapOK(heap') /\ DOMAIN heap' = DOMAIN heap \cup {Fresh}
      /\ Chained(heap', infos', Append(wanted, Fresh))
      /\ SameNodes(heap, heap', DOMAIN heap \ Range(wanted))
      /\ \E first \in Nat : infos' = [infos EXCEPT !.first = first, !.last = Fresh, !.n = Len(wanted) + 1]
  <2>1. heap' = r[1] /\ infos' = r[2]
    BY DEF CallAddFileInfo, AddFileInfo
  <2>2. Added(heap, infos, wanted, Fresh, r)
    <3> HIDE DEF Fresh
    <3> QED
      BY <1>1, <1>2, AddLineFacts
  <2> HIDE DEF r
  <2> QED
    BY <2>1, <2>2 DEF Added
<1>4. wanted' = Append(wanted, Fresh) /\ changed' = TRUE /\ UNCHANGED <<lines, wantedLines>>
  BY DEF CallAddFileInfo
<1>5. /\ IsFileList(infos') /\ infos'.vectored = FALSE
      /\ infos'.sortKey = infos.sortKey /\ infos'.sortOrder = infos.sortOrder
  BY <1>2, <1>3 DEF IsFileList
<1>6. Range(Append(wanted, Fresh)) = Range(wanted) \cup {Fresh}
  BY <1>1, <1>2, AppendPath
<1>7. HeapInv(heap', wantedLines', wanted')
  BY <1>1, <1>2, <1>3, <1>4, <1>6 DEF HeapInv
<1>8. SameNodes(heap, heap', Range(wantedLines))
  BY <1>2, <1>3 DEF SameNodes
<1>9. LinesInv(heap', lines', wantedLines')
  BY <1>4, <1>8, LinesFrame DEF ListInv
<1>10. SortInv(heap', infos', wanted', changed')
  BY <1>4, <1>5 DEF ListInv, FilesInv, SortInv
<1>11. FilesInv(heap', infos', wanted', changed')
  BY <1>3, <1>4, <1>5, <1>10, NotVectored
<1> QED
  BY <1>4, <1>7, <1>9, <1>11 DEF ListInv

LEMMA RemoveFileInfoInv ==
    ASSUME ListInv, NEW k \in 1..Len(wanted), CallRemoveFileInfo(k)
    PROVE  ListInv'
<1> DEFINE r == RemoveLine(heap, infos, wanted[k])
<1>2. /\ HeapOK(heap) /\ Range(wantedLines) \cap Range(wanted) = {}
      /\ DOMAIN heap = Range(wantedLines) \cup Range(wanted)
      /\ IsList(infos) /\ IsFileList(infos) /\ infos.vectored = FALSE
      /\ Chained(heap, infos, wanted) /\ Path(wanted)
  BY ChainedFiles DEF ListInv, HeapInv, CallRemoveFileInfo
<1>3. /\ HeapOK(heap') /\ DOMAIN heap' = DOMAIN heap \ {wanted[k]}
      /\ Chained(heap', infos', RemoveAt(wanted, k))
      /\ SameNodes(heap, heap', DOMAIN heap \ Range(wanted)) /\ SameItems(heap, heap', DOMAIN heap \ {wanted[k]})
      /\ \E first, last \in Nat : infos' = [infos EXCEPT !.first = first, !.last = last, !.n = Len(wanted) - 1]
  <2>1. heap' = r[1] /\ infos' = r[2]
    BY DEF CallRemoveFileInfo, RemoveFileInfo
  <2>2. Removed(heap, infos, wanted, k, r)
    BY <1>2, RemoveLineFacts
  <2> HIDE DEF r
  <2> QED
    BY <2>1, <2>2 DEF Removed
<1>4. wanted' = RemoveAt(wanted, k) /\ UNCHANGED <<lines, wantedLines, changed>>
  BY DEF CallRemoveFileInfo
<1>5. /\ IsFileList(infos') /\ infos'.vectored = FALSE
      /\ infos'.sortKey = infos.sortKey /\ infos'.sortOrder = infos.sortOrder
  BY <1>2, <1>3 DEF IsFileList
<1>6. /\ Range(RemoveAt(wanted, k)) = Range(wanted) \ {wanted[k]} /\ wanted[k] \in Range(wanted)
      /\ Path(RemoveAt(wanted, k))
  BY <1>2, RemoveAtFacts, PathFacts
<1>7. HeapInv(heap', wantedLines', wanted')
  BY <1>2, <1>3, <1>4, <1>6 DEF HeapInv
<1>8. SameNodes(heap, heap', Range(wantedLines))
  BY <1>2, <1>3 DEF SameNodes
<1>9. LinesInv(heap', lines', wantedLines')
  BY <1>4, <1>8, LinesFrame DEF ListInv
<1>10. SortInv(heap', infos', wanted', changed')
  <2>1. SortInv(heap, infos, wanted, changed)
    BY DEF ListInv, FilesInv
  <2>2. SameItems(heap, heap', Range(wanted'))
    BY <1>2, <1>3, <1>4, <1>6 DEF SameItems
  <2>3. ASSUME Ordered(heap, wanted, infos.sortKey, infos.sortOrder)
        PROVE  Ordered(heap', wanted', infos.sortKey, infos.sortOrder)
    <3>1. Ordered(heap, RemoveAt(wanted, k), infos.sortKey, infos.sortOrder)
      BY <1>2, <2>3, OrderedRemove
    <3> QED
      BY <3>1, <2>2, <1>4, <1>6, OrderedFrame
  <2> QED
    BY <2>1, <2>3, <1>4, <1>5 DEF SortInv
<1>11. FilesInv(heap', infos', wanted', changed')
  BY <1>3, <1>4, <1>5, <1>10, NotVectored
<1> QED
  BY <1>4, <1>7, <1>9, <1>11 DEF ListInv

LEMMA LineListToFileInfoListInv ==
    ASSUME ListInv, LineListToFileInfoList
    PROVE  ListInv'
<1> DEFINE src == Walk(heap, lines.first)
           r == AddEach(heap, src)
           v == NewNodes(Len(wantedLines))
<1>1. /\ HeapOK(heap) /\ DOMAIN heap = Range(wantedLines) \cup Range(wanted)
      /\ Path(wantedLines) /\ Linked(heap, wantedLines) /\ lines.first = FirstNode(wantedLines)
  BY DEF ListInv, HeapInv, LinesInv, Chained, Ends
<1>2. /\ wanted = <<>> /\ (\A a \in DOMAIN heap : a <= MaxNodes)
      /\ heap' = r[1] /\ infos' = r[2] /\ wanted' = [k \in 1..Len(src) |-> MaxNodes + k]
      /\ changed' = TRUE /\ UNCHANGED <<lines, wantedLines>>
  BY DEF LineListToFileInfoList
<1>3. src = wantedLines
  BY <1>1, WalkFacts
<1>4. \A i \in 1..Len(wantedLines) : wantedLines[i] \in DOMAIN heap
  BY <1>1 DEF Linked
<1> HIDE DEF src
<1>5. /\ HeapOK(r[1]) /\ SameNodes(heap, r[1], DOMAIN heap)
      /\ DOMAIN r[1] = DOMAIN heap \cup Range(v)
      /\ DOMAIN heap \cap Range(v) = {}
      /\ Chained(r[1], r[2], v)
      /\ r[2] = ListAfter(Len(wantedLines))
  BY <1>1, <1>2, <1>3, <1>4, AddEachFacts
<1> HIDE DEF r
<1>6. wanted' = v
  BY <1>2, <1>3 DEF NewNodes
<1> HIDE DEF v
<1>7. Range(wanted) = {}
  BY <1>2, EmptyFacts
<1>8. HeapInv(heap', wantedLines', wanted')
  BY <1>1, <1>2, <1>5, <1>6, <1>7 DEF HeapInv
<1>9. SameNodes(heap, heap', Range(wantedLines))
  BY <1>1, <1>2, <1>5 DEF SameNodes
<1>10. LinesInv(heap', lines', wantedLines')
  BY <1>2, <1>9, LinesFrame DEF ListInv
<1>11. IsFileList(infos') /\ infos'.vectored = FALSE /\ infos'.sortKey = ""
  <2>1. infos' = ListAfter(Len(wantedLines))
    BY <1>2, <1>5
  <2> QED
    BY <2>1, FileListFacts DEF ListAfter, IsFileList
<1>12. FilesInv(heap', infos', wanted', changed')
  BY <1>2, <1>5, <1>6, <1>11, NewSort, NotVectored
<1> QED
  BY <1>2, <1>8, <1>10, <1>12 DEF ListInv

LEMMA DisposeInv ==
    ASSUME ListInv, Dispose
    PROVE  ListInv'
<1>1. /\ HeapOK(heap) /\ Range(wantedLines) \cap Range(wanted) = {}
      /\ DOMAIN heap = Range(wantedLines) \cup Range(wanted)
  BY DEF ListInv, HeapInv
<1>2. CASE /\ heap' = DisposeLineListContents(heap, lines)
           /\ lines' = InitLineList
           /\ wantedLines' = <<>>
           /\ UNCHANGED <<infos, wanted, changed>>
  <2>1. Walk(heap, lines.first) = wantedLines
    BY <1>1, WalkFacts DEF ListInv, LinesInv, Chained, Ends
  <2>2. heap' = [x \in DOMAIN heap \ Range(wantedLines) |-> heap[x]]
    BY <1>2, <2>1 DEF DisposeLineListContents
  <2>3. HeapOK(heap') /\ DOMAIN heap' = DOMAIN heap \ Range(wantedLines) /\ SameNodes(heap, heap', DOMAIN heap \ Range(wantedLines))
    BY <1>1, <2>2, WithoutFacts
  <2>4. HeapInv(heap', wantedLines', wanted')
    BY <1>1, <1>2, <2>3, EmptyFacts DEF HeapInv
  <2>5. LinesInv(heap', lines', wantedLines')
    BY <1>2, EmptyLines
  <2>6. SameNodes(heap, heap', Range(wanted))
    BY <1>1, <2>3 DEF SameNodes
  <2>7. FilesInv(heap', infos', wanted', changed')
    BY <1>2, <2>6, FilesFrame DEF ListInv
  <2> QED
    BY <1>2, <2>4, <2>5, <2>7 DEF ListInv
<1>3. CASE /\ heap' = DisposeFileInfoListContents(heap, infos)
           /\ infos' = FileList
           /\ wanted' = <<>>
           /\ changed' = TRUE
           /\ UNCHANGED <<lines, wantedLines>>
  <2>1. Range(Walk(heap, infos.first)) = Range(wanted)
    <3>1. Path(wanted) /\ LinksOf(heap, infos, wanted)
      BY DEF ListInv, FilesInv
    <3>2. PICK u \in Bijection(1..Len(wanted), Range(wanted)) : Chained(heap, infos, u)
      BY <3>1 DEF LinksOf
    <3>3. Range(u) = Range(wanted)
      BY <3>1, BijectionPath
    <3>4. Walk(heap, infos.first) = u
      BY <1>1, <3>2, WalkFacts DEF Chained, Ends
    <3> QED
      BY <3>3, <3>4
  <2>2. heap' = [x \in DOMAIN heap \ Range(wanted) |-> heap[x]]
    BY <1>3, <2>1 DEF DisposeFileInfoListContents, DisposeLineListContents
  <2>3. HeapOK(heap') /\ DOMAIN heap' = DOMAIN heap \ Range(wanted) /\ SameNodes(heap, heap', DOMAIN heap \ Range(wanted))
    BY <1>1, <2>2, WithoutFacts
  <2>4. HeapInv(heap', wantedLines', wanted')
    BY <1>1, <1>3, <2>3, EmptyFacts DEF HeapInv
  <2>5. SameNodes(heap, heap', Range(wantedLines))
    BY <1>1, <2>3 DEF SameNodes
  <2>6. LinesInv(heap', lines', wantedLines')
    BY <1>3, <2>5, LinesFrame DEF ListInv
  <2>7. FilesInv(heap', infos', wanted', changed')
    BY <1>3, EmptyFiles
  <2> QED
    BY <1>3, <2>4, <2>6, <2>7 DEF ListInv
<1> QED
  BY <1>2, <1>3 DEF Dispose

LEMMA VectorizeInv ==
    ASSUME ListInv, VectorizeFileInfoList
    PROVE  ListInv'
<1>1. /\ infos' = [infos EXCEPT !.vec = Walk(heap, infos.first), !.vectored = TRUE]
      /\ UNCHANGED <<heap, lines, wantedLines, wanted, changed>> /\ ~infos.vectored
  BY DEF VectorizeFileInfoList
<1>2. Chained(heap, infos, wanted) /\ Path(wanted) /\ IsFileList(infos)
  BY <1>1, ChainedFiles
<1>3. Walk(heap, infos.first) = wanted
  BY <1>2, WalkFacts DEF ListInv, HeapInv, Chained, Ends
<1>4. /\ IsFileList(infos') /\ infos'.vectored = TRUE /\ infos'.vec = wanted
      /\ infos'.sortKey = infos.sortKey /\ infos'.sortOrder = infos.sortOrder
      /\ infos'.first = infos.first /\ infos'.last = infos.last /\ infos'.n = infos.n
  BY <1>1, <1>2, <1>3 DEF IsFileList
<1>5. Chained(heap, infos', wanted) /\ infos'.n = Len(wanted)
  BY <1>2, <1>4 DEF Chained, Ends
<1>6. LinksOf(heap, infos', wanted)
  BY <1>2, <1>4, <1>5, PathBijection DEF LinksOf
<1>7. SortInv(heap, infos', wanted, changed)
  BY <1>4 DEF ListInv, FilesInv, SortInv
<1>8. FilesInv(heap', infos', wanted', changed')
  BY <1>1, <1>2, <1>4, <1>5, <1>6, <1>7 DEF FilesInv
<1> QED
  BY <1>1, <1>8 DEF ListInv

LEMMA UnvectorizeInv ==
    ASSUME ListInv, UnvectorizeFileInfoList
    PROVE  ListInv'
<1>1. /\ infos.vectored /\ heap' = Relinked(heap, infos.vec)
      /\ infos' = [infos EXCEPT !.first = IF infos.vec = <<>> THEN NULL ELSE infos.vec[1],
                                !.last = IF infos.vec = <<>> THEN @ ELSE Last(infos.vec),
                                !.vec = <<>>, !.vectored = FALSE]
      /\ UNCHANGED <<lines, wantedLines, wanted, changed>>
  BY DEF UnvectorizeFileInfoList
<1>2. /\ HeapOK(heap) /\ Range(wantedLines) \cap Range(wanted) = {}
      /\ DOMAIN heap = Range(wantedLines) \cup Range(wanted)
      /\ IsFileList(infos) /\ Path(wanted) /\ infos.n = Len(wanted) /\ LinksOf(heap, infos, wanted)
      /\ infos.vec = wanted /\ SortInv(heap, infos, wanted, changed)
  BY <1>1 DEF ListInv, HeapInv, FilesInv
<1>3. /\ HeapOK(heap') /\ DOMAIN heap' = DOMAIN heap /\ Linked(heap', wanted)
      /\ SameNodes(heap, heap', DOMAIN heap \ Range(wanted)) /\ SameItems(heap, heap', DOMAIN heap)
  BY <1>1, <1>2, RelinkedFacts
<1>4. wanted = <<>> => infos.last = NULL
  <2>1. PICK u \in Bijection(1..Len(wanted), Range(wanted)) : Chained(heap, infos, u)
    BY <1>2 DEF LinksOf
  <2>2. Path(u) /\ Len(u) = Len(wanted)
    BY <1>2, BijectionPath
  <2>3. wanted = <<>> => u = <<>>
    BY <1>2, <2>2, PathFacts
  <2> QED
    BY <2>1, <2>3 DEF Chained, Ends, LastNode
<1>5. /\ IsFileList(infos') /\ infos'.vectored = FALSE
      /\ infos'.sortKey = infos.sortKey /\ infos'.sortOrder = infos.sortOrder
      /\ infos'.first = FirstNode(wanted) /\ infos'.last = LastNode(wanted) /\ infos'.n = Len(wanted)
  <2>1. (IF wanted = <<>> THEN NULL ELSE wanted[1]) = FirstNode(wanted)
    BY DEF FirstNode
  <2>2. (IF wanted = <<>> THEN infos.last ELSE Last(wanted)) = LastNode(wanted)
    BY <1>4 DEF LastNode, Last
  <2>3. infos' = [infos EXCEPT !.first = FirstNode(wanted), !.last = LastNode(wanted), !.vec = <<>>, !.vectored = FALSE]
    BY <1>1, <1>2, <2>1, <2>2 DEF IsFileList
  <2> QED
    BY <2>3, <1>2 DEF IsFileList
<1>6. Chained(heap', infos', wanted')
  BY <1>1, <1>2, <1>3, <1>5 DEF Chained, Ends
<1>7. HeapInv(heap', wantedLines', wanted')
  BY <1>1, <1>2, <1>3 DEF HeapInv
<1>8. SameNodes(heap, heap', Range(wantedLines))
  BY <1>2, <1>3 DEF SameNodes
<1>9. LinesInv(heap', lines', wantedLines')
  BY <1>1, <1>8, LinesFrame DEF ListInv
<1>10. SortInv(heap', infos', wanted', changed')
  <2>1. SameItems(heap, heap', Range(wanted))
    BY <1>2, <1>3 DEF SameItems
  <2>2. SortInv(heap', infos, wanted, changed)
    BY <1>2, <2>1, OrderedFrame DEF SortInv
  <2> QED
    BY <1>1, <1>5, <2>2 DEF SortInv
<1>11. FilesInv(heap', infos', wanted', changed')
  BY <1>5, <1>6, <1>10, NotVectored
<1> QED
  BY <1>1, <1>7, <1>9, <1>11 DEF ListInv

\* What sorting may leave: the same nodes, in the order asked for unless files were
\* added to a list that counts as sorted by the key.
LEMMA SortedVectorsFacts ==
    ASSUME ListInv, infos.vectored, NEW key \in {"n", "t", "s", "b"}, NEW order \in {"a", "d"},
           key = "b" => order = "a", NEW v \in SortedVectors(heap, infos, key, order)
    PROVE  /\ Path(v) /\ Len(v) = Len(wanted) /\ Range(v) = Range(wanted)
           /\ ~(infos.sortKey = key /\ changed) => Ordered(heap, v, key, order)
<1>1. Path(wanted) /\ infos.vec = wanted /\ SortInv(heap, infos, wanted, changed) /\ changed \in BOOLEAN
  BY DEF ListInv, FilesInv
<1>2. CASE infos.sortKey = key
  <2>1. v = IF infos.sortOrder = order THEN wanted ELSE Reverse(wanted)
    BY <1>1, <1>2 DEF SortedVectors
  <2>2. /\ infos.sortOrder \in {"a", "d"} /\ (key = "b" => infos.sortOrder = order)
        /\ (~changed => Ordered(heap, wanted, key, infos.sortOrder))
    BY <1>1, <1>2 DEF SortInv
  <2>3. CASE infos.sortOrder = order
    BY <1>1, <1>2, <2>1, <2>2, <2>3
  <2>4. CASE infos.sortOrder # order
    <3>1. key \in {"n", "t", "s"}
      BY <2>2, <2>4
    <3>2. ~changed => Ordered(heap, Reverse(wanted), key, order)
      BY <1>1, <2>2, <2>4, <3>1, OrderedReverse
    <3> QED
      BY <1>1, <1>2, <2>1, <2>4, <3>2, ReversePath
  <2> QED
    BY <2>3, <2>4
<1>3. CASE infos.sortKey # key
  <2>1. v \in Bijection(1..Len(wanted), Range(wanted)) /\ Ordered(heap, v, key, order)
    BY <1>1, <1>3 DEF SortedVectors
  <2> QED
    BY <1>1, <2>1, BijectionPath
<1> QED
  BY <1>2, <1>3

LEMMA SortInvariant ==
    ASSUME ListInv, NEW key \in {"n", "t", "s", "b"}, NEW order \in {"a", "d"}, SortFileInfoList(key, order)
    PROVE  ListInv'
<1>1. infos.vectored /\ (key = "b" => order = "a")
  BY DEF SortFileInfoList
<1>2. PICK v \in SortedVectors(heap, infos, key, order) :
          infos' = [infos EXCEPT !.vec = v, !.sortKey = key, !.sortOrder = order] /\ wanted' = v
  BY DEF SortFileInfoList
<1>3. changed' = (infos.sortKey = key /\ changed) /\ UNCHANGED <<heap, lines, wantedLines>>
  BY DEF SortFileInfoList
<1>4. /\ Path(v) /\ Len(v) = Len(wanted) /\ Range(v) = Range(wanted)
      /\ ~(infos.sortKey = key /\ changed) => Ordered(heap, v, key, order)
  BY <1>1, SortedVectorsFacts
<1>5. IsFileList(infos) /\ infos.n = Len(wanted) /\ LinksOf(heap, infos, wanted) /\ infos.vectored \in BOOLEAN
  BY DEF ListInv, FilesInv
<1>6. /\ IsFileList(infos') /\ infos'.vectored = infos.vectored /\ infos'.vec = v
      /\ infos'.sortKey = key /\ infos'.sortOrder = order
      /\ infos'.first = infos.first /\ infos'.last = infos.last /\ infos'.n = infos.n
  BY <1>2, <1>5 DEF IsFileList
<1>7. LinksOf(heap, infos', v)
  BY <1>1, <1>4, <1>5, <1>6 DEF LinksOf, Chained, Ends
<1>8. SortInv(heap, infos', v, changed')
  BY <1>1, <1>3, <1>4, <1>6 DEF SortInv
<1>9. FilesInv(heap', infos', wanted', changed')
  BY <1>2, <1>3, <1>4, <1>5, <1>6, <1>7, <1>8 DEF FilesInv
<1>10. HeapInv(heap', wantedLines', wanted')
  BY <1>2, <1>3, <1>4 DEF ListInv, HeapInv
<1>11. changed' \in BOOLEAN
  BY <1>3 DEF ListInv
<1> QED
  BY <1>3, <1>9, <1>10, <1>11 DEF ListInv

LEMMA ListInvStep == ListInv /\ [ListNext]_listVars => ListInv'
<1> SUFFICES ASSUME ListInv, [ListNext]_listVars PROVE ListInv'
  OBVIOUS
<1>1. CASE UNCHANGED listVars
  BY <1>1 DEF listVars, ListInv
<1>2. CASE \E item \in Items : CallAddLine(item) \/ CallAddFileInfo(item)
  BY <1>2, AddLineInv, AddFileInfoInv
<1>3. CASE \E k \in 1..Len(wantedLines) : CallRemoveLine(k)
  BY <1>3, RemoveLineInv
<1>4. CASE \E k \in 1..Len(wanted) : CallRemoveFileInfo(k)
  BY <1>4, RemoveFileInfoInv
<1>5. CASE LineListToFileInfoList
  BY <1>5, LineListToFileInfoListInv
<1>6. CASE Dispose
  BY <1>6, DisposeInv
<1>7. CASE VectorizeFileInfoList
  BY <1>7, VectorizeInv
<1>8. CASE UnvectorizeFileInfoList
  BY <1>8, UnvectorizeInv
<1>9. CASE \E key \in {"n", "t", "s", "b"}, order \in {"a", "d"} : SortFileInfoList(key, order)
  BY <1>9, SortInvariant
<1> QED
  BY <1>1, <1>2, <1>3, <1>4, <1>5, <1>6, <1>7, <1>8, <1>9 DEF ListNext

-----------------------------------------------------------------------------
LEMMA ReadsForward ==
    ASSUME NEW h, NEW l, NEW w, Chained(h, l, w)
    PROVE  ReadsAs(h, l.first, "next", w) /\ ReadsAs(h, l.last, "prev", Reverse(w)) /\ l.n = Len(w)
<1>1. Path(w) /\ Linked(h, w) /\ Ends(l, w) /\ Len(w) \in Nat /\ (w = <<>> <=> Len(w) = 0)
  BY PathFacts DEF Chained
<1>2. ReadsAs(h, l.first, "next", w)
  BY <1>1 DEF ReadsAs, Linked, Ends, Succ, FirstNode
<1> DEFINE v == Reverse(w)
<1>3. Len(v) = Len(w) /\ (v = <<>> <=> Len(v) = 0) /\ \A k \in 1..Len(w) : v[k] = w[Len(w) - k + 1]
  BY <1>1, ReversePath, PathFacts
<1> HIDE DEF v
<1>4. l.last = IF v = <<>> THEN NULL ELSE v[1]
  <2>1. Len(w) # 0 => 1 \in 1..Len(w) /\ Len(w) - 1 + 1 = Len(w)
    BY <1>1
  <2> QED
    BY <2>1, <1>1, <1>3 DEF Ends, LastNode
<1>5. ASSUME NEW k \in 1..Len(w)
      PROVE  v[k] \in DOMAIN h /\ h[v[k]].prev = IF k < Len(w) THEN v[k + 1] ELSE NULL
  <2> DEFINE j == Len(w) - k + 1
  <2>1. j \in 1..Len(w) /\ v[k] = w[j] /\ k \in Nat
    BY <1>1, <1>3
  <2>2. v[k] \in DOMAIN h /\ h[v[k]].prev = Pred(w, j)
    BY <2>1, <1>1 DEF Linked
  <2>3. CASE k = Len(w)
    <3>1. j = 1
      BY <2>3, <1>1
    <3> QED
      BY <2>2, <2>3, <3>1, <1>1 DEF Pred
  <2>4. CASE k < Len(w)
    <3>1. j # 1 /\ k + 1 \in 1..Len(w) /\ Len(w) - (k + 1) + 1 = j - 1
      BY <2>4, <2>1, <1>1
    <3>2. v[k + 1] = w[j - 1]
      BY <3>1, <1>3
    <3> HIDE DEF j
    <3> QED
      BY <2>2, <2>4, <3>1, <3>2 DEF Pred
  <2> QED
    BY <2>3, <2>4, <2>1, <1>1
<1>6. ReadsAs(h, l.last, "prev", v)
  BY <1>3, <1>4, <1>5 DEF ReadsAs
<1> QED
  BY <1>1, <1>2, <1>6 DEF Ends, v

LEMMA LinkedEncloses ==
    ASSUME NEW h, NEW w, Path(w), Linked(h, w)
    PROVE  \A a \in Range(w) : {h[a].next, h[a].prev} \subseteq Range(w) \cup {NULL}
<1>1. Range(w) = {w[k] : k \in 1..Len(w)} /\ Len(w) \in Nat
  BY PathFacts
<1>2. ASSUME NEW k \in 1..Len(w)
      PROVE  Succ(w, k) \in Range(w) \cup {NULL} /\ Pred(w, k) \in Range(w) \cup {NULL}
  <2>1. (k < Len(w) => k + 1 \in 1..Len(w)) /\ (k # 1 => k - 1 \in 1..Len(w))
    BY <1>1
  <2> QED
    BY <2>1, <1>1 DEF Succ, Pred
<1> QED
  BY <1>1, <1>2 DEF Linked

LEMMA ListInvImplies == ListInv => ListsHold
<1> SUFFICES ASSUME ListInv PROVE ListsHold
  OBVIOUS
<1>1. /\ DOMAIN heap = Range(wantedLines) \cup Range(wanted) /\ Chained(heap, lines, wantedLines)
      /\ FilesInv(heap, infos, wanted, changed)
  BY DEF ListInv, HeapInv, LinesInv
<1>2. SortedAsAsked
  BY <1>1 DEF SortedAsAsked, FilesInv, SortInv
<1>3. /\ ReadsAs(heap, lines.first, "next", wantedLines) /\ ReadsAs(heap, lines.last, "prev", Reverse(wantedLines))
      /\ lines.n = Len(wantedLines)
  BY <1>1, ReadsForward
<1>4. infos.n = Len(wanted)
  BY <1>1 DEF FilesInv
<1>5. ~infos.vectored => ReadsAs(heap, infos.first, "next", wanted) /\ ReadsAs(heap, infos.last, "prev", Reverse(wanted))
  BY ChainedFiles, ReadsForward
<1>6. infos.vectored => infos.vec = wanted
  BY <1>1 DEF FilesInv
<1>7. \A a \in DOMAIN heap : {heap[a].next, heap[a].prev} \subseteq DOMAIN heap \cup {NULL}
  <2>1. \A a \in Range(wantedLines) : {heap[a].next, heap[a].prev} \subseteq Range(wantedLines) \cup {NULL}
    BY <1>1, LinkedEncloses DEF Chained
  <2>2. PICK u \in Bijection(1..Len(wanted), Range(wanted)) : Chained(heap, infos, u)
    BY <1>1 DEF FilesInv, LinksOf
  <2>3. Range(u) = Range(wanted)
    BY <1>1, BijectionPath DEF FilesInv
  <2>4. \A a \in Range(wanted) : {heap[a].next, heap[a].prev} \subseteq Range(wanted) \cup {NULL}
    BY <2>2, <2>3, LinkedEncloses DEF Chained
  <2> QED
    BY <1>1, <2>1, <2>4
<1> QED
  BY <1>1, <1>2, <1>3, <1>4, <1>5, <1>6, <1>7 DEF ListsHold

\* Whatever calls are made on the lists of lines and of files, in whatever order and
\* with whatever items, each list is what was put into it and not taken out, read from
\* the front, from the back and by its count; a list that was sorted is sorted, and no
\* link leads to a freed node (linelist.c).
THEOREM ListsAreKept == ListSpec => []ListsHold
<1>1. ListSpec => []ListInv
  BY ListInvInit, ListInvStep, PTL DEF ListSpec
<1> QED
  BY <1>1, ListInvImplies, PTL

-----------------------------------------------------------------------------
(***************************************************************************)
(* The compressed image. The counts of its blocks are below the image's    *)
(* size, so each turn of the decompression adds a pixel at least, and the  *)
(* last one starts below n and adds n - 1 at most: there are less than 2n  *)
(* - 1 pixels at the end, and the four bytes allocated beside each pixel   *)
(* have room for them.                                                     *)
(***************************************************************************)
\* An image is compressed pixel by pixel.
LEMMA CompressRecursion ==
    ASSUME NEW pixels, Len(pixels) \in Nat
    PROVE  /\ Compressed(pixels)[0] = [isFirst |-> TRUE, previous |-> <<>>, count |-> 1, blocks |-> <<>>]
           /\ \A k \in 1..Len(pixels) : Compressed(pixels)[k] = CompressPixel(Compressed(pixels)[k - 1], pixels[k])
<1> DEFINE base == [isFirst |-> TRUE, previous |-> <<>>, count |-> 1, blocks |-> <<>>]
           Step(x, k) == CompressPixel(x, pixels[k])
           N == Len(pixels)
           T == {n \in 0..N : ~\E g : g = [k \in 0..n |-> IF k = 0 THEN base ELSE Step(g[k - 1], k)]}
           after == CHOOSE g : g = [k \in 0..N |-> IF k = 0 THEN base ELSE Step(g[k - 1], k)]
<1>1. N \in Nat
  OBVIOUS
<1>2. Compressed(pixels) = after
  BY DEF Compressed
<1> HIDE DEF base, Step, N
<1>3. T = {}
  <2> SUFFICES ASSUME T # {} PROVE FALSE
    OBVIOUS
  <2>1. CASE 0 \in T
    <3>1. [k \in 0..0 |-> base] = [k \in 0..0 |-> IF k = 0 THEN base ELSE Step([j \in 0..0 |-> base][k - 1], k)]
      OBVIOUS
    <3> QED
      BY <3>1, <2>1
  <2>2. ASSUME NEW x \in 1..N, x \in T, x - 1 \in 0..N, x - 1 \notin T PROVE FALSE
    <3>1. PICK g : g = [k \in 0..(x - 1) |-> IF k = 0 THEN base ELSE Step(g[k - 1], k)]
      BY <2>2
    <3> DEFINE h == [k \in 0..x |-> IF k = x THEN Step(g[x - 1], x) ELSE g[k]]
               R == [k \in 0..x |-> IF k = 0 THEN base ELSE Step(h[k - 1], k)]
    <3>2. ASSUME NEW k \in 0..x PROVE h[k] = R[k]
      <4>1. CASE k = 0
        BY <4>1, <3>1, <1>1
      <4>2. CASE k = x
        <5>1. k - 1 \in 0..x /\ k - 1 # x /\ k # 0
          BY <4>2, <1>1
        <5> QED
          BY <5>1, <4>2
      <4>3. CASE k # 0 /\ k # x
        <5>1. k \in 0..(x - 1) /\ k - 1 \in 0..x /\ k - 1 # x
          BY <4>3, <1>1
        <5>2. g[k] = Step(g[k - 1], k)
          BY <3>1, <5>1, <4>3
        <5> QED
          BY <5>1, <5>2, <4>3
      <4> QED
        BY <4>1, <4>2, <4>3
    <3>3. h = R
      BY <3>2
    <3> HIDE DEF h
    <3>4. \E f : f = [k \in 0..x |-> IF k = 0 THEN base ELSE Step(f[k - 1], k)]
      BY <3>3
    <3> QED
      BY <3>4, <2>2
  <2>3. T \subseteq 0..N
    OBVIOUS
  <2> HIDE DEF T
  <2> QED
    BY <2>1, <2>2, <2>3, <1>1, FirstBreak
<1>4. \E g : g = [k \in 0..N |-> IF k = 0 THEN base ELSE Step(g[k - 1], k)]
  BY <1>1, <1>3
<1>5. after = [k \in 0..N |-> IF k = 0 THEN base ELSE Step(after[k - 1], k)]
  BY <1>4
<1> HIDE DEF after
<1>6. /\ after[0] = base
      /\ \A k \in 1..N : after[k] = Step(after[k - 1], k)
  BY <1>5, <1>1
<1> QED
  BY <1>6, <1>2 DEF base, Step, N

\* An image is decompressed block by block.
LEMMA UnpackRecursion ==
    ASSUME NEW blocks, NEW count \in Nat
    PROVE  /\ Unpacked(blocks, count)[0] = <<>>
           /\ \A k \in 1..count : Unpacked(blocks, count)[k] = 
                 LET b == Unpacked(blocks, count)[k - 1]
                 IN  IF Len(b) >= count THEN b ELSE DecompressBlock(b, blocks, k)
<1> DEFINE base == <<>>
           Step(x, k) == IF Len(x) >= count THEN x ELSE DecompressBlock(x, blocks, k)
           N == count
           T == {n \in 0..N : ~\E g : g = [k \in 0..n |-> IF k = 0 THEN base ELSE Step(g[k - 1], k)]}
           after == CHOOSE g : g = [k \in 0..N |-> IF k = 0 THEN base ELSE Step(g[k - 1], k)]
<1>1. N \in Nat
  OBVIOUS
<1>2. Unpacked(blocks, count) = after
  BY DEF Unpacked
<1> HIDE DEF base, Step, N
<1>3. T = {}
  <2> SUFFICES ASSUME T # {} PROVE FALSE
    OBVIOUS
  <2>1. CASE 0 \in T
    <3>1. [k \in 0..0 |-> base] = [k \in 0..0 |-> IF k = 0 THEN base ELSE Step([j \in 0..0 |-> base][k - 1], k)]
      OBVIOUS
    <3> QED
      BY <3>1, <2>1
  <2>2. ASSUME NEW x \in 1..N, x \in T, x - 1 \in 0..N, x - 1 \notin T PROVE FALSE
    <3>1. PICK g : g = [k \in 0..(x - 1) |-> IF k = 0 THEN base ELSE Step(g[k - 1], k)]
      BY <2>2
    <3> DEFINE h == [k \in 0..x |-> IF k = x THEN Step(g[x - 1], x) ELSE g[k]]
               R == [k \in 0..x |-> IF k = 0 THEN base ELSE Step(h[k - 1], k)]
    <3>2. ASSUME NEW k \in 0..x PROVE h[k] = R[k]
      <4>1. CASE k = 0
        BY <4>1, <3>1, <1>1
      <4>2. CASE k = x
        <5>1. k - 1 \in 0..x /\ k - 1 # x /\ k # 0
          BY <4>2, <1>1
        <5> QED
          BY <5>1, <4>2
      <4>3. CASE k # 0 /\ k # x
        <5>1. k \in 0..(x - 1) /\ k - 1 \in 0..x /\ k - 1 # x
          BY <4>3, <1>1
        <5>2. g[k] = Step(g[k - 1], k)
          BY <3>1, <5>1, <4>3
        <5> QED
          BY <5>1, <5>2, <4>3
      <4> QED
        BY <4>1, <4>2, <4>3
    <3>3. h = R
      BY <3>2
    <3> HIDE DEF h
    <3>4. \E f : f = [k \in 0..x |-> IF k = 0 THEN base ELSE Step(f[k - 1], k)]
      BY <3>3
    <3> QED
      BY <3>4, <2>2
  <2>3. T \subseteq 0..N
    OBVIOUS
  <2> HIDE DEF T
  <2> QED
    BY <2>1, <2>2, <2>3, <1>1, FirstBreak
<1>4. \E g : g = [k \in 0..N |-> IF k = 0 THEN base ELSE Step(g[k - 1], k)]
  BY <1>1, <1>3
<1>5. after = [k \in 0..N |-> IF k = 0 THEN base ELSE Step(after[k - 1], k)]
  BY <1>4
<1> HIDE DEF after
<1>6. /\ after[0] = base
      /\ \A k \in 1..N : after[k] = Step(after[k - 1], k)
  BY <1>5, <1>1
<1> QED
  BY <1>6, <1>2 DEF base, Step, N

\* The pixels of an image have one size.
Pixel(size) == [1..size -> Int]
Block(size, count) == [pixel : Pixel(size), count : 1..count]

\* The compression after k pixels: each run that ended, and the one under way, is at
\* least one pixel long, and those that ended leave one of the k pixels over.
RunsOf(s, size, k) ==
    /\ s \in [isFirst : BOOLEAN, previous : {s.previous}, count : Nat \ {0}, blocks : Seq(Block(size, k - 1))]
    /\ s.isFirst <=> k = 0
    /\ s.count = 1 \/ s.count <= k

\* A pixel keeps it so.
LEMMA CompressStep ==
    ASSUME NEW size \in Nat, NEW k \in Nat \ {0}, NEW s, RunsOf(s, size, k - 1), NEW pixel \in Pixel(size)
    PROVE  RunsOf(CompressPixel(s, pixel), size, k)
<1> DEFINE value == convertPixelToInt(pixel)
           Blocks == Seq(Block(size, k - 1))
<1>1. s.blocks \in Blocks /\ s.count \in Nat \ {0} /\ (s.count = 1 \/ s.count <= k - 1)
  <2>1. Block(size, k - 1 - 1) \subseteq Block(size, k - 1)
    BY DEF Block
  <2> QED
    BY <2>1, SeqMonotonic DEF RunsOf
<1>0. s = [isFirst |-> s.isFirst, previous |-> s.previous, count |-> s.count, blocks |-> s.blocks]
  <2> DEFINE Old == Seq(Block(size, k - 1 - 1))
  <2>1. s \in [isFirst : BOOLEAN, previous : {s.previous}, count : Nat \ {0}, blocks : Old]
    BY DEF RunsOf
  <2> HIDE DEF Old
  <2> QED
    BY <2>1
<1>b. s.isFirst \/ s.isFirst = FALSE
  <2> DEFINE Old == Seq(Block(size, k - 1 - 1))
  <2>1. s \in [isFirst : BOOLEAN, previous : {s.previous}, count : Nat \ {0}, blocks : Old]
    BY DEF RunsOf
  <2> HIDE DEF Old
  <2>2. s.isFirst \in BOOLEAN
    BY <2>1
  <2> QED
    BY <2>2
<1> HIDE DEF value, Blocks
<1>a. ASSUME NEW p, NEW c \in Nat \ {0}, NEW l \in Blocks, c = 1 \/ c <= k
      PROVE  RunsOf([isFirst |-> FALSE, previous |-> p, count |-> c, blocks |-> l], size, k)
  <2> DEFINE r == [isFirst |-> FALSE, previous |-> p, count |-> c, blocks |-> l]
  <2>1. r \in [isFirst : BOOLEAN, previous : {r.previous}, count : Nat \ {0}, blocks : Blocks]
    OBVIOUS
  <2>2. r.count = c /\ ~r.isFirst /\ k # 0
    OBVIOUS
  <2> HIDE DEF r
  <2>3. r \in [isFirst : BOOLEAN, previous : {r.previous}, count : Nat \ {0}, blocks : Seq(Block(size, k - 1))]
    BY <2>1 DEF Blocks
  <2>4. RunsOf(r, size, k)
    BY ONLY <2>3, <2>2, <1>a DEF RunsOf
  <2> QED
    BY <2>4 DEF r
<1>2. CASE s.isFirst
  <2>1. CompressPixel(s, pixel) = [s EXCEPT !.isFirst = FALSE, !.previous = value]
    BY <1>2 DEF CompressPixel, value
  <2>2. CompressPixel(s, pixel) = [isFirst |-> FALSE, previous |-> value, count |-> s.count, blocks |-> s.blocks]
    BY <2>1, <1>0
  <2>3. s.count = 1 \/ s.count <= k
    BY <1>1
  <2> QED
    BY <1>1, <2>2, <2>3, <1>a
<1>3. CASE ~s.isFirst /\ value # s.previous
  <2> DEFINE b == [pixel |-> pixel, count |-> s.count]
             all == Append(s.blocks, b)
  <2>1. CompressPixel(s, pixel) = [s EXCEPT !.blocks = all, !.count = 1, !.previous = value]
    BY <1>3 DEF CompressPixel, value
  <2>2. b \in Block(size, k - 1)
    <3>1. k - 1 # 0
      BY <1>3 DEF RunsOf
    <3>2. s.count \in 1..(k - 1)
      BY <3>1, <1>1
    <3> QED
      BY <3>2 DEF Block
  <2>3. all \in Blocks
    BY <1>1, <2>2, AppendProperties DEF Blocks
  <2> HIDE DEF all
  <2>4. CompressPixel(s, pixel) = [isFirst |-> FALSE, previous |-> value, count |-> 1, blocks |-> all]
    <3>1. s.isFirst = FALSE
      BY <1>3, <1>b
    <3> QED
      BY <2>1, <1>0, <3>1
  <2> QED
    BY <2>3, <2>4, <1>a
<1>4. CASE ~s.isFirst /\ value = s.previous
  <2>1. CompressPixel(s, pixel) = [s EXCEPT !.count = s.count + 1]
    BY <1>4 DEF CompressPixel, value
  <2>2. CompressPixel(s, pixel) = [isFirst |-> FALSE, previous |-> s.previous, count |-> s.count + 1, blocks |-> s.blocks]
    <3>1. s.isFirst = FALSE
      BY <1>4, <1>b
    <3> QED
      BY <2>1, <1>0, <3>1
  <2>3. k - 1 # 0
    BY <1>4 DEF RunsOf
  <2>4. s.count + 1 \in Nat \ {0} /\ s.count + 1 <= k
    BY <2>3, <1>1
  <2> QED
    BY <1>1, <2>2, <2>4, <1>a
<1> QED
  BY <1>2, <1>3, <1>4

\* After any number of pixels.
LEMMA CompressRuns ==
    ASSUME NEW size \in Nat, NEW pixels \in Seq(Pixel(size))
    PROVE  \A k \in 0..Len(pixels) : RunsOf(Compressed(pixels)[k], size, k)
<1> DEFINE N == Len(pixels)
           T == {k \in 0..N : ~RunsOf(Compressed(pixels)[k], size, k)}
<1>1. N \in Nat
  OBVIOUS
<1>2. RunsOf(Compressed(pixels)[0], size, 0)
  <2> DEFINE r == [isFirst |-> TRUE, previous |-> <<>>, count |-> 1, blocks |-> <<>>]
             Blocks == Seq(Block(size, 0 - 1))
  <2>1. Compressed(pixels)[0] = r
    BY <1>1, CompressRecursion
  <2>2. <<>> \in Blocks
    BY EmptySeq
  <2> HIDE DEF Blocks
  <2>3. r \in [isFirst : BOOLEAN, previous : {r.previous}, count : Nat \ {0}, blocks : Blocks]
    BY <2>2
  <2>4. r.isFirst /\ r.count = 1
    OBVIOUS
  <2> HIDE DEF r
  <2>5. RunsOf(r, size, 0)
    BY <2>3, <2>4 DEF RunsOf, Blocks
  <2> QED
    BY <2>1, <2>5
<1>3. ASSUME NEW k \in 1..N, RunsOf(Compressed(pixels)[k - 1], size, k - 1)
      PROVE  RunsOf(Compressed(pixels)[k], size, k)
  <2>1. pixels[k] \in Pixel(size)
    BY ElementOfSeq
  <2>2. Compressed(pixels)[k] = CompressPixel(Compressed(pixels)[k - 1], pixels[k])
    BY <1>1, CompressRecursion
  <2>3. k \in Nat \ {0}
    OBVIOUS
  <2> QED
    BY <1>3, <2>1, <2>2, <2>3, CompressStep
<1>4. T = {}
  <2> SUFFICES ASSUME T # {} PROVE FALSE
    OBVIOUS
  <2>1. T \subseteq 0..N
    OBVIOUS
  <2>2. 0 \in T \/ \E x \in 1..N : x \in T /\ x - 1 \in 0..N /\ x - 1 \notin T
    <3> HIDE DEF T, N
    <3> QED
      BY <2>1, <1>1, FirstBreak
  <2> QED
    BY <2>2, <1>2, <1>3
<1> QED
  BY <1>4

\* The counts of the blocks of an image of n pixels are 1 to n - 1.
LEMMA CountsBounded ==
    ASSUME NEW size \in Nat, NEW pixels \in Seq(Pixel(size))
    PROVE  /\ Len(compressImage(pixels)) \in Nat
           /\ \A k \in 1..Len(compressImage(pixels)) :
                /\ compressImage(pixels)[k].count \in 1..(Len(pixels) - 1)
                /\ compressImage(pixels)[k].pixel \in Pixel(size)
<1>1. RunsOf(Compressed(pixels)[Len(pixels)], size, Len(pixels))
  BY CompressRuns
<1>2. compressImage(pixels) \in Seq(Block(size, Len(pixels) - 1))
  BY <1>1 DEF RunsOf, compressImage
<1>3. ASSUME NEW k \in 1..Len(compressImage(pixels))
      PROVE  compressImage(pixels)[k].count \in 1..(Len(pixels) - 1) /\ compressImage(pixels)[k].pixel \in Pixel(size)
  <2>1. compressImage(pixels)[k] \in Block(size, Len(pixels) - 1)
    BY <1>2, ElementOfSeq
  <2> QED
    BY <2>1 DEF Block
<1> QED
  BY <1>2, <1>3

\* A turn adds one block's pixels.
LEMMA UnpackStep ==
    ASSUME NEW n \in Nat, NEW blocks, Len(blocks) \in Nat \ {0},
           \A k \in 1..Len(blocks) : blocks[k].count \in 1..(n - 1),
           NEW S, NEW buffer \in Seq(S), NEW k \in Nat \ {0},
           \A j \in 1..Len(blocks) : blocks[j].pixel \in S
    PROVE  /\ DecompressBlock(buffer, blocks, k) \in Seq(S)
           /\ Len(DecompressBlock(buffer, blocks, k)) \in (Len(buffer) + 1)..(Len(buffer) + n - 1)
<1> DEFINE b == blocks[IF k > Len(blocks) THEN Len(blocks) ELSE k]
           run == [j \in 1..b.count |-> b.pixel]
<1>1. b.count \in 1..(n - 1) /\ b.pixel \in S
  OBVIOUS
<1> HIDE DEF b
<1>2. run \in Seq(S) /\ Len(run) = b.count
  BY <1>1
<1>3. DecompressBlock(buffer, blocks, k) = buffer \o run
  BY DEF DecompressBlock, b
<1> HIDE DEF run
<1>4. buffer \o run \in Seq(S) /\ Len(buffer \o run) = Len(buffer) + Len(run)
  BY <1>2, ConcatProperties
<1>5. Len(buffer) \in Nat
  OBVIOUS
<1> QED
  BY ONLY <1>1, <1>2, <1>3, <1>4, <1>5, n \in Nat

\* After k turns there are k pixels, or enough of them, and less than one block more
\* than enough.
Enough(buffer, n, k, S) ==
    /\ buffer \in Seq(S)
    /\ Len(buffer) >= k \/ Len(buffer) >= n
    /\ Len(buffer) = 0 \/ Len(buffer) <= 2 * n - 2

LEMMA UnpackEnough ==
    ASSUME NEW n \in Nat, NEW blocks, Len(blocks) \in Nat \ {0}, NEW S,
           \A k \in 1..Len(blocks) : blocks[k].count \in 1..(n - 1) /\ blocks[k].pixel \in S
    PROVE  \A k \in 0..n : Enough(Unpacked(blocks, n)[k], n, k, S)
<1> DEFINE U == Unpacked(blocks, n)
           T == {k \in 0..n : ~Enough(U[k], n, k, S)}
<1>1. Enough(U[0], n, 0, S)
  <2>1. U[0] = <<>>
    BY UnpackRecursion
  <2>2. <<>> \in Seq(S) /\ Len(<<>>) = 0
    BY EmptySeq
  <2> QED
    BY <2>1, <2>2 DEF Enough
<1>2. ASSUME NEW k \in 1..n, Enough(U[k - 1], n, k - 1, S)
      PROVE  Enough(U[k], n, k, S)
  <2> DEFINE b == U[k - 1]
             next == DecompressBlock(b, blocks, k)
             old == Len(b)
             new == Len(next)
  <2>1. U[k] = IF Len(b) >= n THEN b ELSE next
    BY UnpackRecursion
  <2>2. b \in Seq(S) /\ old \in Nat /\ (old >= k - 1 \/ old >= n) /\ (old = 0 \/ old <= 2 * n - 2)
    BY <1>2 DEF Enough
  <2>3. k \in Nat \ {0}
    OBVIOUS
  <2> HIDE DEF U, b
  <2>4. next \in Seq(S) /\ new \in (old + 1)..(old + n - 1)
    BY <2>2, <2>3, UnpackStep
  <2> HIDE DEF next, old, new
  <2>5. CASE old >= n
    <3>1. U[k] = b
      BY <2>1, <2>5 DEF old
    <3> QED
      BY <3>1, <2>2, <2>5 DEF Enough, old
  <2>6. CASE ~(old >= n)
    <3>1. U[k] = next
      BY <2>1, <2>6 DEF old
    <3>2. new >= k /\ new <= 2 * n - 2
      BY ONLY <2>2, <2>3, <2>4, <2>6, n \in Nat
    <3> QED
      BY <3>1, <3>2, <2>4 DEF Enough, new
  <2> QED
    BY <2>5, <2>6
<1> HIDE DEF U
<1>3. T = {}
  <2> SUFFICES ASSUME T # {} PROVE FALSE
    OBVIOUS
  <2>1. T \subseteq 0..n
    OBVIOUS
  <2>2. 0 \in T \/ \E x \in 1..n : x \in T /\ x - 1 \in 0..n /\ x - 1 \notin T
    <3> HIDE DEF T
    <3> QED
      BY <2>1, FirstBreak
  <2> QED
    BY <2>2, <1>1, <1>2
<1> QED
  BY <1>3 DEF U

\* The blocks of compressImage, of pixels of one to four bytes, are read again within
\* the buffer's room and give the whole image (main.c:141-202): for every image.
THEOREM DecompressionFitsHolds ==
    ASSUME NEW size \in 1..4, NEW pixels \in Seq(Pixel(size)), pixels # <<>>
    PROVE  DecompressionFits(pixels)
<1> DEFINE blocks == compressImage(pixels)
           n == Len(pixels)
           U == Unpacked(blocks, n)[n]
           len == Len(U)
<1>1. n \in Nat /\ n # 0
  BY EmptySeq
<1>2. Len(pixels[1]) = size
  <2>1. pixels[1] \in Pixel(size)
    BY <1>1, ElementOfSeq
  <2> QED
    BY <2>1 DEF Pixel
<1>3. ASSUME blocks # <<>>
      PROVE  /\ len * size <= BufferRoom(n, size)
             /\ Len(decompressImage(blocks, n)) = n
  <2>1. /\ Len(blocks) \in Nat
        /\ \A k \in 1..Len(blocks) : blocks[k].count \in 1..(n - 1) /\ blocks[k].pixel \in Pixel(size)
    BY CountsBounded
  <2>2. Len(blocks) # 0
    <3>1. RunsOf(Compressed(pixels)[n], size, n)
      BY <1>1, CompressRuns
    <3>2. blocks \in Seq(Block(size, n - 1))
      BY <3>1 DEF RunsOf, compressImage
    <3> QED
      BY <3>2, <1>3, EmptySeq
  <2>3. Enough(U, n, n, Pixel(size))
    <3>1. Len(blocks) \in Nat \ {0}
      BY <2>1, <2>2
    <3> HIDE DEF blocks, n
    <3>2. \A k \in 0..n : Enough(Unpacked(blocks, n)[k], n, k, Pixel(size))
      BY <1>1, <2>1, <3>1, UnpackEnough
    <3>3. n \in 0..n
      BY <1>1
    <3> QED
      BY <3>2, <3>3
  <2>4. U \in Seq(Pixel(size)) /\ len \in Nat /\ len >= n /\ len <= 2 * n - 2
    <3> HIDE DEF U, n
    <3> QED
      BY <2>3, <1>1 DEF Enough
  <2>5. len * size <= n * (size + 4)
    <3> HIDE DEF len, n
    <3>1. CASE size = 1
      BY <3>1, <2>4, <1>1
    <3>2. CASE size = 2
      BY <3>2, <2>4, <1>1
    <3>3. CASE size = 3
      BY <3>3, <2>4, <1>1
    <3>4. CASE size = 4
      BY <3>4, <2>4, <1>1
    <3> QED
      BY <3>1, <3>2, <3>3, <3>4
  <2>6. Len(SubSeq(U, 1, n)) = n
    <3> HIDE DEF U, n
    <3>1. \A j \in 1..n : j \in 1..Len(U)
      BY <2>4, <1>1
    <3> QED
      BY <2>4, <1>1, <3>1, SubSeqProperties
  <2> QED
    BY <2>5, <2>6 DEF BufferRoom, decompressImage
<1> HIDE DEF blocks, n
<1> QED
  BY <1>2, <1>3 DEF DecompressionFits, blocks, n

=============================================================================
