-------------------------- MODULE FtpFetch_proofs --------------------------
(***************************************************************************)
(* The downloads of FtpFetch: types, and every invariant of its run, for   *)
(* every number of calls, sessions, versions and blocks.                   *)
(*                                                                         *)
(* WasInv says that the files a call may have met are known by their times *)
(* and versions, TimeInv that nothing is dated later than now, ViewInv     *)
(* what the server's answers are true of, LinkInv what is open at which    *)
(* point, LocalInv whose blocks the local file consists of, GetInv and     *)
(* MemInv what a call that has come to a point has received by then.  Each *)
(* is preserved by one lemma (...Next) with one case per action or per     *)
(* kind of action (Movement); actions that need an argument of their own   *)
(* have it in a lemma before.                                              *)
(***************************************************************************)
EXTENDS FtpFetch, SequenceTheorems, TLAPS

\* The assumptions on the bounds, one fact each.
LEMMA Bounds ==
    /\ MaxLen \in Nat \ {0} /\ MaxCalls \in Nat \ {0} /\ MaxSessions \in Nat \ {0}
    /\ MaxVersion \in Nat \ {0} /\ Gap \in Nat \ {0} /\ Threshold \in Nat \ {0}
  BY BoundsAssumption, TimeAssumption

-----------------------------------------------------------------------------
LEMMA WholeSeq ==
    ASSUME NEW v \in 0 .. MaxVersion, NEW n \in 0 .. MaxLen
    PROVE  Whole(v, n) \in Seq(Block) /\ Len(Whole(v, n)) = n
<1>1. \A i \in 1 .. n : <<v, i>> \in Block
  BY Bounds DEF Block
<1> QED
  BY <1>1 DEF Whole

LEMMA WholePart ==
    ASSUME NEW v \in 0 .. MaxVersion, NEW m \in 0 .. MaxLen, NEW a \in Nat, NEW n \in 0 .. MaxLen,
           a + n <= m
    PROVE  SubSeq(Whole(v, m), a + 1, a + n) \in Seq(Block)
  BY WholeSeq, Bounds

-----------------------------------------------------------------------------
(* Types.                                                                  *)

ScalarTypeOK ==
    /\ pc \in {"idle", "facts", "time", "probe", "decide", "start", "read", "end", "finish", "delete"}
    /\ calls \in 0 .. MaxCalls /\ sessions \in 1 .. MaxSessions
    /\ zaction \in Actions
    /\ result \in {"ok", "same"} \cup Failures
    /\ tar \in {"none", "running", "dead"}
    /\ taint \subseteq {"append", "undo", "undated", "raced", "overtaken"}
    /\ late \in BOOLEAN /\ gone \in BOOLEAN /\ server \subseteq Features
RecordTypeOK ==
    /\ call \in CallRecord
    /\ has \in [Commands -> {"unknown", "yes", "no"}]
    /\ start \in [wanted : Nat, cip : Nat]
    /\ net \in [up : BOOLEAN, sock : BOOLEAN, owed : BOOLEAN, canceled : BOOLEAN]
ViewTypeOK ==
    /\ view \in [size : Nat \cup {Unknown}, mdtm : Nat \cup {Unknown}]
    /\ {remote, source} \cup was \subseteq FileRecord /\ clock \in Nat
SeqTypeOK ==
    /\ wire \in [blocks : Seq(Block), end : {"good", "bad"}]
    /\ local \in [there : BOOLEAN, blocks : Seq(Block), mtime : Nat]
    /\ mem \in Seq(Block)

LEMMA TypeParts == TypeOK <=> ScalarTypeOK /\ RecordTypeOK /\ ViewTypeOK /\ SeqTypeOK
  BY DEF TypeOK, ScalarTypeOK, RecordTypeOK, ViewTypeOK, SeqTypeOK
\* The ranges of what the actions read, and that they are numbers.
LEMMA Fields ==
    ASSUME TypeOK
    PROVE  /\ remote.len \in 0 .. MaxLen /\ remote.ver \in 0 .. MaxVersion /\ remote.mtime \in Nat
           /\ source.len \in 0 .. MaxLen /\ source.ver \in 0 .. MaxVersion
           /\ \A f \in was : f.len \in 0 .. MaxLen /\ f.ver \in 0 .. MaxVersion /\ f.mtime \in Nat
           /\ view.size \in Nat \cup {Unknown} /\ view.mdtm \in Nat \cup {Unknown}
           /\ local.mtime \in Nat /\ local.blocks \in Seq(Block) /\ wire.blocks \in Seq(Block)
           /\ start.wanted \in Nat /\ start.cip \in Nat /\ clock \in Nat /\ Here \in Nat
<1>1. /\ remote.len \in 0 .. MaxLen /\ remote.ver \in 0 .. MaxVersion /\ remote.mtime \in Nat
      /\ source.len \in 0 .. MaxLen /\ source.ver \in 0 .. MaxVersion
      /\ \A f \in was : f.len \in 0 .. MaxLen /\ f.ver \in 0 .. MaxVersion /\ f.mtime \in Nat
  BY DEF TypeOK, FileRecord
<1>2. view.size \in Nat \cup {Unknown} /\ view.mdtm \in Nat \cup {Unknown}
  BY DEF TypeOK
<1>3. local.mtime \in Nat /\ local.blocks \in Seq(Block) /\ wire.blocks \in Seq(Block)
  BY DEF TypeOK
<1>4. start.wanted \in Nat /\ start.cip \in Nat /\ clock \in Nat
  BY DEF TypeOK
<1>5. Here \in Nat
  BY <1>3, LenProperties DEF Here
<1> QED
  BY <1>1, <1>2, <1>3, <1>4, <1>5

LEMMA Numbers ==
    ASSUME TypeOK
    PROVE  /\ remote.len \in Nat /\ source.len \in Nat /\ Here \in Nat /\ Len(wire.blocks) \in Nat
           /\ call.from \in Nat /\ call.room \in Nat /\ Len(mem) \in Nat
<1>1. remote.len \in Nat /\ source.len \in Nat
  BY Fields, Bounds, SMTT(30)
<1>2. call.from \in Nat /\ call.room \in Nat
  BY DEF TypeOK, CallRecord
<1>3. Len(mem) \in Nat /\ Len(wire.blocks) \in Nat
  BY LenProperties DEF TypeOK
<1> QED
  BY <1>1, <1>2, <1>3, Fields

LEMMA OffsetsType ==
    ASSUME TypeOK
    PROVE  start.cip \in Nat /\ Offsets \subseteq Nat
<1>1. start.wanted \in Nat /\ start.cip \in Nat
  BY Fields
<1>2. Offsets \subseteq {0, start.wanted}
  BY Zenon DEF Offsets
<1> QED
  BY <1>1, <1>2

\* Every failure to start ends the same way.
LEMMA StartIsRefused ==
    ASSUME TypeOK, NoDataConnection \/ RetrRefused \/ AcceptFails
    PROVE  \E offset \in Nat : \E owed \in BOOLEAN :
             pc = "start" /\ StartFails("refused", offset, owed)
<1>1. start.cip \in Nat /\ Offsets \subseteq Nat
  BY OffsetsType
<1>2. CASE NoDataConnection
  <2>1. pc = "start" /\ StartFails("refused", start.cip, FALSE)
    BY <1>2 DEF NoDataConnection
  <2> QED
    BY <1>1, <2>1
<1>3. CASE RetrRefused
  <2>1. PICK offset \in Offsets : pc = "start" /\ StartFails("refused", offset, FALSE)
    BY <1>3 DEF RetrRefused
  <2> QED
    BY <1>1, <2>1
<1>4. CASE AcceptFails
  <2>1. PICK offset \in Offsets : pc = "start" /\ StartFails("refused", offset, TRUE)
    BY <1>4 DEF AcceptFails
  <2> QED
    BY <1>1, <2>1
<1> QED
  BY <1>2, <1>3, <1>4

\* What every transfer that starts has in common.
LEMMA TransferFacts ==
    ASSUME NEW offset, NEW n, NEW end, Transfers(offset, n, end)
    PROVE  /\ n = 0 \/ n + offset <= remote.len
           /\ end = "good" => n + offset >= remote.len
           /\ wire' = [blocks |-> SubSeq(Content(remote), offset + 1, offset + n), end |-> end]
           /\ source' = remote /\ taint \subseteq taint'
           /\ call.op = "get" /\ taint' = {} => /\ ~(start.wanted # 0 /\ offset = 0)
                                                /\ offset # 0 => view.mdtm = remote.mtime
           /\ IF start.wanted # 0 /\ offset = 0 /\ call.op = "mem"
              THEN pc' = "idle" /\ result' = "noStart"
              ELSE pc' = "read" /\ result' = "ok"
<1>1. /\ n = 0 \/ n + offset <= remote.len
      /\ end = "good" => n + offset >= remote.len
      /\ source' = remote
  BY DEF Transfers
<1>2. wire' = [blocks |-> SubSeq(Content(remote), offset + 1, offset + n), end |-> end]
  BY DEF Transfers
<1>3. taint' = IF call.op # "get" THEN taint
               ELSE taint \cup (IF start.wanted # 0 /\ offset = 0 THEN {"undo"} ELSE {})
                          \cup (IF offset # 0 /\ view.mdtm # remote.mtime THEN {"raced"} ELSE {})
  BY Zenon DEF Transfers
<1>4. /\ pc' = IF (start.wanted # 0 /\ offset = 0) /\ call.op = "mem" THEN "idle" ELSE "read"
      /\ result' = IF (start.wanted # 0 /\ offset = 0) /\ call.op = "mem" THEN "noStart" ELSE "ok"
  BY Zenon DEF Transfers
<1> QED
  BY <1>1, <1>2, <1>3, <1>4

\* The link while a transfer is started, broken off or cancelled.
LEMMA LinkType ==
    ASSUME TypeOK, TransferStarts \/ ReadToMemory \/ Cancel
    PROVE  net' \in [up : BOOLEAN, sock : BOOLEAN, owed : BOOLEAN, canceled : BOOLEAN]
<1>1. net \in [up : BOOLEAN, sock : BOOLEAN, owed : BOOLEAN, canceled : BOOLEAN]
  BY DEF TypeOK
<1>2. CASE TransferStarts
  <2>1. PICK offset \in Offsets, n \in 0 .. MaxLen, end \in {"good", "bad"} : Transfers(offset, n, end)
    BY <1>2 DEF TransferStarts
  <2>2. PICK b \in BOOLEAN : net' = [net EXCEPT !.sock = TRUE, !.canceled = FALSE, !.owed = b]
    BY <2>1 DEF Transfers
  <2> QED
    BY <1>1, <2>2
<1>3. CASE ReadToMemory \/ Cancel
  <2>1. \/ net' = net
        \/ \E b \in BOOLEAN : net' = [net EXCEPT !.canceled = TRUE, !.sock = FALSE, !.owed = b]
    BY <1>3 DEF ReadToMemory, Cancel
  <2> QED
    BY <1>1, <2>1
<1> QED
  BY <1>2, <1>3

LEMMA TypeInit == Init => TypeOK
<1> SUFFICES ASSUME Init PROVE TypeOK
  OBVIOUS
<1>1. \A n \in 1 .. MaxLen : Whole(0, n) \in Seq(Block)
  BY WholeSeq, Bounds
<1>2. local \in [there : BOOLEAN, blocks : Seq(Block), mtime : Nat]
  <2>1. local = [there |-> FALSE, blocks |-> <<>>, mtime |-> 0] => local.blocks \in Seq(Block)
    OBVIOUS
  <2>2. ASSUME NEW n \in 1 .. MaxLen, local = [there |-> TRUE, blocks |-> Whole(0, n), mtime |-> 0]
        PROVE  local \in [there : BOOLEAN, blocks : Seq(Block), mtime : Nat]
    BY <1>1, <2>2
  <2>3. CASE local = [there |-> FALSE, blocks |-> <<>>, mtime |-> 0]
    BY <2>1, <2>3
  <2> QED
    BY <2>2, <2>3 DEF Init
<1>3. {remote, source} \cup was \subseteq FileRecord
  <2>1. remote \in FileRecord
    BY Bounds DEF Init, FileRecord
  <2> QED
    BY <2>1 DEF Init
<1>4. ScalarTypeOK
  <2>1. server \subseteq Features
    BY CallsAssumption DEF Init
  <2>2. calls \in 0 .. MaxCalls /\ sessions \in 1 .. MaxSessions
    BY Bounds DEF Init
  <2> QED
    BY <2>1, <2>2 DEF Init, ScalarTypeOK, Actions
<1>5. RecordTypeOK
  BY DEF Init, RecordTypeOK, NoCall, CallRecord
<1>6. ViewTypeOK
  BY <1>3, Bounds DEF Init, ViewTypeOK, Unknown
<1>7. SeqTypeOK
  BY <1>2 DEF Init, SeqTypeOK
<1> QED
  BY <1>4, <1>5, <1>6, <1>7, TypeParts


LEMMA ScalarTypeNext == TypeOK /\ [Next]_vars => ScalarTypeOK'
<1> SUFFICES ASSUME TypeOK, [Next]_vars PROVE ScalarTypeOK'
  OBVIOUS
<1> USE Bounds DEF world, client, history, TypeOK, ScalarTypeOK, Actions, Early, Failures
<1>1. ASSUME NEW c \in Calls, Call(c) PROVE ScalarTypeOK'
  <2>1. calls' = calls + 1 /\ calls < MaxCalls
    BY <1>1 DEF Call
  <2>3. calls' \in 0 .. MaxCalls
    BY <2>1, Bounds
  <2>2. pc' \in {"facts", "probe", "decide", "start"}
    BY <1>1, CallsAssumption, SMTT(30) DEF Call, CallRecord
  <2> QED
    BY <1>1, <2>2, <2>3 DEF Call
<1>2. CASE FactsByMlst
  BY <1>2 DEF FactsByMlst, Gives
<1>3. CASE FactsBySize
  BY <1>3 DEF FactsBySize, Gives, Learnt
<1>3a. CASE FactsByTime
  BY <1>3a DEF FactsByTime, Gives, Learnt
<1>4. CASE Probe
  BY <1>4 DEF Probe, Restart
<1>5. CASE ProbeToMemory
  BY <1>5 DEF ProbeToMemory, Restart, Gives, Learnt
<1>6. CASE DecideNot
  BY <1>6 DEF DecideNot, Decide, Doubts
<1>7. CASE DecideToFetch
  BY <1>7 DEF DecideToFetch, Decide, Doubts
<1>8. CASE DecideFails
  BY <1>8, SMTT(30) DEF DecideFails, Decide, Here
<1>9. CASE DecideToMemory
  BY <1>9 DEF DecideToMemory
<1>10. CASE DecideToTar
  BY <1>10 DEF DecideToTar
<1>11. CASE NoDataConnection
  <2>1. PICK offset \in Nat : \E owed \in BOOLEAN :
           pc = "start" /\ StartFails("refused", offset, owed)
    BY <1>11, StartIsRefused
  <2> QED
    BY <2>1, SMTT(30) DEF StartFails
<1>12. CASE RetrRefused
  <2>1. PICK offset \in Nat : \E owed \in BOOLEAN :
           pc = "start" /\ StartFails("refused", offset, owed)
    BY <1>12, StartIsRefused
  <2> QED
    BY <2>1, SMTT(30) DEF StartFails
<1>13. CASE AcceptFails
  <2>1. PICK offset \in Nat : \E owed \in BOOLEAN :
           pc = "start" /\ StartFails("refused", offset, owed)
    BY <1>13, StartIsRefused
  <2> QED
    BY <2>1, SMTT(30) DEF StartFails
<1>14. CASE TransferStarts
  <2>1. PICK offset \in Offsets, n \in 0 .. MaxLen, end \in {"good", "bad"} : Transfers(offset, n, end)
    BY <1>14 DEF TransferStarts
  <2>2. taint' \subseteq taint \cup {"undo", "raced"}
    <3>1. taint' = IF call.op # "get" THEN taint
                   ELSE taint \cup (IF start.wanted # 0 /\ offset = 0 THEN {"undo"} ELSE {})
                              \cup (IF offset # 0 /\ view.mdtm # remote.mtime THEN {"raced"} ELSE {})
      BY <2>1, Zenon DEF Transfers
    <3> QED
      BY <3>1
  <2>3. pc' \in {"idle", "read"} /\ result' \in {"noStart", "ok"}
    BY <2>1 DEF Transfers
  <2>4. UNCHANGED <<calls, sessions, zaction, tar, gone, late, server>>
    BY <2>1 DEF Transfers
  <2> QED
    BY <2>2, <2>3, <2>4
<1>15. CASE ReadToFile
  BY <1>15 DEF ReadToFile, Reading, Arrives, LoopUnchanged
<1>16. CASE ReadToMemory
  BY <1>16 DEF ReadToMemory, Reading, Arrives, LoopUnchanged
<1>17. CASE ReadToList
  BY <1>17 DEF ReadToList, Reading, Arrives, LoopUnchanged
<1>18. CASE WriteFails
  BY <1>18 DEF WriteFails, Reading, Arrives, LoopUnchanged
<1>19. CASE EndOfFile
  BY <1>19 DEF EndOfFile, Reading, Arrives, LoopUnchanged
<1>20. CASE ReadFails
  BY <1>20 DEF ReadFails, Reading, Arrives, LoopUnchanged
<1>21. CASE ReadTimesOut
  BY <1>21 DEF ReadTimesOut, Reading, Arrives, LoopUnchanged
<1>22. CASE Cancel
  BY <1>22 DEF Cancel, Reading, Arrives, LoopUnchanged
<1>23. CASE End
  BY <1>23 DEF End
<1>24. CASE Finish
  BY <1>24 DEF Finish
<1>25. CASE Delete
  BY <1>25 DEF Delete
<1>26. CASE ConnectionLost
  BY <1>26 DEF ConnectionLost
<1>27. CASE TarDies
  BY <1>27 DEF TarDies
<1>28. CASE Edit
  <2>1. UNCHANGED <<pc, calls, sessions, zaction, result, tar, taint, server>>
    BY <1>28 DEF Edit
  <2>2. late' = late /\ gone' = FALSE
    BY <1>28 DEF Edit
  <2>3. late' \in BOOLEAN /\ gone' \in BOOLEAN
    BY <2>2, Zenon
  <2> QED
    BY <2>1, <2>3
<1>29. CASE Reconnect
  BY <1>29, SMTT(30) DEF Reconnect, NewConnection
<1>30. CASE Kill
  <2>1. sessions' \in 1 .. MaxSessions
    BY <1>30 DEF Kill, NewConnection
  <2>2. pc' = "idle" /\ tar' = "none" /\ zaction' = "none" /\ result' = "aborted" /\ gone' = FALSE
    BY <1>30 DEF Kill, NewConnection
  <2>3. UNCHANGED <<calls, taint, late, server>>
    BY <1>30 DEF Kill, NewConnection
  <2> QED
    BY <2>1, <2>2, <2>3
<1>31. CASE UNCHANGED vars
  BY <1>31 DEF vars
<1> QED
  BY <1>1, <1>2, <1>3, <1>3a, <1>4, <1>5, <1>6, <1>7, <1>8, <1>9, <1>10, <1>11, <1>12, <1>13,
     <1>14, <1>15, <1>16, <1>17, <1>18, <1>19, <1>20, <1>21, <1>22, <1>23, <1>24, <1>25,
     <1>26, <1>27, <1>28, <1>29, <1>30, <1>31 DEF Next, Library

LEMMA RestTypes ==
    ASSUME TypeOK, NEW offset \in Offsets
    PROVE  offset \in Nat /\ RestLearnt(offset) \subseteq {"unknown", "yes", "no"}
<1>1. has["REST"] \in {"unknown", "yes", "no"}
  BY DEF TypeOK, Commands
<1>2. offset = 0 \/ offset = start.wanted
  BY DEF Offsets
<1>3. offset \in Nat
  BY <1>2, Fields
<1> QED
  BY <1>1, <1>3 DEF RestLearnt
LEMMA NoTarType == TypeOK => NoTar \in [Commands -> {"unknown", "yes", "no"}]
  BY DEF TypeOK, NoTar, Commands

LEMMA RecordTypeNext == TypeOK /\ [Next]_vars => RecordTypeOK'
<1> SUFFICES ASSUME TypeOK, [Next]_vars PROVE RecordTypeOK'
  OBVIOUS
<1> USE Bounds DEF world, client, history, TypeOK, RecordTypeOK, Commands
<1>1. ASSUME NEW c \in Calls, Call(c) PROVE RecordTypeOK'
  BY <1>1, CallsAssumption DEF Call, CallRecord
<1>2. CASE FactsByMlst
  BY <1>2 DEF FactsByMlst, Gives
<1>3. CASE FactsBySize
  BY <1>3 DEF FactsBySize, Gives, Learnt
<1>3a. CASE FactsByTime
  BY <1>3a DEF FactsByTime, Gives, Learnt
<1>4. CASE Probe
  BY <1>4 DEF Probe, Restart
<1>5. CASE ProbeToMemory
  BY <1>5 DEF ProbeToMemory, Restart, Gives, Learnt
<1>6. CASE DecideNot
  BY <1>6 DEF DecideNot, Decide
<1>7. CASE DecideToFetch
  <2>1. start' \in [wanted : Nat, cip : Nat]
    <3>1. PICK d : start' = [start EXCEPT !.wanted = IF d = "resume" THEN Here ELSE 0]
      BY <1>7 DEF DecideToFetch
    <3>2. Here \in Nat
      BY DEF Here
    <3> QED
      BY <3>1, <3>2
  <2> QED
    BY <1>7, <2>1 DEF DecideToFetch, Decide
<1>8. CASE DecideFails
  <2>1. start' \in [wanted : Nat, cip : Nat]
    <3>1. PICK d : start' = [start EXCEPT !.wanted = IF d = "resume" THEN Here ELSE 0]
      BY <1>8 DEF DecideFails
    <3>2. Here \in Nat
      BY DEF Here
    <3> QED
      BY <3>1, <3>2
  <2> QED
    BY <1>8, <2>1 DEF DecideFails, Decide
<1>9. CASE DecideToMemory
  BY <1>9 DEF DecideToMemory
<1>10. CASE DecideToTar
  BY <1>10 DEF DecideToTar
<1>11. CASE NoDataConnection
  <2>1. PICK offset \in Nat : \E owed \in BOOLEAN :
           pc = "start" /\ StartFails("refused", offset, owed)
    BY <1>11, StartIsRefused
  <2>2. has' \in [Commands -> {"unknown", "yes", "no"}]
    BY <1>11, NoTarType DEF NoDataConnection
  <2>3. PICK to \in Nat, owed \in BOOLEAN :
          /\ start' = [start EXCEPT !.cip = to]
          /\ net' = [net EXCEPT !.owed = owed, !.canceled = FALSE] /\ call' = call
    BY <2>1 DEF StartFails
  <2> QED
    BY <2>2, <2>3
<1>12. CASE RetrRefused
  <2>1. PICK offset \in Offsets : \E rest \in RestLearnt(offset) :
           /\ has' = [NoTar EXCEPT !["REST"] = rest]
           /\ StartFails("refused", offset, FALSE)
    BY <1>12 DEF RetrRefused
  <2>2. has' \in [Commands -> {"unknown", "yes", "no"}]
    BY <2>1, RestTypes, NoTarType
  <2>3. offset \in Nat
    BY RestTypes
  <2>4. /\ start' = [start EXCEPT !.cip = offset]
        /\ net' = [net EXCEPT !.owed = FALSE, !.canceled = FALSE] /\ call' = call
    BY <2>1 DEF StartFails
  <2> QED
    BY <2>2, <2>3, <2>4
<1>13. CASE AcceptFails
  <2>1. PICK offset \in Offsets : \E rest \in RestLearnt(offset) :
           /\ has' = [NoTar EXCEPT !["REST"] = rest]
           /\ StartFails("refused", offset, TRUE)
    BY <1>13 DEF AcceptFails
  <2>2. has' \in [Commands -> {"unknown", "yes", "no"}]
    BY <2>1, RestTypes, NoTarType
  <2>3. offset \in Nat
    BY RestTypes
  <2>4. /\ start' = [start EXCEPT !.cip = offset]
        /\ net' = [net EXCEPT !.owed = TRUE, !.canceled = FALSE] /\ call' = call
    BY <2>1 DEF StartFails
  <2> QED
    BY <2>2, <2>3, <2>4
<1>14. CASE TransferStarts
  <2>1. PICK offset \in Offsets, n \in 0 .. MaxLen, end \in {"good", "bad"} : Transfers(offset, n, end)
    BY <1>14 DEF TransferStarts
  <2>2. PICK rest \in RestLearnt(offset) :
           has' = [has EXCEPT !["REST"] = rest, !["TAR"] = IF call.op = "tar" THEN "yes" ELSE @]
    BY <2>1 DEF Transfers
  <2>3. has' \in [Commands -> {"unknown", "yes", "no"}]
    BY <2>2, RestTypes
  <2>4. start' = [wanted |-> IF offset = 0 THEN 0 ELSE start.wanted, cip |-> offset] /\ call' = call
    BY <2>1 DEF Transfers
  <2>5. start' \in [wanted : Nat, cip : Nat]
    BY <2>4, RestTypes
  <2> QED
    BY <1>14, <2>3, <2>4, <2>5, LinkType
<1>15. CASE ReadToFile
  BY <1>15 DEF ReadToFile, Reading, Arrives, LoopUnchanged
<1>16. CASE ReadToMemory
  BY <1>16, LinkType DEF ReadToMemory, LoopUnchanged
<1>17. CASE ReadToList
  BY <1>17 DEF ReadToList, Reading, Arrives, LoopUnchanged
<1>18. CASE WriteFails
  BY <1>18 DEF WriteFails, Reading, Arrives, LoopUnchanged
<1>19. CASE EndOfFile
  BY <1>19 DEF EndOfFile, Reading, Arrives, LoopUnchanged
<1>20. CASE ReadFails
  BY <1>20 DEF ReadFails, Reading, Arrives, LoopUnchanged
<1>21. CASE ReadTimesOut
  BY <1>21 DEF ReadTimesOut, Reading, Arrives, LoopUnchanged
<1>22. CASE Cancel
  BY <1>22, LinkType DEF Cancel, LoopUnchanged
<1>23. CASE End
  BY <1>23 DEF End
<1>24. CASE Finish
  BY <1>24 DEF Finish
<1>25. CASE Delete
  BY <1>25 DEF Delete
<1>26. CASE ConnectionLost
  BY <1>26 DEF ConnectionLost
<1>27. CASE TarDies
  BY <1>27 DEF TarDies
<1>28. CASE Edit
  BY <1>28 DEF Edit
<1>29. CASE Reconnect
  BY <1>29 DEF Reconnect, NewConnection
<1>30. CASE Kill
  BY <1>30 DEF Kill, NewConnection
<1>31. CASE UNCHANGED vars
  BY <1>31 DEF vars
<1> QED
  BY <1>1, <1>2, <1>3, <1>3a, <1>4, <1>5, <1>6, <1>7, <1>8, <1>9, <1>10, <1>11, <1>12, <1>13,
     <1>14, <1>15, <1>16, <1>17, <1>18, <1>19, <1>20, <1>21, <1>22, <1>23, <1>24, <1>25,
     <1>26, <1>27, <1>28, <1>29, <1>30, <1>31 DEF Next, Library

LEMMA EditRecord ==
    ASSUME TypeOK, Edit
    PROVE  remote' \in FileRecord
<1>1. PICK n \in 0 .. MaxLen :
         remote' = [there |-> TRUE, ver |-> remote.ver + 1, len |-> n, mtime |-> clock + Gap]
  BY DEF Edit
<1>2. remote.ver < MaxVersion
  BY DEF Edit
<1>3. remote.ver \in 0 .. MaxVersion /\ clock \in Nat
  BY Fields
<1>4. MaxVersion \in Nat /\ Gap \in Nat
  BY Bounds
<1>5. remote.ver + 1 \in 0 .. MaxVersion
  BY <1>2, <1>3, <1>4
<1>6. clock + Gap \in Nat
  BY <1>3, <1>4
<1> QED
  BY <1>1, <1>5, <1>6 DEF FileRecord

LEMMA DeleteRecord ==
    ASSUME TypeOK, Delete
    PROVE  remote' \in FileRecord
<1>1. remote' = remote \/ remote' = [remote EXCEPT !.there = FALSE]
  BY DEF Delete
<1>2. remote \in FileRecord
  BY DEF TypeOK
<1>3. CASE remote' = [remote EXCEPT !.there = FALSE]
  BY <1>2, <1>3 DEF FileRecord
<1> QED
  BY <1>1, <1>2, <1>3
LEMMA ProbeView ==
    ASSUME TypeOK, ProbeToMemory
    PROVE  view' \in [size : Nat \cup {Unknown}, mdtm : Nat \cup {Unknown}]
<1>1. view' = [view EXCEPT !.size = view.size] \/ view' = [view EXCEPT !.size = remote.len]
  BY DEF ProbeToMemory
<1>2. view.size \in Nat \cup {Unknown} /\ remote.len \in Nat \cup {Unknown}
  BY Fields, Bounds
<1>3. view \in [size : Nat \cup {Unknown}, mdtm : Nat \cup {Unknown}]
  BY DEF TypeOK
<1> QED
  BY <1>1, <1>2, <1>3

LEMMA ViewTypeNext == TypeOK /\ [Next]_vars => ViewTypeOK'
<1> SUFFICES ASSUME TypeOK, [Next]_vars PROVE ViewTypeOK'
  OBVIOUS
<1> USE Bounds DEF world, client, history, TypeOK, ViewTypeOK, FileRecord, Unknown
<1>1. ASSUME NEW c \in Calls, Call(c) PROVE ViewTypeOK'
  <2>1. clock' \in Nat
    <3>1. PICK wait \in {Gap, Threshold} : clock' = clock + wait
      BY <1>1 DEF Call
    <3> QED
      BY <3>1, Bounds, Fields
  <2>2. was' = {remote} /\ source' = remote /\ remote' = remote
        /\ view' = [size |-> Unknown, mdtm |-> Unknown]
    BY <1>1 DEF Call
  <2> QED
    BY <2>1, <2>2
<1>2. CASE FactsByMlst
  BY <1>2 DEF FactsByMlst, Gives
<1>3. CASE FactsBySize
  <2>1. PICK n \in {remote.len, Unknown} : view' = [view EXCEPT !.size = n]
    BY <1>3 DEF FactsBySize
  <2>2. n \in Nat \cup {Unknown}
    BY <2>1, Numbers
  <2>3. UNCHANGED <<remote, source, was, clock>>
    BY <1>3 DEF FactsBySize
  <2> QED
    BY <2>1, <2>2, <2>3
<1>3a. CASE FactsByTime
  BY <1>3a DEF FactsByTime, Gives, Learnt
<1>4. CASE Probe
  BY <1>4 DEF Probe, Restart
<1>5. CASE ProbeToMemory
  BY <1>5, ProbeView DEF ProbeToMemory
<1>6. CASE DecideNot
  BY <1>6 DEF DecideNot, Decide
<1>7. CASE DecideToFetch
  BY <1>7 DEF DecideToFetch, Decide, Here
<1>8. CASE DecideFails
  BY <1>8 DEF DecideFails, Decide, Here
<1>9. CASE DecideToMemory
  BY <1>9 DEF DecideToMemory
<1>10. CASE DecideToTar
  BY <1>10 DEF DecideToTar
<1>11. CASE NoDataConnection
  <2>1. PICK offset \in Nat : \E owed \in BOOLEAN :
           pc = "start" /\ StartFails("refused", offset, owed)
    BY <1>11, StartIsRefused
  <2> QED
    BY <2>1 DEF StartFails
<1>12. CASE RetrRefused
  <2>1. PICK offset \in Nat : \E owed \in BOOLEAN :
           pc = "start" /\ StartFails("refused", offset, owed)
    BY <1>12, StartIsRefused
  <2> QED
    BY <2>1 DEF StartFails
<1>13. CASE AcceptFails
  <2>1. PICK offset \in Nat : \E owed \in BOOLEAN :
           pc = "start" /\ StartFails("refused", offset, owed)
    BY <1>13, StartIsRefused
  <2> QED
    BY <2>1 DEF StartFails
<1>14. CASE TransferStarts
  <2>1. PICK offset \in Offsets, n \in 0 .. MaxLen, end \in {"good", "bad"} : Transfers(offset, n, end)
    BY <1>14 DEF TransferStarts
  <2>2. source' = remote /\ UNCHANGED <<view, remote, was, clock>>
    BY <2>1 DEF Transfers
  <2> QED
    BY <2>2
<1>15. CASE ReadToFile
  BY <1>15 DEF ReadToFile, Reading, Arrives, LoopUnchanged
<1>16. CASE ReadToMemory
  BY <1>16 DEF ReadToMemory, Reading, Arrives, LoopUnchanged
<1>17. CASE ReadToList
  BY <1>17 DEF ReadToList, Reading, Arrives, LoopUnchanged
<1>18. CASE WriteFails
  BY <1>18 DEF WriteFails, Reading, Arrives, LoopUnchanged
<1>19. CASE EndOfFile
  BY <1>19 DEF EndOfFile, Reading, Arrives, LoopUnchanged
<1>20. CASE ReadFails
  BY <1>20 DEF ReadFails, Reading, Arrives, LoopUnchanged
<1>21. CASE ReadTimesOut
  BY <1>21 DEF ReadTimesOut, Reading, Arrives, LoopUnchanged
<1>22. CASE Cancel
  BY <1>22 DEF Cancel, Reading, Arrives, LoopUnchanged
<1>23. CASE End
  BY <1>23 DEF End
<1>24. CASE Finish
  BY <1>24 DEF Finish
<1>25. CASE Delete
  <2>1. remote' \in FileRecord
    BY <1>25, DeleteRecord
  <2>2. UNCHANGED <<view, clock, was, source>>
    BY <1>25 DEF Delete
  <2> HIDE DEF FileRecord
  <2> QED
    BY <2>1, <2>2
<1>26. CASE ConnectionLost
  BY <1>26 DEF ConnectionLost
<1>27. CASE TarDies
  BY <1>27 DEF TarDies
<1>28. CASE Edit
  <2>1. clock' \in Nat
    BY <1>28, Bounds DEF Edit
  <2>2. remote' \in FileRecord
    BY <1>28, EditRecord
  <2>3. UNCHANGED <<view, source>> /\ was' \subseteq was \cup {remote'}
    BY <1>28 DEF Edit
  <2> HIDE DEF FileRecord
  <2> QED
    BY <2>1, <2>2, <2>3
<1>29. CASE Reconnect
  BY <1>29 DEF Reconnect, NewConnection
<1>30. CASE Kill
  BY <1>30 DEF Kill, NewConnection
<1>31. CASE UNCHANGED vars
  BY <1>31 DEF vars
<1> QED
  BY <1>1, <1>2, <1>3, <1>3a, <1>4, <1>5, <1>6, <1>7, <1>8, <1>9, <1>10, <1>11, <1>12, <1>13,
     <1>14, <1>15, <1>16, <1>17, <1>18, <1>19, <1>20, <1>21, <1>22, <1>23, <1>24, <1>25,
     <1>26, <1>27, <1>28, <1>29, <1>30, <1>31 DEF Next, Library

LEMMA TransferType ==
    ASSUME TypeOK, TransferStarts
    PROVE  wire' \in [blocks : Seq(Block), end : {"good", "bad"}]
<1>1. PICK offset \in Offsets, n \in 0 .. MaxLen, end \in {"good", "bad"} : Transfers(offset, n, end)
  BY DEF TransferStarts
<1>2. /\ n = 0 \/ n + offset <= remote.len
      /\ wire' = [blocks |-> SubSeq(Content(remote), offset + 1, offset + n), end |-> end]
  BY <1>1 DEF Transfers
<1>3. offset \in Nat /\ n \in Nat /\ remote.len \in Nat
  BY RestTypes, Numbers, Bounds
<1>4. SubSeq(Content(remote), offset + 1, offset + n) \in Seq(Block)
  <2>1. CASE offset + n <= remote.len
    BY <1>3, <2>1, Fields, WholePart DEF Content
  <2>2. CASE n = 0
    <3>1. SubSeq(Content(remote), offset + 1, offset + 0) = <<>>
      BY <1>3, SubSeqEmpty
    <3> QED
      BY <1>3, <2>2, <3>1
  <2> QED
    BY <1>2, <1>3, <2>1, <2>2
<1>5. wire'.blocks \in Seq(Block)
  BY <1>2, <1>4
<1> QED
  BY <1>2, <1>5

LEMMA HeadTail ==
    ASSUME TypeOK, wire.blocks # <<>>
    PROVE  Head(wire.blocks) \in Block /\ Tail(wire.blocks) \in Seq(Block)
  BY HeadTailProperties DEF TypeOK
LEMMA AppendType ==
    ASSUME TypeOK, wire.blocks # <<>>
    PROVE  Append(local.blocks, Head(wire.blocks)) \in Seq(Block) /\ Append(mem, Head(wire.blocks)) \in Seq(Block)
<1>1. Head(wire.blocks) \in Block
  BY HeadTail
<1>2. local.blocks \in Seq(Block) /\ mem \in Seq(Block)
  BY DEF TypeOK
<1> QED
  BY <1>1, <1>2, AppendProperties

LEMMA SeqTypeNext == TypeOK /\ [Next]_vars => SeqTypeOK'
<1> SUFFICES ASSUME TypeOK, [Next]_vars PROVE SeqTypeOK'
  OBVIOUS
<1> USE Bounds DEF world, client, history, TypeOK, SeqTypeOK, ViewTypeOK
<1>1. ASSUME NEW c \in Calls, Call(c) PROVE SeqTypeOK'
  BY <1>1, CallsAssumption DEF Call, CallRecord
<1>2. CASE FactsByMlst
  BY <1>2 DEF FactsByMlst, Gives
<1>3. CASE FactsBySize
  BY <1>3 DEF FactsBySize, Gives, Learnt
<1>3a. CASE FactsByTime
  BY <1>3a DEF FactsByTime, Gives, Learnt
<1>4. CASE Probe
  BY <1>4 DEF Probe, Restart
<1>5. CASE ProbeToMemory
  BY <1>5 DEF ProbeToMemory, Restart, Gives, Learnt
<1>6. CASE DecideNot
  <2>1. PICK t \in Nat : local' = [local EXCEPT !.mtime = t]
    BY <1>6 DEF DecideNot, Unknown
  <2>2. local' \in [there : BOOLEAN, blocks : Seq(Block), mtime : Nat]
    BY <2>1
  <2> QED
    BY <1>6, <2>2 DEF DecideNot, Decide
<1>7. CASE DecideToFetch
  BY <1>7 DEF DecideToFetch, Decide, Here
<1>8. CASE DecideFails
  BY <1>8 DEF DecideFails, Decide, Here
<1>9. CASE DecideToMemory
  BY <1>9 DEF DecideToMemory
<1>10. CASE DecideToTar
  BY <1>10 DEF DecideToTar
<1>11. CASE NoDataConnection
  <2>1. PICK offset \in Nat : \E owed \in BOOLEAN :
           pc = "start" /\ StartFails("refused", offset, owed)
    BY <1>11, StartIsRefused
  <2> QED
    BY <2>1 DEF StartFails
<1>12. CASE RetrRefused
  <2>1. PICK offset \in Nat : \E owed \in BOOLEAN :
           pc = "start" /\ StartFails("refused", offset, owed)
    BY <1>12, StartIsRefused
  <2> QED
    BY <2>1 DEF StartFails
<1>13. CASE AcceptFails
  <2>1. PICK offset \in Nat : \E owed \in BOOLEAN :
           pc = "start" /\ StartFails("refused", offset, owed)
    BY <1>13, StartIsRefused
  <2> QED
    BY <2>1 DEF StartFails
<1>14. CASE TransferStarts
  <2>1. wire' \in [blocks : Seq(Block), end : {"good", "bad"}]
    BY <1>14, TransferType
  <2>2. UNCHANGED <<local, mem>>
    BY <1>14 DEF TransferStarts, Transfers
  <2> QED
    BY <2>1, <2>2
<1>15. CASE ReadToFile
  BY <1>15, HeadTail, AppendType DEF ReadToFile, Arrives, LoopUnchanged
<1>16. CASE ReadToMemory
  BY <1>16, HeadTail, AppendType DEF ReadToMemory, Arrives, LoopUnchanged
<1>17. CASE ReadToList
  BY <1>17, HeadTail, AppendType DEF ReadToList, Arrives, LoopUnchanged
<1>18. CASE WriteFails
  BY <1>18 DEF WriteFails, Reading, Arrives, LoopUnchanged
<1>19. CASE EndOfFile
  BY <1>19 DEF EndOfFile, Reading, Arrives, LoopUnchanged
<1>20. CASE ReadFails
  BY <1>20 DEF ReadFails, Reading, Arrives, LoopUnchanged
<1>21. CASE ReadTimesOut
  BY <1>21 DEF ReadTimesOut, Reading, Arrives, LoopUnchanged
<1>22. CASE Cancel
  BY <1>22 DEF Cancel, Reading, Arrives, LoopUnchanged
<1>23. CASE End
  BY <1>23 DEF End
<1>24. CASE Finish
  BY <1>24 DEF Finish
<1>25. CASE Delete
  BY <1>25 DEF Delete
<1>26. CASE ConnectionLost
  BY <1>26 DEF ConnectionLost
<1>27. CASE TarDies
  BY <1>27 DEF TarDies
<1>28. CASE Edit
  BY <1>28 DEF Edit
<1>29. CASE Reconnect
  BY <1>29 DEF Reconnect, NewConnection
<1>30. CASE Kill
  BY <1>30 DEF Kill, NewConnection
<1>31. CASE UNCHANGED vars
  BY <1>31 DEF vars
<1> QED
  BY <1>1, <1>2, <1>3, <1>3a, <1>4, <1>5, <1>6, <1>7, <1>8, <1>9, <1>10, <1>11, <1>12, <1>13,
     <1>14, <1>15, <1>16, <1>17, <1>18, <1>19, <1>20, <1>21, <1>22, <1>23, <1>24, <1>25,
     <1>26, <1>27, <1>28, <1>29, <1>30, <1>31 DEF Next, Library

\* The types are kept by every step.
THEOREM TypeCorrect == Spec => []TypeOK
<1>1. TypeOK /\ [Next]_vars => TypeOK'
  <2>1. (ScalarTypeOK /\ RecordTypeOK /\ ViewTypeOK /\ SeqTypeOK)' => TypeOK'
    BY DEF TypeOK, ScalarTypeOK, RecordTypeOK, ViewTypeOK, SeqTypeOK
  <2> QED
    BY <2>1, ScalarTypeNext, RecordTypeNext, ViewTypeNext, SeqTypeNext
<1> QED
  BY TypeInit, <1>1, PTL DEF Spec

-----------------------------------------------------------------------------
(* The beginning of a version, and the part of it from a block on.         *)

Rest(v, a, n) == [i \in 1 .. n |-> <<v, a + i>>]

LEMMA WholeLen == ASSUME NEW v, NEW n \in Nat PROVE Len(Whole(v, n)) = n
  BY DEF Whole
LEMMA RestLen == ASSUME NEW v, NEW a \in Nat, NEW n \in Nat PROVE Len(Rest(v, a, n)) = n
  BY DEF Rest
LEMMA NoBlocks == ASSUME NEW v PROVE Whole(v, 0) = <<>>
  BY DEF Whole
LEMMA NoRest == ASSUME NEW v, NEW a \in Nat PROVE Rest(v, a, 0) = <<>>
  BY DEF Rest
LEMMA WholeAppend ==
    ASSUME NEW v, NEW n \in Nat
    PROVE  Append(Whole(v, n), <<v, n + 1>>) = Whole(v, n + 1)
  BY DEF Whole
LEMMA RestAppend ==
    ASSUME NEW v, NEW a \in Nat, NEW n \in Nat
    PROVE  Append(Rest(v, a, n), <<v, a + n + 1>>) = Rest(v, a, n + 1)
  BY DEF Rest
LEMMA RestHead ==
    ASSUME NEW v, NEW a \in Nat, NEW n \in Nat \ {0} PROVE Head(Rest(v, a, n)) = <<v, a + 1>>
  BY DEF Rest
LEMMA RestTail ==
    ASSUME NEW v, NEW a \in Nat, NEW n \in Nat \ {0}
    PROVE  Tail(Rest(v, a, n)) = Rest(v, a + 1, n - 1)
  BY DEF Rest
LEMMA RestOfWhole ==
    ASSUME NEW v, NEW m \in Nat, NEW a \in Nat, NEW n \in Nat, a + n <= m
    PROVE  SubSeq(Whole(v, m), a + 1, a + n) = Rest(v, a, n)
  BY DEF Rest, Whole
LEMMA RestOfRest ==
    ASSUME NEW v, NEW a \in Nat, NEW m \in Nat, NEW n \in Nat, n <= m
    PROVE  SubSeq(Rest(v, a, m), 1, n) = Rest(v, a, n)
  BY DEF Rest
LEMMA NothingPastTheEnd ==
    ASSUME NEW v, NEW m \in Nat, NEW a \in Nat, a >= m PROVE SubSeq(Whole(v, m), a + 1, m) = <<>>
  BY DEF Whole

-----------------------------------------------------------------------------
(* The world: which files the call may have met, and their times.          *)

\* A file of the call is the present one or an older one.
Same(f, g) == f.ver = g.ver /\ f.len = g.len /\ f.mtime = g.mtime
Known(f) == Same(f, remote) \/ (f.ver < remote.ver /\ f.mtime + Gap <= remote.mtime)
WasInv ==
    /\ source \in was
    /\ pc # "idle" => remote \in was /\ gone = FALSE
    /\ \A f \in was : Known(f)
TimeInv ==
    /\ view.mdtm <= remote.mtime /\ remote.mtime <= clock /\ local.mtime <= clock
    /\ pc \in {"facts", "time", "probe", "decide", "start", "read"} => result = "ok"
    /\ pc \notin {"idle", "delete"} => zaction # "skip"
\* What the server told is true of a file of the call; and the size and the time are
\* true of the same one, unless the time is later than that of the local file.
Told(size, mdtm) == \E f \in was : size \in {Unknown, f.len} /\ mdtm \in {Unknown, f.mtime}
Younger(mdtm) == local.mtime + Gap <= mdtm
ViewInv ==
    /\ pc # "idle" => Told(view.size, Unknown) /\ Told(Unknown, view.mdtm)
    /\ pc = "time" => Told(view.size, remote.mtime) \/ Younger(remote.mtime)
    /\ pc \in {"probe", "decide"} /\ call.op = "get" =>
         Told(view.size, view.mdtm) \/ Younger(view.mdtm)
    /\ pc \in {"read", "end", "finish"} /\ view.mdtm = remote.mtime => source.ver = remote.ver
LinkInv ==
    /\ tar # "none" => call.op = "tar" /\ pc \in {"start", "read", "end"}
    /\ net.canceled => ~net.sock
    /\ pc = "read" => net.sock
    /\ net.sock => \/ pc \in {"read", "end"}
                   \/ /\ pc = "idle" /\ net.owed
                      /\ <<call.op, result>> \in {<<"list", "timeout">>, <<"mem", "noStart">>}
    /\ net.owed => \/ net.canceled /\ pc \in {"end", "finish", "delete", "idle"}
                   \/ pc = "idle" /\ (net.sock \/ result = "refused")

LEMMA Records ==
    ASSUME TypeOK
    PROVE  /\ view \in [size : Nat \cup {Unknown}, mdtm : Nat \cup {Unknown}]
           /\ start \in [wanted : Nat, cip : Nat]
           /\ net \in [up : BOOLEAN, sock : BOOLEAN, owed : BOOLEAN, canceled : BOOLEAN]
           /\ local \in [there : BOOLEAN, blocks : Seq(Block), mtime : Nat]
           /\ remote \in [there : BOOLEAN, ver : 0 .. MaxVersion, len : 0 .. MaxLen, mtime : Nat]
           /\ wire \in [blocks : Seq(Block), end : {"good", "bad"}]
           /\ call \in CallRecord
  BY DEF TypeOK, FileRecord

\* The steps that leave the files of the call and what is known of them alone.
Asks == FactsByMlst \/ FactsBySize \/ FactsByTime \/ ProbeToMemory
Moves ==
    /\ UNCHANGED <<was, source, remote, view, clock, gone>>
    /\ pc = "idle" => pc' = "idle"
    /\ pc' = "time" => pc = "time"
    /\ pc' \in {"probe", "decide"} => pc \in {"probe", "decide"}
    /\ pc' \in {"read", "end", "finish"} => pc \in {"read", "end", "finish"}
    /\ pc' \in {"time", "probe", "decide"} => UNCHANGED <<local, call>>

LEMMA Movement ==
    ASSUME TypeOK, [Next]_vars
    PROVE  \/ \E c \in Calls : Call(c)
           \/ Asks \/ TransferStarts \/ Delete \/ Edit \/ Kill \/ Moves
<1> USE DEF Moves, world, client, history
<1>1. CASE Probe
  BY <1>1 DEF Probe
<1>2. CASE DecideNot
  BY <1>2 DEF DecideNot, Decide
<1>3. CASE DecideToFetch
  BY <1>3 DEF DecideToFetch, Decide
<1>4. CASE DecideFails
  BY <1>4 DEF DecideFails, Decide
<1>5. CASE DecideToMemory
  BY <1>5 DEF DecideToMemory
<1>6. CASE DecideToTar
  BY <1>6 DEF DecideToTar
<1>7. CASE NoDataConnection \/ RetrRefused \/ AcceptFails
  <2>1. PICK offset \in Nat : \E owed \in BOOLEAN :
           pc = "start" /\ StartFails("refused", offset, owed)
    BY <1>7, StartIsRefused
  <2> QED
    BY <2>1 DEF StartFails
<1>8. CASE ReadToFile
  BY <1>8 DEF ReadToFile, Reading
<1>9. CASE ReadToMemory
  BY <1>9 DEF ReadToMemory, Reading, LoopUnchanged
<1>10. CASE ReadToList
  BY <1>10 DEF ReadToList, Reading, LoopUnchanged
<1>11. CASE WriteFails
  BY <1>11 DEF WriteFails, Reading, LoopUnchanged
<1>12. CASE EndOfFile
  BY <1>12 DEF EndOfFile, LoopUnchanged
<1>13. CASE ReadFails
  BY <1>13 DEF ReadFails, LoopUnchanged
<1>14. CASE ReadTimesOut
  BY <1>14 DEF ReadTimesOut, LoopUnchanged
<1>15. CASE Cancel
  BY <1>15 DEF Cancel, Reading, LoopUnchanged
<1>16. CASE End
  BY <1>16 DEF End
<1>17. CASE Finish
  BY <1>17 DEF Finish
<1>18. CASE ConnectionLost
  BY <1>18 DEF ConnectionLost
<1>19. CASE TarDies
  BY <1>19 DEF TarDies
<1>20. CASE Reconnect
  BY <1>20 DEF Reconnect, NewConnection
<1>21. CASE UNCHANGED vars
  BY <1>21 DEF vars
<1> HIDE DEF Moves
<1> QED
  BY <1>1, <1>2, <1>3, <1>4, <1>5, <1>6, <1>7, <1>8, <1>9, <1>10, <1>11, <1>12, <1>13,
     <1>14, <1>15, <1>16, <1>17, <1>18, <1>19, <1>20, <1>21, Zenon DEF Next, Library, Asks

\* A new file is later than everything that is known, by Gap.
LEMMA EditFacts ==
    ASSUME TypeOK, TimeInv, Edit
    PROVE  /\ remote'.mtime = clock + Gap /\ clock' = clock + Gap /\ remote'.ver = remote.ver + 1
           /\ remote'.mtime > view.mdtm /\ local.mtime + Gap <= remote'.mtime
           /\ remote.mtime + Gap <= remote'.mtime
           /\ gone' = FALSE /\ was \subseteq was' /\ was' \subseteq was \cup {remote'}
           /\ (pc # "idle" => remote' \in was')
           /\ UNCHANGED <<client, local, source, late, taint, wire, net>>
<1>1. /\ clock' = clock + Gap /\ gone' = FALSE
      /\ UNCHANGED <<client, local, source, late, taint, wire, net>>
      /\ was' = IF pc = "idle" THEN was ELSE was \cup {remote'}
  BY DEF Edit
<1>2. remote'.mtime = clock + Gap /\ remote'.ver = remote.ver + 1
  BY DEF Edit
<1>3. clock \in Nat /\ remote.mtime \in Nat /\ local.mtime \in Nat /\ Gap \in Nat \ {0}
      /\ view.mdtm \in Nat \cup {-1}
  BY Fields, Bounds DEF Unknown
<1>4. view.mdtm <= remote.mtime /\ remote.mtime <= clock /\ local.mtime <= clock
  BY DEF TimeInv
<1>5. clock + Gap > view.mdtm /\ local.mtime + Gap <= clock + Gap /\ remote.mtime + Gap <= clock + Gap
  BY <1>3, <1>4
<1> QED
  BY <1>1, <1>2, <1>5

LEMMA EditKnows ==
    ASSUME TypeOK, TimeInv, Edit, NEW f \in was, Known(f)
    PROVE  f.ver < remote'.ver /\ f.mtime + Gap <= remote'.mtime
<1>1. remote.mtime + Gap <= remote'.mtime /\ remote'.ver = remote.ver + 1
  BY EditFacts
<1>2. f.ver \in Nat /\ remote.ver \in Nat /\ f.mtime \in Nat /\ remote.mtime \in Nat /\ Gap \in Nat
      /\ remote'.mtime \in Nat
  <2>1. f.ver \in 0 .. MaxVersion /\ remote.ver \in 0 .. MaxVersion
    BY Fields
  <2>2. f.mtime \in Nat /\ remote.mtime \in Nat /\ clock \in Nat
    BY Fields
  <2>3. remote'.mtime = clock + Gap
    BY EditFacts
  <2> QED
    BY <2>1, <2>2, <2>3, Bounds
<1>3. f.ver <= remote.ver /\ f.mtime <= remote.mtime
  BY <1>2 DEF Known, Same
<1> QED
  BY <1>1, <1>2, <1>3

LEMMA WasNext == TypeOK /\ TimeInv /\ WasInv /\ [Next]_vars => WasInv'
<1> SUFFICES ASSUME TypeOK, TimeInv, WasInv, [Next]_vars PROVE WasInv'
  OBVIOUS
<1>1. ASSUME NEW c \in Calls, Call(c) PROVE WasInv'
  <2>1. was' = {remote} /\ source' = remote /\ remote' = remote /\ gone' = FALSE
    BY <1>1 DEF Call
  <2> QED
    BY <2>1 DEF WasInv, Known, Same
<1>2. CASE Asks
  <2>1. UNCHANGED <<was, source, remote, gone>> /\ pc # "idle"
    BY <1>2 DEF Asks, FactsByMlst, FactsBySize, FactsByTime, ProbeToMemory, world, history
  <2> QED
    BY <2>1 DEF WasInv, Known, Same
<1>3. CASE TransferStarts
  <2>1. UNCHANGED <<was, remote, gone>> /\ source' = remote /\ pc = "start"
    BY <1>3 DEF TransferStarts, Transfers
  <2> QED
    BY <2>1 DEF WasInv, Known, Same
<1>4. CASE Delete
  <2>1. UNCHANGED <<was, source>> /\ pc' = "idle"
    BY <1>4 DEF Delete
  <2>2. remote'.ver = remote.ver /\ remote'.len = remote.len /\ remote'.mtime = remote.mtime
    BY <1>4, Records DEF Delete
  <2> QED
    BY <2>1, <2>2 DEF WasInv, Known, Same
<1>5. CASE Edit
  <2>1. source' \in was' /\ gone' = FALSE /\ (pc' # "idle" => remote' \in was')
    BY <1>5, EditFacts DEF WasInv, client
  <2>2. ASSUME NEW f \in was' PROVE Known(f)'
    <3>1. f \in was \/ f = remote'
      BY <1>5, EditFacts
    <3>2. CASE f \in was
      BY <1>5, <3>2, EditKnows DEF WasInv, Known
    <3>3. CASE f = remote'
      BY <3>3 DEF Known, Same
    <3> QED
      BY <3>1, <3>2, <3>3
  <2> QED
    BY <2>1, <2>2 DEF WasInv
<1>6. CASE Kill
  BY <1>6 DEF Kill, NewConnection, WasInv, Known, Same
<1>7. CASE Moves
  BY <1>7 DEF Moves, WasInv, Known, Same
<1> QED
  BY <1>1, <1>2, <1>3, <1>4, <1>5, <1>6, <1>7, Movement

LEMMA CallClock ==
    ASSUME TypeOK, NEW c, Call(c)
    PROVE  clock' \in Nat /\ clock' >= clock
<1>1. PICK wait \in {Gap, Threshold} : clock' = clock + wait
  BY DEF Call
<1>2. clock \in Nat /\ wait \in Nat
  BY Fields, Bounds
<1> QED
  BY <1>1, <1>2

LEMMA EditTime ==
    ASSUME TypeOK, TimeInv, Edit
    PROVE  TimeInv'
<1>1. /\ remote'.mtime = clock + Gap /\ clock' = clock + Gap /\ remote'.mtime > view.mdtm
      /\ UNCHANGED <<client, local>>
  BY EditFacts
<1>2. clock \in Nat /\ local.mtime \in Nat /\ Gap \in Nat /\ view.mdtm \in Nat \cup {-1}
  BY Fields, Bounds DEF Unknown
<1>3. local.mtime <= clock
  BY DEF TimeInv
<1>4. view'.mdtm <= remote'.mtime /\ remote'.mtime <= clock' /\ local'.mtime <= clock'
  BY <1>1, <1>2, <1>3 DEF client
<1> QED
  BY <1>1, <1>4 DEF TimeInv, client

LEMMA TimeNext == TypeOK /\ TimeInv /\ [Next]_vars => TimeInv'
<1> SUFFICES ASSUME TypeOK /\ TimeInv, [Next]_vars PROVE TimeInv'
  OBVIOUS
<1> USE Fields, Records, Bounds DEF TimeInv, Unknown, world, client, history
<1>1. ASSUME NEW c \in Calls, Call(c) PROVE TimeInv'
  <2>1. clock' \in Nat /\ clock' >= clock
    BY <1>1, CallClock
  <2>2. remote' = remote /\ local' = local /\ result' = "ok" /\ zaction' = "none" /\ view'.mdtm = Unknown
    BY <1>1 DEF Call
  <2>3. (view.mdtm <= remote.mtime /\ remote.mtime <= clock /\ local.mtime <= clock)'
    <3>1. remote.mtime \in Nat /\ local.mtime \in Nat /\ clock \in Nat
      BY Fields
    <3> QED
      BY <2>1, <2>2, <3>1
  <2> HIDE DEF TimeInv
  <2> QED
    BY <2>2, <2>3 DEF TimeInv
<1>2. CASE FactsByMlst
  BY <1>2 DEF FactsByMlst, Unknown
<1>3. CASE FactsBySize
  BY <1>3 DEF FactsBySize, Unknown
<1>3a. CASE FactsByTime
  BY <1>3a DEF FactsByTime, Unknown
<1>4. CASE Probe
  BY <1>4 DEF Probe, Restart
<1>5. CASE ProbeToMemory
  BY <1>5 DEF ProbeToMemory, Restart, Gives, Learnt
<1>6. CASE DecideNot
  <2> HIDE DEF TimeInv, Unknown, world, client, history
  <2>1. UNCHANGED <<view, remote, clock>> /\ pc' \in {"idle", "delete"}
    BY <1>6 DEF DecideNot, Decide
  <2>2. local'.mtime \in {local.mtime, view.mdtm}
    BY <1>6 DEF DecideNot
  <2>3. (view.mdtm <= remote.mtime /\ remote.mtime <= clock /\ local.mtime <= clock)'
    <3>1. view.mdtm <= remote.mtime /\ remote.mtime <= clock /\ local.mtime <= clock
      BY DEF TimeInv
    <3>2. remote.mtime \in Nat /\ local.mtime \in Nat /\ clock \in Nat /\ view.mdtm \in Nat \cup {-1}
      BY Fields DEF Unknown
    <3> QED
      BY <2>1, <2>2, <3>1, <3>2
  <2> QED
    BY <2>1, <2>3 DEF TimeInv
<1>7. CASE DecideToFetch
  <2> HIDE DEF TimeInv, Unknown, world, client, history
  <2>1. UNCHANGED <<view, remote, clock>> /\ pc = "decide" /\ result' = "ok"
        /\ pc' = "start" /\ zaction' # "skip"
    BY <1>7 DEF DecideToFetch, Decide, TimeInv
  <2>2. local'.mtime \in {local.mtime, clock}
    BY <1>7 DEF DecideToFetch
  <2>3. (view.mdtm <= remote.mtime /\ remote.mtime <= clock /\ local.mtime <= clock)'
    <3>1. view.mdtm <= remote.mtime /\ remote.mtime <= clock /\ local.mtime <= clock
      BY DEF TimeInv
    <3>2. clock \in Nat
      BY Fields
    <3> QED
      BY <2>1, <2>2, <3>1, <3>2
  <2> QED
    BY <2>1, <2>3 DEF TimeInv
<1>8. CASE DecideFails
  BY <1>8 DEF DecideFails, Decide, Here
<1>9. CASE DecideToMemory
  BY <1>9 DEF DecideToMemory
<1>10. CASE DecideToTar
  BY <1>10 DEF DecideToTar
<1>11. CASE NoDataConnection
  <2>1. PICK offset \in Nat : \E owed \in BOOLEAN :
           pc = "start" /\ StartFails("refused", offset, owed)
    BY <1>11, StartIsRefused
  <2>2. local' = local \/ local'.mtime = 0
    BY <2>1 DEF StartFails
  <2> QED
    BY <2>1, <2>2 DEF StartFails
<1>12. CASE RetrRefused
  <2>1. PICK offset \in Nat : \E owed \in BOOLEAN :
           pc = "start" /\ StartFails("refused", offset, owed)
    BY <1>12, StartIsRefused
  <2>2. local' = local \/ local'.mtime = 0
    BY <2>1 DEF StartFails
  <2> QED
    BY <2>1, <2>2 DEF StartFails
<1>13. CASE AcceptFails
  <2>1. PICK offset \in Nat : \E owed \in BOOLEAN :
           pc = "start" /\ StartFails("refused", offset, owed)
    BY <1>13, StartIsRefused
  <2>2. local' = local \/ local'.mtime = 0
    BY <2>1 DEF StartFails
  <2> QED
    BY <2>1, <2>2 DEF StartFails
<1>14. CASE TransferStarts
  <2>1. PICK offset \in Offsets, n \in 0 .. MaxLen, end \in {"good", "bad"} : Transfers(offset, n, end)
    BY <1>14 DEF TransferStarts
  <2> QED
    BY <1>14, <2>1 DEF TransferStarts, Transfers
<1>15. CASE ReadToFile
  BY <1>15, SMTT(30) DEF ReadToFile, Reading, Arrives, LoopUnchanged
<1>16. CASE ReadToMemory
  BY <1>16 DEF ReadToMemory, Reading, Arrives, LoopUnchanged
<1>17. CASE ReadToList
  BY <1>17 DEF ReadToList, Reading, Arrives, LoopUnchanged
<1>18. CASE WriteFails
  BY <1>18 DEF WriteFails, Reading, Arrives, LoopUnchanged
<1>19. CASE EndOfFile
  BY <1>19 DEF EndOfFile, Reading, Arrives, LoopUnchanged
<1>20. CASE ReadFails
  BY <1>20 DEF ReadFails, Reading, Arrives, LoopUnchanged
<1>21. CASE ReadTimesOut
  BY <1>21 DEF ReadTimesOut, Reading, Arrives, LoopUnchanged
<1>22. CASE Cancel
  BY <1>22 DEF Cancel, Reading, Arrives, LoopUnchanged
<1>23. CASE End
  BY <1>23 DEF End
<1>24. CASE Finish
  <2>1. /\ local'.mtime \in {local.mtime, view.mdtm} /\ UNCHANGED <<view, remote, clock, result, zaction>>
        /\ pc' \in {"idle", "delete"}
    BY <1>24 DEF Finish
  <2>2. view.mdtm <= clock
    BY Fields
  <2> QED
    BY <2>1, <2>2
<1>25. CASE Delete
  BY <1>25 DEF Delete
<1>26. CASE ConnectionLost
  BY <1>26 DEF ConnectionLost
<1>27. CASE TarDies
  BY <1>27 DEF TarDies
<1>28. CASE Edit
  BY <1>28, EditTime
<1>29. CASE Reconnect
  BY <1>29 DEF Reconnect, NewConnection
<1>30. CASE Kill
  BY <1>30 DEF Kill, NewConnection
<1>31. CASE UNCHANGED vars
  BY <1>31 DEF vars
<1> QED
  BY <1>1, <1>2, <1>3, <1>3a, <1>4, <1>5, <1>6, <1>7, <1>8, <1>9, <1>10, <1>11, <1>12, <1>13,
     <1>14, <1>15, <1>16, <1>17, <1>18, <1>19, <1>20, <1>21, <1>22, <1>23, <1>24, <1>25,
     <1>26, <1>27, <1>28, <1>29, <1>30, <1>31 DEF Next, Library

LEMMA AskedView ==
    ASSUME TypeOK, WasInv, ViewInv, Asks
    PROVE  ViewInv'
<1>1. UNCHANGED <<was, source, remote, local, call>> /\ pc # "idle" /\ remote \in was
  BY DEF Asks, FactsByMlst, FactsBySize, FactsByTime, ProbeToMemory, world, history, WasInv
<1>2. Told(view.size, Unknown) /\ Told(Unknown, view.mdtm)
  BY <1>1 DEF ViewInv
<1>3. \A n, t : Told(n, t) => Told(Unknown, t) /\ Told(n, Unknown) /\ Told(Unknown, Unknown)
  BY DEF Told
<1>4. Told(remote.len, remote.mtime)
  BY <1>1 DEF Told
<1> DEFINE SizeTold == Told(view'.size, Unknown) /\ Told(Unknown, view'.mdtm)
           BothTold(t) == Told(view'.size, t) \/ Younger(t)
<1>5. ASSUME SizeTold, pc' = "time" => BothTold(remote.mtime),
             pc' \in {"probe", "decide"} /\ call.op = "get" => BothTold(view'.mdtm),
             pc' \notin {"read", "end", "finish"}
      PROVE  ViewInv'
  BY <1>1, <1>5 DEF ViewInv, Told, Younger
<1>6. CASE FactsByMlst
  <2>1. view'.size = remote.len /\ view'.mdtm = remote.mtime /\ pc' = "probe"
    BY <1>6 DEF FactsByMlst
  <2> QED
    BY <1>3, <1>4, <1>5, <2>1
<1>7. CASE FactsBySize
  <2>1. /\ pc' \in {"time", "probe"} /\ (pc' = "time" => view'.size = remote.len)
        /\ view'.size \in {remote.len, Unknown} /\ view'.mdtm = view.mdtm
        /\ (pc' = "probe" => view'.size = Unknown)
    BY <1>7, Records DEF FactsBySize
  <2>2. Told(remote.len, Unknown) /\ Told(Unknown, Unknown)
    BY <1>3, <1>4
  <2> QED
    BY <1>2, <1>4, <1>5, <2>1, <2>2
<1>8. CASE FactsByTime
  <2>1. /\ pc = "time" /\ pc' = "probe" /\ view'.size = view.size
        /\ view'.mdtm \in {remote.mtime, Unknown}
    BY <1>8, Records DEF FactsByTime
  <2>2. Told(view.size, remote.mtime) \/ Younger(remote.mtime)
    BY <2>1 DEF ViewInv
  <2>3. Told(Unknown, remote.mtime) /\ Told(Unknown, Unknown)
    BY <1>3, <1>4
  <2> QED
    BY <1>2, <1>5, <2>1, <2>2, <2>3
<1>9. CASE ProbeToMemory
  <2>1. /\ call.op = "mem" /\ pc' \in {"idle", "decide"} /\ view'.mdtm = view.mdtm
        /\ view'.size \in {view.size, remote.len}
    BY <1>9, Records DEF ProbeToMemory
  <2>2. Told(remote.len, Unknown)
    BY <1>3, <1>4
  <2> QED
    BY <1>2, <1>5, <2>1, <2>2
<1> QED
  BY <1>6, <1>7, <1>8, <1>9 DEF Asks

LEMMA EditView ==
    ASSUME TypeOK, TimeInv, ViewInv, Edit
    PROVE  ViewInv'
<1>1. /\ UNCHANGED <<client, local, source>> /\ was \subseteq was'
      /\ remote'.mtime > view.mdtm /\ local.mtime + Gap <= remote'.mtime
  BY EditFacts
<1>2. UNCHANGED <<pc, view, call>>
  BY <1>1 DEF client
<1>3. (pc = "time" => Told(view.size, remote.mtime) \/ Younger(remote.mtime))'
  BY <1>1 DEF Younger
<1>4. (pc # "idle" => Told(view.size, Unknown) /\ Told(Unknown, view.mdtm))'
  BY <1>1, <1>2 DEF ViewInv, Told
<1>5. (pc \in {"probe", "decide"} /\ call.op = "get" =>
         Told(view.size, view.mdtm) \/ Younger(view.mdtm))'
  BY <1>1, <1>2 DEF ViewInv, Told, Younger
<1>6. view'.mdtm # remote'.mtime
  <2>1. view.mdtm \in Nat \cup {-1} /\ clock \in Nat /\ remote'.mtime = clock + Gap
    BY Fields, EditFacts DEF Unknown
  <2> QED
    BY <1>1, <1>2, <2>1, Bounds
<1> QED
  BY <1>3, <1>4, <1>5, <1>6 DEF ViewInv

LEMMA ViewNext == TypeOK /\ TimeInv /\ WasInv /\ ViewInv /\ [Next]_vars => ViewInv'
<1> SUFFICES ASSUME TypeOK, TimeInv, WasInv, ViewInv, [Next]_vars PROVE ViewInv'
  OBVIOUS
<1>1. ASSUME NEW c \in Calls, Call(c) PROVE ViewInv'
  <2>1. /\ was' = {remote} /\ view'.size = Unknown /\ view'.mdtm = Unknown
        /\ pc' \in {"facts", "decide", "probe", "start"}
    BY <1>1, CallsAssumption, SMTT(30) DEF Call, CallRecord
  <2>2. Told(Unknown, Unknown)'
    BY <2>1 DEF Told
  <2> QED
    BY <2>1, <2>2 DEF ViewInv
<1>2. CASE Asks
  BY <1>2, AskedView
<1>3. CASE TransferStarts
  <2>1. /\ UNCHANGED <<was, view, remote>> /\ source' = remote /\ pc = "start"
        /\ pc' \in {"idle", "read"}
    BY <1>3 DEF TransferStarts, Transfers
  <2> QED
    BY <2>1 DEF ViewInv, Told
<1>4. CASE Delete
  BY <1>4 DEF Delete, ViewInv
<1>5. CASE Edit
  BY <1>5, EditView
<1>6. CASE Kill
  BY <1>6 DEF Kill, NewConnection, ViewInv
<1>7. CASE Moves
  BY <1>7 DEF Moves, ViewInv, Told, Younger
<1> QED
  BY <1>1, <1>2, <1>3, <1>4, <1>5, <1>6, <1>7, Movement

LEMMA LinkNext == TypeOK /\ LinkInv /\ [Next]_vars => LinkInv'
<1> SUFFICES ASSUME TypeOK /\ LinkInv, [Next]_vars PROVE LinkInv'
  OBVIOUS
<1> USE Records DEF LinkInv, world, client, history
<1>1. ASSUME NEW c \in Calls, Call(c) PROVE LinkInv'
  BY <1>1, CallsAssumption DEF Call, CallRecord
<1>2. CASE FactsByMlst
  BY <1>2 DEF FactsByMlst, Unknown
<1>3. CASE FactsBySize
  BY <1>3 DEF FactsBySize, Unknown
<1>3a. CASE FactsByTime
  BY <1>3a DEF FactsByTime, Unknown
<1>4. CASE Probe
  BY <1>4 DEF Probe, Restart
<1>5. CASE ProbeToMemory
  BY <1>5 DEF ProbeToMemory, Restart, Gives, Learnt
<1>6. CASE DecideNot
  BY <1>6 DEF DecideNot, Decide
<1>7. CASE DecideToFetch
  BY <1>7 DEF DecideToFetch, Decide, Here
<1>8. CASE DecideFails
  BY <1>8 DEF DecideFails, Decide, Here
<1>9. CASE DecideToMemory
  BY <1>9 DEF DecideToMemory
<1>10. CASE DecideToTar
  BY <1>10 DEF DecideToTar
<1>11. CASE NoDataConnection
  <2>1. PICK offset \in Nat : \E owed \in BOOLEAN :
           pc = "start" /\ StartFails("refused", offset, owed)
    BY <1>11, StartIsRefused
  <2> QED
    BY <2>1 DEF StartFails
<1>12. CASE RetrRefused
  <2>1. PICK offset \in Nat : \E owed \in BOOLEAN :
           pc = "start" /\ StartFails("refused", offset, owed)
    BY <1>12, StartIsRefused
  <2> QED
    BY <2>1 DEF StartFails
<1>13. CASE AcceptFails
  <2>1. PICK offset \in Nat : \E owed \in BOOLEAN :
           pc = "start" /\ StartFails("refused", offset, owed)
    BY <1>13, StartIsRefused
  <2> QED
    BY <2>1 DEF StartFails
<1>14. CASE TransferStarts
  <2>1. PICK offset \in Offsets, n \in 0 .. MaxLen, end \in {"good", "bad"} : Transfers(offset, n, end)
    BY <1>14 DEF TransferStarts
  <2> QED
    BY <1>14, <2>1 DEF TransferStarts, Transfers
<1>15. CASE ReadToFile
  BY <1>15 DEF ReadToFile, Reading, Arrives, LoopUnchanged
<1>16. CASE ReadToMemory
  BY <1>16 DEF ReadToMemory, Reading, Arrives, LoopUnchanged
<1>17. CASE ReadToList
  BY <1>17 DEF ReadToList, Reading, Arrives, LoopUnchanged
<1>18. CASE WriteFails
  BY <1>18 DEF WriteFails, Reading, Arrives, LoopUnchanged
<1>19. CASE EndOfFile
  BY <1>19 DEF EndOfFile, Reading, Arrives, LoopUnchanged
<1>20. CASE ReadFails
  BY <1>20 DEF ReadFails, Reading, Arrives, LoopUnchanged
<1>21. CASE ReadTimesOut
  <2>1. call.op = "list" => pc' = "idle" /\ result' = "timeout" /\ net' = [net EXCEPT !.owed = TRUE]
    BY <1>21 DEF ReadTimesOut
  <2>2. call.op # "list" => pc' = "end" /\ net' = [net EXCEPT !.owed = FALSE]
    BY <1>21 DEF ReadTimesOut
  <2>3. UNCHANGED <<tar, call>> /\ pc = "read"
    BY <1>21 DEF ReadTimesOut, LoopUnchanged
  <2>4. CASE call.op = "list"
    BY <2>1, <2>3, <2>4
  <2>5. CASE call.op # "list"
    BY <2>2, <2>3, <2>5
  <2> QED
    BY <2>4, <2>5
<1>22. CASE Cancel
  BY <1>22 DEF Cancel, Reading, Arrives, LoopUnchanged
<1>23. CASE End
  BY <1>23 DEF End
<1>24. CASE Finish
  BY <1>24 DEF Finish
<1>25. CASE Delete
  BY <1>25 DEF Delete
<1>26. CASE ConnectionLost
  BY <1>26 DEF ConnectionLost
<1>27. CASE TarDies
  BY <1>27 DEF TarDies
<1>28. CASE Edit
  <2>1. UNCHANGED <<tar, call, pc, net, result>>
    BY <1>28 DEF Edit
  <2> QED
    BY <2>1
<1>29. CASE Reconnect
  BY <1>29 DEF Reconnect, NewConnection
<1>30. CASE Kill
  BY <1>30 DEF Kill, NewConnection
<1>31. CASE UNCHANGED vars
  BY <1>31 DEF vars
<1> QED
  BY <1>1, <1>2, <1>3, <1>3a, <1>4, <1>5, <1>6, <1>7, <1>8, <1>9, <1>10, <1>11, <1>12, <1>13,
     <1>14, <1>15, <1>16, <1>17, <1>18, <1>19, <1>20, <1>21, <1>22, <1>23, <1>24, <1>25,
     <1>26, <1>27, <1>28, <1>29, <1>30, <1>31 DEF Next, Library

\* What is known of the world in every state.
WorldInv == TypeOK /\ TimeInv /\ WasInv /\ ViewInv

LEMMA WorldAlways == Spec => []WorldInv
<1>1. Init => TimeInv
  BY Bounds DEF Init, TimeInv, Unknown
<1>2. Init => WasInv
  BY DEF Init, WasInv, Known, Same
<1>3. Init => ViewInv
  BY DEF Init, ViewInv
<1>4. TypeOK /\ TimeInv /\ WasInv /\ ViewInv /\ [Next]_vars => (TimeInv /\ WasInv /\ ViewInv)'
  BY TimeNext, WasNext, ViewNext
<1> QED
  BY <1>1, <1>2, <1>3, <1>4, TypeCorrect, PTL DEF Spec, WorldInv

\* A call that returns leaves no tar process behind, and the data connection is
\* closed and every reply read, except in the four ways that are named.
THEOREM NothingLeftBehindHolds == Spec => []NothingLeftBehind
<1>1. Init => LinkInv
  BY DEF Init, LinkInv
<1>2. LinkInv => NothingLeftBehind
  BY DEF LinkInv, NothingLeftBehind
<1> QED
  BY <1>1, <1>2, TypeCorrect, LinkNext, PTL DEF Spec

-----------------------------------------------------------------------------
(* The local file.                                                         *)

Ours(f) == local.blocks = Whole(f.ver, Here) /\ Here <= f.len
Fetching == call.op = "get" /\ pc \in {"start", "read", "end", "finish"}
Looking == pc \in {"facts", "time", "probe", "decide"}
\* A local file that looks as young as one the server has or had is that one.
Dated(f) == local.mtime + 1 >= f.mtime => Ours(f)
LocalInv ==
    taint = {} =>
        /\ Prefix(local.blocks)
        /\ local.there /\ late = FALSE => Dated(remote)
        /\ Looking /\ local.there /\ late = FALSE => \A f \in was : Dated(f)
        /\ Fetching /\ pc = "start" => /\ start.wanted = Here
                                       /\ Here # 0 => \A f \in was : f.mtime = view.mdtm => Ours(f)
        /\ Fetching /\ pc # "start" => Ours(source)
        /\ Fetching /\ pc = "read" => /\ wire.blocks = Rest(source.ver, Here, Len(wire.blocks))
                                      /\ Here + Len(wire.blocks) <= source.len

LEMMA NothingPrefix == Prefix(<<>>)
<1>1. <<>> = Whole(0, Len(<<>>)) /\ 0 \in 0 .. MaxVersion
  BY NoBlocks, Bounds
<1> QED
  BY <1>1 DEF Prefix

LEMMA SameOurs == ASSUME NEW f, NEW g, Same(f, g) PROVE Ours(f) <=> Ours(g)
  BY DEF Ours, Same

\* A time that the server told belongs to the present file if it is nearly its own.
LEMMA AsOldAsNow ==
    ASSUME Gap > 1, TypeOK, NEW f \in was, Known(f), f.mtime + 1 >= remote.mtime
    PROVE  Same(f, remote)
<1>1. f.mtime \in Nat /\ remote.mtime \in Nat /\ Gap \in Nat
  BY Fields, Bounds
<1> QED
  BY <1>1 DEF Known

LEMMA NowOurs ==
    ASSUME TypeOK, WasInv, source.ver = remote.ver
    PROVE  Same(source, remote)
<1>1. source.ver \in 0 .. MaxVersion /\ remote.ver \in 0 .. MaxVersion
  BY Fields
<1>2. Known(source)
  BY DEF WasInv
<1> QED
  BY <1>1, <1>2, Bounds DEF Known

LEMMA StartFailsLocal ==
    ASSUME TypeOK, LocalInv, NEW r, NEW o, NEW b, StartFails(r, o, b)
    PROVE  LocalInv'
<1>1. pc' = "idle" /\ UNCHANGED <<remote, taint, late>>
  BY DEF StartFails, world, history
<1>2. CASE local' = local
  BY <1>1, <1>2 DEF LocalInv, Dated, Ours, Here, Fetching, Looking
<1>3. CASE local' = [there |-> FALSE, blocks |-> <<>>, mtime |-> 0]
  BY <1>1, <1>3, NothingPrefix DEF LocalInv, Fetching, Looking
<1> QED
  BY <1>2, <1>3 DEF StartFails

LEMMA GuessDated ==
    ASSUME TypeOK, view.mdtm # Unknown, Guess \in {"same", "resume"}
    PROVE  local.mtime + 1 >= view.mdtm
<1>1. view.mdtm \in Nat /\ local.mtime \in Nat /\ clock \in Nat
  BY Fields
<1>2. Untrusted \/ SameTime \/ ~(view.mdtm > local.mtime)
  BY DEF Guess
<1>3. Threshold \in Nat
  BY Bounds
<1> QED
  BY <1>1, <1>2, <1>3 DEF Untrusted, SameTime, Recent

LEMMA NoDoubts ==
    ASSUME TypeOK, Doubts = {}
    PROVE  view.mdtm # Unknown /\ late = FALSE
<1>1. "undated" \notin Doubts /\ "overtaken" \notin Doubts
  OBVIOUS
<1>2. view.mdtm # Unknown
  BY <1>1 DEF Doubts
<1>3. ~late
  BY <1>1, Zenon DEF Doubts
<1>4. late \in BOOLEAN
  BY DEF TypeOK
<1> QED
  BY <1>2, <1>3, <1>4

LEMMA CallLocal ==
    ASSUME TypeOK, LocalInv, NEW c \in Calls, Call(c)
    PROVE  LocalInv'
<1>1. UNCHANGED <<local, remote, taint, late>> /\ was' = {remote} /\ call' = c
  BY DEF Call
<1>2. pc' = "start" => c.op = "list"
  BY CallsAssumption DEF Call, CallRecord
<1>3. pc' \in {"facts", "probe", "decide", "start"}
  BY CallsAssumption, SMTT(30) DEF Call, CallRecord
<1>4. ~Fetching'
  BY <1>1, <1>2, <1>3 DEF Fetching
<1>5. Dated(remote)' <=> Dated(remote)
  BY <1>1 DEF Dated, Ours, Here
<1> QED
  BY <1>1, <1>4, <1>5 DEF LocalInv, Dated

LEMMA DecideLocal ==
    ASSUME TypeOK, TimeInv, LocalInv, DecideToFetch
    PROVE  LocalInv'
<1> SUFFICES ASSUME taint' = {} PROVE LocalInv'
  BY DEF LocalInv
<1>1. PICK d \in {"resume", "append", "overwrite"} :
         /\ Decide(d) /\ pc' = "start"
         /\ start' = [start EXCEPT !.wanted = IF d = "resume" THEN Here ELSE 0]
         /\ local' = IF d = "overwrite" THEN [there |-> TRUE, blocks |-> <<>>, mtime |-> clock]
                     ELSE local
         /\ taint' = CASE d = "overwrite" -> {}
                       [] d = "append" -> taint \cup {"append"}
                       [] d = "resume" -> taint \cup Doubts
         /\ late' = (late /\ d # "overwrite")
  BY DEF DecideToFetch
<1>2. UNCHANGED <<remote, was, view>> /\ pc = "decide"
  BY <1>1 DEF Decide
<1>3. CASE d = "overwrite"
  <2>1. local'.blocks = <<>> /\ start'.wanted = 0
    BY <1>1, <1>3, Records
  <2>2. Here' = 0
    BY <2>1 DEF Here
  <2>3. remote.len \in Nat
    BY Numbers
  <2>4. Ours(remote)'
    BY <1>2, <2>1, <2>2, <2>3, NoBlocks DEF Ours
  <2> QED
    BY <1>1, <2>1, <2>2, <2>4, NothingPrefix DEF LocalInv, Dated, Looking
<1>4. CASE d = "resume"
  <2>1. taint = {} /\ Doubts = {}
    BY <1>1, <1>4
  <2>2. view.mdtm # Unknown /\ late = FALSE
    BY <2>1, NoDoubts
  <2>3. local' = local /\ start'.wanted = Here
    BY <1>1, <1>4, Records
  <2>4. local.there /\ Guess = "resume"
    BY <1>1, <1>4 DEF Decide, Decision
  <2>5. local.mtime + 1 >= view.mdtm
    BY <2>2, <2>4, GuessDated
  <2>6. \A f \in was : Dated(f)
    BY <1>2, <2>1, <2>2, <2>4 DEF LocalInv, Looking
  <2>7. \A f \in was : f.mtime = view.mdtm => Ours(f)
    BY <2>5, <2>6 DEF Dated
  <2>8. \A f : (Ours(f)' <=> Ours(f)) /\ (Dated(f)' <=> Dated(f))
    BY <2>3 DEF Ours, Dated, Here
  <2>9. Prefix(local.blocks) /\ Dated(remote)
    BY <2>1, <2>2, <2>4 DEF LocalInv
  <2>10. Dated(remote)' /\ Prefix(local'.blocks) /\ Here' = Here
    BY <1>2, <2>3, <2>9 DEF Dated, Ours, Here
  <2> QED
    BY <1>1, <1>2, <2>3, <2>7, <2>8, <2>10 DEF LocalInv, Looking
<1>5. CASE d = "append"
  BY <1>1, <1>5
<1> QED
  BY <1>1, <1>3, <1>4, <1>5

\* Where FTPGetOneF starts, and what it gets.
LEMMA TransferOffset ==
    ASSUME TypeOK, TimeInv, WasInv, LocalInv, pc = "start", call.op = "get", taint' = {},
           NEW offset \in Offsets, NEW n \in 0 .. MaxLen, NEW end, Transfers(offset, n, end)
    PROVE  /\ offset = Here /\ Here \in Nat /\ n \in Nat /\ remote.len \in Nat /\ Here + n <= remote.len
           /\ Ours(remote) /\ wire'.blocks = Rest(remote.ver, Here, n) /\ Len(wire'.blocks) = n
           /\ wire'.end = end
<1>1. /\ n = 0 \/ n + offset <= remote.len
      /\ wire' = [blocks |-> SubSeq(Content(remote), offset + 1, offset + n), end |-> end]
      /\ ~(start.wanted # 0 /\ offset = 0) /\ (offset # 0 => view.mdtm = remote.mtime)
      /\ taint = {}
  <2>1. taint \subseteq taint'
    BY TransferFacts
  <2> QED
    BY <2>1, TransferFacts
<1>2. offset \in Nat /\ n \in Nat /\ Here \in Nat /\ remote.len \in Nat
  BY OffsetsType, Bounds, Numbers
<1>3. start.wanted = Here /\ (Here # 0 => \A f \in was : f.mtime = view.mdtm => Ours(f))
  BY <1>1 DEF LocalInv, Fetching
<1>4. offset = Here
  BY <1>1, <1>3 DEF Offsets
<1>5. Ours(remote)
  <2>1. CASE Here = 0
    <3>1. local.blocks = <<>>
      BY <2>1, Fields, EmptySeq DEF Here
    <3> QED
      BY <1>2, <2>1, <3>1, NoBlocks DEF Ours
  <2>2. CASE Here # 0
    BY <1>1, <1>3, <1>4, <2>2 DEF WasInv
  <2> QED
    BY <2>1, <2>2
<1>6. Here + n <= remote.len
  BY <1>1, <1>2, <1>4, <1>5 DEF Ours
<1>7. SubSeq(Whole(remote.ver, remote.len), Here + 1, Here + n) = Rest(remote.ver, Here, n)
  BY <1>2, <1>6, RestOfWhole, Zenon
<1>8. wire'.blocks = Rest(remote.ver, Here, n) /\ wire'.end = end
  BY <1>1, <1>4, <1>7 DEF Content
<1>9. Len(wire'.blocks) = n
  BY <1>2, <1>8, RestLen
<1> QED
  BY <1>2, <1>4, <1>5, <1>6, <1>8, <1>9

LEMMA TransferLocal ==
    ASSUME TypeOK, TimeInv, WasInv, LocalInv, TransferStarts
    PROVE  LocalInv'
<1> SUFFICES ASSUME taint' = {} PROVE LocalInv'
  BY DEF LocalInv
<1>1. PICK offset \in Offsets, n \in 0 .. MaxLen, end \in {"good", "bad"} : Transfers(offset, n, end)
  BY DEF TransferStarts
<1>2. UNCHANGED <<local, remote, call, late>> /\ pc = "start" /\ pc' \in {"idle", "read"} /\ source' = remote
  BY DEF TransferStarts, Transfers
<1>3. taint = {}
  BY <1>1, TransferFacts
<1>4. Here' = Here
  BY <1>2 DEF Here
<1>5. (Prefix(local.blocks) /\ (local.there /\ late = FALSE => Dated(remote)))'
  BY <1>2, <1>3, <1>4 DEF LocalInv, Dated, Ours
<1>6. CASE call.op = "get"
  <2>1. /\ Here + n <= remote.len /\ Ours(remote)
        /\ wire'.blocks = Rest(remote.ver, Here, n) /\ Len(wire'.blocks) = n
    BY <1>1, <1>2, <1>6, TransferOffset
  <2>2. Ours(source)'
    BY <1>2, <1>4, <2>1 DEF Ours
  <2> QED
    BY <1>2, <1>4, <1>5, <2>1, <2>2 DEF LocalInv, Looking
<1>7. CASE call.op # "get"
  BY <1>2, <1>5, <1>7 DEF LocalInv, Fetching, Looking
<1> QED
  BY <1>6, <1>7

LEMMA ReadLocal ==
    ASSUME TypeOK, TimeInv, WasInv, LocalInv, ReadToFile
    PROVE  LocalInv'
<1> SUFFICES ASSUME taint' = {} PROVE LocalInv'
  BY DEF LocalInv
<1> DEFINE n == Len(wire.blocks)
<1>1. /\ UNCHANGED <<remote, source, call, pc, taint>> /\ pc = "read" /\ call.op = "get"
      /\ wire.blocks # <<>> /\ wire' = [wire EXCEPT !.blocks = Tail(@)]
      /\ local' = [local EXCEPT !.blocks = Append(@, Head(wire.blocks)), !.mtime = clock]
      /\ late' = (late \/ source.ver # remote.ver)
  BY DEF ReadToFile, Reading, Arrives, client
<1>2. Ours(source) /\ wire.blocks = Rest(source.ver, Here, n) /\ Here + n <= source.len
  BY <1>1 DEF LocalInv, Fetching
<1>3. n \in Nat \ {0} /\ Here \in Nat
  BY <1>1, Fields, EmptySeq, LenProperties
<1>4. /\ Head(wire.blocks) = <<source.ver, Here + 1>>
      /\ Tail(wire.blocks) = Rest(source.ver, Here + 1, n - 1)
  <2>1. Head(wire.blocks) = <<source.ver, Here + 1>>
    BY <1>2, <1>3, RestHead
  <2> QED
    BY <1>2, <1>3, <2>1, RestTail
<1>5. local'.blocks = Append(local.blocks, Head(wire.blocks)) /\ wire'.blocks = Tail(wire.blocks)
  BY <1>1, Records
<1>6. local'.blocks = Whole(source.ver, Here + 1)
  BY <1>2, <1>3, <1>4, <1>5, WholeAppend DEF Ours
<1>7. Here' = Here + 1
  BY <1>3, <1>6, WholeLen DEF Here
<1>8. Len(wire'.blocks) = n - 1
  BY <1>3, <1>4, <1>5, RestLen
<1>9. Ours(source)'
  BY <1>1, <1>2, <1>3, <1>6, <1>7, Numbers DEF Ours
<1>10. Prefix(local'.blocks)
  BY <1>3, <1>6, Fields, WholeLen DEF Prefix
<1>11. (Here + Len(wire.blocks) <= source.len)'
  BY <1>1, <1>2, <1>3, <1>7, <1>8, Fields
<1>12. (wire.blocks = Rest(source.ver, Here, Len(wire.blocks)))'
  BY <1>1, <1>4, <1>5, <1>7, <1>8
<1>13. ASSUME late' = FALSE PROVE Dated(remote)'
  <2>1. source.ver = remote.ver
    BY <1>1, <1>13
  <2>2. Same(source, remote)
    BY <1>2, <2>1, NowOurs
  <2>3. Ours(remote)'
    BY <1>1, <1>9, <2>2 DEF Ours, Same
  <2> QED
    BY <2>3 DEF Dated
<1> HIDE DEF n
<1> QED
  BY <1>1, <1>9, <1>10, <1>11, <1>12, <1>13 DEF LocalInv, Looking

LEMMA FinishLocal ==
    ASSUME Gap > 1, TypeOK, WasInv, ViewInv, LocalInv, Finish
    PROVE  LocalInv'
<1> SUFFICES ASSUME taint' = {} PROVE LocalInv'
  BY DEF LocalInv
<1>1. /\ UNCHANGED <<remote, source, call, taint>> /\ pc = "finish" /\ pc' \in {"idle", "delete"}
      /\ local' = [local EXCEPT !.mtime = IF call.op = "get" /\ view.mdtm # Unknown THEN view.mdtm ELSE @]
      /\ late' = (late /\ (call.op # "get" \/ view.mdtm = Unknown))
  BY DEF Finish
<1>2. local'.blocks = local.blocks /\ local'.there = local.there /\ Here' = Here
      /\ local'.mtime = IF call.op = "get" /\ view.mdtm # Unknown THEN view.mdtm ELSE local.mtime
  BY <1>1, Records DEF Here
<1>3. taint = {} /\ Prefix(local.blocks)
  BY <1>1 DEF LocalInv
<1>4. CASE call.op = "get" /\ view.mdtm # Unknown
  <2>1. Ours(source)
    BY <1>1, <1>3, <1>4 DEF LocalInv, Fetching
  <2>2. ASSUME view.mdtm + 1 >= remote.mtime PROVE Ours(remote)
    <3>1. PICK f \in was : f.mtime = view.mdtm
      BY <1>1, <1>4 DEF ViewInv, Told
    <3>2. Same(f, remote)
      BY <2>2, <3>1, AsOldAsNow DEF WasInv
    <3>3. source.ver = remote.ver
      BY <1>1, <3>1, <3>2 DEF ViewInv, Same
    <3> QED
      BY <2>1, <3>3, NowOurs, SameOurs
  <2>3. Dated(remote)'
    BY <1>1, <1>2, <1>4, <2>2 DEF Dated, Ours
  <2> QED
    BY <1>1, <1>2, <1>3, <2>3 DEF LocalInv, Fetching, Looking
<1>5. CASE ~(call.op = "get" /\ view.mdtm # Unknown)
  <2>1. local' = local
    BY <1>1, <1>5, Records
  <2>2. late' = FALSE => late = FALSE
    <3>1. late \in BOOLEAN
      BY DEF TypeOK
    <3> QED
      BY <1>1, <1>5, <3>1
  <2>3. Dated(remote)' <=> Dated(remote)
    BY <1>1, <2>1 DEF Dated, Ours, Here
  <2> QED
    BY <1>1, <1>3, <2>1, <2>2, <2>3 DEF LocalInv, Fetching, Looking
<1> QED
  BY <1>4, <1>5

LEMMA EditLocal ==
    ASSUME Gap > 1, TypeOK, TimeInv, LocalInv, Edit
    PROVE  LocalInv'
<1>1. /\ UNCHANGED <<client, local, source, late, taint, wire>> /\ was' \subseteq was \cup {remote'}
      /\ local.mtime + Gap <= remote'.mtime
  BY EditFacts
<1>2. UNCHANGED <<pc, call, start, view>>
  BY <1>1 DEF client
<1>3. remote'.mtime \in Nat /\ local.mtime \in Nat /\ Gap \in Nat
  <2>1. clock \in Nat /\ local.mtime \in Nat /\ remote'.mtime = clock + Gap
    BY Fields, EditFacts
  <2> QED
    BY <2>1, Bounds
<1>4. local.mtime + 1 < remote'.mtime
  BY <1>1, <1>3
<1>5. view.mdtm # remote'.mtime
  <2>1. view.mdtm \in Nat \cup {-1} /\ remote'.mtime > view.mdtm
    BY Fields, EditFacts DEF Unknown
  <2> QED
    BY <1>3, <2>1
<1>6. \A f : (Ours(f)' <=> Ours(f)) /\ (Dated(f)' <=> Dated(f))
  BY <1>1 DEF Ours, Dated, Here
<1>7. Dated(remote)'
  BY <1>1, <1>3, <1>4 DEF Dated
<1>8. Dated(remote')
  BY <1>3, <1>4 DEF Dated
<1>9. (\A f \in was : Dated(f)) => (\A f \in was : Dated(f))'
  BY <1>1, <1>6, <1>8
<1>10. (\A f \in was : f.mtime = view.mdtm => Ours(f)) => (\A f \in was : f.mtime = view.mdtm => Ours(f))'
  BY <1>1, <1>2, <1>5, <1>6
<1>11. Ours(source)' <=> Ours(source)
  BY <1>1 DEF Ours, Here
<1>12. Here' = Here /\ source' = source
  BY <1>1 DEF Here
<1> HIDE DEF Here
<1> QED
  BY <1>1, <1>2, <1>7, <1>9, <1>10, <1>11, <1>12 DEF LocalInv, Fetching, Looking

LEMMA LocalNext == Gap > 1 /\ WorldInv /\ LocalInv /\ [Next]_vars => LocalInv'
<1> SUFFICES ASSUME Gap > 1, WorldInv, LocalInv, [Next]_vars PROVE LocalInv'
  OBVIOUS
<1>0. TypeOK /\ TimeInv /\ WasInv /\ ViewInv
  BY DEF WorldInv
<1> USE <1>0, Fields, Records DEF LocalInv, Dated, Looking, Ours, Here, Fetching, world, client, history
<1>1. ASSUME NEW c \in Calls, Call(c) PROVE LocalInv'
  BY <1>1, CallLocal
<1>2. CASE FactsByMlst
  BY <1>2 DEF FactsByMlst, Unknown
<1>3. CASE FactsBySize
  BY <1>3 DEF FactsBySize, Unknown
<1>3a. CASE FactsByTime
  BY <1>3a DEF FactsByTime, Unknown
<1>4. CASE Probe
  BY <1>4 DEF Probe, Restart
<1>5. CASE ProbeToMemory
  BY <1>5 DEF ProbeToMemory, Restart, Gives, Learnt
<1>6. CASE DecideNot
  BY <1>6 DEF DecideNot, Decide
<1>7. CASE DecideToFetch
  BY <1>7, DecideLocal
<1>8. CASE DecideFails
  BY <1>8 DEF DecideFails, Decide, Here
<1>9. CASE DecideToMemory
  BY <1>9 DEF DecideToMemory
<1>10. CASE DecideToTar
  BY <1>10 DEF DecideToTar
<1>11. CASE NoDataConnection
  BY <1>11, StartFailsLocal, StartIsRefused
<1>12. CASE RetrRefused
  BY <1>12, StartFailsLocal, StartIsRefused
<1>13. CASE AcceptFails
  BY <1>13, StartFailsLocal, StartIsRefused
<1>14. CASE TransferStarts
  BY <1>14, TransferLocal
<1>15. CASE ReadToFile
  BY <1>15, ReadLocal
<1>16. CASE ReadToMemory
  BY <1>16 DEF ReadToMemory, Reading, Arrives, LoopUnchanged
<1>17. CASE ReadToList
  BY <1>17 DEF ReadToList, Reading, Arrives, LoopUnchanged
<1>18. CASE WriteFails
  BY <1>18 DEF WriteFails, Reading, Arrives, LoopUnchanged
<1>19. CASE EndOfFile
  BY <1>19 DEF EndOfFile, Reading, Arrives, LoopUnchanged
<1>20. CASE ReadFails
  BY <1>20 DEF ReadFails, Reading, Arrives, LoopUnchanged
<1>21. CASE ReadTimesOut
  BY <1>21 DEF ReadTimesOut, Reading, Arrives, LoopUnchanged
<1>22. CASE Cancel
  BY <1>22 DEF Cancel, Reading, Arrives, LoopUnchanged
<1>23. CASE End
  BY <1>23 DEF End
<1>24. CASE Finish
  BY <1>24, FinishLocal
<1>25. CASE Delete
  BY <1>25 DEF Delete
<1>26. CASE ConnectionLost
  BY <1>26 DEF ConnectionLost
<1>27. CASE TarDies
  BY <1>27 DEF TarDies
<1>28. CASE Edit
  BY <1>28, EditLocal
<1>29. CASE Reconnect
  BY <1>29 DEF Reconnect, NewConnection
<1>30. CASE Kill
  BY <1>30 DEF Kill, NewConnection
<1>31. CASE UNCHANGED vars
  BY <1>31 DEF vars
<1> QED
  BY <1>1, <1>2, <1>3, <1>3a, <1>4, <1>5, <1>6, <1>7, <1>8, <1>9, <1>10, <1>11, <1>12, <1>13,
     <1>14, <1>15, <1>16, <1>17, <1>18, <1>19, <1>20, <1>21, <1>22, <1>23, <1>24, <1>25,
     <1>26, <1>27, <1>28, <1>29, <1>30, <1>31 DEF Next, Library

LEMMA LocalAlways ==
    ASSUME Gap > 1
    PROVE  Spec => [](WorldInv /\ LocalInv)
<1>1. Init => LocalInv
  <2> SUFFICES ASSUME Init PROVE LocalInv
    OBVIOUS
  <2>1. pc = "idle" /\ remote.mtime = Gap /\ local.mtime = 0
    BY DEF Init
  <2>2. Prefix(local.blocks)
    <3>1. CASE local.blocks = <<>>
      BY <3>1, NothingPrefix
    <3>2. ASSUME NEW n \in 1 .. MaxLen, local.blocks = Whole(0, n) PROVE Prefix(local.blocks)
      BY <3>2, Bounds, WholeLen DEF Prefix
    <3> QED
      BY <3>1, <3>2 DEF Init
  <2> QED
    BY <2>1, <2>2, Bounds DEF LocalInv, Fetching, Looking, Dated
<1>2. WorldInv /\ LocalInv /\ [Next]_vars => LocalInv'
  BY LocalNext
<1> QED
  BY <1>1, <1>2, WorldAlways, PTL DEF Spec

\* What is on the local disk is the beginning of one version of the file, whatever
\* calls, failures, kills and replacements of the remote file came before or in the
\* middle: io_get.c:170-299 compares sizes and times well enough, as long as two
\* changes are more than its tolerance of one second apart, and up to the cases that
\* NeverSpliced names, which the code takes on trust.
THEOREM NeverSplicedHolds ==
    ASSUME Gap > 1
    PROVE  Spec => []NeverSpliced
<1>1. LocalInv => NeverSpliced
  BY DEF LocalInv, NeverSpliced
<1> QED
  BY <1>1, LocalAlways, PTL

-----------------------------------------------------------------------------
(* What FTPGetOneF returns.                                                *)

Held == zaction = "skip" \/ \E f \in was : local.blocks = Content(f)
GetInv ==
    call.op = "get" /\ taint = {} =>
        /\ pc \in {"end", "finish"} => result # "same"
        /\ pc = "read" =>
             ~net.canceled /\ (wire.end = "good" => Here + Len(wire.blocks) = source.len)
        /\ pc = "end" /\ result = "ok" => ~net.canceled /\ (wire.end = "good" => Here = source.len)
        /\ pc = "finish" /\ result = "ok" => Here = source.len
        /\ pc = "delete" \/ (pc = "idle" /\ (gone \/ (calls > 0 /\ result \in {"ok", "same"}))) => Held
        /\ (pc = "delete" \/ gone) /\ zaction = "skip" => view.size = Unknown

\* A local file that is taken for the whole of the remote one is the whole of it.
LEMMA TakenForWhole ==
    ASSUME Gap > 1, TypeOK, WasInv, ViewInv, LocalInv, pc = "decide", call.op = "get", taint = {},
           Doubts = {}, local.there, Guess \in {"same", "resume"}, Here = view.size, view.size # Unknown
    PROVE  \E f \in was : local.blocks = Content(f)
<1>1. view.mdtm # Unknown /\ late = FALSE
  BY NoDoubts
<1>2. local.mtime + 1 >= view.mdtm
  BY <1>1, GuessDated
<1>3. ~Younger(view.mdtm)
  <2>1. local.mtime \in Nat /\ view.mdtm \in Nat /\ Gap \in Nat
    BY <1>1, Fields, Bounds
  <2> QED
    BY <1>2, <2>1 DEF Younger
<1>4. Told(view.size, view.mdtm)
  BY <1>3 DEF ViewInv
<1>5. PICK f \in was : f.len = Here /\ f.mtime = view.mdtm
  BY <1>1, <1>4 DEF Told
<1>6. Dated(f)
  BY <1>1 DEF LocalInv, Looking
<1>7. Ours(f)
  BY <1>2, <1>5, <1>6 DEF Dated
<1> QED
  BY <1>5, <1>7 DEF Ours, Content

LEMMA DecideNotGet ==
    ASSUME Gap > 1, TypeOK, WasInv, ViewInv, LocalInv, GetInv, DecideNot
    PROVE  GetInv'
<1> SUFFICES ASSUME taint' = {} PROVE GetInv'
  BY DEF GetInv
<1>1. PICK d \in {"newer", "noStart"} \cup Early :
         /\ Decide(d)
         /\ zaction' = IF d \in Early THEN d ELSE zaction
         /\ result' = IF d = "same" \/ d \in Failures THEN d ELSE "ok"
         /\ pc' = IF d \in Early /\ call.delete THEN "delete" ELSE "idle"
         /\ local' = [local EXCEPT !.mtime =
                         IF d = "empty" /\ view.mdtm # Unknown THEN view.mdtm ELSE @]
         /\ taint' = taint \cup IF d = "empty" THEN {"append"}
                               ELSE IF d \in {"same", "done"} THEN Doubts ELSE {}
  BY DEF DecideNot
<1>2. /\ UNCHANGED <<remote, was, gone, view, call>> /\ pc = "decide" /\ call.op = "get" /\ d = Decision
  BY <1>1 DEF Decide
<1>3. taint = {} /\ d # "empty" /\ (d \in {"same", "done"} => Doubts = {})
  BY <1>1
<1>4. local'.blocks = local.blocks /\ ~gone
  BY <1>1, <1>2, Records DEF WasInv
<1>5. CASE d \in {"same", "done"}
  <2>1. local.there /\ Guess \in {"same", "resume"} /\ Here = view.size /\ view.size # Unknown
    <3>1. local.there
      BY <1>2, <1>5 DEF Decision
    <3>2. d = "same" => Guess = "same"
      BY <1>2, <3>1 DEF Decision
    <3>3. d = "done" => Guess = "resume" /\ Here = view.size
      BY <1>2, <3>1 DEF Decision, Guess
    <3>4. Guess = "same" => Here = view.size /\ view.size # Unknown
      BY DEF Guess
    <3>5. Guess = "resume" => view.size # Unknown
      BY DEF Guess
    <3> QED
      BY <1>5, <3>1, <3>2, <3>3, <3>4, <3>5
  <2>2. \E f \in was : local.blocks = Content(f)
    BY <1>2, <1>3, <1>5, <2>1, TakenForWhole
  <2>3. \E f \in was' : local'.blocks = Content(f)
    BY <1>2, <1>4, <2>2
  <2>4. Held'
    BY <2>3 DEF Held, Content
  <2>5. zaction' = d
    BY <1>1, <1>5 DEF Early
  <2> QED
    BY <1>1, <1>2, <1>4, <1>5, <2>4, <2>5 DEF GetInv
<1>6. CASE d = "skip"
  <2>1. view.size = Unknown
    BY <1>2, <1>6 DEF Decision, Guess
  <2>2. zaction' = "skip"
    BY <1>1, <1>6 DEF Early
  <2> QED
    BY <1>1, <1>2, <2>1, <2>2 DEF GetInv, Held
<1>7. CASE d \in {"newer", "noStart"}
  <2>1. result' = d /\ pc' = "idle"
    BY <1>1, <1>7 DEF Early, Failures
  <2> QED
    BY <1>2, <1>4, <1>7, <2>1 DEF GetInv
<1>8. d # "past"
  BY <1>2 DEF Decision, Guess
<1> QED
  BY <1>3, <1>5, <1>6, <1>7, <1>8 DEF Early

LEMMA TransferGet ==
    ASSUME TypeOK, TimeInv, WasInv, LocalInv, GetInv, TransferStarts
    PROVE  GetInv'
<1> SUFFICES ASSUME taint' = {}, call.op = "get" PROVE GetInv'
  BY DEF GetInv, TransferStarts, Transfers
<1>1. PICK offset \in Offsets, n \in 0 .. MaxLen, end \in {"good", "bad"} : Transfers(offset, n, end)
  BY DEF TransferStarts
<1>2. UNCHANGED <<local, remote, call, gone>> /\ pc = "start" /\ source' = remote
  BY DEF TransferStarts, Transfers
<1>3. ~net'.canceled
  BY Records DEF TransferStarts, Transfers
<1>4. pc' = "read" /\ ~gone /\ Here' = Here
  BY <1>1, <1>2, TransferFacts DEF WasInv, Here
<1>5. /\ offset = Here /\ Here \in Nat /\ n \in Nat /\ remote.len \in Nat /\ Here + n <= remote.len
      /\ Len(wire'.blocks) = n /\ wire'.end = end
  BY <1>1, <1>2, TransferOffset
<1>6. end = "good" => Here + n = remote.len
  <2>1. end = "good" => n + offset >= remote.len
    BY <1>1, TransferFacts
  <2> QED
    BY <1>5, <2>1
<1> QED
  BY <1>2, <1>3, <1>4, <1>5, <1>6 DEF GetInv

LEMMA FinishGet ==
    ASSUME TypeOK, TimeInv, WasInv, LocalInv, GetInv, Finish
    PROVE  GetInv'
<1> SUFFICES ASSUME taint' = {}, call'.op = "get" PROVE GetInv'
  BY DEF GetInv
<1>1. /\ UNCHANGED <<remote, source, call, was, taint, gone, result, view, zaction, calls>> /\ pc = "finish"
      /\ pc' = IF result = "ok" /\ call.delete THEN "delete" ELSE "idle"
  BY DEF Finish
<1>2. local'.blocks = local.blocks /\ ~gone /\ zaction # "skip" /\ source \in was
  BY <1>1, Records DEF Finish, TimeInv, WasInv
<1>3. Ours(source) /\ result # "same" /\ (result = "ok" => Here = source.len)
  BY <1>1 DEF LocalInv, GetInv, Fetching
<1>4. result = "ok" => local'.blocks = Content(source) /\ source \in was'
  BY <1>1, <1>2, <1>3 DEF Ours, Content
<1>5. result = "ok" => Held'
  BY <1>4 DEF Held, Content
<1> QED
  BY <1>1, <1>2, <1>3, <1>5 DEF GetInv

LEMMA GetNext == Gap > 1 /\ WorldInv /\ LocalInv /\ GetInv /\ [Next]_vars => GetInv'
<1> SUFFICES ASSUME Gap > 1, WorldInv, LocalInv, GetInv, [Next]_vars PROVE GetInv'
  OBVIOUS
<1>0. TypeOK /\ TimeInv /\ WasInv /\ ViewInv
  BY DEF WorldInv
<1> USE <1>0, Fields, Numbers, Records DEF TimeInv, WasInv, GetInv, Held, Here, world, client, history
<1>1. ASSUME NEW c \in Calls, Call(c) PROVE GetInv'
  BY <1>1, CallsAssumption DEF Call, CallRecord
<1>2. CASE FactsByMlst
  BY <1>2 DEF FactsByMlst, Unknown
<1>3. CASE FactsBySize
  BY <1>3 DEF FactsBySize, Unknown
<1>3a. CASE FactsByTime
  BY <1>3a DEF FactsByTime, Unknown
<1>4. CASE Probe
  BY <1>4 DEF Probe, Restart
<1>5. CASE ProbeToMemory
  BY <1>5 DEF ProbeToMemory, Restart, Gives, Learnt
<1>6. CASE DecideNot
  BY <1>6, DecideNotGet
<1>7. CASE DecideToFetch
  BY <1>7 DEF DecideToFetch, Decide, Here
<1>8. CASE DecideFails
  BY <1>8 DEF DecideFails, Decide, Here
<1>9. CASE DecideToMemory
  BY <1>9 DEF DecideToMemory
<1>10. CASE DecideToTar
  BY <1>10 DEF DecideToTar
<1>11. CASE NoDataConnection
  <2>1. PICK offset \in Nat : \E owed \in BOOLEAN :
           pc = "start" /\ StartFails("refused", offset, owed)
    BY <1>11, StartIsRefused
  <2> QED
    BY <2>1 DEF StartFails
<1>12. CASE RetrRefused
  <2>1. PICK offset \in Nat : \E owed \in BOOLEAN :
           pc = "start" /\ StartFails("refused", offset, owed)
    BY <1>12, StartIsRefused
  <2> QED
    BY <2>1 DEF StartFails
<1>13. CASE AcceptFails
  <2>1. PICK offset \in Nat : \E owed \in BOOLEAN :
           pc = "start" /\ StartFails("refused", offset, owed)
    BY <1>13, StartIsRefused
  <2> QED
    BY <2>1 DEF StartFails
<1>14. CASE TransferStarts
  BY <1>14, TransferGet
<1>15. CASE ReadToFile
  BY <1>15 DEF ReadToFile, Reading, Arrives, LoopUnchanged
<1>16. CASE ReadToMemory
  BY <1>16 DEF ReadToMemory, Reading, Arrives, LoopUnchanged
<1>17. CASE ReadToList
  BY <1>17 DEF ReadToList, Reading, Arrives, LoopUnchanged
<1>18. CASE WriteFails
  BY <1>18 DEF WriteFails, Reading, Arrives, LoopUnchanged
<1>19. CASE EndOfFile
  BY <1>19 DEF EndOfFile, Reading, Arrives, LoopUnchanged
<1>20. CASE ReadFails
  BY <1>20 DEF ReadFails, Reading, Arrives, LoopUnchanged
<1>21. CASE ReadTimesOut
  BY <1>21 DEF ReadTimesOut, Reading, Arrives, LoopUnchanged
<1>22. CASE Cancel
  BY <1>22 DEF Cancel, Reading, Arrives, LoopUnchanged
<1>23. CASE End
  BY <1>23 DEF End
<1>24. CASE Finish
  BY <1>24, FinishGet
<1>25. CASE Delete
  BY <1>25 DEF Delete
<1>26. CASE ConnectionLost
  BY <1>26 DEF ConnectionLost
<1>27. CASE TarDies
  BY <1>27 DEF TarDies
<1>28. CASE Edit
  BY <1>28 DEF Edit
<1>29. CASE Reconnect
  BY <1>29 DEF Reconnect, NewConnection
<1>30. CASE Kill
  BY <1>30 DEF Kill, NewConnection
<1>31. CASE UNCHANGED vars
  BY <1>31 DEF vars
<1> QED
  BY <1>1, <1>2, <1>3, <1>3a, <1>4, <1>5, <1>6, <1>7, <1>8, <1>9, <1>10, <1>11, <1>12, <1>13,
     <1>14, <1>15, <1>16, <1>17, <1>18, <1>19, <1>20, <1>21, <1>22, <1>23, <1>24, <1>25,
     <1>26, <1>27, <1>28, <1>29, <1>30, <1>31 DEF Next, Library

LEMMA GetAlways ==
    ASSUME Gap > 1
    PROVE  Spec => [](WorldInv /\ LocalInv /\ GetInv)
<1>1. Init => GetInv
  BY DEF Init, GetInv
<1>2. WorldInv /\ LocalInv /\ GetInv /\ [Next]_vars => GetInv'
  BY GetNext
<1> QED
  BY <1>1, <1>2, LocalAlways, PTL DEF Spec

\* kNoErr and kErrLocalSameAsRemote of FTPGetOneF mean that the local file is the
\* remote file as it was at some moment of the call, whatever was there before, up to
\* the cases that OkMeansFetched names.
THEOREM OkMeansFetchedHolds ==
    ASSUME Gap > 1
    PROVE  Spec => []OkMeansFetched
<1>1. GetInv => OkMeansFetched
  BY DEF GetInv, Held, OkMeansFetched, Returned
<1> QED
  BY <1>1, GetAlways, PTL

-----------------------------------------------------------------------------
(* What the other downloads return.                                        *)

\* A listing and a tar archive are always asked for from their beginning.
FromTheBeginning == \A c \in Calls : c.op \in {"tar", "list"} => c.from = 0

Wanted(f) == SubSeq(Content(f), call.from + 1, f.len)
ReceivedOf(f) ==
    \/ mem = Wanted(f)
    \/ /\ call.op = "mem" /\ Len(mem) = call.room
       /\ call.room <= Len(Wanted(f)) /\ mem = SubSeq(Wanted(f), 1, call.room)
Received == \E f \in was : ReceivedOf(f)
MemInv ==
    call.op # "get" =>
        /\ call.op \in {"tar", "list"} => call.from = 0 /\ ~gone
        /\ pc \notin {"facts", "time"} /\ (pc \in {"probe", "finish", "delete"} => call.op = "mem")
        /\ pc \in {"probe", "decide", "start"} => mem = <<>> /\ start.wanted = call.from
        /\ pc = "read" =>
             /\ ~net.canceled
             /\ \/ Len(mem) = 0 /\ Len(wire.blocks) = 0
                \/ call.from + Len(mem) + Len(wire.blocks) <= source.len
             /\ mem = Rest(source.ver, call.from, Len(mem))
             /\ wire.blocks = Rest(source.ver, call.from + Len(mem), Len(wire.blocks))
             /\ (wire.end = "good" => call.from + Len(mem) + Len(wire.blocks) >= source.len)
        /\ pc = "end" /\ result = "ok" => Received \/ (wire.end = "bad" /\ ~net.canceled)
        /\ pc = "finish" /\ result = "ok" => Received
        /\ pc = "delete" \/ (pc = "idle" /\ (gone \/ (calls > 0 /\ result = "ok"))) =>
             Received \/ (zaction = "past" /\ view.size = Unknown)

LEMMA OneMoreOneLess ==
    ASSUME NEW a \in Nat, NEW b \in Nat, NEW d \in Nat
    PROVE  a + (b + 1) + (d - 1) = a + b + d
  OBVIOUS

LEMMA WantedRest ==
    ASSUME TypeOK, NEW f \in was, call.from <= f.len
    PROVE  Wanted(f) = Rest(f.ver, call.from, f.len - call.from)
<1> DEFINE n == f.len - call.from
<1>1. n \in Nat /\ call.from \in Nat /\ f.len \in Nat /\ call.from + n = f.len
      /\ call.from + n <= f.len
  <2>1. call.from \in Nat /\ f.len \in 0 .. MaxLen
    BY Numbers, Fields
  <2>2. f.len \in Nat
    BY <2>1, Bounds
  <2> QED
    BY <2>1, <2>2
<1> HIDE DEF n
<1>2. SubSeq(Whole(f.ver, f.len), call.from + 1, call.from + n) = Rest(f.ver, call.from, n)
  BY <1>1, RestOfWhole, Zenon
<1> QED
  BY <1>1, <1>2 DEF Wanted, Content, n

LEMMA NothingPast ==
    ASSUME TypeOK, NEW f \in was, call.from >= f.len
    PROVE  Wanted(f) = <<>>
<1>1. call.from \in Nat /\ f.len \in 0 .. MaxLen
  BY Numbers, Fields
<1>2. f.len \in Nat
  BY <1>1, Bounds
<1> QED
  BY <1>1, <1>2, NothingPastTheEnd DEF Wanted, Content

\* A file of the call stays one, so what was received stays received.
LEMMA StillReceived ==
    ASSUME Received, was \subseteq was', UNCHANGED <<mem, call>>
    PROVE  Received'
<1>1. PICK f \in was : ReceivedOf(f)
  BY DEF Received
<1>2. ReceivedOf(f)'
  BY <1>1 DEF ReceivedOf, Wanted, Content
<1> QED
  BY <1>2 DEF Received

LEMMA CallMem ==
    ASSUME FromTheBeginning, TypeOK, NEW c \in Calls, Call(c)
    PROVE  MemInv'
<1>1. call' = c /\ mem' = <<>> /\ gone' = FALSE /\ start' = [start EXCEPT !.wanted = c.from]
      /\ pc' = CASE c.op = "get" -> IF c.resume THEN "facts" ELSE "decide"
                 [] c.op = "mem" -> "probe"
                 [] c.op = "tar" -> "decide"
                 [] c.op = "list" -> "start"
  BY DEF Call
<1>2. c.op \in {"get", "mem", "tar", "list"}
  BY CallsAssumption DEF CallRecord
<1>3. start'.wanted = call'.from
  BY <1>1, Records
<1>4. call'.op # "get" => pc' \in {"probe", "decide", "start"} /\ (pc' = "probe" => call'.op = "mem")
  BY <1>1, <1>2
<1> QED
  BY <1>1, <1>3, <1>4 DEF MemInv, FromTheBeginning

LEMMA TransferMem ==
    ASSUME TypeOK, WasInv, MemInv, TransferStarts
    PROVE  MemInv'
<1> SUFFICES ASSUME call.op # "get" PROVE MemInv'
  BY DEF MemInv, TransferStarts, Transfers
<1>0. PICK offset \in Offsets, n \in 0 .. MaxLen, end \in {"good", "bad"} : Transfers(offset, n, end)
  BY DEF TransferStarts
<1>1. /\ offset \in Offsets /\ offset \in Nat /\ n \in Nat
      /\ (n = 0 \/ n + offset <= remote.len) /\ (end = "good" => n + offset >= remote.len)
      /\ wire' = [blocks |-> SubSeq(Content(remote), offset + 1, offset + n), end |-> end]
      /\ source' = remote
      /\ IF start.wanted # 0 /\ offset = 0 /\ call.op = "mem"
         THEN pc' = "idle" /\ result' = "noStart"
         ELSE pc' = "read" /\ result' = "ok"
  <2>1. offset \in Nat /\ n \in Nat
    BY <1>0, OffsetsType, Bounds
  <2> QED
    BY <1>0, <2>1, TransferFacts
<1>2. UNCHANGED <<mem, remote, was, call, gone>> /\ pc = "start"
  BY DEF TransferStarts, Transfers
<1>3. ~net'.canceled /\ ~gone
  BY <1>2, Records DEF TransferStarts, Transfers, WasInv
<1>4. mem = <<>> /\ start.wanted = call.from /\ (call.op \in {"tar", "list"} => call.from = 0)
  BY <1>2 DEF MemInv
<1>5. CASE pc' = "idle"
  BY <1>1, <1>2, <1>3, <1>4, <1>5 DEF MemInv
<1>6. CASE pc' = "read"
  <2>1. call.op \in {"mem", "tar", "list"}
    BY DEF TypeOK, CallRecord
  <2>2. offset = call.from
    BY <1>1, <1>4, <1>6, <2>1 DEF Offsets
  <2>3. n \in Nat /\ call.from \in Nat /\ remote.len \in Nat
    BY <1>1, Numbers
  <2>4. (n = 0 \/ call.from + n <= remote.len) /\ (end = "good" => call.from + n >= remote.len)
    BY <1>1, <2>2, <2>3
  <2>5. SubSeq(Content(remote), call.from + 1, call.from + n) = Rest(remote.ver, call.from, n)
    <3>1. CASE n = 0
      <4>1. SubSeq(Content(remote), call.from + 1, call.from + 0) = <<>>
        BY <2>3, SubSeqEmpty
      <4> QED
        BY <2>3, <3>1, <4>1, NoRest
    <3>2. CASE call.from + n <= remote.len
      <4>1. SubSeq(Whole(remote.ver, remote.len), call.from + 1, call.from + n)
              = Rest(remote.ver, call.from, n)
        BY <2>3, <3>2, RestOfWhole, Zenon
      <4> QED
        BY <4>1 DEF Content
    <3> QED
      BY <2>4, <3>1, <3>2
  <2>6. wire'.blocks = Rest(remote.ver, call.from, n) /\ wire'.end = end /\ Len(wire'.blocks) = n
    <3>1. wire'.blocks = Rest(remote.ver, call.from, n) /\ wire'.end = end
      BY <1>1, <2>2, <2>5
    <3> QED
      BY <2>3, <3>1, RestLen
  <2>7. mem' = Rest(remote.ver, call.from, 0) /\ Len(mem') = 0
    BY <1>2, <1>4, <2>3, NoRest
  <2> QED
    BY <1>1, <1>2, <1>3, <1>4, <1>6, <2>1, <2>3, <2>4, <2>6, <2>7 DEF MemInv
<1> QED
  BY <1>1, <1>5, <1>6

LEMMA BlockRead ==
    ASSUME TypeOK, MemInv, call.op # "get", pc = "read", wire.blocks # <<>>,
           mem' = Append(mem, Head(wire.blocks)), Arrives, UNCHANGED <<call, source>>
    PROVE  /\ mem' = Rest(source.ver, call.from, Len(mem) + 1) /\ Len(mem') = Len(mem) + 1
           /\ wire'.blocks = Rest(source.ver, call.from + Len(mem'), Len(wire.blocks) - 1)
           /\ Len(wire'.blocks) = Len(wire.blocks) - 1 /\ wire'.end = wire.end
           /\ Len(wire.blocks) \in Nat \ {0}
<1> DEFINE k == Len(mem)
           n == Len(wire.blocks)
           a == call.from + k
<1>1. mem = Rest(source.ver, call.from, k) /\ wire.blocks = Rest(source.ver, a, n)
  BY DEF MemInv
<1>2. k \in Nat /\ n \in Nat /\ a \in Nat /\ call.from \in Nat
  BY Numbers
<1>3. n # 0
  BY Fields, EmptySeq
<1>4. /\ call.from + k + 1 = a + 1 /\ call.from + (k + 1) = a + 1
  BY <1>2
<1> HIDE DEF k, n, a
<1>5. Head(wire.blocks) = <<source.ver, a + 1>> /\ Tail(wire.blocks) = Rest(source.ver, a + 1, n - 1)
  <2>0. n \in Nat \ {0} /\ a \in Nat
    BY <1>2, <1>3
  <2>1. Head(wire.blocks) = <<source.ver, a + 1>>
    BY <1>1, <1>2, <1>3, RestHead
  <2> QED
    BY <1>1, <2>0, <2>1, RestTail, Zenon
<1>6. mem' = Rest(source.ver, call.from, k + 1)
  <2>1. Append(mem, <<source.ver, call.from + k + 1>>) = Rest(source.ver, call.from, k + 1)
    BY <1>1, <1>2, RestAppend
  <2> QED
    BY <1>4, <1>5, <2>1
<1>7. Len(mem') = k + 1
  BY <1>2, <1>6, RestLen
<1>8. wire'.blocks = Rest(source.ver, a + 1, n - 1) /\ wire'.end = wire.end
  BY <1>5, Records DEF Arrives
<1>9. Len(wire'.blocks) = n - 1
  <2>1. n - 1 \in Nat /\ a + 1 \in Nat
    BY <1>2, <1>3
  <2> QED
    BY <1>8, <2>1, RestLen
<1>10. wire'.blocks = Rest(source.ver, call.from + Len(mem'), n - 1)
  BY <1>4, <1>7, <1>8
<1> QED
  BY <1>2, <1>3, <1>6, <1>7, <1>8, <1>9, <1>10 DEF k, n

LEMMA ReadMem ==
    ASSUME TypeOK, WasInv, MemInv, ReadToMemory \/ ReadToList
    PROVE  MemInv'
<1>1. /\ mem' = Append(mem, Head(wire.blocks)) /\ Arrives /\ UNCHANGED <<call, was, source, gone>>
      /\ pc = "read" /\ call.op # "get" /\ wire.blocks # <<>> /\ source \in was
  BY DEF ReadToMemory, ReadToList, Reading, LoopUnchanged, history, WasInv
<1>2. /\ mem' = Rest(source.ver, call.from, Len(mem) + 1) /\ Len(mem') = Len(mem) + 1
      /\ wire'.blocks = Rest(source.ver, call.from + Len(mem'), Len(wire.blocks) - 1)
      /\ Len(wire'.blocks) = Len(wire.blocks) - 1 /\ wire'.end = wire.end
      /\ Len(wire.blocks) \in Nat \ {0}
  BY <1>1, BlockRead
<1>3. /\ call.from + Len(mem) + Len(wire.blocks) <= source.len /\ ~net.canceled /\ ~gone
      /\ (call.op \in {"tar", "list"} => call.from = 0)
      /\ (wire.end = "good" => call.from + Len(mem) + Len(wire.blocks) >= source.len)
  BY <1>1, <1>2 DEF MemInv, WasInv
<1>4. CASE pc' = "read" /\ net' = net
  <2>1. call.from + Len(mem') + Len(wire'.blocks) = call.from + Len(mem) + Len(wire.blocks)
    <3>1. Len(mem) \in Nat /\ call.from \in Nat /\ Len(wire.blocks) \in Nat
      BY Numbers
    <3>2. Len(mem') = Len(mem) + 1 /\ Len(wire'.blocks) = Len(wire.blocks) - 1
      BY <1>2
    <3>3. call.from + (Len(mem) + 1) + (Len(wire.blocks) - 1) = call.from + Len(mem) + Len(wire.blocks)
      BY <3>1, OneMoreOneLess, Zenon
    <3> QED
      BY <3>2, <3>3, Zenon
  <2> QED
    BY <1>1, <1>2, <1>3, <1>4, <2>1 DEF MemInv
<1>5. CASE pc' = "end"
  <2>1. call.op = "mem" /\ Len(mem') = call.room
    BY <1>1, <1>5 DEF ReadToMemory, ReadToList, Reading
  <2> DEFINE m == source.len - call.from
  <2>2. /\ call.room \in Nat /\ call.from \in Nat /\ call.from <= source.len
        /\ m \in Nat /\ call.room <= m
    <3>1. call.room \in Nat /\ call.from \in Nat /\ source.len \in Nat /\ Len(mem) \in Nat
      BY Numbers
    <3>2. call.from + Len(mem) + Len(wire.blocks) <= source.len /\ Len(wire.blocks) \in Nat \ {0}
      BY <1>2, <1>3
    <3>3. call.room = Len(mem) + 1
      BY <1>2, <2>1
    <3> QED
      BY <3>1, <3>2, <3>3
  <2>3. Wanted(source) = Rest(source.ver, call.from, m)
    BY <1>1, <2>2, WantedRest
  <2> HIDE DEF m
  <2>4. Wanted(source)' = Wanted(source)
    BY <1>1 DEF Wanted, Content
  <2>5. mem' = SubSeq(Wanted(source), 1, call.room) /\ call.room <= Len(Wanted(source))
    <3>1. SubSeq(Rest(source.ver, call.from, m), 1, call.room) = Rest(source.ver, call.from, call.room)
      BY <2>2, RestOfRest
    <3>2. Len(Rest(source.ver, call.from, m)) = m
      BY <2>2, RestLen
    <3> QED
      BY <1>2, <2>1, <2>2, <2>3, <3>1, <3>2
  <2>6. ReceivedOf(source)'
    BY <1>1, <2>1, <2>4, <2>5 DEF ReceivedOf
  <2>7. Received'
    BY <1>1, <2>6 DEF Received
  <2> QED
    BY <1>1, <1>3, <1>5, <2>1, <2>7 DEF MemInv
<1>6. pc' = "end" \/ (pc' = "read" /\ net' = net)
  BY <1>1 DEF ReadToMemory, ReadToList
<1> QED
  BY <1>4, <1>5, <1>6

LEMMA EndMem ==
    ASSUME TypeOK, WasInv, MemInv, EndOfFile
    PROVE  MemInv'
<1> SUFFICES ASSUME call.op # "get" PROVE MemInv'
  BY DEF MemInv, EndOfFile, LoopUnchanged
<1>1. /\ UNCHANGED <<call, was, source, gone, result, mem, net, wire>> /\ pc = "read"
      /\ wire.blocks = <<>> /\ pc' = "end"
  BY DEF EndOfFile, LoopUnchanged, history
<1>2. Len(wire.blocks) = 0 /\ Len(mem) \in Nat /\ call.from \in Nat /\ source.len \in Nat
  BY <1>1, Numbers
<1>3. /\ mem = Rest(source.ver, call.from, Len(mem)) /\ ~net.canceled /\ ~gone /\ source \in was
      /\ (call.op \in {"tar", "list"} => call.from = 0)
      /\ (Len(mem) = 0 \/ call.from + Len(mem) <= source.len)
      /\ (wire.end = "good" => call.from + Len(mem) >= source.len)
  BY <1>1, <1>2 DEF MemInv, WasInv
<1>4. CASE wire.end = "good"
  <2>1. mem = Wanted(source)
    <3>1. CASE Len(mem) = 0
      <4>1. mem = <<>>
        BY <1>2, <1>3, <3>1, NoRest
      <4>2. call.from >= source.len
        BY <1>2, <1>3, <1>4, <3>1
      <4> QED
        BY <1>3, <4>1, <4>2, NothingPast
    <3>2. CASE Len(mem) # 0
      <4>1. call.from <= source.len /\ Len(mem) = source.len - call.from
        BY <1>2, <1>3, <1>4, <3>2
      <4>2. Wanted(source) = Rest(source.ver, call.from, source.len - call.from)
        BY <1>3, <4>1, WantedRest
      <4> QED
        BY <1>3, <4>1, <4>2, Zenon
    <3> QED
      BY <3>1, <3>2
  <2>2. Received
    BY <1>3, <2>1 DEF Received, ReceivedOf
  <2>3. Received'
    BY <1>1, <2>2, StillReceived
  <2> QED
    BY <1>1, <1>3, <2>3 DEF MemInv
<1>5. CASE wire.end = "bad"
  BY <1>1, <1>3, <1>5 DEF MemInv
<1> QED
  BY <1>4, <1>5, Records

LEMMA PastMem ==
    ASSUME TypeOK, WasInv, ViewInv, MemInv, DecideToMemory
    PROVE  MemInv'
<1>1. /\ call.op = "mem" /\ pc = "decide" /\ mem = <<>> /\ ~gone
      /\ UNCHANGED <<call, view, result, mem, was, gone, start, wire, net>>
      /\ start.wanted = call.from /\ Told(view.size, Unknown)
  BY DEF DecideToMemory, MemInv, WasInv, ViewInv, world, history
<1>2. CASE pc' = "start"
  BY <1>1, <1>2 DEF MemInv
<1>3. CASE pc' \in {"delete", "idle"}
  <2>1. zaction' = "past" /\ call.from > view.size
    BY <1>3 DEF DecideToMemory
  <2>2. ASSUME view.size # Unknown PROVE Received'
    <3>1. PICK f \in was : f.len = view.size
      BY <1>1, <2>2 DEF Told
    <3>2. call.from >= f.len
      <4>1. call.from \in Nat /\ f.len \in 0 .. MaxLen
        BY Numbers, Fields
      <4> QED
        BY <2>1, <3>1, <4>1, Bounds
    <3>3. mem = Wanted(f)
      BY <1>1, <3>2, NothingPast
    <3>4. Received
      BY <3>3 DEF Received, ReceivedOf
    <3> QED
      BY <1>1, <3>4, StillReceived
  <2> QED
    BY <1>1, <1>3, <2>1, <2>2 DEF MemInv
<1> QED
  BY <1>2, <1>3 DEF DecideToMemory

LEMMA EditMem ==
    ASSUME TypeOK, TimeInv, MemInv, Edit
    PROVE  MemInv'
<1>1. /\ UNCHANGED <<client, source, wire, net>> /\ was \subseteq was' /\ gone' = FALSE
  BY EditFacts
<1>2. UNCHANGED <<pc, call, calls, start, view, zaction, result, mem>>
  BY <1>1 DEF client
<1>3. Received => Received'
  BY <1>1, <1>2, StillReceived
<1> QED
  BY <1>1, <1>2, <1>3 DEF MemInv

LEMMA MemNext == FromTheBeginning /\ WorldInv /\ MemInv /\ [Next]_vars => MemInv'
<1> SUFFICES ASSUME FromTheBeginning, WorldInv, MemInv, [Next]_vars PROVE MemInv'
  OBVIOUS
<1>0. TypeOK /\ TimeInv /\ WasInv /\ ViewInv
  BY DEF WorldInv
<1> USE <1>0, Fields, Numbers, Records
    DEF TimeInv, WasInv, MemInv, Received, ReceivedOf, Wanted, world, client, history
<1>1. ASSUME NEW c \in Calls, Call(c) PROVE MemInv'
  BY <1>1, CallMem
<1>2. CASE FactsByMlst
  BY <1>2 DEF FactsByMlst, Unknown
<1>3. CASE FactsBySize
  BY <1>3 DEF FactsBySize, Unknown
<1>3a. CASE FactsByTime
  BY <1>3a DEF FactsByTime, Unknown
<1>4. CASE Probe
  BY <1>4 DEF Probe, Restart
<1>5. CASE ProbeToMemory
  BY <1>5 DEF ProbeToMemory, Restart, Gives, Learnt
<1>6. CASE DecideNot
  BY <1>6 DEF DecideNot, Decide
<1>7. CASE DecideToFetch
  BY <1>7 DEF DecideToFetch, Decide, Here
<1>8. CASE DecideFails
  BY <1>8 DEF DecideFails, Decide, Here
<1>9. CASE DecideToMemory
  BY <1>9, PastMem
<1>10. CASE DecideToTar
  BY <1>10 DEF DecideToTar
<1>11. CASE NoDataConnection
  <2>1. PICK offset \in Nat : \E owed \in BOOLEAN :
           pc = "start" /\ StartFails("refused", offset, owed)
    BY <1>11, StartIsRefused
  <2> QED
    BY <2>1 DEF StartFails
<1>12. CASE RetrRefused
  <2>1. PICK offset \in Nat : \E owed \in BOOLEAN :
           pc = "start" /\ StartFails("refused", offset, owed)
    BY <1>12, StartIsRefused
  <2> QED
    BY <2>1 DEF StartFails
<1>13. CASE AcceptFails
  <2>1. PICK offset \in Nat : \E owed \in BOOLEAN :
           pc = "start" /\ StartFails("refused", offset, owed)
    BY <1>13, StartIsRefused
  <2> QED
    BY <2>1 DEF StartFails
<1>14. CASE TransferStarts
  BY <1>14, TransferMem
<1>15. CASE ReadToFile
  BY <1>15 DEF ReadToFile, Reading, Arrives, LoopUnchanged
<1>16. CASE ReadToMemory
  BY <1>16, ReadMem
<1>17. CASE ReadToList
  BY <1>17, ReadMem
<1>18. CASE WriteFails
  BY <1>18 DEF WriteFails, Reading, Arrives, LoopUnchanged
<1>19. CASE EndOfFile
  BY <1>19, EndMem
<1>20. CASE ReadFails
  BY <1>20 DEF ReadFails, Reading, Arrives, LoopUnchanged
<1>21. CASE ReadTimesOut
  BY <1>21 DEF ReadTimesOut, Reading, Arrives, LoopUnchanged
<1>22. CASE Cancel
  BY <1>22 DEF Cancel, Reading, Arrives, LoopUnchanged
<1>23. CASE End
  BY <1>23 DEF End
<1>24. CASE Finish
  BY <1>24 DEF Finish
<1>25. CASE Delete
  BY <1>25 DEF Delete
<1>26. CASE ConnectionLost
  BY <1>26 DEF ConnectionLost
<1>27. CASE TarDies
  BY <1>27 DEF TarDies
<1>28. CASE Edit
  BY <1>28, EditMem
<1>29. CASE Reconnect
  BY <1>29 DEF Reconnect, NewConnection
<1>30. CASE Kill
  BY <1>30 DEF Kill, NewConnection
<1>31. CASE UNCHANGED vars
  BY <1>31 DEF vars
<1> QED
  BY <1>1, <1>2, <1>3, <1>3a, <1>4, <1>5, <1>6, <1>7, <1>8, <1>9, <1>10, <1>11, <1>12, <1>13,
     <1>14, <1>15, <1>16, <1>17, <1>18, <1>19, <1>20, <1>21, <1>22, <1>23, <1>24, <1>25,
     <1>26, <1>27, <1>28, <1>29, <1>30, <1>31 DEF Next, Library

LEMMA MemAlways ==
    ASSUME FromTheBeginning
    PROVE  Spec => [](WorldInv /\ MemInv)
<1>1. Init => MemInv
  BY DEF Init, MemInv, NoCall
<1>2. WorldInv /\ MemInv /\ [Next]_vars => MemInv'
  BY MemNext
<1> QED
  BY <1>1, <1>2, WorldAlways, PTL DEF Spec

\* kNoErr of the downloads that make no file means that everything was received that
\* the file held at some moment of the call, or as much as the caller's buffer holds.
THEOREM OkMeansReceivedHolds ==
    ASSUME FromTheBeginning
    PROVE  Spec => []OkMeansReceived
<1>1. MemInv => OkMeansReceived
  <2> SUFFICES ASSUME MemInv, Returned, result = "ok", call.op # "get",
                      zaction = "past" => view.size # Unknown
               PROVE  \E f \in was :
                        LET rest == SubSeq(Content(f), call.from + 1, f.len)
                        IN \/ mem = rest
                           \/ call.op = "mem" /\ call.room <= Len(rest) /\ mem = SubSeq(rest, 1, call.room)
    BY DEF OkMeansReceived
  <2>1. PICK f \in was : ReceivedOf(f)
    BY DEF MemInv, Received, Returned
  <2> QED
    BY <2>1 DEF ReceivedOf, Wanted
<1> QED
  BY <1>1, MemAlways, PTL

\* What the library deleted on the server the program holds, as it was at some moment
\* of the call, up to the cases that DeletedMeansHeld names.
THEOREM DeletedMeansHeldHolds ==
    ASSUME Gap > 1, FromTheBeginning
    PROVE  Spec => []DeletedMeansHeld
<1>1. WorldInv /\ GetInv /\ MemInv => DeletedMeansHeld
  <2> SUFFICES ASSUME WorldInv, GetInv, MemInv, gone, view.size # Unknown, taint = {}
               PROVE  IF call.op = "mem"
                      THEN \/ Len(mem) = call.room
                           \/ \E f \in was : mem = SubSeq(Content(f), call.from + 1, f.len)
                      ELSE \E f \in was : local.blocks = Content(f)
    BY DEF DeletedMeansHeld
  <2>1. TypeOK /\ pc = "idle"
    BY DEF WorldInv, WasInv
  <2>2. CASE call.op = "get"
    <3>1. Held /\ zaction # "skip"
      BY <2>1, <2>2 DEF GetInv
    <3> QED
      BY <2>2, <3>1 DEF Held
  <2>3. CASE call.op # "get"
    <3>1. call.op = "mem"
      BY <2>1, <2>3 DEF MemInv, TypeOK, CallRecord
    <3>2. Received
      BY <2>1, <2>3 DEF MemInv
    <3> QED
      BY <3>1, <3>2 DEF Received, ReceivedOf, Wanted
  <2> QED
    BY <2>2, <2>3
<1> QED
  BY <1>1, GetAlways, MemAlways, PTL
=============================================================================
