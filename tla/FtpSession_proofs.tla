------------------------- MODULE FtpSession_proofs -------------------------
(***************************************************************************)
(* The session is correct for any number of calls, any size of the file,   *)
(* of the pipe and of the retries: the types, the replies that are never   *)
(* taken for one another (SyncInv), the data socket (SocketInv), the file  *)
(* behind a kNoErr (StoredInv) and the steps of FtpJob (JobInv).           *)
(***************************************************************************)
EXTENDS FtpSession, SequenceTheorems, TLAPS

-----------------------------------------------------------------------------
(***************************************************************************)
(* Types.                                                                  *)
(***************************************************************************)
LEMMA StatesListed ==
    /\ "ready" \in States /\ "setType" \in States /\ "typeReply" \in States
    /\ "startData" \in States /\ "sendPasv" \in States /\ "pasvReply" \in States
    /\ "connect" \in States /\ "sendPort" \in States /\ "portReply" \in States
    /\ "sendStor" \in States /\ "storReply" \in States /\ "accept" \in States
    /\ "put" \in States /\ "abortWait1" \in States /\ "abortWait2" \in States
    /\ "abortReply1" \in States /\ "abortReply2" \in States /\ "brk" \in States
    /\ "waitInput" \in States /\ "endReply" \in States /\ "mff" \in States
    /\ "mffReply" \in States /\ "mfmt" \in States /\ "mfmtReply" \in States
    /\ "site" \in States /\ "siteReply" \in States /\ "mdtm" \in States /\ "mdtmReply" \in States
    /\ "quitReply" \in States /\ "closed" \in States
  BY DEF States, ReplyStates

LEMMA TypeInit == Init => TypeOK
<1> SUFFICES ASSUME Init PROVE TypeOK
  OBVIOUS
<1>1. ClientTypeOK
  BY StatesListed, MaxPutsAssumption, BlocksAssumption, AttemptsAssumption, ModeAssumption,
     FeaturesAssumption DEF Init, ClientTypeOK, Flag, Ways
<1>2. ControlTypeOK
  BY DEF Init, ControlTypeOK
<1>3. ServerTypeOK
  BY MaxPutsAssumption, PipeAssumption DEF Init, ServerTypeOK
<1> QED
  BY <1>1, <1>2, <1>3 DEF TypeOK

LEMMA ClientTypeOK_Next == TypeOK /\ [Next]_vars => ClientTypeOK'
<1> SUFFICES ASSUME TypeOK, [Next]_vars PROVE ClientTypeOK'
  OBVIOUS
<1> USE StatesListed, MaxPutsAssumption, BlocksAssumption, AttemptsAssumption DEF TypeOK, ClientTypeOK
<1> USE DEF client, server, Send, SendFails, GetResponse, GetResponseFails, FTPShutdownHost,
    CloseDataConnection, Hangup, Return, PassiveRefused, Flag, StartUtime, AfterMFF, Ways
<1>1. CASE Put
  BY <1>1 DEF Put, PutUnchanged
<1>2. CASE SetTransferType
  BY <1>2 DEF SetTransferType, PutUnchanged
<1>3. CASE TypeReply
  BY <1>3 DEF TypeReply, PutUnchanged
<1>4. CASE StartData
  BY <1>4 DEF StartData, StartUnchanged
<1>5. CASE SendPassive
  BY <1>5 DEF SendPassive, StartUnchanged
<1>6. CASE PassiveExhausted
  BY <1>6 DEF PassiveExhausted, StartUnchanged
<1>7. CASE PasvReply
  BY <1>7 DEF PasvReply, StartUnchanged
<1>8. CASE ConnectSucceeds
  BY <1>8 DEF ConnectSucceeds, StartUnchanged
<1>9. CASE ConnectFails
  BY <1>9 DEF ConnectFails, StartUnchanged
<1>10. CASE SendPort
  BY <1>10 DEF SendPort, StartUnchanged
<1>11. CASE PortReply
  BY <1>11 DEF PortReply, StartUnchanged
<1>12. CASE SendStor
  BY <1>12 DEF SendStor, StartUnchanged
<1>13. CASE StorReply
  BY <1>13 DEF StorReply, StartUnchanged
<1>14. CASE AcceptDataConnection
  BY <1>14 DEF AcceptDataConnection, AcceptUnchanged
<1>15. CASE AcceptFails
  BY <1>15 DEF AcceptFails, AcceptUnchanged
<1>16. CASE PutBlock
  BY <1>16 DEF PutBlock, PutLoopUnchanged
<1>17. CASE PutFails
  BY <1>17 DEF PutFails, PutLoopUnchanged
<1>18. CASE PutTimesOut
  BY <1>18 DEF PutTimesOut, PutLoopUnchanged
<1>19. CASE PutEndOfFile
  BY <1>19 DEF PutEndOfFile, PutLoopUnchanged
<1>20. CASE StartAbort
  BY <1>20 DEF StartAbort, AbortUnchanged
<1>21. CASE AbortWait1
  BY <1>21 DEF AbortWait1, AbortUnchanged
<1>22. CASE AbortWait2
  BY <1>22 DEF AbortWait2, AbortUnchanged
<1>23. CASE AbortReply1
  BY <1>23 DEF AbortReply1, AbortUnchanged
<1>24. CASE AbortReply2
  BY <1>24 DEF AbortReply2, AbortUnchanged
<1>25. CASE ShutdownWriting
  BY <1>25 DEF ShutdownWriting, EndUnchanged
<1>26. CASE WaitForRemoteInput
  BY <1>26 DEF WaitForRemoteInput, EndUnchanged
<1>27. CASE EndReply
  BY <1>27 DEF EndReply, EndUnchanged
<1>28. CASE FTPUtime
  BY <1>28 DEF FTPUtime, EndUnchanged
<1>29. CASE UtimeReply
  <2> USE DEF EndUnchanged
  <2>1. noUtime' \subseteq Ways
    BY <1>29 DEF UtimeReply
  <2>2. result' \in {"none", "ok", "error"}
    BY <1>29 DEF UtimeReply
  <2>3. ctrl' \in {"open", "closed"}
    BY <1>29 DEF UtimeReply
  <2>4. sock' \in {"closed", "fresh", "listening", "connected", "stray"}
    BY <1>29 DEF UtimeReply
  <2>5. pc' \in States
    BY <1>29 DEF UtimeReply
  <2>6. UNCHANGED <<EndUnchanged, dataTimedOut>>
    BY <1>29 DEF UtimeReply
  <2> QED
    BY <2>1, <2>2, <2>3, <2>4, <2>5, <2>6
<1>30. CASE FTPCloseHost
  BY <1>30 DEF FTPCloseHost, CloseUnchanged, EndUnchanged
<1>31. CASE QuitReply
  BY <1>31 DEF QuitReply, CloseUnchanged, EndUnchanged
<1>32. CASE Cancel
  BY <1>32 DEF Cancel, server
<1>33. CASE ServerAnswers
  BY <1>33 DEF ServerAnswers, Others
<1>34. CASE ServerRefusesStor
  BY <1>34 DEF ServerRefusesStor, Others
<1>35. CASE ServerStartsStor
  BY <1>35 DEF ServerStartsStor, Others
<1>36. CASE ServerConnects
  BY <1>36 DEF ServerConnects, Others
<1>37. CASE ServerReads
  BY <1>37 DEF ServerReads, Others
<1>38. CASE ServerFinishesStor
  BY <1>38 DEF ServerFinishesStor, ServerEnds, Others
<1>39. CASE ServerFailsStor
  BY <1>39 DEF ServerFailsStor, ServerEnds, Others
<1>40. CASE ServerAborts
  BY <1>40 DEF ServerAborts, Others
<1>41. CASE ServerGone
  BY <1>41 DEF ServerGone, Others
<1>42. CASE UNCHANGED vars
  BY <1>42 DEF vars
<1> QED
  BY <1>1, <1>2, <1>3, <1>4, <1>5, <1>6, <1>7, <1>8, <1>9, <1>10, <1>11, <1>12, <1>13, <1>14, <1>15, <1>16, <1>17, <1>18, <1>19, <1>20, <1>21, <1>22, <1>23, <1>24, <1>25, <1>26, <1>27, <1>28, <1>29, <1>30, <1>31, <1>32, <1>33, <1>34, <1>35, <1>36, <1>37, <1>38, <1>39, <1>40, <1>41, <1>42 DEF Next, Client, Server

LEMMA SendType ==
    ASSUME TypeOK, NEW c \in Commands, Send(c)
    PROVE  cmds' \in Seq(CommandRecord)
  BY DEF TypeOK, ClientTypeOK, ControlTypeOK, Send, CommandRecord

LEMMA SendFailsType == TypeOK /\ SendFails => cmds' \in Seq(CommandRecord)
  BY DEF TypeOK, ControlTypeOK, SendFails

LEMMA GetResponseType ==
    ASSUME TypeOK, GetResponse
    PROVE  replies' \in Seq(ReplyRecord)
  BY DEF TypeOK, ControlTypeOK, GetResponse

LEMMA GetResponseFailsType == TypeOK /\ GetResponseFails => replies' \in Seq(ReplyRecord)
  BY DEF TypeOK, ControlTypeOK, GetResponseFails

LEMMA CommandType ==
    ASSUME TypeOK, cmds # <<>>
    PROVE  Command \in CommandRecord /\ Tail(cmds) \in Seq(CommandRecord)
  BY HeadTailProperties DEF TypeOK, ControlTypeOK, Command

LEMMA AnswerType ==
    ASSUME TypeOK, NEW c \in CommandRecord, NEW code \in Codes
    PROVE  /\ Answer(c, code) \in ReplyRecord
           /\ Append(replies, Answer(c, code)) \in Seq(ReplyRecord)
<1>1. Answer(c, code) \in ReplyRecord
  BY DEF Answer, CommandRecord, ReplyRecord
<1> QED
  BY <1>1, AppendProperties DEF TypeOK, ControlTypeOK

LEMMA StorCommandType == TypeOK => StorCommand \in CommandRecord
  BY DEF TypeOK, ServerTypeOK, StorCommand, CommandRecord, Commands

LEMMA ControlTypeOK_Next == TypeOK /\ [Next]_vars => ControlTypeOK'
<1> SUFFICES ASSUME TypeOK, [Next]_vars PROVE ControlTypeOK'
  OBVIOUS
<1> USE MaxPutsAssumption DEF TypeOK, ClientTypeOK, ControlTypeOK
<1> USE DEF Commands, Ways, Codes, server, client
<1>1. CASE Put
  BY <1>1 DEF Put, PutUnchanged
<1>2. CASE SetTransferType
  BY <1>2, SendType, SendFailsType DEF SetTransferType, PutUnchanged
<1>3. CASE TypeReply
  BY <1>3, GetResponseType, GetResponseFailsType DEF TypeReply, PutUnchanged
<1>4. CASE StartData
  BY <1>4 DEF StartData, StartUnchanged
<1>5. CASE SendPassive
  BY <1>5, SendType, SendFailsType DEF SendPassive, StartUnchanged
<1>6. CASE PassiveExhausted
  BY <1>6 DEF PassiveExhausted, StartUnchanged
<1>7. CASE PasvReply
  BY <1>7, GetResponseType, GetResponseFailsType DEF PasvReply, StartUnchanged
<1>8. CASE ConnectSucceeds
  BY <1>8 DEF ConnectSucceeds, StartUnchanged
<1>9. CASE ConnectFails
  BY <1>9 DEF ConnectFails, StartUnchanged
<1>10. CASE SendPort
  BY <1>10, SendType, SendFailsType DEF SendPort, StartUnchanged
<1>11. CASE PortReply
  BY <1>11, GetResponseType, GetResponseFailsType DEF PortReply, StartUnchanged
<1>12. CASE SendStor
  BY <1>12, SendType, SendFailsType DEF SendStor, StartUnchanged
<1>13. CASE StorReply
  BY <1>13, GetResponseType, GetResponseFailsType DEF StorReply, StartUnchanged
<1>14. CASE AcceptDataConnection
  BY <1>14 DEF AcceptDataConnection, AcceptUnchanged
<1>15. CASE AcceptFails
  BY <1>15 DEF AcceptFails, AcceptUnchanged
<1>16. CASE PutBlock
  BY <1>16 DEF PutBlock, PutLoopUnchanged
<1>17. CASE PutFails
  BY <1>17 DEF PutFails, PutLoopUnchanged
<1>18. CASE PutTimesOut
  BY <1>18 DEF PutTimesOut, PutLoopUnchanged
<1>19. CASE PutEndOfFile
  BY <1>19 DEF PutEndOfFile, PutLoopUnchanged
<1>20. CASE StartAbort
  BY <1>20, SendType, SendFailsType DEF StartAbort, AbortUnchanged
<1>21. CASE AbortWait1
  BY <1>21 DEF AbortWait1, AbortUnchanged
<1>22. CASE AbortWait2
  BY <1>22 DEF AbortWait2, AbortUnchanged
<1>23. CASE AbortReply1
  BY <1>23, GetResponseType, GetResponseFailsType DEF AbortReply1, AbortUnchanged
<1>24. CASE AbortReply2
  BY <1>24, GetResponseType, GetResponseFailsType DEF AbortReply2, AbortUnchanged
<1>25. CASE ShutdownWriting
  BY <1>25 DEF ShutdownWriting, EndUnchanged
<1>26. CASE WaitForRemoteInput
  BY <1>26 DEF WaitForRemoteInput, EndUnchanged
<1>27. CASE EndReply
  BY <1>27, GetResponseType, GetResponseFailsType DEF EndReply, EndUnchanged
<1>28. CASE FTPUtime
  BY <1>28, SendType, SendFailsType DEF FTPUtime, EndUnchanged
<1>29. CASE UtimeReply
  BY <1>29, GetResponseType, GetResponseFailsType DEF UtimeReply, EndUnchanged
<1>30. CASE FTPCloseHost
  BY <1>30, SendType, SendFailsType DEF FTPCloseHost, CloseUnchanged, EndUnchanged
<1>31. CASE QuitReply
  BY <1>31, GetResponseType, GetResponseFailsType DEF QuitReply, CloseUnchanged, EndUnchanged
<1>32. CASE Cancel
  BY <1>32 DEF Cancel, server
<1>33. CASE ServerAnswers
  BY <1>33, CommandType, AnswerType DEF ServerAnswers, Others, Idle
<1>34. CASE ServerRefusesStor
  BY <1>34, CommandType, AnswerType DEF ServerRefusesStor, Others, Idle
<1>35. CASE ServerStartsStor
  BY <1>35, CommandType, AnswerType DEF ServerStartsStor, Others, Idle
<1>36. CASE ServerConnects
  BY <1>36 DEF ServerConnects, Others
<1>37. CASE ServerReads
  BY <1>37 DEF ServerReads, Others
<1>38. CASE ServerFinishesStor
  BY <1>38, StorCommandType, AnswerType DEF ServerFinishesStor, Others, ServerEnds
<1>39. CASE ServerFailsStor
  BY <1>39, StorCommandType, AnswerType DEF ServerFailsStor, Others, ServerEnds
<1>40. CASE ServerAborts
  <2>1. Answer(StorCommand, 4) \in ReplyRecord /\ Answer(Command, 2) \in ReplyRecord
    BY <1>40, StorCommandType, CommandType, AnswerType DEF ServerAborts
  <2>2. <<Answer(StorCommand, 4), Answer(Command, 2)>> \in Seq(ReplyRecord)
    BY <2>1
  <2>3. replies' \in Seq(ReplyRecord)
    BY <1>40, <2>2, ConcatProperties DEF ServerAborts
  <2> QED
    BY <1>40, <2>3, CommandType DEF ServerAborts, Others
<1>41. CASE ServerGone
  BY <1>41 DEF ServerGone, Others
<1>42. CASE UNCHANGED vars
  BY <1>42 DEF vars
<1> QED
  BY <1>1, <1>2, <1>3, <1>4, <1>5, <1>6, <1>7, <1>8, <1>9, <1>10, <1>11, <1>12, <1>13, <1>14, <1>15, <1>16, <1>17, <1>18, <1>19, <1>20, <1>21, <1>22, <1>23, <1>24, <1>25, <1>26, <1>27, <1>28, <1>29, <1>30, <1>31, <1>32, <1>33, <1>34, <1>35, <1>36, <1>37, <1>38, <1>39, <1>40, <1>41, <1>42 DEF Next, Client, Server

LEMMA ServerTypeOK_Next == TypeOK /\ [Next]_vars => ServerTypeOK'
<1> SUFFICES ASSUME TypeOK, [Next]_vars PROVE ServerTypeOK'
  OBVIOUS
<1> USE MaxPutsAssumption, PipeAssumption DEF TypeOK, ClientTypeOK, ServerTypeOK
<1> USE DEF client, server, CloseDataConnection, Hangup, GetResponseFails, FTPShutdownHost, Storing, Idle, ServerEnds
<1>1. CASE Put
  BY <1>1 DEF Put, PutUnchanged
<1>2. CASE SetTransferType
  BY <1>2 DEF SetTransferType, PutUnchanged
<1>3. CASE TypeReply
  BY <1>3 DEF TypeReply, PutUnchanged
<1>4. CASE StartData
  BY <1>4 DEF StartData, StartUnchanged
<1>5. CASE SendPassive
  BY <1>5 DEF SendPassive, StartUnchanged
<1>6. CASE PassiveExhausted
  BY <1>6 DEF PassiveExhausted, StartUnchanged
<1>7. CASE PasvReply
  BY <1>7 DEF PasvReply, StartUnchanged
<1>8. CASE ConnectSucceeds
  BY <1>8 DEF ConnectSucceeds, StartUnchanged
<1>9. CASE ConnectFails
  BY <1>9 DEF ConnectFails, StartUnchanged
<1>10. CASE SendPort
  BY <1>10 DEF SendPort, StartUnchanged
<1>11. CASE PortReply
  BY <1>11 DEF PortReply, StartUnchanged
<1>12. CASE SendStor
  BY <1>12 DEF SendStor, StartUnchanged
<1>13. CASE StorReply
  BY <1>13 DEF StorReply, StartUnchanged
<1>14. CASE AcceptDataConnection
  BY <1>14 DEF AcceptDataConnection, AcceptUnchanged
<1>15. CASE AcceptFails
  BY <1>15 DEF AcceptFails, AcceptUnchanged
<1>16. CASE PutBlock
  BY <1>16 DEF PutBlock, PutLoopUnchanged
<1>17. CASE PutFails
  BY <1>17 DEF PutFails, PutLoopUnchanged
<1>18. CASE PutTimesOut
  BY <1>18 DEF PutTimesOut, PutLoopUnchanged
<1>19. CASE PutEndOfFile
  BY <1>19 DEF PutEndOfFile, PutLoopUnchanged
<1>20. CASE StartAbort
  BY <1>20 DEF StartAbort, AbortUnchanged
<1>21. CASE AbortWait1
  BY <1>21 DEF AbortWait1, AbortUnchanged
<1>22. CASE AbortWait2
  BY <1>22 DEF AbortWait2, AbortUnchanged
<1>23. CASE AbortReply1
  BY <1>23 DEF AbortReply1, AbortUnchanged
<1>24. CASE AbortReply2
  BY <1>24 DEF AbortReply2, AbortUnchanged
<1>25. CASE ShutdownWriting
  BY <1>25 DEF ShutdownWriting, EndUnchanged
<1>26. CASE WaitForRemoteInput
  BY <1>26 DEF WaitForRemoteInput, EndUnchanged
<1>27. CASE EndReply
  BY <1>27 DEF EndReply, EndUnchanged
<1>28. CASE FTPUtime
  BY <1>28 DEF FTPUtime, EndUnchanged
<1>29. CASE UtimeReply
  BY <1>29 DEF UtimeReply, EndUnchanged
<1>30. CASE FTPCloseHost
  BY <1>30 DEF FTPCloseHost, CloseUnchanged, EndUnchanged
<1>31. CASE QuitReply
  BY <1>31 DEF QuitReply, CloseUnchanged, EndUnchanged
<1>32. CASE Cancel
  BY <1>32 DEF Cancel, server
<1>33. CASE ServerAnswers
  <2>1. Command \in CommandRecord
    BY <1>33, CommandType DEF ServerAnswers
  <2>2. portTo' \in 0 .. MaxPuts
    BY <1>33, <2>1 DEF ServerAnswers, CommandRecord
  <2>3. link' \in {"none", "listen", "up", "fin"} /\ pipe' \in 0 .. PipeCapacity
    BY <1>33 DEF ServerAnswers
  <2> QED
    BY <1>33, <2>2, <2>3 DEF ServerAnswers
<1>34. CASE ServerRefusesStor
  BY <1>34 DEF ServerRefusesStor, Others
<1>35. CASE ServerStartsStor
  <2>1. Command \in CommandRecord
    BY <1>35, CommandType DEF ServerStartsStor
  <2> QED
    BY <1>35, <2>1 DEF ServerStartsStor, CommandRecord
<1>36. CASE ServerConnects
  BY <1>36 DEF ServerConnects, Others
<1>37. CASE ServerReads
  BY <1>37 DEF ServerReads, Others
<1>38. CASE ServerFinishesStor
  BY <1>38 DEF ServerFinishesStor, ServerEnds, Others
<1>39. CASE ServerFailsStor
  BY <1>39 DEF ServerFailsStor, ServerEnds, Others
<1>40. CASE ServerAborts
  BY <1>40 DEF ServerAborts, Others
<1>41. CASE ServerGone
  BY <1>41 DEF ServerGone, Others
<1>42. CASE UNCHANGED vars
  BY <1>42 DEF vars
<1> QED
  BY <1>1, <1>2, <1>3, <1>4, <1>5, <1>6, <1>7, <1>8, <1>9, <1>10, <1>11, <1>12, <1>13, <1>14, <1>15, <1>16, <1>17, <1>18, <1>19, <1>20, <1>21, <1>22, <1>23, <1>24, <1>25, <1>26, <1>27, <1>28, <1>29, <1>30, <1>31, <1>32, <1>33, <1>34, <1>35, <1>36, <1>37, <1>38, <1>39, <1>40, <1>41, <1>42 DEF Next, Client, Server

\* Every variable stays in its type (TypeOK of FtpSession).
THEOREM TypeCorrect == Spec => []TypeOK
<1>1. TypeOK /\ [Next]_vars => TypeOK'
  BY ClientTypeOK_Next, ControlTypeOK_Next, ServerTypeOK_Next DEF TypeOK
<1> QED
  BY TypeInit, <1>1, PTL DEF Spec

-----------------------------------------------------------------------------
(***************************************************************************)
(* The sequences the invariant speaks of have at most two elements.        *)
(***************************************************************************)
LEMMA Singleton ==
    ASSUME NEW x
    PROVE  /\ <<x>> # <<>> /\ Head(<<x>>) = x /\ Tail(<<x>>) = <<>>
           /\ Append(<<>>, x) = <<x>>
  OBVIOUS

LEMMA AppendToOne == ASSUME NEW x, NEW y PROVE Append(<<x>>, y) = <<x, y>>
<1> DEFINE S == {x, y}
<1>1. <<x>> \in Seq(S) /\ y \in S
  OBVIOUS
<1>2. <<x, y>> \in Seq(S) /\ Len(<<x, y>>) = 2
  OBVIOUS
<1>3. Append(<<x>>, y) \in Seq(S) /\ Len(Append(<<x>>, y)) = 2
  BY <1>1
<1>4. Append(<<x>>, y)[1] = x /\ Append(<<x>>, y)[2] = y
  BY <1>1
<1>5. \A i \in 1 .. 2 : Append(<<x>>, y)[i] = <<x, y>>[i]
  BY <1>4
<1> HIDE DEF S
<1> QED
  BY ONLY <1>2, <1>3, <1>5, SeqEqual

LEMMA Pair ==
    ASSUME NEW x, NEW y
    PROVE  /\ <<x, y>> # <<>> /\ Head(<<x, y>>) = x /\ Tail(<<x, y>>) = <<y>>
           /\ Append(<<x>>, y) = <<x, y>>
           /\ <<>> \o <<x, y>> = <<x, y>>
<1>1. <<x, y>> # <<>> /\ Head(<<x, y>>) = x /\ Tail(<<x, y>>) = <<y>>
  OBVIOUS
<1>2. <<>> \o <<x, y>> = <<x, y>>
  OBVIOUS
<1> QED
  BY <1>1, <1>2, AppendToOne

-----------------------------------------------------------------------------
(***************************************************************************)
(* What the client's operations do to the control connection.              *)
(***************************************************************************)
LEMMA SameControl ==
    ASSUME UNCHANGED <<puts, cmds, replies, peer, srv, storing>>
    PROVE  /\ Quiet => Quiet'
           /\ \A c \in Commands : Asked(c) => Asked(c)'
           /\ StorAsked => StorAsked'
           /\ Transferring => Transferring'
           /\ Aborting => Aborting'
  BY DEF Quiet, Asked, StorAsked, Transferring, Aborting, ServerHas, Cmd, Rep

\* Put names the new call; nothing of the old one is left.
LEMMA PutQuiet ==
    ASSUME Quiet, UNCHANGED <<cmds, replies, peer, srv, storing>>, srv = "idle" \/ peer = "gone"
    PROVE  Quiet'
  BY DEF Quiet, ServerHas

LEMMA SendFromQuiet ==
    ASSUME Quiet, NEW c \in Commands, Send(c), UNCHANGED <<puts, replies, peer, srv, storing>>
    PROVE  Asked(c)' /\ (c = "STOR" => StorAsked')
<1>1. replies' = <<>> /\ (peer' = "up" => cmds' = <<Cmd(c)>>' /\ srv' = "idle")
  BY Singleton DEF Quiet, Send, ServerHas, Cmd
<1> QED
  BY <1>1 DEF Asked, StorAsked, ServerHas

LEMMA GetAsked ==
    ASSUME NEW c \in Commands, Asked(c), GetResponse,
           UNCHANGED <<puts, cmds, peer, srv, storing>>
    PROVE  Quiet'
  BY Singleton DEF Asked, Quiet, GetResponse, ServerHas

LEMMA GetTransferring ==
    ASSUME Transferring, GetResponse, UNCHANGED <<puts, cmds, peer, srv, storing>>
    PROVE  Quiet'
  BY Singleton DEF Transferring, Quiet, GetResponse, ServerHas

LEMMA GetStorAsked ==
    ASSUME StorAsked, GetResponse, UNCHANGED <<puts, cmds, peer, srv, storing>>
    PROVE  IF Reply.code <= 2 THEN Transferring' ELSE Quiet'
<1>1. CASE replies = <<Rep("STOR", 5)>> /\ ServerHas(<<>>, "idle")
  BY <1>1, Singleton DEF Quiet, GetResponse, ServerHas, Rep, Reply
<1>2. CASE replies = <<Rep("STOR", 1)>> /\ ServerHas(<<>>, "storing")
  BY <1>2, Singleton DEF Transferring, GetResponse, ServerHas, Rep, Reply
<1>3. ASSUME NEW code \in {2, 4}, replies = <<Rep("STOR", 1), Rep("STOR", code)>>,
             ServerHas(<<>>, "idle")
      PROVE  Reply.code <= 2 /\ Transferring'
  <2>1. Reply.code = 1 /\ replies' = <<Rep("STOR", code)>>
    BY <1>3, Pair DEF GetResponse, Rep, Reply
  <2> QED
    BY <1>3, <2>1 DEF Transferring, ServerHas, Rep
<1> QED
  BY <1>1, <1>2, <1>3 DEF StorAsked, GetResponse

LEMMA AbortFromTransferring ==
    ASSUME Transferring, Send("ABOR") \/ SendFails,
           UNCHANGED <<puts, replies, peer, srv, storing>>, ctrl = "open"
    PROVE  Aborting'
<1>1. peer' = "up" => (cmds = <<>> => cmds' = <<Cmd("ABOR")>>')
  BY Singleton DEF Send, SendFails, Cmd
<1> QED
  BY <1>1 DEF Transferring, Aborting, ServerHas, Rep

LEMMA GetAborting ==
    ASSUME Aborting, GetResponse, Reply.code = 4, UNCHANGED <<puts, cmds, peer, srv, storing>>
    PROVE  Asked("ABOR")'
<1>1. CASE \E code \in {2, 4} : replies = <<Rep("STOR", code)>> /\ ServerHas(<<Cmd("ABOR")>>, "idle")
  BY <1>1, Singleton DEF GetResponse, Asked, ServerHas, Cmd
<1>2. ASSUME NEW code \in {2, 4}, NEW d \in {2, 5},
             replies = <<Rep("STOR", code), Rep("ABOR", d)>>, ServerHas(<<>>, "idle")
      PROVE  Asked("ABOR")'
  <2>1. replies' = <<Rep("ABOR", d)>>
    BY <1>2, Pair DEF GetResponse
  <2> QED
    BY <1>2, <2>1 DEF Asked, ServerHas, Rep
<1> QED
  BY <1>1, <1>2 DEF Aborting, GetResponse

-----------------------------------------------------------------------------
(***************************************************************************)
(* What a step of the server does to it.                                   *)
(***************************************************************************)
LEMMA ServerFrame == Server => UNCHANGED <<pc, puts, canceled, ctrl, loose>>
  BY DEF Server, ServerAnswers, ServerRefusesStor, ServerStartsStor, ServerConnects,
         ServerReads, ServerFinishesStor, ServerFailsStor, ServerAborts, ServerGone,
         ServerEnds, Others, client

LEMMA QuietKept == Quiet /\ Server => Quiet'
  BY ServerFrame DEF Quiet, ServerHas, Idle, Storing,
         Server, ServerAnswers, ServerRefusesStor, ServerStartsStor, ServerConnects,
         ServerReads, ServerFinishesStor, ServerFailsStor, ServerAborts, ServerGone,
         ServerEnds, Others, server, client

LEMMA AskedKept ==
    ASSUME NEW c \in Commands \ {"STOR"}, Asked(c), Server
    PROVE  Asked(c)'
<1> USE ServerFrame DEF Asked, ServerHas, Cmd, Rep, Idle, Storing, Command, server
<1>1. CASE ServerAnswers
  <2>1. replies = <<>> /\ cmds = <<Cmd(c)>> /\ srv = "idle" /\ peer = "up"
    BY <1>1, Singleton DEF ServerAnswers
  <2>2. cmds' = <<>> /\ \E code \in {2, 5} : replies' = <<Rep(c, code)>>'
    BY <1>1, <2>1, Singleton DEF ServerAnswers, Answer
  <2> QED
    BY <1>1, <2>1, <2>2 DEF ServerAnswers
<1>2. CASE ServerRefusesStor
  BY <1>2, Singleton DEF ServerRefusesStor
<1>3. CASE ServerStartsStor
  BY <1>3, Singleton DEF ServerStartsStor
<1>4. CASE ServerConnects
  BY <1>4 DEF ServerConnects
<1>5. CASE ServerReads
  BY <1>5 DEF ServerReads
<1>6. CASE ServerFinishesStor \/ ServerFailsStor
  BY <1>6 DEF ServerFinishesStor, ServerFailsStor
<1>7. CASE ServerAborts
  BY <1>7 DEF ServerAborts
<1>8. CASE ServerGone
  BY <1>8 DEF ServerGone
<1> QED
  BY <1>1, <1>2, <1>3, <1>4, <1>5, <1>6, <1>7, <1>8 DEF Server

LEMMA TransferringKept == Transferring /\ Server => Transferring'
<1> SUFFICES ASSUME Transferring, Server PROVE Transferring'
  OBVIOUS
<1> USE ServerFrame DEF Transferring, ServerHas, Rep, Idle, Storing, server
<1>1. CASE ServerAnswers \/ ServerRefusesStor \/ ServerStartsStor
  BY <1>1 DEF ServerAnswers, ServerRefusesStor, ServerStartsStor
<1>2. CASE ServerConnects
  BY <1>2 DEF ServerConnects
<1>3. CASE ServerReads
  BY <1>3 DEF ServerReads
<1>4. CASE ServerFinishesStor \/ ServerFailsStor
  <2>1. replies = <<>> /\ cmds = <<>> /\ storing = puts /\ peer = "up"
    BY <1>4 DEF ServerFinishesStor, ServerFailsStor
  <2>2. \E code \in {2, 4} : replies' = <<Rep("STOR", code)>>'
    BY <1>4, <2>1, Singleton DEF ServerFinishesStor, ServerFailsStor, ServerEnds, Answer, StorCommand
  <2> QED
    BY <1>4, <2>1, <2>2 DEF ServerFinishesStor, ServerFailsStor, ServerEnds
<1>5. CASE ServerAborts
  BY <1>5 DEF ServerAborts
<1>6. CASE ServerGone
  BY <1>6 DEF ServerGone
<1> QED
  BY <1>1, <1>2, <1>3, <1>4, <1>5, <1>6 DEF Server

LEMMA StorAskedKept == StorAsked /\ Server => StorAsked'
<1> SUFFICES ASSUME StorAsked, Server PROVE StorAsked'
  OBVIOUS
<1> USE ServerFrame DEF StorAsked, ServerHas, Cmd, Rep, Idle, Storing, Command, server
<1>1. CASE ServerAnswers
  BY <1>1, Singleton DEF ServerAnswers
<1>2. CASE ServerRefusesStor
  <2>1. replies = <<>> /\ cmds = <<Cmd("STOR")>> /\ srv = "idle"
    BY <1>2 DEF ServerRefusesStor
  <2>2. cmds' = <<>> /\ replies' = <<Rep("STOR", 5)>>'
    BY <1>2, <2>1, Singleton DEF ServerRefusesStor, Answer
  <2> QED
    BY <1>2, <2>1, <2>2 DEF ServerRefusesStor
<1>3. CASE ServerStartsStor
  <2>1. replies = <<>> /\ cmds = <<Cmd("STOR")>> /\ srv = "idle"
    BY <1>3 DEF ServerStartsStor
  <2>2. cmds' = <<>> /\ replies' = <<Rep("STOR", 1)>>' /\ storing' = puts'
    BY <1>3, <2>1, Singleton DEF ServerStartsStor, Answer
  <2> QED
    BY <1>3, <2>1, <2>2 DEF ServerStartsStor
<1>4. CASE ServerConnects
  BY <1>4 DEF ServerConnects
<1>5. CASE ServerReads
  BY <1>5 DEF ServerReads
<1>6. CASE ServerFinishesStor \/ ServerFailsStor
  <2>1. replies = <<Rep("STOR", 1)>> /\ cmds = <<>> /\ storing = puts /\ peer = "up"
    BY <1>6 DEF ServerFinishesStor, ServerFailsStor
  <2>2. PICK code \in {2, 4} : replies' = Append(replies, Rep("STOR", code))
    BY <1>6, <2>1 DEF ServerFinishesStor, ServerFailsStor, ServerEnds, Answer, StorCommand
  <2>3. replies' = <<Rep("STOR", 1), Rep("STOR", code)>>'
    BY <2>1, <2>2, Pair
  <2> QED
    BY <1>6, <2>1, <2>3 DEF ServerFinishesStor, ServerFailsStor, ServerEnds
<1>7. CASE ServerAborts
  BY <1>7 DEF ServerAborts
<1>8. CASE ServerGone
  BY <1>8 DEF ServerGone
<1> QED
  BY <1>1, <1>2, <1>3, <1>4, <1>5, <1>6, <1>7, <1>8 DEF Server

LEMMA AbortingKept == Aborting /\ Server => Aborting'
<1> SUFFICES ASSUME Aborting, Server PROVE Aborting'
  OBVIOUS
<1> USE ServerFrame DEF Aborting, ServerHas, Cmd, Rep, Idle, Storing, Command, server
<1>1. CASE ServerAnswers
  <2>1. PICK code \in {2, 4} : replies = <<Rep("STOR", code)>> /\ cmds = <<Cmd("ABOR")>>
    BY <1>1 DEF ServerAnswers
  <2>2. PICK c \in {2, 5} : replies' = Append(replies, Rep("ABOR", c))
    BY <1>1, <2>1, Singleton DEF ServerAnswers, Answer
  <2>3. cmds' = <<>>
    BY <1>1, <2>1, Singleton DEF ServerAnswers
  <2>4. replies' = <<Rep("STOR", code), Rep("ABOR", c)>>'
    BY <2>1, <2>2, AppendToOne
  <2> QED
    BY <1>1, <2>3, <2>4 DEF ServerAnswers
<1>2. CASE ServerRefusesStor \/ ServerStartsStor
  BY <1>2, Singleton DEF ServerRefusesStor, ServerStartsStor
<1>3. CASE ServerConnects
  BY <1>3 DEF ServerConnects
<1>4. CASE ServerReads
  BY <1>4 DEF ServerReads
<1>5. CASE ServerFinishesStor \/ ServerFailsStor
  <2>1. replies = <<>> /\ cmds = <<Cmd("ABOR")>> /\ storing = puts /\ peer = "up"
    BY <1>5 DEF ServerFinishesStor, ServerFailsStor
  <2>2. \E code \in {2, 4} : replies' = <<Rep("STOR", code)>>'
    BY <1>5, <2>1, Singleton DEF ServerFinishesStor, ServerFailsStor, ServerEnds, Answer, StorCommand
  <2> QED
    BY <1>5, <2>1, <2>2 DEF ServerFinishesStor, ServerFailsStor, ServerEnds
<1>6. CASE ServerAborts
  <2>1. replies = <<>> /\ cmds = <<Cmd("ABOR")>> /\ storing = puts /\ peer = "up"
    BY <1>6 DEF ServerAborts
  <2>2. cmds' = <<>> /\ replies' = <<Rep("STOR", 4), Rep("ABOR", 2)>>'
    BY <1>6, <2>1, Singleton, Pair DEF ServerAborts, Answer, StorCommand
  <2> QED
    BY <1>6, <2>1, <2>2 DEF ServerAborts
<1>7. CASE ServerGone
  BY <1>7 DEF ServerGone
<1> QED
  BY <1>1, <1>2, <1>3, <1>4, <1>5, <1>6, <1>7 DEF Server

LEMMA ServerKeepsInSync == InSync /\ Server => InSync'
<1> SUFFICES ASSUME InSync, Server PROVE InSync'
  OBVIOUS
<1> QED
  BY ServerFrame, QuietKept, AskedKept, TransferringKept, StorAskedKept, AbortingKept
     DEF InSync, Commands, Ways

LEMMA CanceledInv_Next == TypeOK /\ CanceledInv /\ [Next]_vars => CanceledInv'
<1> SUFFICES ASSUME TypeOK, CanceledInv, [Next]_vars PROVE CanceledInv'
  OBVIOUS
<1> USE DEF TypeOK, ClientTypeOK, CanceledInv, client, server, Return, PassiveRefused, Flag, StartUtime, AfterMFF
<1>1. CASE Put
  BY <1>1 DEF Put, PutUnchanged
<1>2. CASE SetTransferType
  BY <1>2 DEF SetTransferType, PutUnchanged
<1>3. CASE TypeReply
  BY <1>3 DEF TypeReply, PutUnchanged
<1>4. CASE StartData
  BY <1>4 DEF StartData, StartUnchanged
<1>5. CASE SendPassive
  BY <1>5 DEF SendPassive, StartUnchanged
<1>6. CASE PassiveExhausted
  BY <1>6 DEF PassiveExhausted, StartUnchanged
<1>7. CASE PasvReply
  BY <1>7 DEF PasvReply, StartUnchanged
<1>8. CASE ConnectSucceeds
  BY <1>8 DEF ConnectSucceeds, StartUnchanged
<1>9. CASE ConnectFails
  BY <1>9 DEF ConnectFails, StartUnchanged
<1>10. CASE SendPort
  BY <1>10 DEF SendPort, StartUnchanged
<1>11. CASE PortReply
  BY <1>11 DEF PortReply, StartUnchanged
<1>12. CASE SendStor
  BY <1>12 DEF SendStor, StartUnchanged
<1>13. CASE StorReply
  BY <1>13 DEF StorReply, StartUnchanged
<1>14. CASE AcceptDataConnection
  BY <1>14 DEF AcceptDataConnection, AcceptUnchanged
<1>15. CASE AcceptFails
  BY <1>15 DEF AcceptFails, AcceptUnchanged
<1>16. CASE PutBlock
  BY <1>16 DEF PutBlock, PutLoopUnchanged
<1>17. CASE PutFails
  BY <1>17 DEF PutFails, PutLoopUnchanged
<1>18. CASE PutTimesOut
  BY <1>18 DEF PutTimesOut, PutLoopUnchanged
<1>19. CASE PutEndOfFile
  BY <1>19 DEF PutEndOfFile, PutLoopUnchanged
<1>20. CASE StartAbort
  BY <1>20 DEF StartAbort, AbortUnchanged
<1>21. CASE AbortWait1
  BY <1>21 DEF AbortWait1, AbortUnchanged
<1>22. CASE AbortWait2
  BY <1>22 DEF AbortWait2, AbortUnchanged
<1>23. CASE AbortReply1
  BY <1>23 DEF AbortReply1, AbortUnchanged
<1>24. CASE AbortReply2
  BY <1>24 DEF AbortReply2, AbortUnchanged
<1>25. CASE ShutdownWriting
  BY <1>25 DEF ShutdownWriting, EndUnchanged
<1>26. CASE WaitForRemoteInput
  BY <1>26 DEF WaitForRemoteInput, EndUnchanged
<1>27. CASE EndReply
  BY <1>27 DEF EndReply, EndUnchanged
<1>28. CASE FTPUtime
  BY <1>28 DEF FTPUtime, EndUnchanged
<1>29. CASE UtimeReply
  BY <1>29 DEF UtimeReply, EndUnchanged
<1>30. CASE FTPCloseHost
  BY <1>30 DEF FTPCloseHost, CloseUnchanged, EndUnchanged
<1>31. CASE QuitReply
  BY <1>31 DEF QuitReply, CloseUnchanged, EndUnchanged
<1>32. CASE Cancel
  BY <1>32 DEF Cancel, server
<1>33. CASE ServerAnswers
  BY <1>33 DEF ServerAnswers, Others
<1>34. CASE ServerRefusesStor
  BY <1>34 DEF ServerRefusesStor, Others
<1>35. CASE ServerStartsStor
  BY <1>35 DEF ServerStartsStor, Others
<1>36. CASE ServerConnects
  BY <1>36 DEF ServerConnects, Others
<1>37. CASE ServerReads
  BY <1>37 DEF ServerReads, Others
<1>38. CASE ServerFinishesStor
  BY <1>38 DEF ServerFinishesStor, ServerEnds, Others
<1>39. CASE ServerFailsStor
  BY <1>39 DEF ServerFailsStor, ServerEnds, Others
<1>40. CASE ServerAborts
  BY <1>40 DEF ServerAborts, Others
<1>41. CASE ServerGone
  BY <1>41 DEF ServerGone, Others
<1>42. CASE UNCHANGED vars
  BY <1>42 DEF vars
<1> QED
  BY <1>1, <1>2, <1>3, <1>4, <1>5, <1>6, <1>7, <1>8, <1>9, <1>10, <1>11, <1>12, <1>13, <1>14, <1>15, <1>16, <1>17, <1>18, <1>19, <1>20, <1>21, <1>22, <1>23, <1>24, <1>25, <1>26, <1>27, <1>28, <1>29, <1>30, <1>31, <1>32, <1>33, <1>34, <1>35, <1>36, <1>37, <1>38, <1>39, <1>40, <1>41, <1>42 DEF Next, Client, Server

\* What was left unread stays so, and what was shut down stays closed.
LEMMA Latched ==
    ASSUME TypeOK, [Next]_vars
    PROVE  (loose' = 0 => loose = 0) /\ (ctrl' = "open" => ctrl = "open")
<1> USE DEF TypeOK, ClientTypeOK, client, server, GetResponseFails, FTPShutdownHost, GetResponse, SendFails
<1>1. CASE Put
  BY <1>1 DEF Put, PutUnchanged
<1>2. CASE SetTransferType
  BY <1>2 DEF SetTransferType, PutUnchanged
<1>3. CASE TypeReply
  BY <1>3 DEF TypeReply, PutUnchanged
<1>4. CASE StartData
  BY <1>4 DEF StartData, StartUnchanged
<1>5. CASE SendPassive
  BY <1>5 DEF SendPassive, StartUnchanged
<1>6. CASE PassiveExhausted
  BY <1>6 DEF PassiveExhausted, StartUnchanged
<1>7. CASE PasvReply
  BY <1>7 DEF PasvReply, StartUnchanged
<1>8. CASE ConnectSucceeds
  BY <1>8 DEF ConnectSucceeds, StartUnchanged
<1>9. CASE ConnectFails
  BY <1>9 DEF ConnectFails, StartUnchanged
<1>10. CASE SendPort
  BY <1>10 DEF SendPort, StartUnchanged
<1>11. CASE PortReply
  BY <1>11 DEF PortReply, StartUnchanged
<1>12. CASE SendStor
  BY <1>12 DEF SendStor, StartUnchanged
<1>13. CASE StorReply
  BY <1>13 DEF StorReply, StartUnchanged
<1>14. CASE AcceptDataConnection
  BY <1>14 DEF AcceptDataConnection, AcceptUnchanged
<1>15. CASE AcceptFails
  BY <1>15 DEF AcceptFails, AcceptUnchanged
<1>16. CASE PutBlock
  BY <1>16 DEF PutBlock, PutLoopUnchanged
<1>17. CASE PutFails
  BY <1>17 DEF PutFails, PutLoopUnchanged
<1>18. CASE PutTimesOut
  BY <1>18 DEF PutTimesOut, PutLoopUnchanged
<1>19. CASE PutEndOfFile
  BY <1>19 DEF PutEndOfFile, PutLoopUnchanged
<1>20. CASE StartAbort
  BY <1>20 DEF StartAbort, AbortUnchanged
<1>21. CASE AbortWait1
  BY <1>21 DEF AbortWait1, AbortUnchanged
<1>22. CASE AbortWait2
  BY <1>22 DEF AbortWait2, AbortUnchanged
<1>23. CASE AbortReply1
  BY <1>23 DEF AbortReply1, AbortUnchanged
<1>24. CASE AbortReply2
  BY <1>24 DEF AbortReply2, AbortUnchanged
<1>25. CASE ShutdownWriting
  BY <1>25 DEF ShutdownWriting, EndUnchanged
<1>26. CASE WaitForRemoteInput
  BY <1>26 DEF WaitForRemoteInput, EndUnchanged
<1>27. CASE EndReply
  BY <1>27 DEF EndReply, EndUnchanged
<1>28. CASE FTPUtime
  BY <1>28 DEF FTPUtime, EndUnchanged
<1>29. CASE UtimeReply
  BY <1>29 DEF UtimeReply, EndUnchanged
<1>30. CASE FTPCloseHost
  BY <1>30 DEF FTPCloseHost, CloseUnchanged, EndUnchanged
<1>31. CASE QuitReply
  BY <1>31 DEF QuitReply, CloseUnchanged, EndUnchanged
<1>32. CASE Cancel
  BY <1>32 DEF Cancel, server
<1>33. CASE ServerAnswers
  BY <1>33 DEF ServerAnswers, Others
<1>34. CASE ServerRefusesStor
  BY <1>34 DEF ServerRefusesStor, Others
<1>35. CASE ServerStartsStor
  BY <1>35 DEF ServerStartsStor, Others
<1>36. CASE ServerConnects
  BY <1>36 DEF ServerConnects, Others
<1>37. CASE ServerReads
  BY <1>37 DEF ServerReads, Others
<1>38. CASE ServerFinishesStor
  BY <1>38 DEF ServerFinishesStor, ServerEnds, Others
<1>39. CASE ServerFailsStor
  BY <1>39 DEF ServerFailsStor, ServerEnds, Others
<1>40. CASE ServerAborts
  BY <1>40 DEF ServerAborts, Others
<1>41. CASE ServerGone
  BY <1>41 DEF ServerGone, Others
<1>42. CASE UNCHANGED vars
  BY <1>42 DEF vars
<1> QED
  BY <1>1, <1>2, <1>3, <1>4, <1>5, <1>6, <1>7, <1>8, <1>9, <1>10, <1>11, <1>12, <1>13, <1>14, <1>15, <1>16, <1>17, <1>18, <1>19, <1>20, <1>21, <1>22, <1>23, <1>24, <1>25, <1>26, <1>27, <1>28, <1>29, <1>30, <1>31, <1>32, <1>33, <1>34, <1>35, <1>36, <1>37, <1>38, <1>39, <1>40, <1>41, <1>42 DEF Next, Client, Server

LEMMA InSync_Next ==
    ASSUME TypeOK, CanceledInv, InSync, loose' = 0, ctrl = "open", ctrl' = "open",
           [Next]_vars
    PROVE  InSync'
<1> USE DEF InSync, QuietStates, CanceledInv, client, server, Return, Commands, Ways,
    StartUtime, AfterMFF
<1>1. CASE Put
  BY <1>1, PutQuiet DEF Put, PutUnchanged, Quiet, ServerHas
<1>2. CASE SetTransferType
  BY <1>2, SameControl, SendFromQuiet DEF SetTransferType, PutUnchanged, SendFails
<1>3. CASE TypeReply
  BY <1>3, GetAsked DEF TypeReply, PutUnchanged, GetResponseFails, FTPShutdownHost
<1>4. CASE StartData
  BY <1>4, SameControl DEF StartData, StartUnchanged
<1>5. CASE SendPassive
  BY <1>5, SameControl, SendFromQuiet DEF SendPassive, StartUnchanged, SendFails, PassiveRefused
<1>6. CASE PassiveExhausted
  BY <1>6, SameControl DEF PassiveExhausted, StartUnchanged
<1>7. CASE PasvReply
  BY <1>7, GetAsked DEF PasvReply, StartUnchanged, PassiveRefused
<1>8. CASE ConnectSucceeds
  BY <1>8, SameControl DEF ConnectSucceeds, StartUnchanged
<1>9. CASE ConnectFails
  BY <1>9, SameControl DEF ConnectFails, StartUnchanged
<1>10. CASE SendPort
  BY <1>10, SameControl, SendFromQuiet DEF SendPort, StartUnchanged, SendFails
<1>11. CASE PortReply
  BY <1>11, GetAsked DEF PortReply, StartUnchanged, GetResponseFails, FTPShutdownHost
<1>12. CASE SendStor
  BY <1>12, SameControl, SendFromQuiet DEF SendStor, StartUnchanged, SendFails
<1>13. CASE StorReply
  BY <1>13, GetStorAsked DEF StorReply, StartUnchanged, GetResponseFails, FTPShutdownHost
<1>14. CASE AcceptDataConnection
  BY <1>14, SameControl DEF AcceptDataConnection, AcceptUnchanged
<1>15. CASE AcceptFails
  BY <1>15 DEF AcceptFails
<1>16. CASE PutBlock
  BY <1>16, SameControl DEF PutBlock, PutLoopUnchanged
<1>17. CASE PutFails
  BY <1>17, SameControl DEF PutFails, PutLoopUnchanged
<1>18. CASE PutTimesOut
  BY <1>18, SameControl DEF PutTimesOut, PutLoopUnchanged
<1>19. CASE PutEndOfFile
  BY <1>19, SameControl DEF PutEndOfFile, PutLoopUnchanged
<1>20. CASE StartAbort
  BY <1>20, AbortFromTransferring DEF StartAbort, AbortUnchanged
<1>21. CASE AbortWait1
  BY <1>21, SameControl DEF AbortWait1, AbortUnchanged
<1>22. CASE AbortWait2
  BY <1>22, SameControl DEF AbortWait2, AbortUnchanged
<1>23. CASE AbortReply1
  BY <1>23, GetAborting DEF AbortReply1, AbortUnchanged, GetResponseFails, FTPShutdownHost
<1>24. CASE AbortReply2
  BY <1>24, GetAsked DEF AbortReply2, AbortUnchanged, GetResponseFails, FTPShutdownHost
<1>25. CASE ShutdownWriting
  BY <1>25, SameControl DEF ShutdownWriting, EndUnchanged
<1>26. CASE WaitForRemoteInput
  BY <1>26, SameControl DEF WaitForRemoteInput, EndUnchanged
<1>27. CASE EndReply
  BY <1>27, GetTransferring DEF EndReply, EndUnchanged, GetResponseFails, FTPShutdownHost
<1>28. CASE FTPUtime
  BY <1>28, SameControl, SendFromQuiet DEF FTPUtime, EndUnchanged, SendFails
<1>29. CASE UtimeReply
  BY <1>29, GetAsked DEF UtimeReply, EndUnchanged, GetResponseFails, FTPShutdownHost
<1>30. CASE FTPCloseHost
  BY <1>30, SameControl, SendFromQuiet DEF FTPCloseHost, CloseUnchanged, EndUnchanged
<1>31. CASE QuitReply
  BY <1>31 DEF QuitReply
<1>32. CASE Cancel
  BY <1>32, SameControl DEF Cancel
<1>33. CASE Server
  BY <1>33, ServerKeepsInSync
<1>34. CASE UNCHANGED vars
  BY <1>34, SameControl DEF vars
<1> QED
  BY <1>1, <1>2, <1>3, <1>4, <1>5, <1>6, <1>7, <1>8, <1>9, <1>10, <1>11, <1>12, <1>13,
     <1>14, <1>15, <1>16, <1>17, <1>18, <1>19, <1>20, <1>21, <1>22, <1>23, <1>24, <1>25,
     <1>26, <1>27, <1>28, <1>29, <1>30, <1>31, <1>32, <1>33, <1>34 DEF Next, Client

LEMMA SyncInit == Init => SyncInv
  BY DEF Init, SyncInv, CanceledInv, InSync, QuietStates, Quiet, ServerHas

LEMMA SyncInv_Next == TypeOK /\ SyncInv /\ [Next]_vars => SyncInv'
<1> SUFFICES ASSUME TypeOK, SyncInv, [Next]_vars PROVE SyncInv'
  OBVIOUS
<1>1. CanceledInv /\ CanceledInv'
  BY CanceledInv_Next DEF SyncInv
<1>2. ASSUME loose' = 0, ctrl' = "open" PROVE InSync'
  <2>1. loose = 0 /\ ctrl = "open"
    BY <1>2, Latched
  <2>2. InSync
    BY <2>1 DEF SyncInv
  <2> QED
    BY <1>1, <1>2, <2>1, <2>2, InSync_Next
<1> QED
  BY <1>1, <1>2 DEF SyncInv

\* SyncInv holds in every reachable state.
THEOREM SyncInvHolds == Spec => []SyncInv
  BY TypeCorrect, SyncInit, SyncInv_Next, PTL DEF Spec

LEMMA SyncImpliesMatch == TypeOK /\ SyncInv => RepliesMatch
<1> SUFFICES ASSUME TypeOK, SyncInv, loose = 0, ctrl = "open", pc \in ReplyStates,
                    replies # <<>>
             PROVE  Reply.cmd \in Awaited[pc] /\ Reply.put = puts
  BY DEF RepliesMatch
<1>1. \A c \in Commands : Asked(c) => Reply.cmd = c /\ Reply.put = puts
  BY Singleton DEF Asked, Reply, Rep
<1>2. Transferring \/ StorAsked => Reply.cmd = "STOR" /\ Reply.put = puts
  BY Singleton, Pair DEF Transferring, StorAsked, Reply, Rep
<1>3. Aborting => Reply.cmd = "STOR" /\ Reply.put = puts
  BY Singleton, Pair DEF Aborting, Reply, Rep
<1> QED
  BY <1>1, <1>2, <1>3 DEF SyncInv, InSync, CanceledInv, Awaited, ReplyStates, Commands, Ways

\* RepliesMatch: the client takes no reply for the reply to something else, for
\* any number of transfers, blocks and attempts.
THEOREM RepliesMatchHolds == Spec => []RepliesMatch
  BY TypeCorrect, SyncInvHolds, SyncImpliesMatch, PTL
-----------------------------------------------------------------------------
(***************************************************************************)
(* The data socket.                                                        *)
(***************************************************************************)
LEMMA SocketInv_Next == TypeOK /\ CanceledInv /\ SocketInv /\ [Next]_vars => SocketInv'
<1> SUFFICES ASSUME TypeOK, CanceledInv, SocketInv, [Next]_vars PROVE SocketInv'
  OBVIOUS
<1> USE DEF TypeOK, ClientTypeOK, CanceledInv, SocketInv, Utime, client, server, Return,
    PassiveRefused, Flag, StartUtime, AfterMFF, GetResponseFails, FTPShutdownHost,
    CloseDataConnection
<1>1. CASE Put
  BY <1>1 DEF Put, PutUnchanged
<1>2. CASE SetTransferType
  BY <1>2 DEF SetTransferType, PutUnchanged
<1>3. CASE TypeReply
  BY <1>3 DEF TypeReply, PutUnchanged
<1>4. CASE StartData
  BY <1>4 DEF StartData, StartUnchanged
<1>5. CASE SendPassive
  BY <1>5 DEF SendPassive, StartUnchanged
<1>6. CASE PassiveExhausted
  BY <1>6 DEF PassiveExhausted, StartUnchanged
<1>7. CASE PasvReply
  BY <1>7 DEF PasvReply, StartUnchanged
<1>8. CASE ConnectSucceeds
  BY <1>8 DEF ConnectSucceeds, StartUnchanged
<1>9. CASE ConnectFails
  BY <1>9 DEF ConnectFails, StartUnchanged
<1>10. CASE SendPort
  BY <1>10 DEF SendPort, StartUnchanged
<1>11. CASE PortReply
  BY <1>11 DEF PortReply, StartUnchanged
<1>12. CASE SendStor
  BY <1>12 DEF SendStor, StartUnchanged
<1>13. CASE StorReply
  BY <1>13 DEF StorReply, StartUnchanged
<1>14. CASE AcceptDataConnection
  BY <1>14 DEF AcceptDataConnection, AcceptUnchanged
<1>15. CASE AcceptFails
  BY <1>15 DEF AcceptFails, AcceptUnchanged
<1>16. CASE PutBlock
  BY <1>16 DEF PutBlock, PutLoopUnchanged
<1>17. CASE PutFails
  BY <1>17 DEF PutFails, PutLoopUnchanged
<1>18. CASE PutTimesOut
  BY <1>18 DEF PutTimesOut, PutLoopUnchanged
<1>19. CASE PutEndOfFile
  BY <1>19 DEF PutEndOfFile, PutLoopUnchanged
<1>20. CASE StartAbort
  BY <1>20 DEF StartAbort, AbortUnchanged
<1>21. CASE AbortWait1
  BY <1>21 DEF AbortWait1, AbortUnchanged
<1>22. CASE AbortWait2
  BY <1>22 DEF AbortWait2, AbortUnchanged
<1>23. CASE AbortReply1
  BY <1>23 DEF AbortReply1, AbortUnchanged
<1>24. CASE AbortReply2
  BY <1>24 DEF AbortReply2, AbortUnchanged
<1>25. CASE ShutdownWriting
  BY <1>25 DEF ShutdownWriting, EndUnchanged
<1>26. CASE WaitForRemoteInput
  BY <1>26 DEF WaitForRemoteInput, EndUnchanged
<1>27. CASE EndReply
  BY <1>27 DEF EndReply, EndUnchanged
<1>28. CASE FTPUtime
  BY <1>28 DEF FTPUtime, EndUnchanged
<1>29. CASE UtimeReply
  BY <1>29 DEF UtimeReply, EndUnchanged
<1>30. CASE FTPCloseHost
  BY <1>30 DEF FTPCloseHost, CloseUnchanged, EndUnchanged
<1>31. CASE QuitReply
  BY <1>31 DEF QuitReply, CloseUnchanged, EndUnchanged
<1>32. CASE Cancel
  BY <1>32 DEF Cancel, server
<1>33. CASE ServerAnswers
  BY <1>33 DEF ServerAnswers, Others
<1>34. CASE ServerRefusesStor
  BY <1>34 DEF ServerRefusesStor, Others
<1>35. CASE ServerStartsStor
  BY <1>35 DEF ServerStartsStor, Others
<1>36. CASE ServerConnects
  BY <1>36 DEF ServerConnects, Others
<1>37. CASE ServerReads
  BY <1>37 DEF ServerReads, Others
<1>38. CASE ServerFinishesStor
  BY <1>38 DEF ServerFinishesStor, ServerEnds, Others
<1>39. CASE ServerFailsStor
  BY <1>39 DEF ServerFailsStor, ServerEnds, Others
<1>40. CASE ServerAborts
  BY <1>40 DEF ServerAborts, Others
<1>41. CASE ServerGone
  BY <1>41 DEF ServerGone, Others
<1>42. CASE UNCHANGED vars
  BY <1>42 DEF vars
<1> QED
  BY <1>1, <1>2, <1>3, <1>4, <1>5, <1>6, <1>7, <1>8, <1>9, <1>10, <1>11, <1>12, <1>13, <1>14, <1>15, <1>16, <1>17, <1>18, <1>19, <1>20, <1>21, <1>22, <1>23, <1>24, <1>25, <1>26, <1>27, <1>28, <1>29, <1>30, <1>31, <1>32, <1>33, <1>34, <1>35, <1>36, <1>37, <1>38, <1>39, <1>40, <1>41, <1>42 DEF Next, Client, Server

\* DataClosedBetweenCalls: no way through FTPPutOneFile leaves the data socket open.
THEOREM DataClosedHolds == Spec => []DataClosedBetweenCalls
<1>1. Init => CanceledInv /\ SocketInv
  BY DEF Init, CanceledInv, SocketInv, Utime
<1>2. TypeOK /\ CanceledInv /\ SocketInv /\ [Next]_vars => CanceledInv' /\ SocketInv'
  BY CanceledInv_Next, SocketInv_Next
<1>3. SocketInv => DataClosedBetweenCalls
  BY DEF SocketInv, DataClosedBetweenCalls
<1> QED
  BY TypeCorrect, <1>1, <1>2, <1>3, PTL DEF Spec

-----------------------------------------------------------------------------
(***************************************************************************)
(* What InSync says of the head of each channel, place by place.           *)
(***************************************************************************)
LEMMA QuietView ==
    ASSUME InSync, pc \in QuietStates
    PROVE  replies = <<>> /\ (peer = "up" => cmds = <<>> /\ srv = "idle")
  BY DEF InSync, Quiet, ServerHas

LEMMA AskedView ==
    ASSUME InSync, pc \in {"pasvReply", "portReply"}
    PROVE  LET c == IF pc = "pasvReply" THEN "PASV" ELSE "PORT" IN
           /\ peer = "up" => srv = "idle"
           /\ (peer = "up" /\ cmds # <<>>) => Command.cmd = c /\ replies = <<>>
           /\ replies # <<>> => Reply.cmd = c
<1> DEFINE c == IF pc = "pasvReply" THEN "PASV" ELSE "PORT"
<1>1. Asked(c)
  BY DEF InSync
<1> HIDE DEF c
<1>2. /\ peer = "up" => srv = "idle"
      /\ (peer = "up" /\ cmds # <<>>) => Command.cmd = c /\ replies = <<>>
      /\ replies # <<>> => Reply.cmd = c
  BY <1>1, Singleton DEF Asked, ServerHas, Cmd, Rep, Command, Reply
<1> QED
  BY <1>2 DEF c

LEMMA StorView ==
    ASSUME InSync, pc = "storReply"
    PROVE  /\ (peer = "up" /\ cmds # <<>>) => Command.cmd = "STOR" /\ replies = <<>> /\ srv = "idle"
           /\ (peer = "up" /\ replies # <<>> /\ Tail(replies) = <<>> /\ Reply.code <= 2)
                => srv = "storing"
           /\ srv = "storing" /\ peer = "up" => cmds = <<>>
<1>1. StorAsked
  BY DEF InSync
<1>2. CASE replies = <<>> /\ ServerHas(<<Cmd("STOR")>>, "idle")
  BY <1>2, Singleton DEF ServerHas, Cmd, Command
<1>3. CASE replies = <<Rep("STOR", 5)>> /\ ServerHas(<<>>, "idle")
  BY <1>3, Singleton DEF ServerHas, Rep, Reply
<1>4. CASE replies = <<Rep("STOR", 1)>> /\ ServerHas(<<>>, "storing")
  BY <1>4 DEF ServerHas
<1>5. ASSUME NEW code \in {2, 4}, replies = <<Rep("STOR", 1), Rep("STOR", code)>>,
             ServerHas(<<>>, "idle")
      PROVE  Tail(replies) # <<>> /\ (peer = "up" => cmds = <<>> /\ srv = "idle")
  BY <1>5, Pair, Singleton DEF ServerHas
<1> QED
  BY <1>1, <1>2, <1>3, <1>4, <1>5 DEF StorAsked

LEMMA TransferView ==
    ASSUME InSync, pc \in {"accept", "put", "brk", "waitInput", "endReply"}
    PROVE  /\ peer = "up" => cmds = <<>>
           /\ (peer = "up" /\ srv = "storing") => replies = <<>> /\ storing = puts
           /\ (peer = "up" /\ replies # <<>>) => srv = "idle"
<1>1. Quiet \/ Transferring
  BY DEF InSync
<1> QED
  BY <1>1, Singleton DEF Quiet, Transferring, ServerHas

(***************************************************************************)
(* Sequences of commands and replies.                                      *)
(***************************************************************************)
LEMMA TailCodes ==
    ASSUME replies \in Seq(ReplyRecord), replies # <<>>,
           \A i \in 1 .. Len(replies) : replies[i].code # 2
    PROVE  \A i \in 1 .. Len(Tail(replies)) : Tail(replies)[i].code # 2
  OBVIOUS

LEMMA TailCommands ==
    ASSUME cmds \in Seq(CommandRecord), cmds # <<>>,
           \A i \in 1 .. Len(cmds) : cmds[i].cmd # "STOR"
    PROVE  \A i \in 1 .. Len(Tail(cmds)) : Tail(cmds)[i].cmd # "STOR"
  OBVIOUS

LEMMA FirstCommand ==
    ASSUME cmds \in Seq(CommandRecord), cmds # <<>>,
           \A i \in 1 .. Len(cmds) : cmds[i].cmd # "STOR"
    PROVE  Head(cmds).cmd # "STOR"
  OBVIOUS

LEMMA AppendCommand ==
    ASSUME cmds \in Seq(CommandRecord), NEW c \in Commands, c # "STOR",
           cmds' = Append(cmds, [cmd |-> c, put |-> puts]),
           \A i \in 1 .. Len(cmds) : cmds[i].cmd # "STOR"
    PROVE  \A i \in 1 .. Len(cmds') : cmds'[i].cmd # "STOR"
  OBVIOUS

LEMMA CallInv_Next ==
    ASSUME TypeOK, CallInv, [Next]_vars
    PROVE  CallInv'
<1> USE DEF TypeOK, ClientTypeOK, client, server, Return, PassiveRefused, Flag, StartUtime,
    AfterMFF, Hangup, CloseDataConnection, FTPShutdownHost, CallInv, Setup, Starting, GetResponseFails
<1>1. CASE Put
  BY <1>1 DEF Put, PutUnchanged
<1>2. CASE SetTransferType
  BY <1>2 DEF SetTransferType, PutUnchanged
<1>3. CASE TypeReply
  BY <1>3 DEF TypeReply, PutUnchanged
<1>4. CASE StartData
  BY <1>4 DEF StartData, StartUnchanged
<1>5. CASE SendPassive
  BY <1>5 DEF SendPassive, StartUnchanged
<1>6. CASE PassiveExhausted
  BY <1>6 DEF PassiveExhausted, StartUnchanged
<1>7. CASE PasvReply
  BY <1>7 DEF PasvReply, StartUnchanged
<1>8. CASE ConnectSucceeds
  BY <1>8 DEF ConnectSucceeds, StartUnchanged
<1>9. CASE ConnectFails
  BY <1>9 DEF ConnectFails, StartUnchanged
<1>10. CASE SendPort
  BY <1>10 DEF SendPort, StartUnchanged
<1>11. CASE PortReply
  BY <1>11 DEF PortReply, StartUnchanged
<1>12. CASE SendStor
  BY <1>12 DEF SendStor, StartUnchanged
<1>13. CASE StorReply
  BY <1>13 DEF StorReply, StartUnchanged
<1>14. CASE AcceptDataConnection
  BY <1>14 DEF AcceptDataConnection, AcceptUnchanged
<1>15. CASE AcceptFails
  BY <1>15 DEF AcceptFails, AcceptUnchanged
<1>16. CASE PutBlock
  BY <1>16 DEF PutBlock, PutLoopUnchanged
<1>17. CASE PutFails
  BY <1>17 DEF PutFails, PutLoopUnchanged
<1>18. CASE PutTimesOut
  BY <1>18 DEF PutTimesOut, PutLoopUnchanged
<1>19. CASE PutEndOfFile
  BY <1>19 DEF PutEndOfFile, PutLoopUnchanged
<1>20. CASE StartAbort
  BY <1>20 DEF StartAbort, AbortUnchanged
<1>21. CASE AbortWait1
  BY <1>21 DEF AbortWait1, AbortUnchanged
<1>22. CASE AbortWait2
  BY <1>22 DEF AbortWait2, AbortUnchanged
<1>23. CASE AbortReply1
  BY <1>23 DEF AbortReply1, AbortUnchanged
<1>24. CASE AbortReply2
  BY <1>24 DEF AbortReply2, AbortUnchanged
<1>25. CASE ShutdownWriting
  BY <1>25 DEF ShutdownWriting, EndUnchanged
<1>26. CASE WaitForRemoteInput
  BY <1>26 DEF WaitForRemoteInput, EndUnchanged
<1>27. CASE EndReply
  BY <1>27 DEF EndReply, EndUnchanged
<1>28. CASE FTPUtime
  BY <1>28 DEF FTPUtime, EndUnchanged
<1>29. CASE UtimeReply
  BY <1>29 DEF UtimeReply, EndUnchanged
<1>30. CASE FTPCloseHost
  BY <1>30 DEF FTPCloseHost, CloseUnchanged, EndUnchanged
<1>31. CASE QuitReply
  BY <1>31 DEF QuitReply, CloseUnchanged, EndUnchanged
<1>32. CASE Cancel
  BY <1>32 DEF Cancel, server
<1>33. CASE ServerAnswers
  BY <1>33 DEF ServerAnswers, Others
<1>34. CASE ServerRefusesStor
  BY <1>34 DEF ServerRefusesStor, Others
<1>35. CASE ServerStartsStor
  BY <1>35 DEF ServerStartsStor, Others
<1>36. CASE ServerConnects
  BY <1>36 DEF ServerConnects, Others
<1>37. CASE ServerReads
  BY <1>37 DEF ServerReads, Others
<1>38. CASE ServerFinishesStor
  BY <1>38 DEF ServerFinishesStor, ServerEnds, Others
<1>39. CASE ServerFailsStor
  BY <1>39 DEF ServerFailsStor, ServerEnds, Others
<1>40. CASE ServerAborts
  BY <1>40 DEF ServerAborts, Others
<1>41. CASE ServerGone
  BY <1>41 DEF ServerGone, Others
<1>42. CASE UNCHANGED vars
  BY <1>42 DEF vars
<1> QED
  BY <1>1, <1>2, <1>3, <1>4, <1>5, <1>6, <1>7, <1>8, <1>9, <1>10, <1>11, <1>12, <1>13, <1>14, <1>15, <1>16, <1>17, <1>18, <1>19, <1>20, <1>21, <1>22, <1>23, <1>24, <1>25, <1>26, <1>27, <1>28, <1>29, <1>30, <1>31, <1>32, <1>33, <1>34, <1>35, <1>36, <1>37, <1>38, <1>39, <1>40, <1>41, <1>42 DEF Next, Client, Server

LEMMA ServerInv_Next ==
    ASSUME TypeOK, ServerInv, SocketInv, CanceledInv, [Next]_vars
    PROVE  ServerInv'
<1> USE DEF TypeOK, ClientTypeOK, client, server, Return, PassiveRefused, Flag, StartUtime,
    AfterMFF, Hangup, CloseDataConnection, FTPShutdownHost, ServerInv, ServerTypeOK, GetResponseFails, Idle, Storing, SocketInv
<1>1. CASE Put
  BY <1>1 DEF Put, PutUnchanged
<1>2. CASE SetTransferType
  BY <1>2 DEF SetTransferType, PutUnchanged
<1>3. CASE TypeReply
  BY <1>3 DEF TypeReply, PutUnchanged
<1>4. CASE StartData
  BY <1>4 DEF StartData, StartUnchanged
<1>5. CASE SendPassive
  BY <1>5 DEF SendPassive, StartUnchanged
<1>6. CASE PassiveExhausted
  BY <1>6 DEF PassiveExhausted, StartUnchanged
<1>7. CASE PasvReply
  BY <1>7 DEF PasvReply, StartUnchanged
<1>8. CASE ConnectSucceeds
  BY <1>8 DEF ConnectSucceeds, StartUnchanged
<1>9. CASE ConnectFails
  BY <1>9 DEF ConnectFails, StartUnchanged
<1>10. CASE SendPort
  BY <1>10 DEF SendPort, StartUnchanged
<1>11. CASE PortReply
  BY <1>11 DEF PortReply, StartUnchanged
<1>12. CASE SendStor
  BY <1>12 DEF SendStor, StartUnchanged
<1>13. CASE StorReply
  BY <1>13 DEF StorReply, StartUnchanged
<1>14. CASE AcceptDataConnection
  BY <1>14 DEF AcceptDataConnection, AcceptUnchanged
<1>15. CASE AcceptFails
  BY <1>15 DEF AcceptFails, AcceptUnchanged
<1>16. CASE PutBlock
  BY <1>16 DEF PutBlock, PutLoopUnchanged
<1>17. CASE PutFails
  BY <1>17 DEF PutFails, PutLoopUnchanged
<1>18. CASE PutTimesOut
  BY <1>18 DEF PutTimesOut, PutLoopUnchanged
<1>19. CASE PutEndOfFile
  BY <1>19 DEF PutEndOfFile, PutLoopUnchanged
<1>20. CASE StartAbort
  BY <1>20 DEF StartAbort, AbortUnchanged
<1>21. CASE AbortWait1
  BY <1>21 DEF AbortWait1, AbortUnchanged
<1>22. CASE AbortWait2
  BY <1>22 DEF AbortWait2, AbortUnchanged
<1>23. CASE AbortReply1
  BY <1>23 DEF AbortReply1, AbortUnchanged
<1>24. CASE AbortReply2
  BY <1>24 DEF AbortReply2, AbortUnchanged
<1>25. CASE ShutdownWriting
  BY <1>25 DEF ShutdownWriting, EndUnchanged
<1>26. CASE WaitForRemoteInput
  BY <1>26 DEF WaitForRemoteInput, EndUnchanged
<1>27. CASE EndReply
  BY <1>27 DEF EndReply, EndUnchanged
<1>28. CASE FTPUtime
  BY <1>28 DEF FTPUtime, EndUnchanged
<1>29. CASE UtimeReply
  BY <1>29 DEF UtimeReply, EndUnchanged
<1>30. CASE FTPCloseHost
  BY <1>30 DEF FTPCloseHost, CloseUnchanged, EndUnchanged
<1>31. CASE QuitReply
  BY <1>31 DEF QuitReply, CloseUnchanged, EndUnchanged
<1>32. CASE Cancel
  BY <1>32 DEF Cancel, server
<1>33. CASE ServerAnswers
  BY <1>33 DEF ServerAnswers, Others
<1>34. CASE ServerRefusesStor
  BY <1>34 DEF ServerRefusesStor, Others
<1>35. CASE ServerStartsStor
  BY <1>35 DEF ServerStartsStor, Others
<1>36. CASE ServerConnects
  BY <1>36 DEF ServerConnects, Others
<1>37. CASE ServerReads
  BY <1>37 DEF ServerReads, Others
<1>38. CASE ServerFinishesStor
  BY <1>38 DEF ServerFinishesStor, ServerEnds, Others
<1>39. CASE ServerFailsStor
  BY <1>39 DEF ServerFailsStor, ServerEnds, Others
<1>40. CASE ServerAborts
  BY <1>40 DEF ServerAborts, Others
<1>41. CASE ServerGone
  BY <1>41 DEF ServerGone, Others
<1>42. CASE UNCHANGED vars
  BY <1>42 DEF vars
<1> QED
  BY <1>1, <1>2, <1>3, <1>4, <1>5, <1>6, <1>7, <1>8, <1>9, <1>10, <1>11, <1>12, <1>13, <1>14, <1>15, <1>16, <1>17, <1>18, <1>19, <1>20, <1>21, <1>22, <1>23, <1>24, <1>25, <1>26, <1>27, <1>28, <1>29, <1>30, <1>31, <1>32, <1>33, <1>34, <1>35, <1>36, <1>37, <1>38, <1>39, <1>40, <1>41, <1>42 DEF Next, Client, Server

LEMMA LinkInv_Next ==
    ASSUME TypeOK, InSync, CanceledInv, SocketInv, CallInv, ServerInv, LinkInv, BlocksInv, loose = 0,
           loose' = 0, ctrl = "open", ctrl' = "open", [Next]_vars
    PROVE  LinkInv'
<1> USE DEF TypeOK, ClientTypeOK, client, server, Return, PassiveRefused, Flag, StartUtime,
    AfterMFF, Hangup, CloseDataConnection, FTPShutdownHost, ServerTypeOK, LinkInv, ServerInv, SocketInv, Starting, Ending, GetResponseFails, Reply
<1>1. CASE Put
  BY <1>1 DEF Put, PutUnchanged
<1>2. CASE SetTransferType
  BY <1>2 DEF SetTransferType, PutUnchanged
<1>3. CASE TypeReply
  BY <1>3 DEF TypeReply, PutUnchanged
<1>4. CASE StartData
  BY <1>4, AttemptsAssumption DEF StartData, StartUnchanged, SocketInv
<1>5. CASE SendPassive
  BY <1>5, AttemptsAssumption, QuietView DEF SendPassive, StartUnchanged, QuietStates
<1>6. CASE PassiveExhausted
  BY <1>6, AttemptsAssumption DEF PassiveExhausted, StartUnchanged
<1>7. CASE PasvReply
  BY <1>7, AskedView DEF PasvReply, StartUnchanged, GetResponse, Reply
<1>8. CASE ConnectSucceeds
  BY <1>8 DEF ConnectSucceeds, StartUnchanged
<1>9. CASE ConnectFails
  BY <1>9 DEF ConnectFails, StartUnchanged
<1>10. CASE SendPort
  BY <1>10, QuietView DEF SendPort, StartUnchanged, QuietStates
<1>11. CASE PortReply
  BY <1>11, AskedView DEF PortReply, StartUnchanged, GetResponse
<1>12. CASE SendStor
  BY <1>12 DEF SendStor, StartUnchanged
<1>13. CASE StorReply
  BY <1>13, StorView DEF StorReply, StartUnchanged, GetResponse
<1>14. CASE AcceptDataConnection
  BY <1>14 DEF AcceptDataConnection, AcceptUnchanged
<1>15. CASE AcceptFails
  BY <1>15 DEF AcceptFails, AcceptUnchanged
<1>16. CASE PutBlock
  BY <1>16 DEF PutBlock, PutLoopUnchanged
<1>17. CASE PutFails
  BY <1>17 DEF PutFails, PutLoopUnchanged
<1>18. CASE PutTimesOut
  BY <1>18 DEF PutTimesOut, PutLoopUnchanged
<1>19. CASE PutEndOfFile
  BY <1>19 DEF PutEndOfFile, PutLoopUnchanged
<1>20. CASE StartAbort
  BY <1>20 DEF StartAbort, AbortUnchanged
<1>21. CASE AbortWait1
  BY <1>21 DEF AbortWait1, AbortUnchanged
<1>22. CASE AbortWait2
  BY <1>22 DEF AbortWait2, AbortUnchanged
<1>23. CASE AbortReply1
  BY <1>23 DEF AbortReply1, AbortUnchanged
<1>24. CASE AbortReply2
  BY <1>24 DEF AbortReply2, AbortUnchanged
<1>25. CASE ShutdownWriting
  BY <1>25 DEF ShutdownWriting, EndUnchanged
<1>26. CASE WaitForRemoteInput
  BY <1>26 DEF WaitForRemoteInput, EndUnchanged
<1>27. CASE EndReply
  BY <1>27 DEF EndReply, EndUnchanged
<1>28. CASE FTPUtime
  BY <1>28 DEF FTPUtime, EndUnchanged
<1>29. CASE UtimeReply
  BY <1>29 DEF UtimeReply, EndUnchanged
<1>30. CASE FTPCloseHost
  BY <1>30 DEF FTPCloseHost, CloseUnchanged, EndUnchanged
<1>31. CASE QuitReply
  BY <1>31 DEF QuitReply, CloseUnchanged, EndUnchanged
<1>32. CASE Cancel
  BY <1>32 DEF Cancel, server
<1>33. CASE ServerAnswers
  <2>1. pc \notin Starting \cup {"put"} \cup QuietStates
    BY <1>33, QuietView, StorView, TransferView DEF ServerAnswers, Idle, QuietStates
  <2>2. pc \in {"pasvReply", "portReply"} =>
          replies = <<>> /\ Command.cmd = IF pc = "pasvReply" THEN "PASV" ELSE "PORT"
    BY <1>33, AskedView DEF ServerAnswers, Idle
  <2>3. pc \in {"pasvReply", "portReply"} => LinkInv'
    BY <1>33, <2>1, <2>2, Singleton DEF ServerAnswers, Others, Answer
  <2>4. pc \notin {"pasvReply", "portReply"} => LinkInv'
    BY <1>33, <2>1, <2>2 DEF ServerAnswers, Others, QuietStates
  <2> QED
    BY <2>3, <2>4
<1>34. CASE ServerRefusesStor
  BY <1>34, AskedView, StorView, TransferView DEF ServerRefusesStor, Others, Idle
<1>35. CASE ServerStartsStor
  BY <1>35, AskedView, StorView, TransferView, QuietView DEF ServerStartsStor, Others, Idle, QuietStates
<1>36. CASE ServerConnects
  BY <1>36, AskedView DEF ServerConnects, Others, Storing
<1>37. CASE ServerReads
  BY <1>37 DEF ServerReads, Others
<1>38. CASE ServerFinishesStor
  BY <1>38 DEF ServerFinishesStor, ServerEnds, Others
<1>39. CASE ServerFailsStor
  BY <1>39 DEF ServerFailsStor, ServerEnds, Others
<1>40. CASE ServerAborts
  BY <1>40 DEF ServerAborts, Others
<1>41. CASE ServerGone
  BY <1>41 DEF ServerGone, Others
<1>42. CASE UNCHANGED vars
  BY <1>42 DEF vars
<1> QED
  BY <1>1, <1>2, <1>3, <1>4, <1>5, <1>6, <1>7, <1>8, <1>9, <1>10, <1>11, <1>12, <1>13, <1>14, <1>15, <1>16, <1>17, <1>18, <1>19, <1>20, <1>21, <1>22, <1>23, <1>24, <1>25, <1>26, <1>27, <1>28, <1>29, <1>30, <1>31, <1>32, <1>33, <1>34, <1>35, <1>36, <1>37, <1>38, <1>39, <1>40, <1>41, <1>42 DEF Next, Client, Server

LEMMA BlocksInv_Next ==
    ASSUME TypeOK, InSync, CanceledInv, SocketInv, CallInv, ServerInv, LinkInv, BlocksInv, loose = 0,
           loose' = 0, ctrl = "open", ctrl' = "open", [Next]_vars
    PROVE  BlocksInv'
<1> USE DEF TypeOK, ClientTypeOK, client, server, Return, PassiveRefused, Flag, StartUtime,
    AfterMFF, Hangup, CloseDataConnection, FTPShutdownHost, ServerTypeOK, ControlTypeOK, BlocksInv, CallInv, LinkInv, ServerInv, SocketInv, Starting, Ending, Stored,
    GetResponseFails, Reply
<1>1. CASE Put
  BY <1>1 DEF Put, PutUnchanged
<1>2. CASE SetTransferType
  BY <1>2 DEF SetTransferType, PutUnchanged
<1>3. CASE TypeReply
  BY <1>3 DEF TypeReply, PutUnchanged
<1>4. CASE StartData
  BY <1>4 DEF StartData, StartUnchanged
<1>5. CASE SendPassive
  BY <1>5 DEF SendPassive, StartUnchanged
<1>6. CASE PassiveExhausted
  BY <1>6, AttemptsAssumption, QuietView DEF PassiveExhausted, StartUnchanged, QuietStates
<1>7. CASE PasvReply
  BY <1>7, AskedView DEF PasvReply, StartUnchanged, GetResponse
<1>8. CASE ConnectSucceeds
  BY <1>8, QuietView DEF ConnectSucceeds, StartUnchanged, QuietStates
<1>9. CASE ConnectFails
  BY <1>9 DEF ConnectFails, StartUnchanged
<1>10. CASE SendPort
  BY <1>10 DEF SendPort, StartUnchanged
<1>11. CASE PortReply
  BY <1>11, AskedView DEF PortReply, StartUnchanged, GetResponse
<1>12. CASE SendStor
  BY <1>12, QuietView DEF SendStor, StartUnchanged, QuietStates
<1>13. CASE StorReply
  <2>1. pc' = "accept" => \A i \in 1 .. Len(replies') : replies'[i].code # 2
    <3>1. CASE replies # <<>> /\ replies' = Tail(replies)
  BY <1>13, <3>1, TailCodes DEF StorReply
    <3>2. CASE replies' = replies
  BY <1>13, <3>2 DEF StorReply
    <3> QED
  BY <1>13, <3>1, <3>2 DEF StorReply, GetResponse
  <2>2. pc' # "storReply" /\ pc' # "put" /\ pc' \notin Ending /\ pc' # "sendStor"
    BY <1>13 DEF StorReply
  <2>3. pc' = "accept" => pipe' = 0 /\ (srv' = "storing" => got' = 0)
    BY <1>13 DEF StorReply, StartUnchanged
  <2> QED
    BY <2>1, <2>2, <2>3
<1>14. CASE AcceptDataConnection
  BY <1>14 DEF AcceptDataConnection, AcceptUnchanged
<1>15. CASE AcceptFails
  BY <1>15 DEF AcceptFails, AcceptUnchanged
<1>16. CASE PutBlock
  <2>1. CASE link = "up" /\ pipe' = pipe + 1
    BY <1>16, <2>1, PipeAssumption, BlocksAssumption DEF PutBlock, PutLoopUnchanged
  <2>2. CASE link = "none" /\ pipe' = pipe
    BY <1>16, <2>2, PipeAssumption, BlocksAssumption DEF PutBlock, PutLoopUnchanged
  <2> QED
    BY <1>16, <2>1, <2>2 DEF PutBlock
<1>17. CASE PutFails
  BY <1>17 DEF PutFails, PutLoopUnchanged
<1>18. CASE PutTimesOut
  BY <1>18 DEF PutTimesOut, PutLoopUnchanged
<1>19. CASE PutEndOfFile
  BY <1>19 DEF PutEndOfFile, PutLoopUnchanged
<1>20. CASE StartAbort
  BY <1>20 DEF StartAbort, AbortUnchanged
<1>21. CASE AbortWait1
  BY <1>21 DEF AbortWait1, AbortUnchanged
<1>22. CASE AbortWait2
  BY <1>22 DEF AbortWait2, AbortUnchanged
<1>23. CASE AbortReply1
  BY <1>23 DEF AbortReply1, AbortUnchanged
<1>24. CASE AbortReply2
  BY <1>24 DEF AbortReply2, AbortUnchanged
<1>25. CASE ShutdownWriting
  BY <1>25 DEF ShutdownWriting, EndUnchanged
<1>26. CASE WaitForRemoteInput
  BY <1>26 DEF WaitForRemoteInput, EndUnchanged
<1>27. CASE EndReply
  BY <1>27 DEF EndReply, EndUnchanged
<1>28. CASE FTPUtime
  BY <1>28 DEF FTPUtime, EndUnchanged
<1>29. CASE UtimeReply
  BY <1>29 DEF UtimeReply, EndUnchanged
<1>30. CASE FTPCloseHost
  BY <1>30 DEF FTPCloseHost, CloseUnchanged, EndUnchanged
<1>31. CASE QuitReply
  BY <1>31 DEF QuitReply, CloseUnchanged, EndUnchanged
<1>32. CASE Cancel
  BY <1>32 DEF Cancel, server
<1>33. CASE ServerAnswers
  BY <1>33, QuietView, AskedView, StorView, TransferView DEF ServerAnswers, Others, Idle, Storing, QuietStates
<1>34. CASE ServerRefusesStor
  BY <1>34, QuietView, AskedView, StorView, TransferView DEF ServerRefusesStor, Others, Idle, Storing, QuietStates, Answer
<1>35. CASE ServerStartsStor
  BY <1>35, QuietView, AskedView, StorView, TransferView DEF ServerStartsStor, Others, Idle, Storing, QuietStates, Answer
<1>36. CASE ServerConnects
  BY <1>36, QuietView, AskedView, StorView, TransferView DEF ServerConnects, Others, Idle, Storing, QuietStates
<1>37. CASE ServerReads
  BY <1>37, TransferView DEF ServerReads, Others, Storing
<1>38. CASE ServerFinishesStor
  BY <1>38, QuietView, AskedView, StorView, TransferView DEF ServerFinishesStor, ServerEnds, Others, Idle, Storing, QuietStates, Answer
<1>39. CASE ServerFailsStor
  BY <1>39, QuietView, AskedView, StorView, TransferView DEF ServerFailsStor, ServerEnds, Others, Idle, Storing, QuietStates, Answer
<1>40. CASE ServerAborts
  BY <1>40, QuietView, AskedView, StorView, TransferView DEF ServerAborts, Others, Idle, Storing, QuietStates, Answer
<1>41. CASE ServerGone
  BY <1>41 DEF ServerGone, Others
<1>42. CASE UNCHANGED vars
  BY <1>42 DEF vars
<1> QED
  BY <1>1, <1>2, <1>3, <1>4, <1>5, <1>6, <1>7, <1>8, <1>9, <1>10, <1>11, <1>12, <1>13, <1>14, <1>15, <1>16, <1>17, <1>18, <1>19, <1>20, <1>21, <1>22, <1>23, <1>24, <1>25, <1>26, <1>27, <1>28, <1>29, <1>30, <1>31, <1>32, <1>33, <1>34, <1>35, <1>36, <1>37, <1>38, <1>39, <1>40, <1>41, <1>42 DEF Next, Client, Server

LEMMA SettledInv_Next ==
    ASSUME TypeOK, CallInv, ServerInv, SettledInv, loose = 0, loose' = 0,
           ctrl = "open" => InSync /\ BlocksInv, [Next]_vars
    PROVE  SettledInv'
<1> USE DEF TypeOK, ClientTypeOK, client, server, Return, PassiveRefused, Flag, StartUtime,
    AfterMFF, Hangup, CloseDataConnection, FTPShutdownHost, ServerTypeOK, ControlTypeOK, SettledInv, CallInv, Utime, Stored, GetResponseFails, Reply
<1>1. CASE Put
  BY <1>1 DEF Put, PutUnchanged
<1>2. CASE SetTransferType
  BY <1>2 DEF SetTransferType, PutUnchanged
<1>3. CASE TypeReply
  BY <1>3 DEF TypeReply, PutUnchanged
<1>4. CASE StartData
  BY <1>4 DEF StartData, StartUnchanged
<1>5. CASE SendPassive
  BY <1>5 DEF SendPassive, StartUnchanged
<1>6. CASE PassiveExhausted
  BY <1>6 DEF PassiveExhausted, StartUnchanged
<1>7. CASE PasvReply
  BY <1>7 DEF PasvReply, StartUnchanged
<1>8. CASE ConnectSucceeds
  BY <1>8 DEF ConnectSucceeds, StartUnchanged
<1>9. CASE ConnectFails
  BY <1>9 DEF ConnectFails, StartUnchanged
<1>10. CASE SendPort
  BY <1>10 DEF SendPort, StartUnchanged
<1>11. CASE PortReply
  BY <1>11 DEF PortReply, StartUnchanged
<1>12. CASE SendStor
  BY <1>12 DEF SendStor, StartUnchanged
<1>13. CASE StorReply
  BY <1>13 DEF StorReply, StartUnchanged
<1>14. CASE AcceptDataConnection
  BY <1>14 DEF AcceptDataConnection, AcceptUnchanged
<1>15. CASE AcceptFails
  BY <1>15 DEF AcceptFails, AcceptUnchanged
<1>16. CASE PutBlock
  BY <1>16 DEF PutBlock, PutLoopUnchanged
<1>17. CASE PutFails
  BY <1>17 DEF PutFails, PutLoopUnchanged
<1>18. CASE PutTimesOut
  BY <1>18 DEF PutTimesOut, PutLoopUnchanged
<1>19. CASE PutEndOfFile
  BY <1>19 DEF PutEndOfFile, PutLoopUnchanged
<1>20. CASE StartAbort
  BY <1>20 DEF StartAbort, AbortUnchanged
<1>21. CASE AbortWait1
  BY <1>21 DEF AbortWait1, AbortUnchanged
<1>22. CASE AbortWait2
  BY <1>22 DEF AbortWait2, AbortUnchanged
<1>23. CASE AbortReply1
  BY <1>23 DEF AbortReply1, AbortUnchanged
<1>24. CASE AbortReply2
  BY <1>24 DEF AbortReply2, AbortUnchanged
<1>25. CASE ShutdownWriting
  BY <1>25 DEF ShutdownWriting, EndUnchanged
<1>26. CASE WaitForRemoteInput
  BY <1>26 DEF WaitForRemoteInput, EndUnchanged
<1>27. CASE EndReply
  <2>1. CASE ctrl = "open"
    BY <1>27, <2>1, TransferView DEF EndReply, EndUnchanged, GetResponse, BlocksInv, Ending, ServerInv
  <2>2. CASE ctrl = "closed"
    BY <1>27, <2>2 DEF EndReply, EndUnchanged, GetResponse
  <2> QED
    BY <2>1, <2>2
<1>28. CASE FTPUtime
  <2>1. cmds' = cmds \/ \E c \in Commands : c # "STOR" /\ cmds' = Append(cmds, [cmd |-> c, put |-> puts])
    BY <1>28 DEF FTPUtime, Send, SendFails, Commands, Ways
  <2>2. (\A i \in 1 .. Len(cmds) : cmds[i].cmd # "STOR")
          => \A i \in 1 .. Len(cmds') : cmds'[i].cmd # "STOR"
    <3>1. CASE cmds' = cmds
  BY <3>1
    <3>2. ASSUME NEW c \in Commands, c # "STOR", cmds' = Append(cmds, [cmd |-> c, put |-> puts])
          PROVE  (\A i \in 1 .. Len(cmds) : cmds[i].cmd # "STOR")
                   => \A i \in 1 .. Len(cmds') : cmds'[i].cmd # "STOR"
  BY <3>2, AppendCommand
    <3> QED
  BY <2>1, <3>1, <3>2
  <2>3. /\ UNCHANGED <<file, puts, srv, peer>>
        /\ (result' = "ok" \/ pc' \in Utime) => (result = "ok" \/ pc \in Utime)
    BY <1>28 DEF FTPUtime, EndUnchanged, CloseUnchanged, AfterMFF
  <2> QED
    BY <2>2, <2>3
<1>29. CASE UtimeReply
  BY <1>29 DEF UtimeReply, EndUnchanged
<1>30. CASE FTPCloseHost
  <2>1. cmds' = cmds \/ \E c \in Commands : c # "STOR" /\ cmds' = Append(cmds, [cmd |-> c, put |-> puts])
    BY <1>30 DEF FTPCloseHost, Send, SendFails, Commands, Ways
  <2>2. (\A i \in 1 .. Len(cmds) : cmds[i].cmd # "STOR")
          => \A i \in 1 .. Len(cmds') : cmds'[i].cmd # "STOR"
    <3>1. CASE cmds' = cmds
  BY <3>1
    <3>2. ASSUME NEW c \in Commands, c # "STOR", cmds' = Append(cmds, [cmd |-> c, put |-> puts])
          PROVE  (\A i \in 1 .. Len(cmds) : cmds[i].cmd # "STOR")
                   => \A i \in 1 .. Len(cmds') : cmds'[i].cmd # "STOR"
  BY <3>2, AppendCommand
    <3> QED
  BY <2>1, <3>1, <3>2
  <2>3. /\ UNCHANGED <<file, puts, srv, peer>>
        /\ (result' = "ok" \/ pc' \in Utime) => (result = "ok" \/ pc \in Utime)
    BY <1>30 DEF FTPCloseHost, EndUnchanged, CloseUnchanged, AfterMFF
  <2> QED
    BY <2>2, <2>3
<1>31. CASE QuitReply
  BY <1>31 DEF QuitReply, CloseUnchanged, EndUnchanged
<1>32. CASE Cancel
  BY <1>32 DEF Cancel, server
<1>33. CASE ServerAnswers
  BY <1>33, TailCommands DEF ServerAnswers, Others, Idle
<1>34. CASE ServerRefusesStor
  BY <1>34 DEF ServerRefusesStor, Others
<1>35. CASE ServerStartsStor
  BY <1>35, FirstCommand DEF ServerStartsStor, Others, Idle, Command
<1>36. CASE ServerConnects
  BY <1>36 DEF ServerConnects, Others
<1>37. CASE ServerReads
  BY <1>37 DEF ServerReads, Others
<1>38. CASE ServerFinishesStor
  BY <1>38 DEF ServerFinishesStor, ServerEnds, Others, Storing
<1>39. CASE ServerFailsStor
  BY <1>39 DEF ServerFailsStor, ServerEnds, Others
<1>40. CASE ServerAborts
  BY <1>40 DEF ServerAborts, Others
<1>41. CASE ServerGone
  BY <1>41 DEF ServerGone, Others
<1>42. CASE UNCHANGED vars
  BY <1>42 DEF vars
<1> QED
  BY <1>1, <1>2, <1>3, <1>4, <1>5, <1>6, <1>7, <1>8, <1>9, <1>10, <1>11, <1>12, <1>13, <1>14, <1>15, <1>16, <1>17, <1>18, <1>19, <1>20, <1>21, <1>22, <1>23, <1>24, <1>25, <1>26, <1>27, <1>28, <1>29, <1>30, <1>31, <1>32, <1>33, <1>34, <1>35, <1>36, <1>37, <1>38, <1>39, <1>40, <1>41, <1>42 DEF Next, Client, Server

LEMMA StoredInv_Next ==
    ASSUME TypeOK, SyncInv, SocketInv, StoredInv, [Next]_vars
    PROVE  StoredInv'
<1>1. CallInv' /\ ServerInv'
  BY CallInv_Next, ServerInv_Next DEF SyncInv, StoredInv
<1>2. (loose' = 0 => loose = 0) /\ (ctrl' = "open" => ctrl = "open")
  BY Latched
<1>3. (loose' = 0 /\ ctrl' = "open") => LinkInv' /\ BlocksInv'
  BY <1>2, LinkInv_Next, BlocksInv_Next DEF SyncInv, StoredInv
<1>4. loose' = 0 => SettledInv'
  BY <1>2, SettledInv_Next DEF SyncInv, StoredInv
<1> QED
  BY <1>1, <1>3, <1>4 DEF StoredInv

LEMMA StoredInv_Init == Init => StoredInv
  BY DEF Init, StoredInv, CallInv, ServerInv, LinkInv, BlocksInv, SettledInv, Setup, Starting,
         Ending, Utime

\* The inductive invariant behind OkMeansStored, whatever the number of puts, the
\* size of the file and the capacity of the pipe.
THEOREM StoredInvHolds == Spec => []StoredInv
<1>1. Init => CanceledInv /\ SocketInv
  BY DEF Init, CanceledInv, SocketInv, Utime
<1>2. TypeOK /\ CanceledInv /\ SocketInv /\ [Next]_vars => CanceledInv' /\ SocketInv'
  BY CanceledInv_Next, SocketInv_Next
<1>3. TypeOK /\ SyncInv /\ SocketInv /\ StoredInv /\ [Next]_vars => StoredInv'
  BY StoredInv_Next
<1>4. SyncInv => CanceledInv
  BY DEF SyncInv
<1> QED
  BY TypeCorrect, SyncInvHolds, StoredInv_Init, <1>1, <1>2, <1>3, <1>4, PTL DEF Spec

\* OkMeansStored: when FTPPutOneFile returns kNoErr and no transfer was left with a
\* reply owed, the server holds the whole of the file of this very call.
THEOREM OkMeansStoredHolds == Spec => []OkMeansStored
<1>1. StoredInv => OkMeansStored
  BY DEF StoredInv, SettledInv, Stored, OkMeansStored
<1> QED
  BY StoredInvHolds, <1>1, PTL

-----------------------------------------------------------------------------
(***************************************************************************)
(* The steps of the session are steps of FtpJob.  That takes some more      *)
(* invariants, which hold also after the client has lost count of the      *)
(* replies: the server takes the calls in their order and stores a file at *)
(* most once for each of them, and none before the first.                  *)
(***************************************************************************)
QueueInv ==
    /\ file.put <= puts
    /\ \A i \in 1 .. Len(cmds) : file.put <= cmds[i].put /\ cmds[i].put <= puts
    /\ \A i, j \in 1 .. Len(cmds) : i <= j => cmds[i].put <= cmds[j].put

NoStorAhead == \A i \in 1 .. Len(cmds) : cmds[i] # Cmd("STOR")

OnceInv ==
    /\ \A i, j \in 1 .. Len(cmds) : cmds[i] = Cmd("STOR") /\ cmds[j] = Cmd("STOR") => i = j
    /\ (file.put = puts \/ pc \in Setup \cup {"sendStor"}) => NoStorAhead
    /\ pc \in Setup \cup {"sendStor"} => file.put # puts

Resting == {"ready", "quitReply", "closed"}

FreshInv ==
    (pc \in Resting /\ result = "none") =>
        /\ srv = "idle"
        /\ \A i \in 1 .. Len(cmds) : cmds[i].cmd # "STOR"

JobInv == QueueInv /\ OnceInv /\ FreshInv

LEMMA QueueKept ==
    ASSUME QueueInv, UNCHANGED <<puts, cmds>>, file'.put = file.put
    PROVE  QueueInv'
  BY DEF QueueInv

LEMMA QueueSent ==
    ASSUME TypeOK, QueueInv, UNCHANGED <<puts, file>>, NEW c \in Commands,
           cmds' = Append(cmds, [cmd |-> c, put |-> puts])
    PROVE  QueueInv'
<1>1. /\ cmds \in Seq(CommandRecord) /\ puts \in Nat
      /\ [cmd |-> c, put |-> puts] \in CommandRecord
  BY MaxPutsAssumption DEF TypeOK, ClientTypeOK, ControlTypeOK, CommandRecord
<1>2. /\ Len(cmds') = Len(cmds) + 1 /\ Len(cmds) \in Nat
      /\ \A i \in 1 .. Len(cmds) : cmds'[i] = cmds[i]
      /\ cmds'[Len(cmds) + 1].put = puts
  BY <1>1
<1>3. \A i \in 1 .. Len(cmds') : i \in 1 .. Len(cmds) \/ i = Len(cmds) + 1
  BY <1>2
<1>4. puts <= puts
  BY <1>1
<1>5. \A i \in 1 .. Len(cmds') : file.put <= cmds'[i].put /\ cmds'[i].put <= puts
  BY <1>2, <1>3, <1>4 DEF QueueInv
<1>6. ASSUME NEW i \in 1 .. Len(cmds'), NEW j \in 1 .. Len(cmds'), i <= j
      PROVE  cmds'[i].put <= cmds'[j].put
  <2>1. CASE j = Len(cmds) + 1
    BY <1>2, <1>5, <2>1
  <2>2. CASE j \in 1 .. Len(cmds)
    <3>1. i \in 1 .. Len(cmds)
      BY <1>2, <1>6, <2>2
    <3> QED
      BY <1>2, <1>6, <2>2, <3>1 DEF QueueInv
  <2> QED
    BY <1>3, <2>1, <2>2
<1> QED
  BY <1>5, <1>6 DEF QueueInv

\* The server takes the first command.
LEMMA QueueTaken ==
    ASSUME TypeOK, QueueInv, puts' = puts, cmds # <<>>, cmds' = Tail(cmds),
           file'.put \in {file.put, Command.put}
    PROVE  QueueInv'
<1>1. cmds \in Seq(CommandRecord) /\ puts \in Nat
  BY MaxPutsAssumption DEF TypeOK, ClientTypeOK, ControlTypeOK
<1>2. /\ Len(cmds) \in Nat /\ Len(cmds) >= 1 /\ Len(cmds') = Len(cmds) - 1
      /\ \A i \in 1 .. Len(cmds') : cmds'[i] = cmds[i + 1]
      /\ Command = cmds[1]
  BY <1>1 DEF Command
<1>3. /\ \A i \in 1 .. Len(cmds') : i + 1 \in 1 .. Len(cmds) /\ 1 <= i + 1
      /\ 1 \in 1 .. Len(cmds)
      /\ \A i, j \in 1 .. Len(cmds') : i <= j => i + 1 <= j + 1
  BY <1>2
<1>4. \A i \in 1 .. Len(cmds') : file'.put <= cmds'[i].put /\ cmds'[i].put <= puts
  BY <1>2, <1>3 DEF QueueInv
<1>5. \A i, j \in 1 .. Len(cmds') : i <= j => cmds'[i].put <= cmds'[j].put
  BY <1>2, <1>3 DEF QueueInv
<1>6. file'.put <= puts
  BY <1>2, <1>3 DEF QueueInv
<1> QED
  BY <1>4, <1>5, <1>6 DEF QueueInv

LEMMA QueueForgotten ==
    ASSUME QueueInv, UNCHANGED <<puts, file>>, cmds' = <<>>
    PROVE  QueueInv'
<1>1. \A i \in 1 .. Len(cmds') : FALSE
  OBVIOUS
<1> QED
  BY <1>1 DEF QueueInv

LEMMA QueueNext ==
    ASSUME TypeOK, QueueInv, UNCHANGED <<file, cmds>>, puts' = puts + 1
    PROVE  QueueInv'
<1>1. /\ puts \in Nat /\ file.put \in Nat
      /\ \A i \in 1 .. Len(cmds) : cmds[i].put \in Nat
  <2>1. puts \in Nat /\ file.put \in Nat /\ cmds \in Seq(CommandRecord)
    BY MaxPutsAssumption DEF TypeOK, ClientTypeOK, ControlTypeOK, ServerTypeOK
  <2>2. \A i \in 1 .. Len(cmds) : cmds[i] \in CommandRecord
    BY <2>1
  <2>3. \A c \in CommandRecord : c.put \in Nat
    BY MaxPutsAssumption DEF CommandRecord
  <2> QED
    BY <2>1, <2>2, <2>3
<1>2. \A n \in Nat : n <= puts => n <= puts'
  BY <1>1
<1> QED
  BY <1>1, <1>2 DEF QueueInv

LEMMA QueueInv_Next ==
    ASSUME TypeOK, QueueInv, [Next]_vars
    PROVE  QueueInv'
<1> USE DEF TypeOK, ClientTypeOK, client, server, Return, PassiveRefused, Flag, StartUtime,
    AfterMFF, CloseDataConnection, FTPShutdownHost, Setup, GetResponseFails
<1>1. CASE Put
  BY <1>1, QueueNext DEF Put, PutUnchanged
<1>2. CASE SetTransferType
  <2>1. cmds' = cmds \/ \E c \in Commands : cmds' = Append(cmds, [cmd |-> c, put |-> puts])
    BY <1>2 DEF SetTransferType, Send, SendFails, Commands, Ways
  <2>2. UNCHANGED <<puts, file>>
    BY <1>2 DEF SetTransferType, PutUnchanged
  <2> QED
    BY <2>1, <2>2, QueueKept, QueueSent
<1>3. CASE TypeReply
  BY <1>3, QueueKept DEF TypeReply, PutUnchanged
<1>4. CASE StartData
  BY <1>4, QueueKept DEF StartData, StartUnchanged
<1>5. CASE SendPassive
  <2>1. cmds' = cmds \/ \E c \in Commands : cmds' = Append(cmds, [cmd |-> c, put |-> puts])
    BY <1>5 DEF SendPassive, Send, SendFails, Commands, Ways
  <2>2. UNCHANGED <<puts, file>>
    BY <1>5 DEF SendPassive, StartUnchanged
  <2> QED
    BY <2>1, <2>2, QueueKept, QueueSent
<1>6. CASE PassiveExhausted
  BY <1>6, QueueKept DEF PassiveExhausted, StartUnchanged
<1>7. CASE PasvReply
  BY <1>7, QueueKept DEF PasvReply, StartUnchanged
<1>8. CASE ConnectSucceeds
  BY <1>8, QueueKept DEF ConnectSucceeds, StartUnchanged
<1>9. CASE ConnectFails
  BY <1>9, QueueKept DEF ConnectFails, StartUnchanged
<1>10. CASE SendPort
  <2>1. cmds' = cmds \/ \E c \in Commands : cmds' = Append(cmds, [cmd |-> c, put |-> puts])
    BY <1>10 DEF SendPort, Send, SendFails, Commands, Ways
  <2>2. UNCHANGED <<puts, file>>
    BY <1>10 DEF SendPort, StartUnchanged
  <2> QED
    BY <2>1, <2>2, QueueKept, QueueSent
<1>11. CASE PortReply
  BY <1>11, QueueKept DEF PortReply, StartUnchanged
<1>12. CASE SendStor
  <2>1. CASE cmds' = Append(cmds, [cmd |-> "STOR", put |-> puts])
    BY <1>12, <2>1, QueueSent DEF SendStor, StartUnchanged, Commands
  <2>2. CASE cmds' = cmds
    BY <1>12, <2>2, QueueKept DEF SendStor, StartUnchanged
  <2> QED
    BY <1>12, <2>1, <2>2 DEF SendStor, Send, SendFails
<1>13. CASE StorReply
  BY <1>13, QueueKept DEF StorReply, StartUnchanged
<1>14. CASE AcceptDataConnection
  BY <1>14, QueueKept DEF AcceptDataConnection, AcceptUnchanged
<1>15. CASE AcceptFails
  BY <1>15, QueueKept DEF AcceptFails, AcceptUnchanged
<1>16. CASE PutBlock
  BY <1>16, QueueKept DEF PutBlock, PutLoopUnchanged
<1>17. CASE PutFails
  BY <1>17, QueueKept DEF PutFails, PutLoopUnchanged
<1>18. CASE PutTimesOut
  BY <1>18, QueueKept DEF PutTimesOut, PutLoopUnchanged
<1>19. CASE PutEndOfFile
  BY <1>19, QueueKept DEF PutEndOfFile, PutLoopUnchanged
<1>20. CASE StartAbort
  <2>1. cmds' = cmds \/ \E c \in Commands : cmds' = Append(cmds, [cmd |-> c, put |-> puts])
    BY <1>20 DEF StartAbort, Send, SendFails, Commands, Ways
  <2>2. UNCHANGED <<puts, file>>
    BY <1>20 DEF StartAbort, AbortUnchanged
  <2> QED
    BY <2>1, <2>2, QueueKept, QueueSent
<1>21. CASE AbortWait1
  BY <1>21, QueueKept DEF AbortWait1, AbortUnchanged
<1>22. CASE AbortWait2
  BY <1>22, QueueKept DEF AbortWait2, AbortUnchanged
<1>23. CASE AbortReply1
  BY <1>23, QueueKept DEF AbortReply1, AbortUnchanged
<1>24. CASE AbortReply2
  BY <1>24, QueueKept DEF AbortReply2, AbortUnchanged
<1>25. CASE ShutdownWriting
  BY <1>25, QueueKept DEF ShutdownWriting, EndUnchanged
<1>26. CASE WaitForRemoteInput
  BY <1>26, QueueKept DEF WaitForRemoteInput, EndUnchanged
<1>27. CASE EndReply
  BY <1>27, QueueKept DEF EndReply, EndUnchanged
<1>28. CASE FTPUtime
  <2>1. cmds' = cmds \/ \E c \in Commands : cmds' = Append(cmds, [cmd |-> c, put |-> puts])
    BY <1>28 DEF FTPUtime, Send, SendFails, Commands, Ways
  <2>2. UNCHANGED <<puts, file>>
    BY <1>28 DEF FTPUtime, EndUnchanged
  <2> QED
    BY <2>1, <2>2, QueueKept, QueueSent
<1>29. CASE UtimeReply
  BY <1>29, QueueKept DEF UtimeReply, EndUnchanged
<1>30. CASE FTPCloseHost
  <2>1. cmds' = cmds \/ \E c \in Commands : cmds' = Append(cmds, [cmd |-> c, put |-> puts])
    BY <1>30 DEF FTPCloseHost, Send, SendFails, Commands, Ways
  <2>2. UNCHANGED <<puts, file>>
    BY <1>30 DEF FTPCloseHost, CloseUnchanged, EndUnchanged
  <2> QED
    BY <2>1, <2>2, QueueKept, QueueSent
<1>31. CASE QuitReply
  BY <1>31, QueueKept DEF QuitReply, CloseUnchanged, EndUnchanged
<1>32. CASE Cancel
  BY <1>32, QueueKept DEF Cancel, server
<1>33. CASE ServerAnswers
  BY <1>33, QueueTaken DEF ServerAnswers, Others, Idle
<1>34. CASE ServerRefusesStor
  BY <1>34, QueueTaken DEF ServerRefusesStor, Others, Idle
<1>35. CASE ServerStartsStor
  BY <1>35, QueueTaken DEF ServerStartsStor, Others, Idle
<1>36. CASE ServerConnects
  BY <1>36, QueueKept DEF ServerConnects, Others
<1>37. CASE ServerReads
  BY <1>37, QueueKept DEF ServerReads, Others
<1>38. CASE ServerFinishesStor
  BY <1>38, QueueKept DEF ServerFinishesStor, ServerEnds, Others, ServerTypeOK
<1>39. CASE ServerFailsStor
  BY <1>39, QueueKept DEF ServerFailsStor, ServerEnds, Others
<1>40. CASE ServerAborts
  BY <1>40, QueueTaken DEF ServerAborts, Others
<1>41. CASE ServerGone
  BY <1>41, QueueForgotten DEF ServerGone, Others
<1>42. CASE UNCHANGED vars
  BY <1>42, QueueKept DEF vars
<1> QED
  BY <1>1, <1>2, <1>3, <1>4, <1>5, <1>6, <1>7, <1>8, <1>9, <1>10, <1>11, <1>12, <1>13, <1>14, <1>15, <1>16, <1>17, <1>18, <1>19, <1>20, <1>21, <1>22, <1>23, <1>24, <1>25, <1>26, <1>27, <1>28, <1>29, <1>30, <1>31, <1>32, <1>33, <1>34, <1>35, <1>36, <1>37, <1>38, <1>39, <1>40, <1>41, <1>42 DEF Next, Client, Server

LEMMA OnceKept ==
    ASSUME OnceInv, UNCHANGED <<puts, cmds>>, file'.put = file.put,
           pc' \in Setup \cup {"sendStor"} => pc \in Setup \cup {"sendStor"}
    PROVE  OnceInv'
  BY DEF OnceInv, NoStorAhead, Cmd

LEMMA OnceSent ==
    ASSUME TypeOK, OnceInv, UNCHANGED <<puts, file>>, NEW c \in Commands, c # "STOR",
           cmds' = Append(cmds, [cmd |-> c, put |-> puts]),
           pc' \in Setup \cup {"sendStor"} => pc \in Setup \cup {"sendStor"}
    PROVE  OnceInv'
<1>1. /\ cmds \in Seq(CommandRecord) /\ puts \in Nat
      /\ [cmd |-> c, put |-> puts] \in CommandRecord
  BY MaxPutsAssumption DEF TypeOK, ClientTypeOK, ControlTypeOK, CommandRecord
<1>2. /\ Len(cmds') = Len(cmds) + 1 /\ Len(cmds) \in Nat
      /\ \A i \in 1 .. Len(cmds) : cmds'[i] = cmds[i]
      /\ cmds'[Len(cmds) + 1] = [cmd |-> c, put |-> puts]
  BY <1>1
<1>3. \A i \in 1 .. Len(cmds') : i \in 1 .. Len(cmds) \/ i = Len(cmds) + 1
  BY <1>2
<1>4. [cmd |-> c, put |-> puts] # Cmd("STOR")
  BY DEF Cmd
<1>5. Cmd("STOR")' = Cmd("STOR")
  BY DEF Cmd
<1>6. \A i \in 1 .. Len(cmds') : cmds'[i] = Cmd("STOR")' =>
          i \in 1 .. Len(cmds) /\ cmds[i] = Cmd("STOR")
  BY <1>2, <1>3, <1>4, <1>5
<1>7. NoStorAhead => NoStorAhead'
  BY <1>6 DEF NoStorAhead
<1> QED
  BY <1>6, <1>7 DEF OnceInv

LEMMA OnceAsked ==
    ASSUME TypeOK, OnceInv, UNCHANGED <<puts, file>>, pc = "sendStor",
           cmds' = Append(cmds, Cmd("STOR")), pc' \notin Setup \cup {"sendStor"}
    PROVE  OnceInv'
<1>1. /\ cmds \in Seq(CommandRecord) /\ puts \in Nat
      /\ Cmd("STOR") \in CommandRecord
  BY MaxPutsAssumption DEF TypeOK, ClientTypeOK, ControlTypeOK, CommandRecord, Cmd, Commands
<1>2. /\ Len(cmds') = Len(cmds) + 1 /\ Len(cmds) \in Nat
      /\ \A i \in 1 .. Len(cmds) : cmds'[i] = cmds[i]
      /\ cmds'[Len(cmds) + 1] = Cmd("STOR")
  BY <1>1
<1>3. \A i \in 1 .. Len(cmds') : i \in 1 .. Len(cmds) \/ i = Len(cmds) + 1
  BY <1>2
<1>4. NoStorAhead /\ file.put # puts
  BY DEF OnceInv
<1>5. Cmd("STOR")' = Cmd("STOR") /\ Cmd("STOR").put = puts
  BY DEF Cmd
<1>6. \A i \in 1 .. Len(cmds') : cmds'[i] = Cmd("STOR")' => i = Len(cmds) + 1
  BY <1>2, <1>3, <1>4, <1>5 DEF NoStorAhead
<1> QED
  BY <1>4, <1>6 DEF OnceInv

\* The server takes the first command.
LEMMA OnceTaken ==
    ASSUME TypeOK, OnceInv, UNCHANGED <<puts, pc>>, cmds # <<>>, cmds' = Tail(cmds),
           \/ file' = file
           \/ Command.cmd = "STOR" /\ file' = [put |-> Command.put, part |-> "partial"]
    PROVE  OnceInv'
<1>1. cmds \in Seq(CommandRecord)
  BY DEF TypeOK, ControlTypeOK
<1>2. /\ Len(cmds) \in Nat /\ Len(cmds) >= 1 /\ Len(cmds') = Len(cmds) - 1
      /\ \A i \in 1 .. Len(cmds') : cmds'[i] = cmds[i + 1]
      /\ Command = cmds[1] /\ Command \in CommandRecord
  BY <1>1 DEF Command
<1>3. /\ \A i \in 1 .. Len(cmds') : i + 1 \in 1 .. Len(cmds) /\ i + 1 # 1
      /\ 1 \in 1 .. Len(cmds)
  BY <1>2
<1>4. Cmd("STOR")' = Cmd("STOR")
  BY DEF Cmd
<1>5. \A i, j \in 1 .. Len(cmds') : cmds'[i] = Cmd("STOR")' /\ cmds'[j] = Cmd("STOR")' => i = j
  <2> SUFFICES ASSUME NEW i \in 1 .. Len(cmds'), NEW j \in 1 .. Len(cmds'),
                      cmds'[i] = Cmd("STOR")', cmds'[j] = Cmd("STOR")'
               PROVE  i = j
    OBVIOUS
  <2>1. i + 1 = j + 1
    BY <1>2, <1>3, <1>4 DEF OnceInv
  <2> QED
    BY <1>2, <2>1
<1>6. NoStorAhead => NoStorAhead'
  BY <1>2, <1>3, <1>4 DEF NoStorAhead
<1>7. CASE file' = file
  BY <1>5, <1>6, <1>7 DEF OnceInv
<1>8. CASE Command.cmd = "STOR" /\ file' = [put |-> Command.put, part |-> "partial"]
  <2>1. file'.put = puts' => Command = Cmd("STOR")
    BY <1>2, <1>8 DEF CommandRecord, Cmd
  <2>2. Command = Cmd("STOR") => NoStorAhead'
    BY <1>2, <1>3, <1>4 DEF OnceInv, NoStorAhead
  <2>3. pc \in Setup \cup {"sendStor"} => Command # Cmd("STOR")
    BY <1>2, <1>3 DEF OnceInv, NoStorAhead
  <2>4. pc \in Setup \cup {"sendStor"} => NoStorAhead'
    BY <1>6 DEF OnceInv
  <2> QED
    BY <1>5, <2>1, <2>2, <2>3, <2>4 DEF OnceInv
<1> QED
  BY <1>7, <1>8

LEMMA OnceForgotten ==
    ASSUME OnceInv, UNCHANGED <<puts, pc, file>>, cmds' = <<>>
    PROVE  OnceInv'
<1>1. \A i \in 1 .. Len(cmds') : FALSE
  OBVIOUS
<1> QED
  BY <1>1 DEF OnceInv, NoStorAhead

LEMMA OnceNext ==
    ASSUME TypeOK, QueueInv, OnceInv, UNCHANGED <<file, cmds>>, puts' = puts + 1
    PROVE  OnceInv'
<1>1. /\ puts \in Nat
      /\ \A i \in 1 .. Len(cmds) : cmds[i].put \in Nat
      /\ file.put \in Nat
  <2>1. puts \in Nat /\ file.put \in Nat /\ cmds \in Seq(CommandRecord)
    BY MaxPutsAssumption DEF TypeOK, ClientTypeOK, ControlTypeOK, ServerTypeOK
  <2>2. \A i \in 1 .. Len(cmds) : cmds[i] \in CommandRecord
    BY <2>1
  <2>3. \A c \in CommandRecord : c.put \in Nat
    BY MaxPutsAssumption DEF CommandRecord
  <2> QED
    BY <2>1, <2>2, <2>3
<1>2. Cmd("STOR")'.put = puts'
  BY DEF Cmd
<1>3. \A n \in Nat : n <= puts => n <= puts' /\ n # puts'
  BY <1>1
<1>4. \A i \in 1 .. Len(cmds') : cmds'[i] # Cmd("STOR")'
  BY <1>1, <1>2, <1>3 DEF QueueInv
<1> QED
  BY <1>1, <1>3, <1>4 DEF QueueInv, OnceInv, NoStorAhead

LEMMA OnceInv_Next ==
    ASSUME TypeOK, QueueInv, OnceInv, [Next]_vars
    PROVE  OnceInv'
<1> USE DEF TypeOK, ClientTypeOK, client, server, Return, PassiveRefused, Flag, StartUtime,
    AfterMFF, CloseDataConnection, FTPShutdownHost, Setup, GetResponseFails
<1>1. CASE Put
  BY <1>1, OnceNext DEF Put, PutUnchanged
<1>2. CASE SetTransferType
  <2>1. cmds' = cmds \/ \E c \in Commands \ {"STOR"} : cmds' = Append(cmds, [cmd |-> c, put |-> puts])
    BY <1>2 DEF SetTransferType, Send, SendFails, Commands, Ways
  <2>2. UNCHANGED <<puts, file>> /\ (pc' \in Setup \cup {"sendStor"} => pc \in Setup \cup {"sendStor"})
    BY <1>2 DEF SetTransferType, PutUnchanged
  <2> QED
    BY <2>1, <2>2, OnceKept, OnceSent
<1>3. CASE TypeReply
  BY <1>3, OnceKept DEF TypeReply, PutUnchanged
<1>4. CASE StartData
  BY <1>4, OnceKept DEF StartData, StartUnchanged
<1>5. CASE SendPassive
  <2>1. cmds' = cmds \/ \E c \in Commands \ {"STOR"} : cmds' = Append(cmds, [cmd |-> c, put |-> puts])
    BY <1>5 DEF SendPassive, Send, SendFails, Commands, Ways
  <2>2. UNCHANGED <<puts, file>> /\ (pc' \in Setup \cup {"sendStor"} => pc \in Setup \cup {"sendStor"})
    BY <1>5 DEF SendPassive, StartUnchanged
  <2> QED
    BY <2>1, <2>2, OnceKept, OnceSent
<1>6. CASE PassiveExhausted
  BY <1>6, OnceKept DEF PassiveExhausted, StartUnchanged
<1>7. CASE PasvReply
  BY <1>7, OnceKept DEF PasvReply, StartUnchanged
<1>8. CASE ConnectSucceeds
  BY <1>8, OnceKept DEF ConnectSucceeds, StartUnchanged
<1>9. CASE ConnectFails
  BY <1>9, OnceKept DEF ConnectFails, StartUnchanged
<1>10. CASE SendPort
  <2>1. cmds' = cmds \/ \E c \in Commands \ {"STOR"} : cmds' = Append(cmds, [cmd |-> c, put |-> puts])
    BY <1>10 DEF SendPort, Send, SendFails, Commands, Ways
  <2>2. UNCHANGED <<puts, file>> /\ (pc' \in Setup \cup {"sendStor"} => pc \in Setup \cup {"sendStor"})
    BY <1>10 DEF SendPort, StartUnchanged
  <2> QED
    BY <2>1, <2>2, OnceKept, OnceSent
<1>11. CASE PortReply
  BY <1>11, OnceKept DEF PortReply, StartUnchanged
<1>12. CASE SendStor
  <2>1. CASE cmds' = Append(cmds, Cmd("STOR")) /\ pc' = "storReply"
    BY <1>12, <2>1, OnceAsked DEF SendStor, StartUnchanged
  <2>2. CASE cmds' = cmds /\ pc' = "ready"
    BY <1>12, <2>2, OnceKept DEF SendStor, StartUnchanged
  <2> QED
    BY <1>12, <2>1, <2>2 DEF SendStor, Send, SendFails, Cmd
<1>13. CASE StorReply
  BY <1>13, OnceKept DEF StorReply, StartUnchanged
<1>14. CASE AcceptDataConnection
  BY <1>14, OnceKept DEF AcceptDataConnection, AcceptUnchanged
<1>15. CASE AcceptFails
  BY <1>15, OnceKept DEF AcceptFails, AcceptUnchanged
<1>16. CASE PutBlock
  BY <1>16, OnceKept DEF PutBlock, PutLoopUnchanged
<1>17. CASE PutFails
  BY <1>17, OnceKept DEF PutFails, PutLoopUnchanged
<1>18. CASE PutTimesOut
  BY <1>18, OnceKept DEF PutTimesOut, PutLoopUnchanged
<1>19. CASE PutEndOfFile
  BY <1>19, OnceKept DEF PutEndOfFile, PutLoopUnchanged
<1>20. CASE StartAbort
  <2>1. cmds' = cmds \/ \E c \in Commands \ {"STOR"} : cmds' = Append(cmds, [cmd |-> c, put |-> puts])
    BY <1>20 DEF StartAbort, Send, SendFails, Commands, Ways
  <2>2. UNCHANGED <<puts, file>> /\ (pc' \in Setup \cup {"sendStor"} => pc \in Setup \cup {"sendStor"})
    BY <1>20 DEF StartAbort, AbortUnchanged
  <2> QED
    BY <2>1, <2>2, OnceKept, OnceSent
<1>21. CASE AbortWait1
  BY <1>21, OnceKept DEF AbortWait1, AbortUnchanged
<1>22. CASE AbortWait2
  BY <1>22, OnceKept DEF AbortWait2, AbortUnchanged
<1>23. CASE AbortReply1
  BY <1>23, OnceKept DEF AbortReply1, AbortUnchanged
<1>24. CASE AbortReply2
  BY <1>24, OnceKept DEF AbortReply2, AbortUnchanged
<1>25. CASE ShutdownWriting
  BY <1>25, OnceKept DEF ShutdownWriting, EndUnchanged
<1>26. CASE WaitForRemoteInput
  BY <1>26, OnceKept DEF WaitForRemoteInput, EndUnchanged
<1>27. CASE EndReply
  BY <1>27, OnceKept DEF EndReply, EndUnchanged
<1>28. CASE FTPUtime
  <2>1. cmds' = cmds \/ \E c \in Commands \ {"STOR"} : cmds' = Append(cmds, [cmd |-> c, put |-> puts])
    BY <1>28 DEF FTPUtime, Send, SendFails, Commands, Ways
  <2>2. UNCHANGED <<puts, file>> /\ (pc' \in Setup \cup {"sendStor"} => pc \in Setup \cup {"sendStor"})
    BY <1>28 DEF FTPUtime, EndUnchanged
  <2> QED
    BY <2>1, <2>2, OnceKept, OnceSent
<1>29. CASE UtimeReply
  BY <1>29, OnceKept DEF UtimeReply, EndUnchanged
<1>30. CASE FTPCloseHost
  <2>1. cmds' = cmds \/ \E c \in Commands \ {"STOR"} : cmds' = Append(cmds, [cmd |-> c, put |-> puts])
    BY <1>30 DEF FTPCloseHost, Send, SendFails, Commands, Ways
  <2>2. UNCHANGED <<puts, file>> /\ (pc' \in Setup \cup {"sendStor"} => pc \in Setup \cup {"sendStor"})
    BY <1>30 DEF FTPCloseHost, CloseUnchanged, EndUnchanged
  <2> QED
    BY <2>1, <2>2, OnceKept, OnceSent
<1>31. CASE QuitReply
  BY <1>31, OnceKept DEF QuitReply, CloseUnchanged, EndUnchanged
<1>32. CASE Cancel
  BY <1>32, OnceKept DEF Cancel, server
<1>33. CASE ServerAnswers
  BY <1>33, OnceTaken DEF ServerAnswers, Others, Idle
<1>34. CASE ServerRefusesStor
  BY <1>34, OnceTaken DEF ServerRefusesStor, Others, Idle
<1>35. CASE ServerStartsStor
  BY <1>35, OnceTaken DEF ServerStartsStor, Others, Idle
<1>36. CASE ServerConnects
  BY <1>36, OnceKept DEF ServerConnects, Others
<1>37. CASE ServerReads
  BY <1>37, OnceKept DEF ServerReads, Others
<1>38. CASE ServerFinishesStor
  BY <1>38, OnceKept DEF ServerFinishesStor, ServerEnds, Others, ServerTypeOK
<1>39. CASE ServerFailsStor
  BY <1>39, OnceKept DEF ServerFailsStor, ServerEnds, Others
<1>40. CASE ServerAborts
  BY <1>40, OnceTaken DEF ServerAborts, Others
<1>41. CASE ServerGone
  BY <1>41, OnceForgotten DEF ServerGone, Others
<1>42. CASE UNCHANGED vars
  BY <1>42, OnceKept DEF vars
<1> QED
  BY <1>1, <1>2, <1>3, <1>4, <1>5, <1>6, <1>7, <1>8, <1>9, <1>10, <1>11, <1>12, <1>13, <1>14, <1>15, <1>16, <1>17, <1>18, <1>19, <1>20, <1>21, <1>22, <1>23, <1>24, <1>25, <1>26, <1>27, <1>28, <1>29, <1>30, <1>31, <1>32, <1>33, <1>34, <1>35, <1>36, <1>37, <1>38, <1>39, <1>40, <1>41, <1>42 DEF Next, Client, Server

LEMMA FreshSent ==
    ASSUME TypeOK, FreshInv, UNCHANGED <<srv, result>>, pc \in Resting,
           NEW c \in Commands, c # "STOR", cmds' = Append(cmds, [cmd |-> c, put |-> puts])
    PROVE  FreshInv'
  BY AppendCommand DEF FreshInv, TypeOK, ControlTypeOK

LEMMA FreshInv_Next ==
    ASSUME TypeOK, CallInv, FreshInv, [Next]_vars
    PROVE  FreshInv'
<1> USE DEF TypeOK, ClientTypeOK, client, server, Return, PassiveRefused, Flag, StartUtime,
    AfterMFF, CloseDataConnection, FTPShutdownHost, GetResponseFails, CallInv, FreshInv, Resting
<1>1. CASE Put
  BY <1>1 DEF Put, PutUnchanged
<1>2. CASE SetTransferType
  BY <1>2 DEF SetTransferType, PutUnchanged
<1>3. CASE TypeReply
  BY <1>3 DEF TypeReply, PutUnchanged
<1>4. CASE StartData
  BY <1>4 DEF StartData, StartUnchanged
<1>5. CASE SendPassive
  BY <1>5 DEF SendPassive, StartUnchanged
<1>6. CASE PassiveExhausted
  BY <1>6 DEF PassiveExhausted, StartUnchanged
<1>7. CASE PasvReply
  BY <1>7 DEF PasvReply, StartUnchanged
<1>8. CASE ConnectSucceeds
  BY <1>8 DEF ConnectSucceeds, StartUnchanged
<1>9. CASE ConnectFails
  BY <1>9 DEF ConnectFails, StartUnchanged
<1>10. CASE SendPort
  BY <1>10 DEF SendPort, StartUnchanged
<1>11. CASE PortReply
  BY <1>11 DEF PortReply, StartUnchanged
<1>12. CASE SendStor
  BY <1>12 DEF SendStor, StartUnchanged
<1>13. CASE StorReply
  BY <1>13 DEF StorReply, StartUnchanged
<1>14. CASE AcceptDataConnection
  BY <1>14 DEF AcceptDataConnection, AcceptUnchanged
<1>15. CASE AcceptFails
  BY <1>15 DEF AcceptFails, AcceptUnchanged
<1>16. CASE PutBlock
  BY <1>16 DEF PutBlock, PutLoopUnchanged
<1>17. CASE PutFails
  BY <1>17 DEF PutFails, PutLoopUnchanged
<1>18. CASE PutTimesOut
  BY <1>18 DEF PutTimesOut, PutLoopUnchanged
<1>19. CASE PutEndOfFile
  BY <1>19 DEF PutEndOfFile, PutLoopUnchanged
<1>20. CASE StartAbort
  BY <1>20 DEF StartAbort, AbortUnchanged
<1>21. CASE AbortWait1
  BY <1>21 DEF AbortWait1, AbortUnchanged
<1>22. CASE AbortWait2
  BY <1>22 DEF AbortWait2, AbortUnchanged
<1>23. CASE AbortReply1
  BY <1>23 DEF AbortReply1, AbortUnchanged
<1>24. CASE AbortReply2
  BY <1>24 DEF AbortReply2, AbortUnchanged
<1>25. CASE ShutdownWriting
  BY <1>25 DEF ShutdownWriting, EndUnchanged
<1>26. CASE WaitForRemoteInput
  BY <1>26 DEF WaitForRemoteInput, EndUnchanged
<1>27. CASE EndReply
  BY <1>27 DEF EndReply, EndUnchanged
<1>28. CASE FTPUtime
  BY <1>28 DEF FTPUtime, EndUnchanged
<1>29. CASE UtimeReply
  BY <1>29 DEF UtimeReply, EndUnchanged
<1>30. CASE FTPCloseHost
  <2>1. cmds' = cmds \/ \E c \in Commands : c # "STOR" /\ cmds' = Append(cmds, [cmd |-> c, put |-> puts])
    BY <1>30 DEF FTPCloseHost, Send, SendFails, Commands, Ways
  <2>2. UNCHANGED <<srv, result>> /\ pc \in Resting
    BY <1>30 DEF FTPCloseHost, EndUnchanged, CloseUnchanged
  <2> QED
    BY <2>1, <2>2, FreshSent
<1>31. CASE QuitReply
  BY <1>31 DEF QuitReply, CloseUnchanged, EndUnchanged
<1>32. CASE Cancel
  BY <1>32 DEF Cancel, server
<1>33. CASE ServerAnswers
  BY <1>33, TailCommands DEF ServerAnswers, Others, Idle, ControlTypeOK
<1>34. CASE ServerRefusesStor
  BY <1>34, TailCommands DEF ServerRefusesStor, Others, Idle, ControlTypeOK
<1>35. CASE ServerStartsStor
  BY <1>35, FirstCommand DEF ServerStartsStor, Others, Idle, Command, ControlTypeOK
<1>36. CASE ServerConnects
  BY <1>36 DEF ServerConnects, Others
<1>37. CASE ServerReads
  BY <1>37 DEF ServerReads, Others
<1>38. CASE ServerFinishesStor
  BY <1>38 DEF ServerFinishesStor, ServerEnds, Others
<1>39. CASE ServerFailsStor
  BY <1>39 DEF ServerFailsStor, ServerEnds, Others
<1>40. CASE ServerAborts
  BY <1>40 DEF ServerAborts, Others, Storing
<1>41. CASE ServerGone
  BY <1>41 DEF ServerGone, Others
<1>42. CASE UNCHANGED vars
  BY <1>42 DEF vars
<1> QED
  BY <1>1, <1>2, <1>3, <1>4, <1>5, <1>6, <1>7, <1>8, <1>9, <1>10, <1>11, <1>12, <1>13, <1>14, <1>15, <1>16, <1>17, <1>18, <1>19, <1>20, <1>21, <1>22, <1>23, <1>24, <1>25, <1>26, <1>27, <1>28, <1>29, <1>30, <1>31, <1>32, <1>33, <1>34, <1>35, <1>36, <1>37, <1>38, <1>39, <1>40, <1>41, <1>42 DEF Next, Client, Server

LEMMA JobInv_Init == Init => JobInv
<1> SUFFICES ASSUME Init PROVE JobInv
  OBVIOUS
<1>1. \A i \in 1 .. Len(cmds) : FALSE
  BY DEF Init
<1>2. 0 <= 0
  OBVIOUS
<1> QED
  BY <1>1, <1>2 DEF Init, JobInv, QueueInv, OnceInv, FreshInv, NoStorAhead, Setup

-----------------------------------------------------------------------------
(***************************************************************************)
(* What the steps look like to the application.                            *)
(***************************************************************************)
Returns ==
    \/ pc' = "ready" /\ result' = "error" /\ loose' \in {loose, 1}
    \/ pc \in Utime /\ pc' = "ready" /\ result' = "ok" /\ loose' = loose

\* A step inside FTPPutOneFile goes on or returns, and does not touch the remote file.
LEMMA CallSteps ==
    ASSUME Client \/ Cancel, pc \notin Resting
    PROVE  /\ UNCHANGED <<puts, file>>
           /\ \/ pc' \notin Resting /\ result' = result /\ loose' \in {loose, 1}
              \/ Returns
<1> USE DEF client, server, Return, PassiveRefused, StartUtime, AfterMFF, CloseDataConnection,
    FTPShutdownHost, GetResponseFails, Resting, Returns, Utime
<1>1. CASE Put
  BY <1>1 DEF Put
<1>2. CASE SetTransferType
  BY <1>2 DEF SetTransferType, PutUnchanged
<1>3. CASE TypeReply
  BY <1>3 DEF TypeReply, PutUnchanged
<1>4. CASE StartData
  BY <1>4 DEF StartData, StartUnchanged
<1>5. CASE SendPassive
  BY <1>5 DEF SendPassive, StartUnchanged
<1>6. CASE PassiveExhausted
  BY <1>6 DEF PassiveExhausted, StartUnchanged
<1>7. CASE PasvReply
  BY <1>7 DEF PasvReply, StartUnchanged
<1>8. CASE ConnectSucceeds
  BY <1>8 DEF ConnectSucceeds, StartUnchanged
<1>9. CASE ConnectFails
  BY <1>9 DEF ConnectFails, StartUnchanged
<1>10. CASE SendPort
  BY <1>10 DEF SendPort, StartUnchanged
<1>11. CASE PortReply
  BY <1>11 DEF PortReply, StartUnchanged
<1>12. CASE SendStor
  BY <1>12 DEF SendStor, StartUnchanged
<1>13. CASE StorReply
  BY <1>13 DEF StorReply, StartUnchanged
<1>14. CASE AcceptDataConnection
  BY <1>14 DEF AcceptDataConnection, AcceptUnchanged
<1>15. CASE AcceptFails
  BY <1>15 DEF AcceptFails, AcceptUnchanged
<1>16. CASE PutBlock
  BY <1>16 DEF PutBlock, PutLoopUnchanged
<1>17. CASE PutFails
  BY <1>17 DEF PutFails, PutLoopUnchanged
<1>18. CASE PutTimesOut
  BY <1>18 DEF PutTimesOut, PutLoopUnchanged
<1>19. CASE PutEndOfFile
  BY <1>19 DEF PutEndOfFile, PutLoopUnchanged
<1>20. CASE StartAbort
  BY <1>20 DEF StartAbort, AbortUnchanged
<1>21. CASE AbortWait1
  BY <1>21 DEF AbortWait1, AbortUnchanged
<1>22. CASE AbortWait2
  BY <1>22 DEF AbortWait2, AbortUnchanged
<1>23. CASE AbortReply1
  BY <1>23 DEF AbortReply1, AbortUnchanged
<1>24. CASE AbortReply2
  BY <1>24 DEF AbortReply2, AbortUnchanged
<1>25. CASE ShutdownWriting
  BY <1>25 DEF ShutdownWriting, EndUnchanged
<1>26. CASE WaitForRemoteInput
  BY <1>26 DEF WaitForRemoteInput, EndUnchanged
<1>27. CASE EndReply
  BY <1>27 DEF EndReply, EndUnchanged
<1>28. CASE FTPUtime
  BY <1>28 DEF FTPUtime, EndUnchanged
<1>29. CASE UtimeReply
  BY <1>29 DEF UtimeReply, EndUnchanged
<1>30. CASE FTPCloseHost
  BY <1>30 DEF FTPCloseHost
<1>31. CASE QuitReply
  BY <1>31 DEF QuitReply
<1>32. CASE Cancel
  BY <1>32 DEF Cancel, server
<1> QED
  BY <1>1, <1>2, <1>3, <1>4, <1>5, <1>6, <1>7, <1>8, <1>9, <1>10, <1>11, <1>12, <1>13,
     <1>14, <1>15, <1>16, <1>17, <1>18, <1>19, <1>20, <1>21, <1>22, <1>23, <1>24, <1>25,
     <1>26, <1>27, <1>28, <1>29, <1>30, <1>31, <1>32 DEF Client

\* Between the calls the application calls FTPPutOneFile or closes the connection.
LEMMA RestSteps ==
    ASSUME Client \/ Cancel, pc \in Resting
    PROVE  UNCHANGED <<file, loose>> /\ (Put \/ FTPCloseHost \/ QuitReply)
<1>1. Put \/ FTPCloseHost \/ QuitReply
  BY DEF Resting, Client, Cancel, SetTransferType, TypeReply, StartData, SendPassive,
     PassiveExhausted, PasvReply, ConnectSucceeds, ConnectFails, SendPort, PortReply, SendStor,
     StorReply, AcceptDataConnection, AcceptFails, PutBlock, PutFails, PutTimesOut,
     PutEndOfFile, StartAbort, AbortWait1, AbortWait2, AbortReply1, AbortReply2,
     ShutdownWriting, WaitForRemoteInput, EndReply, FTPUtime, UtimeReply
<1> QED
  BY <1>1 DEF Put, PutUnchanged, FTPCloseHost, QuitReply, CloseUnchanged, EndUnchanged, server

\* Only STOR and the end of a transfer change the remote file.
LEMMA ServerSteps ==
    ASSUME Server
    PROVE  /\ UNCHANGED <<pc, puts, result, loose>>
           /\ file' = file \/ ServerStartsStor \/ ServerFinishesStor
  BY DEF Server, ServerAnswers, ServerRefusesStor, ServerStartsStor, ServerConnects,
         ServerReads, ServerFinishesStor, ServerFailsStor, ServerAborts, ServerGone,
         ServerEnds, Others, client, server

\* A success that can be trusted, and a connection that was never used, leave the server
\* nothing to store.
LEMMA NothingToStore ==
    ASSUME TypeOK, CallInv, StoredInv, FreshInv, ServerStartsStor \/ ServerFinishesStor
    PROVE  JobPhase = "busy" \/ result = "error" \/ loose # 0
<1> SUFFICES ASSUME pc \in Resting, result # "error", loose = 0
             PROVE  FALSE
  BY DEF JobPhase, Resting
<1>1. srv = "idle" /\ (peer = "up" => \A i \in 1 .. Len(cmds) : cmds[i].cmd # "STOR")
  BY DEF TypeOK, ClientTypeOK, StoredInv, SettledInv, FreshInv
<1>2. ~ServerFinishesStor
  BY <1>1 DEF ServerFinishesStor, Storing
<1>3. ~ServerStartsStor
  BY <1>1, FirstCommand DEF ServerStartsStor, Idle, Command, TypeOK, ControlTypeOK
<1> QED
  BY <1>2, <1>3

\* The remote file goes from "old" to "partial" to "new" in the course of a call.
LEMMA StoreStep ==
    ASSUME TypeOK, ServerInv, QueueInv, OnceInv, ServerStartsStor \/ ServerFinishesStor
    PROVE  \/ JobRemote' = JobRemote
           \/ JobRemote = "old" /\ JobRemote' = "partial"
           \/ JobRemote = "partial" /\ JobRemote' = "new"
<1>1. puts' = puts
  BY ServerSteps DEF Server
<1>2. CASE ServerStartsStor
  <2>1. file' = [put |-> Command.put, part |-> "partial"] /\ cmds # <<>> /\ Command.cmd = "STOR"
    BY <1>2 DEF ServerStartsStor, Idle
  <2>2. file'.put = Command.put /\ file'.part = "partial"
    BY <2>1
  <2>3. Command = cmds[1] /\ 1 \in 1 .. Len(cmds) /\ Command \in CommandRecord
    BY <2>1, CommandType DEF Command, TypeOK, ControlTypeOK
  <2>4. CASE Command.put = puts
    <3>1. Command = Cmd("STOR")
      BY <2>1, <2>3, <2>4 DEF CommandRecord, Cmd
    <3>2. file.put # puts
      BY <2>3, <3>1 DEF OnceInv, NoStorAhead
    <3> QED
      BY <1>1, <2>2, <2>4, <3>2 DEF JobRemote
  <2>5. CASE Command.put # puts
    <3>1. JobRemote' = "old"
      BY <1>1, <2>2, <2>5 DEF JobRemote
    <3>2. file.put # puts
      <4>1. file.put <= Command.put /\ Command.put <= puts
        BY <2>3 DEF QueueInv
      <4>2. file.put \in Nat /\ Command.put \in Nat /\ puts \in Nat
        BY <2>3, MaxPutsAssumption DEF TypeOK, ClientTypeOK, ServerTypeOK, CommandRecord
      <4> QED
        BY <2>5, <4>1, <4>2
    <3> QED
      BY <3>1, <3>2 DEF JobRemote
  <2> QED
    BY <2>4, <2>5
<1>3. CASE ServerFinishesStor
  <2>1. file.part = "partial" /\ file'.put = file.put
    BY <1>3 DEF ServerFinishesStor, Storing, ServerInv, TypeOK, ServerTypeOK
  <2>2. file' \in [put : 0 .. MaxPuts, part : {"partial", "whole"}]
    BY <1>3, ServerTypeOK_Next DEF TypeOK, ServerTypeOK, ServerFinishesStor
  <2> QED
    BY <1>1, <2>1, <2>2 DEF JobRemote
<1> QED
  BY <1>2, <1>3
LEMMA JobPut ==
    ASSUME TypeOK, QueueInv, Put
    PROVE  Job!Begin \/ Job!FailAtOnce
<1>1. pc = "ready" /\ puts' = puts + 1 /\ file' = file /\ loose' = loose
  BY DEF Put, PutUnchanged, server
<1>2. file'.put # puts'
  <2>1. file.put <= puts /\ file.put \in Nat /\ puts \in Nat
    BY MaxPutsAssumption DEF QueueInv, TypeOK, ClientTypeOK, ServerTypeOK
  <2> QED
    BY <1>1, <2>1
<1>3. JobPhase = "idle" /\ JobRemote' = "old"
  BY <1>1, <1>2 DEF JobPhase, JobRemote
<1>4. CASE ctrl = "closed"
  <2>1. JobPhase' = "idle" /\ result' = "error"
    BY <1>4 DEF Put, Return, JobPhase
  <2> QED
    BY <1>1, <1>3, <2>1 DEF Job!FailAtOnce
<1>5. CASE ctrl # "closed"
  <2>1. JobPhase' = "busy" /\ result' = "none"
    BY <1>5 DEF Put, JobPhase
  <2> QED
    BY <1>1, <1>3, <2>1 DEF Job!Begin
<1> QED
  BY <1>4, <1>5

LEMMA JobCall ==
    ASSUME TypeOK, StoredInv, Client \/ Cancel, pc \notin Resting
    PROVE  Job!LoseStep \/ Job!Succeed \/ Job!Fail \/ UNCHANGED Job!vars
<1>1. JobPhase = "busy" /\ JobRemote' = JobRemote
  BY CallSteps DEF JobPhase, JobRemote, Resting
<1>2. loose \in {0, 1}
  BY DEF TypeOK, ClientTypeOK, Flag
<1>3. CASE pc' \notin Resting /\ result' = result /\ loose' \in {loose, 1}
  <2>1. JobPhase' = "busy"
    BY <1>3 DEF JobPhase, Resting
  <2>2. CASE loose' = loose
    BY <1>1, <1>3, <2>1, <2>2 DEF Job!vars
  <2>3. CASE loose' = 1
    BY <1>1, <1>3, <2>1, <2>3 DEF Job!LoseStep
  <2> QED
    BY <1>3, <2>2, <2>3
<1>4. CASE pc' = "ready" /\ result' = "error" /\ loose' \in {loose, 1}
  <2>1. JobPhase' = "idle"
    BY <1>4 DEF JobPhase
  <2>2. (loose' = 0) = (loose = 0) \/ (loose' = 0) = FALSE
    BY <1>4
  <2> QED
    BY <1>1, <1>4, <2>1, <2>2 DEF Job!Fail
<1>5. CASE pc \in Utime /\ pc' = "ready" /\ result' = "ok" /\ loose' = loose
  <2>1. JobPhase' = "idle"
    BY <1>5 DEF JobPhase
  <2>2. loose = 0 => JobRemote = "new"
    BY <1>5 DEF StoredInv, SettledInv, Stored, JobRemote
  <2> QED
    BY <1>1, <1>5, <2>1, <2>2 DEF Job!Succeed
<1> QED
  BY <1>3, <1>4, <1>5, CallSteps DEF Returns

LEMMA JobRest ==
    ASSUME TypeOK, QueueInv, Client \/ Cancel, pc \in Resting
    PROVE  Job!Begin \/ Job!FailAtOnce \/ Job!Close \/ UNCHANGED Job!vars
<1>1. CASE Put
  BY <1>1, JobPut
<1>2. CASE FTPCloseHost
  <2>1. JobPhase = "idle" /\ JobPhase' = "over" /\ result' = result /\ puts' = puts
    BY <1>2 DEF FTPCloseHost, CloseUnchanged, EndUnchanged, JobPhase
  <2>2. JobRemote' = JobRemote /\ loose' = loose
    BY <2>1, RestSteps DEF JobRemote
  <2> QED
    BY <2>1, <2>2 DEF Job!Close
<1>3. CASE QuitReply
  <2>1. JobPhase' = JobPhase /\ result' = result /\ puts' = puts
    BY <1>3 DEF QuitReply, CloseUnchanged, EndUnchanged, JobPhase
  <2>2. JobRemote' = JobRemote /\ loose' = loose
    BY <2>1, RestSteps DEF JobRemote
  <2> QED
    BY <2>1, <2>2 DEF Job!vars
<1> QED
  BY <1>1, <1>2, <1>3, RestSteps

LEMMA JobServer ==
    ASSUME TypeOK, StoredInv, JobInv, Server
    PROVE  Job!Store \/ UNCHANGED Job!vars
<1>1. JobPhase' = JobPhase /\ result' = result /\ puts' = puts /\ loose' = loose
  BY ServerSteps DEF JobPhase
<1>2. CASE file' = file
  BY <1>1, <1>2 DEF Job!vars, JobRemote
<1>3. CASE ServerStartsStor \/ ServerFinishesStor
  <2>1. JobPhase = "busy" \/ result = "error" \/ loose # 0
    BY <1>3, NothingToStore DEF StoredInv, JobInv
  <2>2. \/ JobRemote' = JobRemote
        \/ JobRemote = "old" /\ JobRemote' = "partial"
        \/ JobRemote = "partial" /\ JobRemote' = "new"
    BY <1>3, StoreStep DEF StoredInv, JobInv
  <2> QED
    BY <1>1, <2>1, <2>2 DEF Job!Store, Job!vars
<1> QED
  BY <1>2, <1>3, ServerSteps

LEMMA JobStep ==
    ASSUME TypeOK, StoredInv, JobInv, [Next]_vars
    PROVE  [Job!Next]_(Job!vars)
<1>1. CASE Client \/ Cancel
  BY <1>1, JobCall, JobRest DEF JobInv, Job!Next
<1>2. CASE Server
  BY <1>2, JobServer DEF Job!Next
<1>3. CASE UNCHANGED vars
  BY <1>3 DEF vars, client, server, Job!vars, JobPhase, JobRemote
<1> QED
  BY <1>1, <1>2, <1>3 DEF Next

LEMMA JobInit == Init => Job!Init
  BY DEF Init, Job!Init, JobPhase, JobRemote

\* JobInv holds in every reachable state: the server takes the commands in the order of the
\* calls and stores no file twice (STOR is sent at one place, rcmd.c:582-595, once in a call
\* of FTPPutOneFile, io_put.c:194-512).
THEOREM JobInvHolds == Spec => []JobInv
<1>1. TypeOK /\ StoredInv /\ JobInv /\ [Next]_vars => JobInv'
  BY QueueInv_Next, OnceInv_Next, FreshInv_Next DEF JobInv, StoredInv
<1> QED
  BY TypeCorrect, StoredInvHolds, JobInv_Init, <1>1, PTL DEF Spec

\* The safety half of ImplementsJob: whatever the server does and whenever the application
\* cancels, each step of the session is a step of FtpJob or invisible to it.  So what
\* FTPPutOneFile returns (io_put.c:194-512) and what becomes of the remote file are what
\* FtpJob promises: no store follows a success that can be trusted, no call stores twice.
THEOREM ImplementsJobSteps == Spec => Job!Safety
<1>1. TypeOK /\ StoredInv /\ JobInv /\ [Next]_vars => [Job!Next]_(Job!vars)
  BY JobStep
<1> QED
  BY TypeCorrect, StoredInvHolds, JobInvHolds, JobInit, <1>1, PTL DEF Spec, Job!Safety
=============================================================================
