--------------------------- MODULE FtpOpen_proofs ---------------------------
(***************************************************************************)
(* Theorems about FtpOpen, for every number of dials and opens and for     *)
(* every type of firewall.                                                 *)
(***************************************************************************)
EXTENDS FtpOpen, TLAPS

(***************************************************************************)
(* Type correctness: what each building block does to the types, then the  *)
(* actions one by one.                                                     *)
(***************************************************************************)
LEMMA TypeInit == Init => TypeOK
  BY CodesAssumption, OpensAssumption, DialsAssumption
     DEF Init, TypeOK, ConnTypeOK, HeapTypeOK, CallTypeOK, Errors, Retryable, Accounts, ReplyCodes, Flag

LEMMA AnswerCodes ==
    ASSUME NEW c \in CommandNames PROVE AnswersTo(c) \subseteq ReplyCodes
  BY CodesAssumption DEF AnswersTo, ReplyCodes, CommandNames, LoginCommands

LEMMA SendTypes ==
    ASSUME ConnTypeOK, NEW c \in CommandNames, NEW a \in Accounts, NEW p \in {"real", "stars"},
           Send(c, a, p)
    PROVE  ConnTypeOK'
  BY DEF ConnTypeOK, Send, CommandRecord

LEMMA PlainTypes ==
    ASSUME ConnTypeOK, NEW c \in CommandNames, SendPlain(c)
    PROVE  ConnTypeOK'
  BY SendTypes DEF SendPlain, Accounts

LEMMA SameConn ==
    ASSUME ConnTypeOK, UNCHANGED conn
    PROVE  ConnTypeOK'
  BY DEF ConnTypeOK, conn

LEMMA SameHeap ==
    ASSUME HeapTypeOK, UNCHANGED heap
    PROVE  HeapTypeOK'
  BY DEF HeapTypeOK, heap

LEMMA ShutdownTypes ==
    ASSUME HeapTypeOK
    PROVE  /\ CloseControlConnection => ConnTypeOK'
           /\ DeallocateHost => HeapTypeOK'
           /\ FTPShutdownHost => ConnTypeOK' /\ HeapTypeOK'
<1>1. CloseControlConnection => ConnTypeOK'
  BY DEF ConnTypeOK, CloseControlConnection, Flag
<1>2. DeallocateHost => HeapTypeOK'
  BY DEF HeapTypeOK, DeallocateHost, Flag
<1> QED
  BY <1>1, <1>2 DEF FTPShutdownHost

LEMMA ReplyTypes ==
    ASSUME ConnTypeOK, HeapTypeOK, GetResponse
    PROVE  ConnTypeOK' /\ HeapTypeOK' /\ Reply.code \in ReplyCodes
<1>1. Head(replies) \in ReplyRecord /\ Tail(replies) \in Seq(ReplyRecord)
  BY DEF ConnTypeOK, GetResponse
<1>2. HeapTypeOK'
  BY SameHeap DEF GetResponse
<1> QED
  BY <1>1, <1>2 DEF ConnTypeOK, GetResponse, Reply, ReplyRecord

LEMMA FailsTypes ==
    ASSUME HeapTypeOK, NEW e, GetResponseFails(e)
    PROVE  ConnTypeOK' /\ HeapTypeOK'
  BY ShutdownTypes DEF GetResponseFails

LEMMA LoginCommandTypes ==
    ASSUME TypeOK, NEW c \in LoginCommands, NEW a \in Accounts, LoginCommand(c, a)
    PROVE  /\ ConnTypeOK'
           /\ pc' \in {"loginReply", "closeHost"} /\ result' \in Errors \cup {"none", "ok"}
           /\ pass' \in {"real", "stars"} /\ user' \in Accounts \cup {"none"}
<1>1. c \in CommandNames
  BY DEF LoginCommands, CommandNames
<1>2. CASE Send(c, a, IF a = "fw" THEN "real" ELSE pass)
  BY <1>1, <1>2, SendTypes DEF TypeOK, CallTypeOK, LoginCommand, LoginDone, Errors
<1>3. CASE SendFails
  BY <1>3, SameConn DEF SendFails, TypeOK, CallTypeOK, LoginCommand, LoginDone, Errors
<1> QED
  BY <1>2, <1>3 DEF LoginCommand

LEMMA PartyType == Party \in Accounts
  BY DEF Party, Accounts

LEMMA TypeOK_Next ==
    ASSUME TypeOK, [Next]_vars
    PROVE  TypeOK'
<1> USE DEF call, who, automaton, TypeOK, CallTypeOK, Flag
<1>1. CASE FTPOpenHost
  BY <1>1, OpensAssumption, DialsAssumption, SameConn, SameHeap DEF FTPOpenHost, Errors
<1>2. CASE ApplicationCloses
  BY <1>2, SameConn, SameHeap DEF ApplicationCloses
<1>3. CASE Dial
  BY <1>3, DialsAssumption, SameConn DEF Dial, HeapTypeOK
<1>4. CASE DialsExhausted
  BY <1>4, ShutdownTypes, SameConn DEF DialsExhausted
<1>5. CASE ConnectFails
  BY <1>5, ShutdownTypes, SameConn, SameHeap DEF ConnectFails, Errors, Retryable
<1>6. CASE ConnectSucceeds
  BY <1>6, SameHeap DEF ConnectSucceeds, ConnTypeOK, CommandRecord, CommandNames, Accounts
<1>7. CASE Greeting
  BY <1>7, SameHeap DEF Greeting, ConnTypeOK, ReplyCodes
<1>8. CASE GreetingFails
  BY <1>8, ShutdownTypes, FailsTypes, SameHeap DEF GreetingFails, Errors, Retryable
<1>9. CASE SendUser
  BY <1>9, LoginCommandTypes, PartyType, SameHeap DEF SendUser, LoginCommand, LoginDone, LoginUnchanged, FlagsUnchanged, LoginCommands
<1>10. CASE Accepted
  <2>1. /\ UNCHANGED <<call, who, code, sentpass, fwsentpass>>
        /\ fwloggedin' \in Flag
    BY <1>10 DEF Accepted
  <2>2. CASE LoginOkay
    BY <2>1, <2>2 DEF LoginOkay, ConnTypeOK, HeapTypeOK
  <2>3. ASSUME NEW c \in {"USER", "OPEN", "SITE"}, NEW a \in {"site", "fw"}, LoginCommand(c, a),
               UNCHANGED heap
        PROVE  TypeOK'
    BY <2>1, <2>3, LoginCommandTypes, SameHeap DEF LoginCommands, Accounts
  <2> QED
    BY <1>10, <2>2, <2>3 DEF Accepted
<1>11. CASE SendPass
  BY <1>11, LoginCommandTypes, PartyType, SameHeap DEF SendPass, LoginCommand, LoginDone, LoginUnchanged, LoginCommands
<1>12. CASE SendAcct
  BY <1>12, LoginCommandTypes, SameHeap DEF SendAcct, LoginCommand, LoginDone, LoginUnchanged, FlagsUnchanged, LoginCommands, Accounts
<1>13. CASE Denied
  BY <1>13, SameConn, SameHeap DEF Denied, LoginDone, LoginUnchanged, FlagsUnchanged, Errors
<1>14. CASE ZeroCode
  BY <1>14, SameConn, SameHeap DEF ZeroCode, LoginUnchanged, FlagsUnchanged
<1>15. CASE LoginReply
  BY <1>15, ReplyTypes, FailsTypes DEF LoginReply, LoginDone, FlagsUnchanged, Errors
<1>16. CASE GetCWD
  BY <1>16, PlainTypes, SameConn, SameHeap DEF GetCWD, LoginReturns, CwdUnchanged, CommandNames, SendFails
<1>17. CASE CwdReply
  <2>1. ConnTypeOK' /\ HeapTypeOK'
    <3>1. CASE replies # <<>> /\ replies' = Tail(replies) /\ cwd' \in {cwd, "empty", "set"}
               /\ UNCHANGED <<ctrl, connected, loggedIn, cmds, peer, buf, cwdSize>>
      BY <3>1 DEF ConnTypeOK, HeapTypeOK
    <3> QED
      BY <1>17, <3>1, ReplyTypes, FailsTypes DEF CwdReply
  <2>2. CallTypeOK'
    BY <1>17 DEF CwdReply, LoginReturns, CwdUnchanged
  <2> QED
    BY <2>1, <2>2
<1>18. CASE QueryFeatures
  BY <1>18, PlainTypes, SameConn, SameHeap DEF QueryFeatures, FeatUnchanged, CommandNames, SendFails
<1>19. CASE FeatureReply
  BY <1>19, ReplyTypes, FailsTypes DEF FeatureReply, FeatUnchanged
<1>20. CASE CloseHost
  BY <1>20, PlainTypes, ShutdownTypes, SameHeap DEF CloseHost, CloseReturns, CommandNames
<1>21. CASE QuitReply
  BY <1>21, ShutdownTypes DEF QuitReply, CloseReturns
<1>22. CASE ServerAnswers
  <2>1. PICK answer \in AnswersTo(Head(cmds).cmd) :
          /\ replies' = Append(replies, [cmd |-> Head(cmds).cmd, code |-> answer])
          /\ cmds' = IF answer = 120 THEN <<[Head(cmds) EXCEPT !.cmd = "READY"]>> \o Tail(cmds)
                     ELSE Tail(cmds)
          /\ peer' = IF answer \in {221, 421} THEN "gone" ELSE "up"
    BY <1>22 DEF ServerAnswers
  <2>2. cmds # <<>> /\ UNCHANGED <<pc, result, pass, call, who, ctrl, connected, loggedIn, heap, automaton>>
    BY <1>22 DEF ServerAnswers
  <2>3. Head(cmds) \in CommandRecord /\ Tail(cmds) \in Seq(CommandRecord)
    BY <2>2 DEF ConnTypeOK
  <2>4. Head(cmds).cmd \in CommandNames /\ [Head(cmds) EXCEPT !.cmd = "READY"] \in CommandRecord
    BY <2>3 DEF CommandRecord, CommandNames
  <2>5. answer \in ReplyCodes
    BY <2>4, AnswerCodes
  <2>6. [cmd |-> Head(cmds).cmd, code |-> answer] \in ReplyRecord
    BY <2>4, <2>5 DEF ReplyRecord
  <2>7. cmds' \in Seq(CommandRecord) /\ replies' \in Seq(ReplyRecord)
    BY <2>1, <2>3, <2>4, <2>6 DEF ConnTypeOK
  <2> QED
    BY <2>1, <2>2, <2>7, SameHeap DEF ConnTypeOK
<1>23. CASE ServerGone
  BY <1>23, SameHeap DEF ServerGone, ConnTypeOK
<1>24. CASE UNCHANGED vars
  BY <1>24, SameConn, SameHeap DEF vars
<1> QED
  BY <1>1, <1>2, <1>3, <1>4, <1>5, <1>6, <1>7, <1>8, <1>9, <1>10, <1>11, <1>12, <1>13, <1>14, <1>15, <1>16, <1>17, <1>18, <1>19, <1>20, <1>21, <1>22, <1>23, <1>24 DEF Next, Client, Application, Server

\* Every variable stays in its type, whatever the firewall and the server answer.
THEOREM TypeCorrect == Spec => []TypeOK
  BY TypeInit, TypeOK_Next, PTL DEF Spec

(***************************************************************************)
(* ExchangeInv: at most one command, or its answer, is on the connection.  *)
(***************************************************************************)
LEMMA ExchangeView ==
    ASSUME ExchangeInv
    PROVE  /\ Outstanding = {} => cmds = <<>> /\ replies = <<>>
           /\ cmds # <<>> => /\ replies = <<>> /\ cmds = <<Head(cmds)>> /\ Tail(cmds) = <<>>
                            /\ Head(cmds).cmd \in Outstanding
           /\ replies # <<>> => /\ cmds = <<>> /\ replies = <<Reply>> /\ Tail(replies) = <<>>
                               /\ Reply.cmd \in Outstanding /\ Reply.code \in AnswersTo(Reply.cmd)
<1>1. CASE cmds = <<>> /\ replies = <<>>
  BY <1>1
<1>2. ASSUME NEW x \in CommandRecord, x.cmd \in Outstanding, cmds = <<x>>, replies = <<>>
      PROVE  /\ cmds # <<>> /\ Outstanding # {}
             /\ cmds = <<Head(cmds)>> /\ Tail(cmds) = <<>> /\ Head(cmds).cmd \in Outstanding
  BY <1>2
<1>3. ASSUME NEW c \in Outstanding, NEW d \in AnswersTo(c), replies = <<[cmd |-> c, code |-> d]>>
      PROVE  /\ replies # <<>> /\ Outstanding # {} /\ replies = <<Reply>> /\ Tail(replies) = <<>>
             /\ Reply.cmd \in Outstanding /\ Reply.code \in AnswersTo(Reply.cmd)
  BY <1>3 DEF Reply
<1> QED
  BY <1>1, <1>2, <1>3 DEF ExchangeInv

LEMMA EmptyExchange ==
    ASSUME cmds' = <<>>, replies' = <<>>
    PROVE  ExchangeInv'
  BY DEF ExchangeInv

LEMMA QuietStays ==
    ASSUME ExchangeInv, Outstanding = {}, UNCHANGED <<cmds, replies>>
    PROVE  ExchangeInv'
  BY ExchangeView, EmptyExchange

LEMMA SendExchange ==
    ASSUME ExchangeInv, Outstanding = {}, NEW c \in CommandNames, NEW a \in Accounts,
           NEW p \in {"real", "stars"}, Send(c, a, p), c \in Outstanding'
    PROVE  ExchangeInv' /\ replies' = <<>> /\ cmds' = <<[cmd |-> c, who |-> a, pass |-> p]>>
<1>1. replies' = <<>> /\ cmds' = <<[cmd |-> c, who |-> a, pass |-> p]>>
  BY ExchangeView DEF Send
<1>2. [cmd |-> c, who |-> a, pass |-> p] \in CommandRecord
  BY DEF CommandRecord
<1> QED
  BY <1>1, <1>2 DEF ExchangeInv

LEMMA PlainExchange ==
    ASSUME ExchangeInv, Outstanding = {}, NEW c \in CommandNames, SendPlain(c), c \in Outstanding'
    PROVE  ExchangeInv'
  BY SendExchange DEF SendPlain, Accounts

LEMMA LoginExchange ==
    ASSUME TypeOK, ExchangeInv, pc = "login", NEW c \in LoginCommands, NEW a \in Accounts,
           LoginCommand(c, a)
    PROVE  /\ ExchangeInv'
           /\ pc' = "loginReply" =>
                replies' = <<>> /\ cmds' = <<[cmd |-> c, who |-> a,
                                              pass |-> IF a = "fw" THEN "real" ELSE pass]>>
           /\ pc' # "loginReply" => pc' = "closeHost" /\ cmds' = <<>> /\ replies' = <<>>
<1>1. Outstanding = {} /\ c \in CommandNames
  BY DEF Outstanding, LoginCommands, CommandNames
<1>2. CASE Send(c, a, IF a = "fw" THEN "real" ELSE pass) /\ pc' = "loginReply"
  <2>1. c \in Outstanding'
    BY <1>2 DEF Outstanding
  <2> QED
    BY <1>1, <1>2, <2>1, SendExchange DEF TypeOK, CallTypeOK
<1>3. CASE SendFails /\ LoginDone("notSent")
  BY <1>1, <1>3, ExchangeView, EmptyExchange DEF SendFails, conn, LoginDone
<1> QED
  BY <1>2, <1>3 DEF LoginCommand

LEMMA GetExchange ==
    ASSUME ExchangeInv, GetResponse \/ (\E e \in Errors : GetResponseFails(e))
    PROVE  ExchangeInv' /\ cmds' = <<>> /\ replies' = <<>>
  BY ExchangeView, EmptyExchange
     DEF GetResponse, GetResponseFails, FTPShutdownHost, CloseControlConnection

LEMMA ExchangeInv_Next ==
    ASSUME 120 \notin Greetings, TypeOK, ExchangeInv, [Next]_vars
    PROVE  ExchangeInv'
<1> USE DEF automaton
<1>1. CASE FTPOpenHost
  BY <1>1, QuietStays DEF FTPOpenHost, conn, Outstanding
<1>2. CASE ApplicationCloses
  BY <1>2, QuietStays DEF ApplicationCloses, conn, Outstanding
<1>3. CASE Dial
  BY <1>3, QuietStays DEF Dial, conn, Outstanding
<1>4. CASE DialsExhausted
  BY <1>4, QuietStays DEF DialsExhausted, conn, Outstanding
<1>5. CASE ConnectFails
  BY <1>5, QuietStays DEF ConnectFails, conn, Outstanding
<1>6. CASE ConnectSucceeds
  <2>1. LET x == [cmd |-> "CONNECT", who |-> "site", pass |-> "real"] IN
            x \in CommandRecord /\ x.cmd \in Outstanding' /\ cmds' = <<x>> /\ replies' = <<>>
    BY <1>6 DEF ConnectSucceeds, CommandRecord, CommandNames, Accounts, Outstanding
  <2> QED
    BY <2>1 DEF ExchangeInv
<1>7. CASE Greeting
  BY <1>7, ExchangeView, EmptyExchange DEF Greeting
<1>8. CASE GreetingFails
  BY <1>8, GetExchange, EmptyExchange DEF GreetingFails, CloseControlConnection
<1>9. CASE SendUser
  BY <1>9, LoginExchange, PartyType DEF SendUser, LoginCommand, LoginDone, LoginUnchanged, FlagsUnchanged, LoginCommands
<1>10. CASE Accepted
  <2>1. CASE LoginOkay
    BY <1>10, <2>1, QuietStays DEF Accepted, LoginOkay, Outstanding
  <2>2. ASSUME NEW c \in {"USER", "OPEN", "SITE"}, NEW a \in {"site", "fw"}, LoginCommand(c, a)
        PROVE  ExchangeInv'
    BY <1>10, <2>2, LoginExchange DEF Accepted, LoginCommands, Accounts
  <2> QED
    BY <1>10, <2>1, <2>2 DEF Accepted
<1>11. CASE SendPass
  BY <1>11, LoginExchange, PartyType DEF SendPass, LoginCommand, LoginDone, LoginUnchanged, LoginCommands
<1>12. CASE SendAcct
  BY <1>12, LoginExchange DEF SendAcct, LoginCommand, LoginDone, LoginUnchanged, FlagsUnchanged, LoginCommands, Accounts
<1>13. CASE Denied
  BY <1>13, QuietStays DEF Denied, LoginDone, LoginUnchanged, FlagsUnchanged, conn, Outstanding
<1>14. CASE ZeroCode
  BY <1>14, QuietStays DEF ZeroCode, LoginUnchanged, FlagsUnchanged, conn, Outstanding
<1>15. CASE LoginReply
  BY <1>15, GetExchange DEF LoginReply, LoginDone, FlagsUnchanged
<1>16. CASE GetCWD
  BY <1>16, PlainExchange, QuietStays DEF GetCWD, LoginReturns, CwdUnchanged, Outstanding, SendFails, conn, CommandNames
<1>17. CASE CwdReply
  BY <1>17, GetExchange, ExchangeView, EmptyExchange DEF CwdReply, LoginReturns, CwdUnchanged
<1>18. CASE QueryFeatures
  BY <1>18, PlainExchange, QuietStays DEF QueryFeatures, FeatUnchanged, Outstanding, SendFails, conn, CommandNames
<1>19. CASE FeatureReply
  BY <1>19, GetExchange DEF FeatureReply, FeatUnchanged
<1>20. CASE CloseHost
  BY <1>20, PlainExchange, EmptyExchange DEF CloseHost, CloseReturns, Outstanding, CommandNames, FTPShutdownHost, CloseControlConnection
<1>21. CASE QuitReply
  BY <1>21, EmptyExchange DEF QuitReply, CloseReturns, FTPShutdownHost, CloseControlConnection
<1>22. CASE ServerAnswers
  <2>1. PICK answer \in AnswersTo(Head(cmds).cmd) :
          /\ replies' = Append(replies, [cmd |-> Head(cmds).cmd, code |-> answer])
          /\ cmds' = IF answer = 120 THEN <<[Head(cmds) EXCEPT !.cmd = "READY"]>> \o Tail(cmds)
                     ELSE Tail(cmds)
    BY <1>22 DEF ServerAnswers
  <2>2. /\ replies = <<>> /\ Tail(cmds) = <<>> /\ Head(cmds).cmd \in Outstanding
    BY <1>22, ExchangeView DEF ServerAnswers
  <2>3. answer # 120
    BY <2>1, <2>2, CodesAssumption DEF AnswersTo, Outstanding, LoginCommands
  <2>4. cmds' = <<>> /\ replies' = <<[cmd |-> Head(cmds).cmd, code |-> answer]>>
    BY <2>1, <2>2, <2>3
  <2>5. UNCHANGED <<pc, firewallType, fwloggedin>> /\ Outstanding' = Outstanding
    BY <1>22 DEF ServerAnswers, who, Outstanding
  <2>6. \E c \in Outstanding' : \E d \in AnswersTo(c) : replies' = <<[cmd |-> c, code |-> d]>>
    BY <2>1, <2>2, <2>4, <2>5
  <2> QED
    BY <2>4, <2>6 DEF ExchangeInv, AnswersTo
<1>23. CASE ServerGone
  <2>1. cmds' = <<>> /\ UNCHANGED <<pc, replies>> /\ Outstanding' = Outstanding
    BY <1>23 DEF ServerGone, Outstanding
  <2>2. CASE replies = <<>>
    BY <2>1, <2>2, EmptyExchange
  <2>3. CASE replies # <<>>
    <3>1. PICK c \in Outstanding : \E d \in AnswersTo(c) : replies = <<[cmd |-> c, code |-> d]>>
      BY <2>3 DEF ExchangeInv
    <3> QED
      BY <2>1, <3>1 DEF ExchangeInv, AnswersTo
  <2> QED
    BY <2>2, <2>3
<1>24. CASE UNCHANGED vars
  <2>1. UNCHANGED <<cmds, replies>> /\ Outstanding' = Outstanding
    BY <1>24 DEF vars, conn, Outstanding
  <2> QED
    BY <2>1 DEF ExchangeInv
<1> QED
  BY <1>1, <1>2, <1>3, <1>4, <1>5, <1>6, <1>7, <1>8, <1>9, <1>10, <1>11, <1>12, <1>13, <1>14, <1>15, <1>16, <1>17, <1>18, <1>19, <1>20, <1>21, <1>22, <1>23, <1>24 DEF Next, Client, Application, Server

(***************************************************************************)
(* HeldInv and AccountInv.                                                 *)
(***************************************************************************)
LEMMA Lost ==
    ASSUME NEW e, GetResponseFails(e)
    PROVE  /\ ctrl' = "closed" /\ connected' = 0 /\ loggedIn' = 0 /\ cmds' = <<>> /\ replies' = <<>>
           /\ peer' = "gone" /\ buf' = "null" /\ cwd' = "null"
  BY DEF GetResponseFails, FTPShutdownHost, CloseControlConnection, DeallocateHost

LEMMA LoginHeld ==
    ASSUME TypeOK, HeldInv, pc = "login", NEW c, NEW a, LoginCommand(c, a), UNCHANGED heap
    PROVE  HeldInv'
<1> USE DEF TypeOK, ConnTypeOK, CallTypeOK, HeldInv, heap
<1>1. CASE Send(c, a, IF a = "fw" THEN "real" ELSE pass) /\ pc' = "loginReply"
  BY <1>1 DEF Send
<1>2. CASE SendFails /\ LoginDone("notSent")
  BY <1>2 DEF SendFails, LoginDone, conn
<1> QED
  BY <1>1, <1>2 DEF LoginCommand

LEMMA HeldInv_Next ==
    ASSUME TypeOK, HeldInv, [Next]_vars
    PROVE  HeldInv'
<1> USE DEF TypeOK, ConnTypeOK, HeapTypeOK, CallTypeOK, Flag, HeldInv, Denial, call, who, conn, heap, automaton
<1>1. CASE FTPOpenHost
  BY <1>1 DEF FTPOpenHost
<1>2. CASE ApplicationCloses
  BY <1>2 DEF ApplicationCloses
<1>3. CASE Dial
  BY <1>3 DEF Dial
<1>4. CASE DialsExhausted
  BY <1>4 DEF DialsExhausted, DeallocateHost
<1>5. CASE ConnectFails
  BY <1>5 DEF ConnectFails, DeallocateHost, Errors, Retryable
<1>6. CASE ConnectSucceeds
  BY <1>6 DEF ConnectSucceeds
<1>7. CASE Greeting
  BY <1>7 DEF Greeting
<1>8. CASE GreetingFails
  BY <1>8, Lost DEF GreetingFails, CloseControlConnection, Errors, Retryable
<1>9. CASE SendUser
  <2> QED
    BY <1>9, LoginHeld DEF SendUser, LoginUnchanged
<1>10. CASE Accepted
  <2>1. CASE LoginOkay
    BY <1>10, <2>1 DEF Accepted, LoginOkay
  <2>2. CASE UNCHANGED heap /\ \E c, a : LoginCommand(c, a)
    BY <1>10, <2>2, LoginHeld DEF Accepted
  <2> QED
    BY <1>10, <2>1, <2>2 DEF Accepted
<1>11. CASE SendPass
  <2> QED
    BY <1>11, LoginHeld DEF SendPass, LoginUnchanged
<1>12. CASE SendAcct
  <2> QED
    BY <1>12, LoginHeld DEF SendAcct, LoginUnchanged
<1>13. CASE Denied
  BY <1>13 DEF Denied, LoginDone, LoginUnchanged, FlagsUnchanged
<1>14. CASE ZeroCode
  BY <1>14 DEF ZeroCode, LoginUnchanged, FlagsUnchanged
<1>15. CASE LoginReply
  BY <1>15, Lost DEF LoginReply, LoginDone, FlagsUnchanged, GetResponse
<1>16. CASE GetCWD
  BY <1>16 DEF GetCWD, LoginReturns, CwdUnchanged, Send, SendPlain, SendFails
<1>17. CASE CwdReply
  BY <1>17, Lost DEF CwdReply, LoginReturns, CwdUnchanged, GetResponse
<1>18. CASE QueryFeatures
  BY <1>18 DEF QueryFeatures, FeatUnchanged, Send, SendPlain, SendFails
<1>19. CASE FeatureReply
  BY <1>19, Lost DEF FeatureReply, FeatUnchanged, GetResponse
<1>20. CASE CloseHost
  BY <1>20 DEF CloseHost, CloseReturns, Send, SendPlain, FTPShutdownHost, CloseControlConnection, DeallocateHost
<1>21. CASE QuitReply
  BY <1>21 DEF QuitReply, CloseReturns, FTPShutdownHost, CloseControlConnection, DeallocateHost
<1>22. CASE ServerAnswers
  BY <1>22 DEF ServerAnswers
<1>23. CASE ServerGone
  BY <1>23 DEF ServerGone
<1>24. CASE UNCHANGED vars
  BY <1>24 DEF vars
<1> QED
  BY <1>1, <1>2, <1>3, <1>4, <1>5, <1>6, <1>7, <1>8, <1>9, <1>10, <1>11, <1>12, <1>13, <1>14, <1>15, <1>16, <1>17, <1>18, <1>19, <1>20, <1>21, <1>22, <1>23, <1>24 DEF Next, Client, Application, Server

LEMMA AccountQuiet ==
    ASSUME cmds' = <<>>, replies' = <<>>, pc' \notin {"greeting", "login", "loginReply"},
           loggedIn' # 1 \/ user' \in {"site", "both"}
    PROVE  AccountInv'
  BY DEF AccountInv

LEMMA AccountPlain ==
    ASSUME ExchangeInv, Outstanding = {}, NEW c \in CommandNames, SendPlain(c), c \notin {"PASS", "ACCT"},
           AccountInv, UNCHANGED user, pc' \notin {"greeting", "login", "loginReply"}
    PROVE  AccountInv'
<1>1. replies' = <<>> /\ \E x : x.cmd \notin {"PASS", "ACCT"} /\ cmds' = <<x>>
  BY ExchangeView DEF SendPlain, Send
<1>2. \A i \in 1 .. Len(cmds') : cmds'[i].cmd \notin {"PASS", "ACCT"}
  BY <1>1
<1>3. loggedIn' = loggedIn
  BY DEF SendPlain, Send
<1> QED
  BY <1>1, <1>2, <1>3 DEF AccountInv

\* A login command keeps it if it names, or goes to, the right party.
LEMMA AccountLogin ==
    ASSUME TypeOK, ExchangeInv, AccountInv, pc = "login",
           NEW c \in LoginCommands, NEW a \in Accounts, LoginCommand(c, a), 
           Named(c)', c = "PASS" => a = user',
           c = "ACCT" => a = IF acct = "set" THEN "site" ELSE "fw", UNCHANGED acct
    PROVE  AccountInv'
<1>1. Outstanding = {} /\ loggedIn # 1
  BY DEF Outstanding, AccountInv
<1>2. cmds = <<>> /\ replies = <<>>
  BY <1>1, ExchangeView
<1>3. CASE Send(c, a, IF a = "fw" THEN "real" ELSE pass) /\ pc' = "loginReply"
  <2>1. replies' = <<>> /\ loggedIn' # 1 /\ \E x : x.cmd = c /\ x.who = a /\ cmds' = <<x>>
    BY <1>1, <1>2, <1>3 DEF Send
  <2>2. \A i \in 1 .. Len(cmds') : cmds'[i].cmd = c /\ cmds'[i].who = a
    BY <2>1
  <2>3. \A i \in 1 .. Len(cmds') : Named(cmds[i].cmd)'
    BY <2>2
  <2> QED
    BY <1>3, <2>1, <2>2, <2>3 DEF AccountInv
<1>4. CASE SendFails /\ LoginDone("notSent")
  <2>1. cmds' = <<>> /\ replies' = <<>> /\ loggedIn' = loggedIn /\ pc' = "closeHost"
    BY <1>2, <1>4 DEF SendFails, conn, LoginDone
  <2> QED
    BY <1>1, <2>1, AccountQuiet
<1> QED
  BY <1>3, <1>4 DEF LoginCommand

LEMMA AccountInv_Next ==
    ASSUME 120 \notin Greetings, TypeOK, ExchangeInv, HeldInv, AccountInv, [Next]_vars
    PROVE  AccountInv'
<1> USE DEF TypeOK, CallTypeOK, ConnTypeOK, Flag, call, who, conn, heap, automaton
<1>1. CASE FTPOpenHost
  BY <1>1 DEF FTPOpenHost, AccountInv
<1>2. CASE ApplicationCloses
  BY <1>2 DEF ApplicationCloses, AccountInv
<1>3. CASE Dial
  BY <1>3 DEF Dial, AccountInv
<1>4. CASE DialsExhausted
  BY <1>4 DEF DialsExhausted, AccountInv
<1>5. CASE ConnectFails
  BY <1>5 DEF ConnectFails, AccountInv
<1>6. CASE ConnectSucceeds
  <2>1. replies' = <<>> /\ \E x : x.cmd = "CONNECT" /\ cmds' = <<x>>
    BY <1>6 DEF ConnectSucceeds
  <2>2. \A i \in 1 .. Len(cmds') : cmds'[i].cmd \notin {"PASS", "ACCT"}
    BY <2>1
  <2> QED
    BY <1>6, <2>1, <2>2 DEF ConnectSucceeds, HeldInv, AccountInv
<1>7. CASE Greeting
  <2>1. cmds = <<>> /\ replies' = <<>> /\ cmds' = <<>>
    BY <1>7, ExchangeView DEF Greeting
  <2>2. pc = "greeting" /\ loggedIn' # 1 /\ code' = 220 /\ pc' = "login"
    BY <1>7 DEF Greeting, AccountInv
  <2> QED
    BY <2>1, <2>2 DEF AccountInv
<1>8. CASE GreetingFails
  BY <1>8, Lost, AccountQuiet DEF GreetingFails, CloseControlConnection
<1>9. CASE SendUser
  <2>1. LoginCommand("USER", Party) /\ UNCHANGED <<who, sentpass, fwsentpass, fwloggedin>>
    BY <1>9 DEF SendUser, LoginUnchanged, FlagsUnchanged
  <2>2. user' = Party /\ Party' = Party /\ (AtSite' <=> AtSite)
    BY <2>1 DEF LoginCommand, Party, AtSite, Direct
  <2>3. AtSite => Party \in {"site", "both"}
    BY DEF AtSite, Party, Direct, SiteTypes
  <2>4. Named("USER")'
    BY <2>2, <2>3 DEF Named
  <2> QED
    BY <1>9, <2>1, <2>4, PartyType, AccountLogin DEF SendUser, LoginCommands
<1>10. CASE Accepted
  <2>1. CASE AtSite /\ LoginOkay
    <3>1. cmds' = <<>> /\ replies' = <<>> /\ user' = user /\ pc' = "cwd1"
      BY <1>10, <2>1, ExchangeView DEF LoginOkay, Accepted, Outstanding
    <3>2. user \in {"site", "both"}
      BY <1>10, <2>1 DEF Accepted, AccountInv
    <3> QED
      BY <3>1, <3>2, AccountQuiet
  <2>2. ASSUME NEW c \in {"USER", "OPEN", "SITE"}, NEW a \in {"site", "fw"}, LoginCommand(c, a),
               c = "USER" => a = "site", firewallType # "NotInUse"
        PROVE  AccountInv'
    <3>1. fwloggedin' = 1 /\ (c = "USER" => user' = "site")
      BY <1>10, <2>2 DEF Accepted, LoginCommand
    <3>2. Party' = "site"
      BY <3>1 DEF Party, Direct
    <3>3. Named(c)'
      BY <2>2, <3>1, <3>2 DEF Named
    <3> QED
      BY <1>10, <2>2, <3>3, AccountLogin DEF Accepted, LoginCommands, Accounts
  <2>3. ~AtSite => firewallType # "NotInUse"
    BY DEF AtSite
  <2> QED
    BY <1>10, <2>1, <2>2, <2>3 DEF Accepted
<1>11. CASE SendPass
  <2>1. LoginCommand("PASS", Party) /\ UNCHANGED <<who, fwloggedin>>
    BY <1>11 DEF SendPass, LoginUnchanged
  <2>2. user' = user /\ (AtSite' <=> AtSite)
    BY <2>1 DEF LoginCommand, AtSite
  <2>3. user = Party /\ (AtSite => Party \in {"site", "both"})
    BY <1>11 DEF SendPass, AccountInv, AtSite, Party, Direct, SiteTypes
  <2>4. Named("PASS")'
    BY <2>2, <2>3 DEF Named
  <2> QED
    BY <1>11, <2>1, <2>2, <2>3, <2>4, PartyType, AccountLogin DEF SendPass, LoginCommands
<1>12. CASE SendAcct
  <2> DEFINE a == IF acct = "set" THEN "site" ELSE "fw"
  <2>1. LoginCommand("ACCT", a) /\ UNCHANGED <<who, fwloggedin>>
    BY <1>12 DEF SendAcct, LoginUnchanged, FlagsUnchanged
  <2>2. user' = user /\ (AtSite' <=> AtSite)
    BY <2>1 DEF LoginCommand, AtSite
  <2>3. AtSite => user \in {"site", "both"}
    BY <1>12 DEF SendAcct, AccountInv
  <2>4. Named("ACCT")'
    BY <2>2, <2>3 DEF Named
  <2> QED
    BY <1>12, <2>1, <2>4, AccountLogin DEF SendAcct, LoginCommands, Accounts
<1>13. CASE Denied
  BY <1>13 DEF Denied, LoginDone, LoginUnchanged, FlagsUnchanged, AccountInv
<1>14. CASE ZeroCode
  BY <1>14 DEF ZeroCode, LoginUnchanged, FlagsUnchanged, AccountInv
<1>15. CASE LoginReply
  <2>1. CASE GetResponse /\ code' = Reply.code /\ pc' = "login"
    <3>1. replies # <<>> /\ loggedIn' = loggedIn /\ UNCHANGED <<user, firewallType, fwsentpass, fwloggedin>>
      BY <1>15, <2>1 DEF LoginReply, GetResponse, FlagsUnchanged
    <3>2. cmds' = <<>> /\ replies' = <<>>
      BY <2>1, <3>1, ExchangeView DEF GetResponse
    <3>3. Reply.cmd \in LoginCommands /\ Reply.code \in AnswersTo(Reply.cmd)
      BY <1>15, <3>1, ExchangeView DEF LoginReply, Outstanding
    <3>4. Named(Reply.cmd)
      BY <1>15, <3>1 DEF LoginReply, AccountInv, Reply
    <3>5. /\ Reply.code = 331 => Reply.cmd = "USER"
          /\ Reply.code \in {202, 230, 332} => Reply.cmd \in {"USER", "PASS", "ACCT"}
      BY <3>3, CodesAssumption DEF AnswersTo, LoginCommands
    <3>6. Party' = Party /\ (AtSite' <=> AtSite)
      BY <3>1 DEF Party, AtSite, Direct
    <3>7. loggedIn # 1
      BY <1>15 DEF LoginReply, AccountInv
    <3> QED
      BY <2>1, <3>1, <3>2, <3>4, <3>5, <3>6, <3>7 DEF Named, AccountInv
  <2>2. CASE pc' = "closeHost" /\ \E e \in Errors : GetResponseFails(e)
    BY <2>2, Lost, AccountQuiet
  <2> QED
    BY <1>15, <2>1, <2>2 DEF LoginReply, LoginDone
<1>16. CASE GetCWD
  <2>1. Outstanding = {} /\ user' = user /\ pc' \notin {"greeting", "login", "loginReply"}
    BY <1>16 DEF GetCWD, Outstanding, CwdUnchanged, LoginReturns
  <2>2. CASE SendPlain("PWD")
    BY <2>1, <2>2, AccountPlain DEF CommandNames
  <2>3. CASE UNCHANGED conn
    BY <2>1, <2>3, ExchangeView, AccountQuiet DEF AccountInv
  <2> QED
    BY <1>16, <2>2, <2>3 DEF GetCWD, SendFails
<1>17. CASE CwdReply
  <2>1. user' = user /\ pc' \notin {"greeting", "login", "loginReply"}
    BY <1>17 DEF CwdReply, LoginReturns, CwdUnchanged
  <2>2. CASE replies # <<>> /\ replies' = Tail(replies) /\ cmds' = cmds /\ loggedIn' = loggedIn
    BY <2>1, <2>2, ExchangeView, AccountQuiet DEF AccountInv
  <2> QED
    BY <1>17, <2>1, <2>2, Lost, AccountQuiet DEF CwdReply, GetResponse
<1>18. CASE QueryFeatures
  <2>1. Outstanding = {} /\ user' = user /\ pc' \notin {"greeting", "login", "loginReply"}
    BY <1>18 DEF QueryFeatures, Outstanding, FeatUnchanged
  <2>2. ASSUME NEW c \in {"FEAT", "HELP"}, SendPlain(c)
        PROVE  AccountInv'
    BY <2>1, <2>2, AccountPlain DEF CommandNames
  <2>3. CASE UNCHANGED conn
    BY <2>1, <2>3, ExchangeView, AccountQuiet DEF AccountInv
  <2> QED
    BY <1>18, <2>2, <2>3 DEF QueryFeatures, SendFails
<1>19. CASE FeatureReply
  <2>1. user' = user /\ pc' \notin {"greeting", "login", "loginReply"}
    BY <1>19 DEF FeatureReply, FeatUnchanged
  <2>2. CASE GetResponse
    BY <2>1, <2>2, ExchangeView, AccountQuiet DEF AccountInv, GetResponse
  <2> QED
    BY <1>19, <2>1, <2>2, Lost, AccountQuiet DEF FeatureReply
<1>20. CASE CloseHost
  <2>1. Outstanding = {} /\ user' = user /\ pc' \notin {"greeting", "login", "loginReply"}
    BY <1>20 DEF CloseHost, CloseReturns, Outstanding
  <2>2. CASE SendPlain("QUIT")
    BY <2>1, <2>2, AccountPlain DEF CommandNames
  <2>3. CASE CloseReturns
    BY <2>1, <2>3, AccountQuiet DEF CloseReturns, FTPShutdownHost, CloseControlConnection
  <2> QED
    BY <1>20, <2>2, <2>3 DEF CloseHost
<1>21. CASE QuitReply
  BY <1>21, AccountQuiet DEF QuitReply, CloseReturns, FTPShutdownHost, CloseControlConnection, DeallocateHost
<1>22. CASE ServerAnswers
  <2>1. PICK answer \in AnswersTo(Head(cmds).cmd) :
          /\ replies' = Append(replies, [cmd |-> Head(cmds).cmd, code |-> answer])
          /\ cmds' = IF answer = 120 THEN <<[Head(cmds) EXCEPT !.cmd = "READY"]>> \o Tail(cmds)
                     ELSE Tail(cmds)
    BY <1>22 DEF ServerAnswers
  <2>2. cmds # <<>> /\ UNCHANGED <<pc, code, user, loggedIn, firewallType, fwsentpass, fwloggedin>>
    BY <1>22 DEF ServerAnswers
  <2>3. answer # 120
    BY <2>1, <2>2, ExchangeView, CodesAssumption DEF AnswersTo, Outstanding, LoginCommands
  <2>4. cmds' = <<>> /\ Len(replies') = 1 /\ replies'[1].cmd = Head(cmds).cmd
    BY <2>1, <2>2, <2>3, ExchangeView
  <2>5. Party' = Party /\ (AtSite' <=> AtSite)
    BY <2>2 DEF Party, AtSite, Direct
  <2>6. pc = "loginReply" => Named(Head(cmds).cmd)
    BY <2>2 DEF AccountInv
  <2> QED
    BY <2>2, <2>4, <2>5, <2>6 DEF AccountInv, Named
<1>23. CASE ServerGone
  <2>1. cmds' = <<>> /\ UNCHANGED <<pc, code, user, loggedIn, replies, firewallType, fwsentpass, fwloggedin>>
    BY <1>23 DEF ServerGone
  <2>2. Party' = Party /\ (AtSite' <=> AtSite)
    BY <2>1 DEF Party, AtSite, Direct
  <2> QED
    BY <2>1, <2>2 DEF AccountInv, Named
<1>24. CASE UNCHANGED vars
  <2>1. Party' = Party /\ (AtSite' <=> AtSite)
    BY <1>24 DEF vars, Party, AtSite, Direct
  <2> QED
    BY <1>24, <2>1 DEF vars, AccountInv, Named
<1> QED
  BY <1>1, <1>2, <1>3, <1>4, <1>5, <1>6, <1>7, <1>8, <1>9, <1>10, <1>11, <1>12, <1>13, <1>14, <1>15, <1>16, <1>17, <1>18, <1>19, <1>20, <1>21, <1>22, <1>23, <1>24 DEF Next, Client, Application, Server

(***************************************************************************)
(* RefusedInv: its two parts are Sent, about the password on its way, and  *)
(* Told, about one that has come back refused.                             *)
(***************************************************************************)
Sent ==
    (pc = "loginReply" /\ user = "site") =>
        /\ \A i \in 1 .. Len(cmds) : cmds[i].cmd = "PASS" => sentpass = 1
        /\ \A i \in 1 .. Len(replies) : replies[i].cmd = "PASS" => sentpass = 1

Told ==
    (refused = "site" /\ anonLogin = 0) =>
        \/ pc = "login" /\ code = 530 /\ sentpass = 1
        \/ pc \in {"closeHost", "quitReply", "idle"} /\ result = "badPassword"

LEMMA RefusedParts ==
    /\ RefusedInv => Sent /\ Told
    /\ Sent' /\ Told' => RefusedInv'
  BY DEF RefusedInv, Sent, Told

LEMMA ToldBefore ==
    ASSUME Told, UNCHANGED <<refused, anonLogin>>,
           pc \notin {"login", "closeHost", "quitReply", "idle"} \/ (pc = "login" /\ code # 530)
    PROVE  Told'
  BY DEF Told

LEMMA SentElsewhere == ASSUME pc' # "loginReply" PROVE Sent'
  BY DEF Sent

\* A login command that is not the site's password.
LEMMA SentCommand ==
    ASSUME TypeOK, ExchangeInv, pc = "login", NEW c \in LoginCommands, NEW a \in Accounts,
           LoginCommand(c, a), (c = "PASS" /\ user' = "site") => sentpass' = 1
    PROVE  Sent'
<1>1. CASE pc' = "loginReply"
  <2>1. replies' = <<>> /\ \E x : x.cmd = c /\ cmds' = <<x>>
    BY <1>1, LoginExchange
  <2>2. \A i \in 1 .. Len(cmds') : cmds'[i].cmd = c
    BY <2>1
  <2> QED
    BY <2>1, <2>2 DEF Sent
<1> QED
  BY <1>1, SentElsewhere

LEMMA RefusedInv_Next ==
    ASSUME 120 \notin Greetings, TypeOK, ExchangeInv, AccountInv, RefusedInv, [Next]_vars
    PROVE  RefusedInv'
<1>0. Sent /\ Told
  BY RefusedParts
<1>1. CASE FTPOpenHost
  BY <1>1, RefusedParts DEF FTPOpenHost, Sent, Told
<1>2. CASE ApplicationCloses
  BY <1>0, <1>2, RefusedParts DEF ApplicationCloses, Sent, Told, call, who
<1>3. CASE Dial
  BY <1>0, <1>3, ToldBefore, SentElsewhere, RefusedParts DEF Dial, who
<1>4. CASE DialsExhausted
  BY <1>0, <1>4, ToldBefore, SentElsewhere, RefusedParts DEF DialsExhausted, call, who
<1>5. CASE ConnectFails
  BY <1>0, <1>5, ToldBefore, SentElsewhere, RefusedParts DEF ConnectFails, call, who
<1>6. CASE ConnectSucceeds
  BY <1>0, <1>6, ToldBefore, SentElsewhere, RefusedParts DEF ConnectSucceeds, call, who
<1>7. CASE Greeting
  BY <1>0, <1>7, ToldBefore, SentElsewhere, RefusedParts DEF Greeting, call, who
<1>8. CASE GreetingFails
  BY <1>0, <1>8, ToldBefore, SentElsewhere, RefusedParts DEF GreetingFails, call, who
<1>9. CASE SendUser
  <2>1. Told'
    BY <1>0, <1>9, ToldBefore DEF SendUser, LoginUnchanged, call, who
  <2>2. Sent'
    BY <1>9, SentCommand, PartyType DEF SendUser, LoginCommands
  <2> QED
    BY <2>1, <2>2, RefusedParts
<1>10. CASE Accepted
  <2>1. Told'
    BY <1>0, <1>10, ToldBefore DEF Accepted, call, who
  <2>2. CASE LoginOkay
    BY <2>1, <2>2, SentElsewhere, RefusedParts DEF LoginOkay
  <2>3. ASSUME NEW c \in {"USER", "OPEN", "SITE"}, NEW a \in {"site", "fw"}, LoginCommand(c, a)
        PROVE  Sent'
    BY <1>10, <2>3, SentCommand DEF Accepted, LoginCommands, Accounts
  <2> QED
    BY <1>10, <2>1, <2>2, <2>3, RefusedParts DEF Accepted
<1>11. CASE SendPass
  <2>1. Told'
    BY <1>0, <1>11, ToldBefore DEF SendPass, LoginUnchanged, call, who
  <2>2. user = Party /\ LoginCommand("PASS", Party)
    BY <1>11 DEF SendPass, AccountInv
  <2>3. user' = user
    BY <2>2 DEF LoginCommand
  <2>4. user' = "site" => sentpass' = 1
    BY <1>11, <2>2, <2>3 DEF SendPass
  <2>5. Sent'
    BY <1>11, <2>2, <2>4, SentCommand, PartyType DEF SendPass, LoginCommands
  <2> QED
    BY <2>1, <2>5, RefusedParts
<1>12. CASE SendAcct
  <2>1. Told'
    BY <1>0, <1>12, ToldBefore DEF SendAcct, LoginUnchanged, call, who
  <2>2. Sent'
    BY <1>12, SentCommand DEF SendAcct, LoginCommands, Accounts
  <2> QED
    BY <2>1, <2>2, RefusedParts
<1>13. CASE Denied
  <2>1. pc' = "closeHost" /\ UNCHANGED <<refused, anonLogin>>
    BY <1>13 DEF Denied, LoginDone, LoginUnchanged, call, who
  <2>2. (code = 530 /\ sentpass = 1) => result' = "badPassword"
    BY <1>13 DEF Denied, LoginDone
  <2>3. pc = "login"
    BY <1>13 DEF Denied
  <2> QED
    BY <1>0, <2>1, <2>2, <2>3, SentElsewhere, RefusedParts DEF Told
<1>14. CASE ZeroCode
  BY <1>0, <1>14, ToldBefore, SentElsewhere, RefusedParts DEF ZeroCode, LoginUnchanged, call, who
<1>15. CASE LoginReply
  <2>1. Sent'
    BY <1>15, SentElsewhere DEF LoginReply, LoginDone
  <2>2. ASSUME GetResponse, code' = Reply.code, pc' = "login", Reply.cmd = "PASS",
               Reply.code = 530, user = "site"
        PROVE  Told'
    <3>1. replies # <<>> /\ pc = "loginReply" /\ UNCHANGED sentpass
      BY <1>15, <2>2 DEF GetResponse, LoginReply, FlagsUnchanged
    <3>2. Len(replies) > 0 /\ replies[1].cmd = "PASS"
      BY <2>2, <3>1, ExchangeView
    <3>3. sentpass = 1
      BY <1>0, <2>2, <3>1, <3>2 DEF Sent
    <3> QED
      BY <2>2, <3>1, <3>3 DEF Told
  <2>3. ASSUME UNCHANGED refused \/ (refused' = user /\ user # "site")
        PROVE  Told'
    <3>1. UNCHANGED anonLogin /\ pc = "loginReply"
      BY <1>15 DEF LoginReply, who
    <3> QED
      BY <1>0, <2>3, <3>1 DEF Told
  <2>4. Told'
    BY <1>15, <2>2, <2>3 DEF LoginReply
  <2> QED
    BY <2>1, <2>4, RefusedParts
<1>16. CASE GetCWD
  BY <1>0, <1>16, ToldBefore, SentElsewhere, RefusedParts DEF GetCWD, LoginReturns, CwdUnchanged, call, who
<1>17. CASE CwdReply
  BY <1>0, <1>17, ToldBefore, SentElsewhere, RefusedParts DEF CwdReply, LoginReturns, CwdUnchanged, call, who
<1>18. CASE QueryFeatures
  BY <1>0, <1>18, ToldBefore, SentElsewhere, RefusedParts DEF QueryFeatures, FeatUnchanged, call, who
<1>19. CASE FeatureReply
  BY <1>0, <1>19, ToldBefore, SentElsewhere, RefusedParts DEF FeatureReply, FeatUnchanged, call, who
<1>20. CASE CloseHost
  <2>1. pc = "closeHost" /\ UNCHANGED <<refused, anonLogin>>
    BY <1>20 DEF CloseHost, call, who
  <2>2. Told'
    BY <1>0, <1>20, <2>1 DEF CloseHost, CloseReturns, Denial, Told
  <2> QED
    BY <1>20, <2>2, SentElsewhere, RefusedParts DEF CloseHost, CloseReturns
<1>21. CASE QuitReply
  <2>1. pc = "quitReply" /\ UNCHANGED <<refused, anonLogin>>
    BY <1>21 DEF QuitReply, call, who
  <2>2. Told'
    BY <1>0, <1>21, <2>1 DEF QuitReply, CloseReturns, Denial, Told
  <2> QED
    BY <1>21, <2>2, SentElsewhere, RefusedParts DEF QuitReply, CloseReturns
<1>22. CASE ServerAnswers
  <2>1. PICK answer \in AnswersTo(Head(cmds).cmd) :
          /\ replies' = Append(replies, [cmd |-> Head(cmds).cmd, code |-> answer])
          /\ cmds' = IF answer = 120 THEN <<[Head(cmds) EXCEPT !.cmd = "READY"]>> \o Tail(cmds)
                     ELSE Tail(cmds)
    BY <1>22 DEF ServerAnswers
  <2>2. /\ cmds # <<>> /\ UNCHANGED <<pc, code, user, sentpass, result, refused, anonLogin>>
    BY <1>22 DEF ServerAnswers, call, who, automaton
  <2>3. answer # 120
    BY <2>1, <2>2, ExchangeView, CodesAssumption DEF AnswersTo, Outstanding, LoginCommands
  <2>4. cmds' = <<>> /\ Len(replies') = 1 /\ replies'[1].cmd = Head(cmds).cmd /\ Len(cmds) = 1
        /\ Head(cmds) = cmds[1]
    BY <2>1, <2>2, <2>3, ExchangeView
  <2>5. Sent'
    BY <1>0, <2>2, <2>4 DEF Sent
  <2>6. Told'
    BY <1>0, <2>2 DEF Told
  <2> QED
    BY <2>5, <2>6, RefusedParts
<1>23. CASE ServerGone
  <2>1. cmds' = <<>> /\ UNCHANGED <<pc, code, user, sentpass, result, refused, anonLogin, replies>>
    BY <1>23 DEF ServerGone, call, who, automaton
  <2>2. Sent'
    BY <1>0, <2>1 DEF Sent
  <2>3. Told'
    BY <1>0, <2>1 DEF Told
  <2> QED
    BY <2>2, <2>3, RefusedParts
<1>24. CASE UNCHANGED vars
  BY <1>24 DEF vars, call, who, conn, automaton, RefusedInv
<1> QED
  BY <1>1, <1>2, <1>3, <1>4, <1>5, <1>6, <1>7, <1>8, <1>9, <1>10, <1>11, <1>12, <1>13, <1>14, <1>15, <1>16, <1>17, <1>18, <1>19, <1>20, <1>21, <1>22, <1>23, <1>24 DEF Next, Client, Application, Server

(***************************************************************************)
(* The theorems.                                                           *)
(***************************************************************************)
LEMMA OpenInvInit ==
    ASSUME Init
    PROVE  OpenInv
  BY DEF Init, OpenInv, ExchangeInv, HeldInv, AccountInv, RefusedInv, Denial

\* What is held in each place of FTPOpenHost, whatever the server greets with.
THEOREM HeldInvHolds == Spec => []HeldInv
<1>1. Init => HeldInv
  BY OpenInvInit DEF OpenInv
<1>2. TypeOK /\ HeldInv /\ [Next]_vars => HeldInv'
  BY HeldInv_Next
<1> QED
  BY <1>1, <1>2, TypeCorrect, PTL DEF Spec

\* FTPOpenHost that fails leaves nothing open or allocated: the part of HeldInv for
\* an idle library.
THEOREM FailureLeavesNothingHolds == Spec => []FailureLeavesNothing
<1>1. HeldInv => FailureLeavesNothing
  BY DEF HeldInv, FailureLeavesNothing
<1> QED
  BY <1>1, HeldInvHolds, PTL

\* The four parts together, when no server announces a delay (120).
THEOREM OpenInvHolds ==
    ASSUME 120 \notin Greetings
    PROVE  Spec => []OpenInv
<1>1. Init => OpenInv
  BY OpenInvInit
<1>2. TypeOK /\ OpenInv /\ [Next]_vars => OpenInv'
  BY ExchangeInv_Next, HeldInv_Next, AccountInv_Next, RefusedInv_Next DEF OpenInv
<1> QED
  BY <1>1, <1>2, TypeCorrect, PTL DEF Spec

\* Logged in means logged in to the site, for every type of firewall.
THEOREM LoggedInToSiteHolds ==
    ASSUME 120 \notin Greetings
    PROVE  Spec => []LoggedInToSite
<1>1. OpenInv => LoggedInToSite
  BY DEF OpenInv, AccountInv, LoggedInToSite
<1> QED
  BY <1>1, OpenInvHolds, PTL

\* A password goes to the party that USER named; the firewall's goes as an account only
\* where none is set.
THEOREM PasswordMatchesUserHolds ==
    ASSUME 120 \notin Greetings
    PROVE  Spec => []PasswordMatchesUser
<1>1. TypeOK /\ OpenInv => PasswordMatchesUser
  BY DEF TypeOK, CallTypeOK, OpenInv, AccountInv, PasswordMatchesUser
<1> QED
  BY <1>1, TypeCorrect, OpenInvHolds, PTL

\* A named user whose password the site has refused is not dialled for again: only Dial
\* counts, and RefusedInv says where the library is after a refusal.
THEOREM DeniedIsFinalHolds ==
    ASSUME 120 \notin Greetings
    PROVE  Spec => DeniedIsFinal
<1>1. TypeOK /\ OpenInv /\ [Next]_vars => [numDials' > numDials => refused # "site" \/ anonLogin = 1]_vars
  <2> SUFFICES ASSUME TypeOK, OpenInv, Next, numDials' > numDials
               PROVE  refused # "site" \/ anonLogin = 1
    OBVIOUS
  <2> USE DEF TypeOK, CallTypeOK, Flag
  <2>1. numDials' \notin {numDials, 0}
    OBVIOUS
  <2>2. Dial
    BY <2>1 DEF Next, Client, Application, Server, FTPOpenHost, ApplicationCloses, DialsExhausted,
       ConnectFails, ConnectSucceeds, Greeting, GreetingFails, SendUser, Accepted, SendPass,
       SendAcct, Denied, ZeroCode, LoginReply, GetCWD, CwdReply, QueryFeatures, FeatureReply,
       CloseHost, QuitReply, ServerAnswers, ServerGone, call, LoginUnchanged, CwdUnchanged,
       FeatUnchanged
  <2> QED
    BY <2>2 DEF Dial, OpenInv, RefusedInv
<1> QED
  BY <1>1, TypeCorrect, OpenInvHolds, PTL DEF Spec, DeniedIsFinal

\* What the application gets is a connection with nothing outstanding.
THEOREM OpenLeavesQuietHolds ==
    ASSUME 120 \notin Greetings
    PROVE  Spec => []OpenLeavesQuiet
<1>1. OpenInv => OpenLeavesQuiet
  BY ExchangeView DEF OpenInv, HeldInv, OpenLeavesQuiet, Outstanding
<1> QED
  BY <1>1, OpenInvHolds, PTL

=============================================================================
