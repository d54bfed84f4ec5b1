------------------------------ MODULE FtpOpen ------------------------------
(***************************************************************************)
(* libncftp: FTPOpenHost, which dials, logs in (perhaps through a          *)
(* firewall), looks at the features of the server and redials when that    *)
(* fails, and FTPCloseHost, after which the same FTPConnectionInfo may be  *)
(* opened again.                                                           *)
(*                                                                         *)
(* The control connection is two FIFO channels.  Connecting counts as a    *)
(* command, which the greeting answers.  A reply carries the command it    *)
(* answers; the client never looks at that.                                *)
(***************************************************************************)
EXTENDS Integers, Sequences

CONSTANTS
    MaxOpens,        \* bound: calls of FTPOpenHost
    maxDials,        \* cip->maxDials (negative, "for ever", is not modelled)
    FirewallTypes,   \* the values of cip->firewallType that are considered
    Greetings,       \* codes the server may greet with
    OddCodes         \* codes outside RFC 959 that it may answer a login command with

AllFirewallTypes == {"NotInUse", "UserAtSite", "LoginThenUserAtSite", "SiteSite", "OpenSite",
    "UserAtUserPassAtPass", "FwuAtSiteFwpUserPass", "UserAtSiteFwuPassFwp",
    "UserAtSitePort", "UserAtSitePort2"}

ASSUME OpensAssumption == MaxOpens \in Nat
ASSUME DialsAssumption == maxDials \in Nat
ASSUME FirewallAssumption == FirewallTypes \subseteq AllFirewallTypes
ASSUME CodesAssumption == Greetings \subseteq {120, 220, 421, 500} /\ OddCodes \subseteq {0}

VARIABLES
    pc,             \* where the library is
    opens,          \* calls of FTPOpenHost so far
    numDials,       \* cip->numDials
    result,         \* "result" of FTPOpenHost, or of FTPLoginHost inside it
    firewallType, anonLogin,   \* cip->firewallType; 1 if cip->user is "anonymous" ("ftp" is
                    \* not considered: FTPLoginHost, but not FTPOpenHost, takes it for anonymous)
    acct,           \* cip->acct: "set" by the application, or "empty"
    ctrl,           \* cip->ctrlSocketR and W
    connected, loggedIn,       \* the flags of cip
    buf,            \* cip->buf: NULL or allocated
    cwd,            \* cip->currentWorkingDirectory: NULL, "" or a path
    cwdSize,        \* cip->currentWorkingDirectorySize > 0
    pass,           \* cip->pass: as the application set it, or asterisks
    code,           \* rp->code, the reply the login automaton looks at
    sentpass, fwsentpass, fwloggedin,   \* its flags
    user,           \* history: the account the last USER of this connection named
    refused,        \* history: the account whose password this call saw refused with 530
    cmds, replies,  \* the control connection
    peer            \* the server's end of it

call == <<opens, numDials, refused>>
who == <<firewallType, anonLogin, acct>>
conn == <<ctrl, connected, loggedIn, cmds, replies, peer>>
heap == <<buf, cwd, cwdSize>>
automaton == <<code, sentpass, fwsentpass, fwloggedin, user>>
vars == <<pc, result, pass, call, who, conn, heap, automaton>>

Accounts == {"fw", "site", "both"}
CommandNames == {"CONNECT", "READY", "USER", "PASS", "ACCT", "OPEN", "SITE", "PWD", "FEAT",
                 "HELP", "QUIT"}
LoginCommands == {"USER", "PASS", "ACCT", "OPEN", "SITE"}
ReplyCodes == {0, 120, 202, 211, 214, 220, 221, 230, 257, 331, 332, 421, 500, 530, 550}
Retryable == {"retryable", "closed"}    \* kErrConnectRetryableErr and kErrConnectRefused,
                                        \* kErrRemoteHostClosedConnection
Errors == Retryable \cup {"timedOut", "invalidReply", "notSent", "badUser", "badPassword", "misc"}
CommandRecord == [cmd : CommandNames, who : Accounts, pass : {"real", "stars"}]
ReplyRecord == [cmd : CommandNames, code : ReplyCodes]
Flag == {0, 1}

ConnTypeOK ==
    /\ ctrl \in {"open", "closed"} /\ peer \in {"up", "gone"}
    /\ connected \in Flag /\ loggedIn \in Flag
    /\ cmds \in Seq(CommandRecord) /\ replies \in Seq(ReplyRecord)

HeapTypeOK ==
    /\ buf \in {"null", "allocated"}
    /\ cwd \in {"null", "empty", "set"} /\ cwdSize \in Flag

CallTypeOK ==
    /\ pc \in {"idle", "dial", "connect", "greeting", "login", "loginReply", "closeHost",
               "quitReply", "cwd1", "cwdReply1", "cwd2", "cwdReply2", "feat", "featReply",
               "help", "helpReply", "crashed"}
    /\ opens \in 0 .. MaxOpens /\ numDials \in 0 .. maxDials
    /\ result \in Errors \cup {"none", "ok"}
    /\ firewallType \in FirewallTypes /\ anonLogin \in Flag /\ acct \in {"set", "empty"}
    /\ pass \in {"real", "stars"}
    /\ code \in ReplyCodes
    /\ sentpass \in Flag /\ fwsentpass \in Flag /\ fwloggedin \in Flag
    /\ user \in Accounts \cup {"none"} /\ refused \in Accounts \cup {"none"}

\* The types of FTPConnectionInfo, of the connection and of FTPLoginHost's locals.
TypeOK == ConnTypeOK /\ HeapTypeOK /\ CallTypeOK

\* FTPInitConnectionInfo2, then the application fills in the host and the user.
Init ==
    /\ pc = "idle" /\ opens = 0 /\ numDials = 0 /\ result = "none"
    /\ firewallType \in FirewallTypes /\ anonLogin \in Flag /\ acct \in {"set", "empty"}
    /\ refused = "none"
    /\ ctrl = "closed" /\ connected = 0 /\ loggedIn = 0
    /\ buf = "null" /\ cwd = "null" /\ cwdSize = 1 /\ pass = "real"
    /\ code = 220 /\ sentpass = 0 /\ fwsentpass = 0 /\ fwloggedin = 0 /\ user = "none"
    /\ cmds = <<>> /\ replies = <<>> /\ peer = "gone"

-----------------------------------------------------------------------------
(***************************************************************************)
(* What the steps are made of.                                             *)
(***************************************************************************)

\* FTPCloseControlConnection.  What was under way on the connection is lost.
CloseControlConnection ==
    /\ ctrl' = "closed" /\ connected' = 0 /\ loggedIn' = 0
    /\ cmds' = <<>> /\ replies' = <<>> /\ peer' = "gone"

\* FTPDeallocateHost: the size of the path buffer is forgotten with the buffer.
DeallocateHost ==
    /\ buf' = "null"
    /\ cwd' = "null"
    /\ cwdSize' = IF cwd = "null" THEN cwdSize ELSE 0

FTPShutdownHost == CloseControlConnection /\ DeallocateHost

Send(c, account, password) ==
    /\ ctrl = "open"
    /\ cmds' = Append(cmds, [cmd |-> c, who |-> account, pass |-> password])
    /\ UNCHANGED <<ctrl, connected, loggedIn, replies, peer>>
SendPlain(c) == Send(c, "site", "real")

\* kErrNotConnected, or the write fails: the connection is left as it is.
SendFails == (ctrl = "closed" \/ peer = "gone") /\ UNCHANGED conn

Reply == Head(replies)

GetResponse ==
    /\ ctrl = "open" /\ replies # <<>> /\ Reply.code # 421
    /\ replies' = Tail(replies)
    /\ UNCHANGED <<ctrl, connected, loggedIn, cmds, peer, heap>>

\* GetResponse returns the error e and has shut the host down: a 421, a timeout, the
\* end of the connection, a read error.
GetResponseFails(e) ==
    /\ \/ replies # <<>> /\ Reply.code = 421 /\ e = "closed"
       \/ replies = <<>> /\ e = "timedOut"
       \/ replies = <<>> /\ peer = "gone" /\ e \in {"closed", "invalidReply"}
    /\ FTPShutdownHost

-----------------------------------------------------------------------------
(***************************************************************************)
(* The loop of FTPOpenHost, and OpenControlConnection.                     *)
(***************************************************************************)
FTPOpenHost ==
    /\ pc = "idle" /\ opens < MaxOpens /\ connected = 0 /\ ctrl = "closed"
    /\ opens' = opens + 1 /\ numDials' = 0 /\ refused' = "none"
    /\ pc' = "dial" /\ result' = "misc"      \* kErrConnectMiscErr
    /\ pass' = "real"                        \* set again by the application
    /\ UNCHANGED <<who, conn, heap, automaton>>

\* Mutant: a dial that does not count.
Dial_Uncounted ==
    /\ pc = "dial" /\ numDials < maxDials
    /\ buf' = "allocated" /\ pc' = "connect"
    /\ UNCHANGED <<numDials, opens, refused, result, pass, who, conn, cwd, cwdSize, automaton>>

Dial ==
    /\ pc = "dial" /\ numDials < maxDials
    /\ numDials' = numDials + 1
    /\ buf' = "allocated"
    /\ pc' = "connect"
    /\ UNCHANGED <<opens, refused, result, pass, who, conn, cwd, cwdSize, automaton>>

\* Mutant: what the last dial allocated is not freed.
DialsExhausted_KeepsBuffer ==
    /\ pc = "dial" /\ numDials >= maxDials
    /\ pc' = "idle"
    /\ UNCHANGED <<result, pass, call, who, conn, heap, automaton>>

DialsExhausted ==
    /\ pc = "dial" /\ numDials >= maxDials
    /\ DeallocateHost
    /\ pc' = "idle"
    /\ UNCHANGED <<result, pass, call, who, conn, automaton>>

\* Some errors are worth another dial, an unknown host or no socket is not.
ConnectFails ==
    /\ pc = "connect"
    /\ \/ result' = "retryable" /\ pc' = "dial" /\ UNCHANGED heap
       \/ result' = "misc" /\ pc' = "idle" /\ DeallocateHost
    /\ UNCHANGED <<pass, call, who, conn, automaton>>

ConnectSucceeds ==
    /\ pc = "connect"
    /\ ctrl' = "open" /\ peer' = "up" /\ pc' = "greeting"
    /\ cmds' = <<[cmd |-> "CONNECT", who |-> "site", pass |-> "real"]>> /\ replies' = <<>>
    /\ user' = "none"
    /\ UNCHANGED <<result, pass, call, who, connected, loggedIn, heap, code, sentpass,
                   fwsentpass, fwloggedin>>

\* A greeting of 1xx, 2xx or 3xx will do: the automaton starts as if it were 220.
Greeting ==
    /\ pc = "greeting"
    /\ ctrl = "open" /\ replies # <<>> /\ Reply.code < 400
    /\ replies' = Tail(replies)
    /\ connected' = 1
    /\ pc' = "login" /\ code' = 220 /\ sentpass' = 0 /\ fwsentpass' = 0 /\ fwloggedin' = 0
    /\ UNCHANGED <<result, pass, call, who, ctrl, loggedIn, cmds, peer, heap, user>>

\* "fatal": both a refusal and a lost connection are retried, a timeout is not.
GreetingFails ==
    /\ pc = "greeting"
    /\ \/ /\ replies # <<>> /\ Reply.code >= 400 /\ Reply.code # 421
          /\ CloseControlConnection /\ UNCHANGED heap
          /\ result' = "retryable"
       \/ \E e \in Errors :
            /\ GetResponseFails(e)
            /\ result' = IF replies # <<>> THEN "retryable" ELSE e
    /\ pc' = IF result' \in Retryable THEN "dial" ELSE "idle"
    /\ UNCHANGED <<pass, call, who, automaton>>

-----------------------------------------------------------------------------
(***************************************************************************)
(* FTPLoginHost: one step per reply code of the automaton.                 *)
(***************************************************************************)
Direct == firewallType = "NotInUse" \/ fwloggedin = 1 \/ fwsentpass = 1
SiteTypes == {"UserAtSite", "UserAtSitePort", "UserAtSitePort2", "UserAtSiteFwuPassFwp"}

\* Whose account the next USER names, and whose password answers a 331.
Party ==
    IF Direct \/ firewallType \in SiteTypes THEN "site"
    ELSE IF firewallType = "UserAtUserPassAtPass" THEN "both"
    ELSE "fw"

\* A positive reply means that the site, too, has let the user in.
AtSite ==
    \/ firewallType = "NotInUse" \/ fwloggedin = 1
    \/ firewallType \in SiteTypes \cup {"UserAtUserPassAtPass"}

\* "done": the password is overwritten unless FTPOpenHost is thought to redial.
LoginDone(e) ==
    /\ result' = e
    /\ pc' = "closeHost"
    /\ pass' = IF anonLogin = 1 \/ e \in Retryable THEN pass ELSE "stars"

\* RCmd; its reply, or its error, is for the next turn of the loop.
LoginCommand(c, account) ==
    /\ \/ /\ Send(c, account, IF account = "fw" THEN "real" ELSE pass)
          /\ pc' = "loginReply" /\ UNCHANGED <<result, pass>>
       \/ SendFails /\ LoginDone("notSent")
    /\ user' = IF c = "USER" THEN account ELSE user

LoginUnchanged == <<call, who, heap, code>>
FlagsUnchanged == <<sentpass, fwsentpass, fwloggedin>>

\* "okay": FTPLoginHost goes on to the working directory.
LoginOkay ==
    /\ pc' = "cwd1" /\ loggedIn' = 1
    /\ cwd' = IF cwd = "null" /\ cwdSize = 1 THEN "empty" ELSE cwd
    /\ UNCHANGED <<result, pass, ctrl, connected, cmds, replies, peer, buf, cwdSize, user>>

SendUser ==
    /\ pc = "login" /\ code = 220
    /\ LoginCommand("USER", Party)
    /\ UNCHANGED <<LoginUnchanged, FlagsUnchanged>>

\* Mutant: every firewall is treated as one that has logged in to the site as well.
Accepted_FirewallIsEnough ==
    /\ pc = "login" /\ code \in {230, 202}
    /\ LoginOkay /\ UNCHANGED <<call, who, code, FlagsUnchanged>>

\* Logged in: to the site, or first to the firewall, which is told the site.
Accepted ==
    /\ pc = "login" /\ code \in {230, 202}
    /\ fwloggedin' = IF firewallType = "NotInUse" THEN fwloggedin ELSE 1
    /\ \/ AtSite /\ LoginOkay
       \/ /\ ~AtSite
          /\ \/ firewallType \in {"LoginThenUserAtSite", "FwuAtSiteFwpUserPass"}
                /\ LoginCommand("USER", "site")
             \/ firewallType = "OpenSite" /\ LoginCommand("OPEN", "fw")
             \/ firewallType = "SiteSite" /\ LoginCommand("SITE", "fw")
          /\ UNCHANGED heap
    /\ UNCHANGED <<call, who, code, sentpass, fwsentpass>>

\* Mutant: that the password was sent is not noted.
SendPass_DeniedIsFinal ==
    /\ pc = "login" /\ code = 331
    /\ LoginCommand("PASS", Party)
    /\ IF Party = "site" THEN UNCHANGED <<sentpass, fwsentpass>>
       ELSE fwsentpass' = 1 /\ UNCHANGED sentpass
    /\ UNCHANGED <<LoginUnchanged, fwloggedin>>

SendPass ==
    /\ pc = "login" /\ code = 331
    /\ LoginCommand("PASS", Party)
    /\ IF Party = "site" THEN sentpass' = 1 /\ UNCHANGED fwsentpass
       ELSE fwsentpass' = 1 /\ UNCHANGED sentpass
    /\ UNCHANGED <<LoginUnchanged, fwloggedin>>

\* Mutant: the firewall's password is sent for an account even if there is one.
SendAcct_PasswordMatchesUser ==
    /\ pc = "login" /\ code = 332
    /\ LoginCommand("ACCT", "fw")
    /\ UNCHANGED <<LoginUnchanged, FlagsUnchanged>>

\* Whoever asks for an account gets cip->acct or else the firewall's password.
SendAcct ==
    /\ pc = "login" /\ code = 332
    /\ LoginCommand("ACCT", IF acct = "set" THEN "site" ELSE "fw")
    /\ UNCHANGED <<LoginUnchanged, FlagsUnchanged>>

\* 530, the codes that end the loop with the code type for a result, which becomes
\* kErrLoginHostMiscErr, and everything unexpected.
Denied ==
    /\ pc = "login" /\ code \notin {220, 230, 202, 331, 332, 0}
    /\ LoginDone(IF code # 530 THEN "misc" ELSE IF sentpass = 1 THEN "badPassword" ELSE "badUser")
    /\ UNCHANGED <<LoginUnchanged, FlagsUnchanged, conn, user>>

\* An unexpected reply of code type 0: "result" is 0, and that is kNoErr.
ZeroCode ==
    /\ pc = "login" /\ code = 0
    /\ result' = "ok" /\ pc' = "feat" /\ pass' = IF anonLogin = 1 THEN pass ELSE "stars"
    /\ UNCHANGED <<LoginUnchanged, FlagsUnchanged, conn, user>>

LoginReply ==
    /\ pc = "loginReply"
    /\ \/ /\ GetResponse /\ code' = Reply.code /\ pc' = "login" /\ UNCHANGED <<result, pass>>
          /\ refused' = IF Reply.cmd = "PASS" /\ Reply.code = 530 THEN user ELSE refused
       \/ \E e \in Errors : GetResponseFails(e) /\ LoginDone(e) /\ UNCHANGED <<code, refused>>
    /\ UNCHANGED <<opens, numDials, who, FlagsUnchanged, user>>

-----------------------------------------------------------------------------
(***************************************************************************)
(* The rest of FTPLoginHost, with FTPGetCWD, and FTPQueryFeatures.         *)
(***************************************************************************)
CwdUnchanged == <<call, who, automaton>>

\* FTPLoginHost returns kNoErr whatever FTPGetCWD returned.
LoginReturns ==
    /\ pc' = "feat" /\ result' = "ok"
    /\ pass' = IF anonLogin = 1 THEN pass ELSE "stars"

\* The first FTPGetCWD needs cip->currentWorkingDirectory, the second one is called
\* with a local array when the first failed.
GetCWD ==
    /\ \/ pc = "cwd1" /\ cwd = "null" /\ pc' = "cwd2" /\ UNCHANGED <<conn, result, pass>>
       \/ /\ pc = "cwd1" /\ cwd # "null"
          /\ \/ SendPlain("PWD") /\ pc' = "cwdReply1"
             \/ SendFails /\ pc' = "cwd2"
          /\ UNCHANGED <<result, pass>>
       \/ pc = "cwd2" /\ SendPlain("PWD") /\ pc' = "cwdReply2" /\ UNCHANGED <<result, pass>>
       \/ pc = "cwd2" /\ SendFails /\ LoginReturns
    /\ UNCHANGED <<CwdUnchanged, heap>>

\* After a 2xx reply FTPGetCWD reads cip->currentWorkingDirectory even if it is NULL.
\* A line without a quoted name leaves the cached path empty.
CwdReply ==
    /\ pc \in {"cwdReply1", "cwdReply2"}
    /\ \/ /\ ctrl = "open" /\ replies # <<>> /\ Reply.code \in 200 .. 299
          /\ replies' = Tail(replies)
          /\ IF cwd = "null"
             THEN pc' = "crashed" /\ UNCHANGED <<cwd, result, pass>>
             ELSE cwd' \in {"empty", "set"} /\ LoginReturns
          /\ UNCHANGED <<ctrl, connected, loggedIn, cmds, peer, buf, cwdSize>>
       \/ /\ GetResponse /\ Reply.code \notin 200 .. 299
          /\ IF pc = "cwdReply1" THEN pc' = "cwd2" /\ UNCHANGED <<result, pass>> ELSE LoginReturns
       \/ /\ \E e \in Errors : GetResponseFails(e)
          /\ IF pc = "cwdReply1" THEN pc' = "cwd2" /\ UNCHANGED <<result, pass>> ELSE LoginReturns
    /\ UNCHANGED CwdUnchanged

FeatUnchanged == <<result, pass, call, who, automaton>>

\* A server known not to know FEAT (NetWare) is not asked; an error ends
\* FTPQueryFeatures, and FTPOpenHost ignores it.
QueryFeatures ==
    /\ \/ pc = "feat" /\ pc' = "idle" /\ UNCHANGED conn
       \/ pc = "feat" /\ SendPlain("FEAT") /\ pc' = "featReply"
       \/ pc = "feat" /\ SendFails /\ pc' = "idle"
       \/ pc = "help" /\ SendPlain("HELP") /\ pc' = "helpReply"
       \/ pc = "help" /\ SendFails /\ pc' = "idle"
    /\ UNCHANGED <<FeatUnchanged, heap>>

\* Mutant: the reply to HELP SITE is left for somebody else.
FeatureReply_HelpUnread ==
    /\ \/ pc = "featReply" /\ GetResponse /\ pc' \in {"help", "idle"}
       \/ pc = "helpReply" /\ pc' = "idle" /\ UNCHANGED <<conn, heap>>
       \/ /\ pc = "featReply"
          /\ \E e \in Errors : GetResponseFails(e)
          /\ pc' = "idle"
    /\ UNCHANGED FeatUnchanged

\* HELP SITE is not sent if the application or the override string has ruled it out.
FeatureReply ==
    /\ \/ pc = "featReply" /\ GetResponse /\ pc' \in {"help", "idle"}
       \/ pc = "helpReply" /\ GetResponse /\ pc' = "idle"
       \/ /\ pc \in {"featReply", "helpReply"}
          /\ \E e \in Errors : GetResponseFails(e)
          /\ pc' = "idle"
    /\ UNCHANGED FeatUnchanged

-----------------------------------------------------------------------------
(***************************************************************************)
(* FTPCloseHost, called by FTPOpenHost after a failed login or by the      *)
(* application when it is done.                                            *)
(***************************************************************************)
ApplicationCloses ==
    /\ pc = "idle" /\ result = "ok"
    /\ pc' = "closeHost"
    /\ UNCHANGED <<result, pass, call, who, conn, heap, automaton>>

\* FTPOpenHost gives up when a named user's password was refused.
Denial == result = "badPassword" /\ anonLogin = 0
CloseReturns ==
    /\ FTPShutdownHost          \* FTPCloseControlConnection and FTPDeallocateHost
    /\ pc' = IF result = "ok" \/ Denial THEN "idle" ELSE "dial"
    /\ result' = IF result = "ok" THEN "none" ELSE result

CloseHost ==
    /\ pc = "closeHost"
    /\ \/ connected = 1 /\ SendPlain("QUIT") /\ pc' = "quitReply" /\ UNCHANGED <<result, heap>>
       \/ (connected = 0 \/ ctrl = "closed" \/ peer = "gone") /\ CloseReturns
    /\ UNCHANGED <<pass, call, who, automaton>>

\* The reply to QUIT, or that there is none, does not matter.
QuitReply ==
    /\ pc = "quitReply"
    /\ CloseReturns
    /\ UNCHANGED <<pass, call, who, automaton>>

-----------------------------------------------------------------------------
(***************************************************************************)
(* The server, or the firewall in front of it (external).  It answers in   *)
(* order, each command once; 120 announces a greeting that is still to     *)
(* come.                                                                   *)
(***************************************************************************)
AnswersTo(c) ==
    (CASE c = "CONNECT" -> Greetings
       [] c = "READY" -> {220}
       [] c = "USER" -> {230, 331, 332, 421, 500, 530}
       [] c = "PASS" -> {202, 230, 332, 421, 500, 530}
       [] c = "ACCT" -> {202, 230, 421, 530}
       [] c \in {"OPEN", "SITE"} -> {220, 421, 500}
       [] c = "PWD" -> {257, 421, 550}
       [] c = "FEAT" -> {211, 421, 500}
       [] c = "HELP" -> {214, 421, 500}
       [] c = "QUIT" -> {221})
    \cup (IF c \in LoginCommands THEN OddCodes ELSE {})

ServerAnswers ==
    /\ peer = "up" /\ cmds # <<>>
    /\ \E answer \in AnswersTo(Head(cmds).cmd) :
         /\ replies' = Append(replies, [cmd |-> Head(cmds).cmd, code |-> answer])
         /\ cmds' = IF answer = 120 THEN <<[Head(cmds) EXCEPT !.cmd = "READY"]>> \o Tail(cmds)
                    ELSE Tail(cmds)
         /\ peer' = IF answer \in {221, 421} THEN "gone" ELSE "up"
    /\ UNCHANGED <<pc, result, pass, call, who, ctrl, connected, loggedIn, heap, automaton>>

ServerGone ==
    /\ peer = "up"
    /\ peer' = "gone" /\ cmds' = <<>>
    /\ UNCHANGED <<pc, result, pass, call, who, ctrl, connected, loggedIn, replies, heap, automaton>>

-----------------------------------------------------------------------------
Client ==
    \/ Dial \/ DialsExhausted \/ ConnectFails \/ ConnectSucceeds
    \/ Greeting \/ GreetingFails
    \/ SendUser \/ Accepted \/ SendPass \/ SendAcct \/ Denied \/ ZeroCode \/ LoginReply
    \/ GetCWD \/ CwdReply \/ QueryFeatures \/ FeatureReply
    \/ CloseHost \/ QuitReply

Application == FTPOpenHost \/ ApplicationCloses

Server == ServerAnswers \/ ServerGone

Next == Client \/ Application \/ Server

Spec == Init /\ [][Next]_vars

\* The library runs when it is called; nothing is assumed of the server.
FairSpec == Spec /\ WF_vars(Client)

-----------------------------------------------------------------------------
(***************************************************************************)
(* The inductive invariant, for servers that do not greet with 120.        *)
(***************************************************************************)

\* The command that may be on its way, or whose answer may be, in each place.
Outstanding ==
    CASE pc = "greeting" -> {"CONNECT"}
      [] pc = "loginReply" -> LoginCommands
      [] pc \in {"cwdReply1", "cwdReply2"} -> {"PWD"}
      [] pc = "featReply" -> {"FEAT"}
      [] pc = "helpReply" -> {"HELP"}
      [] pc = "quitReply" -> {"QUIT"}
      [] OTHER -> {}

ExchangeInv ==
    \/ cmds = <<>> /\ replies = <<>>
    \/ /\ replies = <<>>
       /\ \E x \in CommandRecord : x.cmd \in Outstanding /\ cmds = <<x>>
    \/ /\ cmds = <<>>
       /\ \E c \in Outstanding : \E d \in AnswersTo(c) : replies = <<[cmd |-> c, code |-> d]>>

\* What FTPOpenHost holds in each place.
HeldInv ==
    /\ ctrl = "closed" => connected = 0 /\ loggedIn = 0 /\ cmds = <<>> /\ replies = <<>> /\ peer = "gone"
    /\ pc \in {"dial", "connect"} => ctrl = "closed"
    /\ pc \in {"login", "loginReply"} => ctrl = "open"
    /\ pc = "connect" => buf # "null"
    /\ (ctrl = "open" /\ pc # "greeting") => connected = 1
    /\ ctrl = "open" => buf # "null"
    /\ pc \in {"feat", "featReply", "help", "helpReply"} => result = "ok"
    /\ pc = "dial" => ~Denial
    /\ (pc = "idle" /\ result # "ok") => ctrl = "closed" /\ buf = "null" /\ cwd = "null"

\* Whose account the server has been told of when it asks for a password, and when
\* it accepts.
Named(c) ==
    /\ c = "USER" => user = Party
    /\ c \in {"USER", "PASS", "ACCT"} => (AtSite => user \in {"site", "both"})

AccountInv ==
    /\ (pc = "login" /\ code = 331) => user = Party
    /\ (pc = "login" /\ code \in {202, 230, 332}) => (AtSite => user \in {"site", "both"})
    /\ pc = "loginReply" =>
         /\ \A i \in 1 .. Len(cmds) : Named(cmds[i].cmd)
         /\ \A i \in 1 .. Len(replies) : Named(replies[i].cmd)
    /\ loggedIn = 1 => user \in {"site", "both"} /\ pc \notin {"greeting", "login", "loginReply"}
    /\ \A i \in 1 .. Len(cmds) :
         /\ cmds[i].cmd = "PASS" => cmds[i].who = user
         /\ (cmds[i].cmd = "ACCT" /\ acct = "set") => cmds[i].who = "site"

\* FTPLoginHost knows that it has sent the site's password when it is refused, and
\* FTPOpenHost that it has been.
RefusedInv ==
    /\ (pc = "loginReply" /\ user = "site") =>
         /\ \A i \in 1 .. Len(cmds) : cmds[i].cmd = "PASS" => sentpass = 1
         /\ \A i \in 1 .. Len(replies) : replies[i].cmd = "PASS" => sentpass = 1
    /\ (refused = "site" /\ anonLogin = 0) =>
         \/ pc = "login" /\ code = 530 /\ sentpass = 1
         \/ pc \in {"closeHost", "quitReply", "idle"} /\ result = "badPassword"

\* What FTPOpenHost has outstanding, holds, has told the server and has heard of it.
OpenInv == ExchangeInv /\ HeldInv /\ AccountInv /\ RefusedInv

-----------------------------------------------------------------------------
(***************************************************************************)
(* Properties.                                                             *)
(***************************************************************************)

\* When FTPOpenHost has failed, on whatever dial and at whatever step, nothing is
\* left open or allocated, so that the application need not call FTPCloseHost.
FailureLeavesNothing ==
    (pc = "idle" /\ result # "ok") =>
        ctrl = "closed" /\ connected = 0 /\ loggedIn = 0 /\ buf = "null" /\ cwd = "null"

\* Logged in means logged in as the user at the site and not only at the firewall,
\* whatever the type of the firewall and the codes it answers with.
LoggedInToSite == loggedIn = 1 => user \in {"site", "both"}

\* The site's password goes only where USER has named the site's user, the firewall's
\* where it has named the firewall's.  The exception is ACCT: whoever asks for an account
\* is sent the firewall's password if the application has set no account, the site too,
\* after the firewall has let the user in; with an account set, nobody is.
PasswordMatchesUser ==
    \A i \in 1 .. Len(cmds) :
        /\ (cmds[i].cmd = "PASS") => cmds[i].who = user
        /\ (cmds[i].cmd = "ACCT" /\ cmds[i].who # "site") => acct = "empty"

\* An open connection is handed to the application with no command unanswered and no
\* reply unread: the state in which a transfer (FtpSession) begins.
OpenLeavesQuiet ==
    (pc = "idle" /\ result = "ok" /\ ctrl = "open") =>
        cmds = <<>> /\ replies = <<>> /\ connected = 1 /\ buf # "null"

\* Once the site has refused a named user's password (530), the call does not dial again
\* to offer it once more: FTPLoginHost must know that it had sent it, and call the failure
\* kErrBadRemoteUserOrPassword.  The exception is a password that went together with the
\* firewall's (UserAtUserPassAtPass, account "both"): there only fwsentpass is set, the
\* failure is kErrBadRemoteUser, and every dial that is left sends the password again.
DeniedIsFinal == [][numDials' > numDials => refused # "site" \/ anonLogin = 1]_vars

\* FTPOpenHost and FTPCloseHost return, however silent the server is.
OpenReturns == (pc # "idle") ~> (pc \in {"idle", "crashed"})

\* FTPCloseHost disposes of what is allocated "so you won't leak if you OpenHost with
\* this again": it can be opened again.
NeverCrashes == pc # "crashed"

\* FTPLoginHost overwrites the password "since we won't be redialing": so no dial
\* sends the asterisks.
RealPasswordSent == \A i \in 1 .. Len(cmds) : cmds[i].pass = "real"

\* "Non-anonymous login was denied, and retrying is not going to help": once the site's
\* password was refused, alone or together with the firewall's, there is no new dial.
DenialEndsDialing == [][numDials' > numDials => refused \in {"none", "fw"} \/ anonLogin = 1]_vars

\* "If the login was successful, 0 is returned, otherwise a number less than zero".
ZeroMeansLoggedIn ==
    (pc = "feat" /\ result = "ok" /\ ctrl = "open") => loggedIn = 1

\* RCmd: "to send the command and receive one response", the one to the command.
LoginInStep ==
    (pc = "loginReply" /\ replies # <<>>) => Reply.cmd \in LoginCommands

=============================================================================
