----------------------------- MODULE FtpSession -----------------------------
(***************************************************************************)
(* libncftp: one logged-in connection (FTPConnectionInfo) that stores      *)
(* files with FTPPutOneFile and is closed with FTPCloseHost, against an    *)
(* FTP server that is modelled from what the library expects of it.        *)
(*                                                                         *)
(* The control connection is two FIFO channels.  A reply carries the       *)
(* command it answers; the client code never sees that: it takes whatever  *)
(* reply is next.  The data connection is a pipe of file blocks.  Every    *)
(* select() of the client has a timeout, so each wait has a step that      *)
(* gives up and that is enabled whenever there is nothing to read.         *)
(***************************************************************************)
EXTENDS Integers, Sequences

CONSTANTS
    MaxPuts,        \* bound: calls of FTPPutOneFile in one session
    Blocks,         \* reads of the local file, each handed to FTPPutBlock
    PipeCapacity,   \* blocks the sockets buffer before select says "not writable"
    maxNumberOfSuccessivePASVAttempts,   \* of the connection, 3 by default
    DataPortMode,   \* cip->dataPortMode at the start: kFallBackToSendPortMode,
                    \* kPassiveMode or kSendPortMode
    HasPASV,        \* cip->hasPASV after FTPQueryFeatures
    NoUtime         \* the ways to set a file time that are not available then

ASSUME MaxPutsAssumption == MaxPuts \in Nat
ASSUME BlocksAssumption == Blocks \in Nat
ASSUME PipeAssumption == PipeCapacity \in Nat \ {0}
ASSUME AttemptsAssumption == maxNumberOfSuccessivePASVAttempts \in Nat \ {0}
ASSUME ModeAssumption == DataPortMode \in {"fallback", "passive", "port"}
ASSUME FeaturesAssumption ==
    HasPASV \in {"unknown", "yes"} /\ NoUtime \subseteq {"MFF", "MFMT", "SITE", "MDTM"}

VARIABLES
    pc,            \* where the library is in the call it executes
    puts,          \* FTPPutOneFile calls made so far; names the current one
    result,        \* what the last FTPPutOneFile returned
    errNo,         \* FTPPutOneF's local "result" before the final reply
    ctrl,          \* cip->ctrlSocketR/W; "closed" also means cip->buf is freed
    sock,          \* the client's data socket
    hasPASV,       \* kCommandAvailabilityUnknown / Available / NotAvailable
    portMode,      \* cip->dataPortMode
    attempts,      \* passiveAttemptsRemaining
    target,        \* what the next SConnect of the data socket will reach
    curType,       \* cip->curTransferType
    cancelXfer,    \* cip->cancelXfer, set by the application at any moment
    canceled,      \* cip->canceled
    dataTimedOut,  \* cip->dataTimedOut > 0
    sent,          \* blocks handed to SWrite in this transfer
    noUtime,       \* the ways to set a file time known not to be available
    cmds, replies, \* the control connection
    link, pipe,    \* the data connection and the blocks inside it
    peer,          \* the server's end of the control connection
    srv, storing,  \* what the server is doing, and for which put
    portTo,        \* the put whose PORT address the server holds (0: none)
    got, file,     \* blocks stored, and what the remote file now holds
    loose          \* history: the client left a transfer it had started
                   \* without reading every reply the server owes for it

client == <<pc, puts, result, errNo, ctrl, sock, hasPASV, portMode, attempts,
            target, curType, cancelXfer, canceled, dataTimedOut, sent, noUtime>>
server == <<peer, srv, storing, portTo, got, file>>
vars == <<client, server, cmds, replies, link, pipe, loose>>

Ways == {"MFF", "MFMT", "SITE", "MDTM"}   \* FTPUtime tries them in this order
Commands == {"TYPE", "PASV", "PORT", "STOR", "ABOR", "QUIT"} \cup Ways
Flag == {0, 1}                           \* the library's int flags
Codes == {1, 2, 4, 5}                    \* Response.codeType
CommandRecord == [cmd : Commands, put : 0 .. MaxPuts]
ReplyRecord == [cmd : Commands, put : 0 .. MaxPuts, code : Codes]
ReplyStates == {"typeReply", "pasvReply", "portReply", "storReply",
                "abortReply1", "abortReply2", "endReply", "mffReply", "mfmtReply",
                "siteReply", "mdtmReply", "quitReply"}
States == ReplyStates \cup
    {"ready", "setType", "startData", "sendPasv", "connect", "sendPort",
     "sendStor", "accept", "put", "abortWait1", "abortWait2", "brk",
     "waitInput", "mff", "mfmt", "site", "mdtm", "closed"}

ClientTypeOK ==
    /\ pc \in States
    /\ puts \in 0 .. MaxPuts
    /\ result \in {"none", "ok", "error"}
    /\ errNo \in {"kNoErr", "error"}
    /\ ctrl \in {"open", "closed"}
    /\ sock \in {"closed", "fresh", "listening", "connected", "stray"}
    /\ hasPASV \in {"unknown", "yes", "no"}
    /\ portMode \in {"fallback", "passive", "port"}
    /\ attempts \in 0 .. maxNumberOfSuccessivePASVAttempts
    /\ target \in {"data", "control"}
    /\ curType \in {"A", "I"}
    /\ cancelXfer \in Flag /\ canceled \in Flag
    /\ dataTimedOut \in Flag /\ loose \in Flag
    /\ sent \in 0 .. Blocks
    /\ noUtime \subseteq Ways

ControlTypeOK ==
    /\ cmds \in Seq(CommandRecord)
    /\ replies \in Seq(ReplyRecord)

ServerTypeOK ==
    /\ link \in {"none", "listen", "up", "fin"}
    /\ pipe \in 0 .. PipeCapacity
    /\ peer \in {"up", "gone"}
    /\ srv \in {"idle", "storing"}
    /\ storing \in 0 .. MaxPuts
    /\ portTo \in 0 .. MaxPuts
    /\ got \in Nat
    /\ file \in [put : 0 .. MaxPuts, part : {"partial", "whole"}]

\* The types of FTPConnectionInfo, of the two connections and of the server.
TypeOK == ClientTypeOK /\ ControlTypeOK /\ ServerTypeOK

Init ==
    /\ pc = "ready" /\ puts = 0 /\ result = "none" /\ errNo = "kNoErr"
    /\ ctrl = "open" /\ sock = "closed"
    /\ hasPASV = HasPASV /\ portMode = DataPortMode
    /\ attempts = maxNumberOfSuccessivePASVAttempts /\ target = "data"
    /\ curType = "A"                     \* FTPLoginHost leaves it at 'A'
    /\ cancelXfer = 0 /\ canceled = 0 /\ dataTimedOut = 0
    /\ sent = 0 /\ noUtime = NoUtime
    /\ cmds = <<>> /\ replies = <<>> /\ link = "none" /\ pipe = 0
    /\ peer = "up" /\ srv = "idle" /\ storing = 0 /\ portTo = 0 /\ got = 0
    /\ file = [put |-> 0, part |-> "whole"] /\ loose = 0

-----------------------------------------------------------------------------
(***************************************************************************)
(* What the client's steps are made of.                                    *)
(***************************************************************************)

\* close() of the data socket.  SetSocketLinger(fd, 0, 0) turns lingering off,
\* so what was written is still delivered and the server sees an end of file.
Hangup ==
    IF sock \in {"connected", "listening"} /\ link = "up" THEN "fin" ELSE link

CloseDataConnection == sock' = "closed" /\ link' = Hangup

\* FTPShutdownHost: both sockets are closed and the buffers freed.
FTPShutdownHost == ctrl' = "closed" /\ CloseDataConnection

\* SWrite on the control connection works while the server is there; once it
\* has gone the write may still be accepted.
Send(cmd) ==
    /\ ctrl = "open"
    /\ cmds' = Append(cmds, [cmd |-> cmd, put |-> puts])
SendFails == (ctrl = "closed" \/ peer = "gone") /\ UNCHANGED cmds

\* GetResponse returns the next reply, whatever command it answers ...
GetResponse == ctrl = "open" /\ replies # <<>> /\ replies' = Tail(replies)
Reply == Head(replies)

\* The client tests for a reply with select on the control socket.  It does not see
\* one that an earlier read took into SReadline's buffer; which replies came with
\* an earlier one is left open.  The end of the connection is always seen.
MayBeBuffered == replies # <<>> /\ peer = "up"

\* ... or fails: the server closed the connection, the read timed out, the data
\* connection had timed out and no reply is seen on the socket, or the host has
\* been shut down already (SReadline then reads from a zeroed SReadlineInfo: an
\* error).  Servers write replies that start with their code: the error for a line
\* that does not, which leaves the host up, is left out.
GetResponseFails ==
    /\ ctrl = "closed" \/ replies = <<>> \/ (dataTimedOut = 1 /\ MayBeBuffered)
    /\ FTPShutdownHost
    /\ UNCHANGED replies

\* FTPPutOneFile returns to the application.
Return(outcome) == pc' = "ready" /\ result' = outcome

-----------------------------------------------------------------------------
(***************************************************************************)
(* FTPPutOneF up to FTPStartDataCmd2, and FTPSetTransferType.              *)
(***************************************************************************)
PutUnchanged == <<server, hasPASV, portMode, target, noUtime>>

Put ==
    /\ pc = "ready" /\ puts < MaxPuts
    /\ puts' = puts + 1
    /\ IF ctrl = "closed"                     \* cip->buf == NULL: kErrNoBuf
       THEN Return("error")
       ELSE pc' = "setType" /\ result' = "none"
    /\ errNo' = "kNoErr" /\ sent' = 0
    /\ UNCHANGED <<PutUnchanged, ctrl, sock, attempts, curType, cancelXfer,
                   canceled, dataTimedOut, cmds, replies, link, pipe, loose>>

SetTransferType ==
    /\ pc = "setType"
    /\ \/ curType = "I" /\ pc' = "startData" /\ UNCHANGED <<result, cmds>>
       \/ curType # "I" /\ Send("TYPE") /\ pc' = "typeReply" /\ UNCHANGED result
       \/ curType # "I" /\ SendFails /\ Return("error")
    /\ UNCHANGED <<PutUnchanged, puts, errNo, ctrl, sock, attempts, curType, sent,
                   cancelXfer, canceled, dataTimedOut, replies, link, pipe, loose>>

TypeReply ==
    /\ pc = "typeReply"
    /\ \/ /\ GetResponse /\ UNCHANGED <<ctrl, sock, link>>
          /\ IF Reply.code = 2
             THEN curType' = "I" /\ pc' = "startData" /\ UNCHANGED result
             ELSE Return("error") /\ UNCHANGED curType
       \/ GetResponseFails /\ Return("error") /\ UNCHANGED curType
    /\ UNCHANGED <<PutUnchanged, puts, errNo, attempts, sent, cancelXfer,
                   canceled, dataTimedOut, cmds, pipe, loose>>

-----------------------------------------------------------------------------
(***************************************************************************)
(* FTPStartDataCmd3 and OpenDataConnection.  While OpenDataConnection runs *)
(* "sock" is its local dataSocket.                                         *)
(***************************************************************************)
StartUnchanged == <<server, puts, errNo, curType, dataTimedOut, sent, noUtime, pipe>>

\* The flags are reset, then OpenDataConnection closes what may still be open
\* and creates a socket.
StartData ==
    /\ pc = "startData"
    /\ cancelXfer' = 0 /\ canceled' = 0
    /\ attempts' = maxNumberOfSuccessivePASVAttempts
    /\ sock' = "fresh" /\ link' = Hangup
    /\ pc' = IF hasPASV = "no" \/ portMode = "port" THEN "sendPort" ELSE "sendPasv"
    /\ UNCHANGED <<StartUnchanged, result, ctrl, hasPASV, portMode, target, cmds,
                   replies, loose>>

\* The PASV command is refused: PORT is tried on the same socket if the mode
\* allows it.
PassiveRefused ==
    /\ hasPASV' = "no"
    /\ IF portMode = "fallback"
       THEN pc' = "sendPort" /\ UNCHANGED result
       ELSE Return("error")

\* Mutant of SendPassive: attempts that do not count.
SendPassive_Uncounted ==
    /\ pc = "sendPasv" /\ attempts > 0
    /\ \/ Send("PASV") /\ pc' = "pasvReply" /\ UNCHANGED <<result, hasPASV, sock>>
       \/ /\ SendFails /\ PassiveRefused
          /\ sock' = IF portMode = "fallback" THEN sock ELSE "closed"
    /\ UNCHANGED <<StartUnchanged, attempts, ctrl, portMode, target, cancelXfer,
                   canceled, replies, link, loose>>

SendPassive ==
    /\ pc = "sendPasv" /\ attempts > 0
    /\ attempts' = attempts - 1
    /\ \/ Send("PASV") /\ pc' = "pasvReply" /\ UNCHANGED <<result, hasPASV, sock>>
       \/ /\ SendFails /\ PassiveRefused
          /\ sock' = IF portMode = "fallback" THEN sock ELSE "closed"
    /\ UNCHANGED <<StartUnchanged, ctrl, portMode, target, cancelXfer, canceled,
                   replies, link, loose>>

\* while (--passiveAttemptsRemaining >= 0) ends at once after "goto tryPort2":
\* result is still 0 and the socket, which was never connected, is the one used.
PassiveExhausted ==
    /\ pc = "sendPasv" /\ attempts = 0
    /\ hasPASV' = "yes"
    /\ pc' = "sendStor"
    /\ UNCHANGED <<StartUnchanged, result, ctrl, sock, attempts, portMode, target,
                   cancelXfer, canceled, cmds, replies, link, loose>>

\* A 2xx reply from which no address can be read leaves result = codeType, which
\* is not an error, and the address is still that of the control connection.
PasvReply ==
    /\ pc = "pasvReply"
    /\ \/ /\ GetResponse /\ UNCHANGED <<ctrl, link>>
          /\ IF Reply.code = 2
             THEN /\ target' = IF Reply.cmd = "PASV" THEN "data" ELSE "control"
                  /\ pc' = "connect" /\ UNCHANGED <<result, hasPASV, sock>>
             ELSE /\ PassiveRefused /\ UNCHANGED target
                  /\ sock' = IF portMode = "fallback" THEN sock ELSE "closed"
       \/ /\ ctrl = "closed" \/ replies = <<>>
          /\ ctrl' = "closed" /\ UNCHANGED <<link, replies, target>>
          /\ PassiveRefused
          /\ sock' = IF portMode = "fallback" THEN sock ELSE "closed"
    /\ UNCHANGED <<StartUnchanged, attempts, portMode, cancelXfer, canceled, cmds, loose>>

ConnectSucceeds ==
    /\ pc = "connect"
    /\ IF target = "data"
       THEN link = "listen" /\ link' = "up" /\ sock' = "connected"
       ELSE peer = "up" /\ sock' = "stray" /\ UNCHANGED link
    /\ hasPASV' = "yes" /\ pc' = "sendStor"
    /\ UNCHANGED <<StartUnchanged, result, ctrl, attempts, portMode, target,
                   cancelXfer, canceled, cmds, replies, loose>>

\* Refused or timed out: another PASV on a new socket, or after the last one the
\* fallback "goto tryPort2", which gives PASV up only if it was unknown.
ConnectFails ==
    /\ pc = "connect"
    /\ IF attempts > 0
       THEN sock' = "fresh" /\ pc' = "sendPasv" /\ UNCHANGED <<result, hasPASV>>
       ELSE IF portMode = "fallback"
       THEN /\ sock' = "fresh" /\ UNCHANGED result
            /\ hasPASV' = IF hasPASV = "unknown" THEN "no" ELSE hasPASV
            /\ pc' = IF hasPASV' = "no" THEN "sendPort" ELSE "sendPasv"
       ELSE sock' = "closed" /\ Return("error") /\ UNCHANGED hasPASV
    /\ UNCHANGED <<StartUnchanged, ctrl, attempts, portMode, target, cancelXfer,
                   canceled, cmds, replies, link, loose>>

SendPort ==
    /\ pc = "sendPort"
    /\ \/ Send("PORT") /\ sock' = "listening" /\ pc' = "portReply" /\ UNCHANGED result
       \/ SendFails /\ sock' = "closed" /\ Return("error")
    /\ UNCHANGED <<StartUnchanged, ctrl, hasPASV, attempts, portMode, target,
                   cancelXfer, canceled, replies, link, loose>>

PortReply ==
    /\ pc = "portReply"
    /\ \/ /\ GetResponse /\ UNCHANGED ctrl
          /\ IF Reply.code = 2
             THEN portMode' = "port" /\ pc' = "sendStor" /\ UNCHANGED <<result, sock, link>>
             ELSE CloseDataConnection /\ Return("error") /\ UNCHANGED portMode
       \/ GetResponseFails /\ Return("error") /\ UNCHANGED portMode
    /\ UNCHANGED <<StartUnchanged, hasPASV, attempts, target, cancelXfer, canceled,
                   cmds, loose>>

\* On an error FTPEndDataCmd(cip, 0) closes the data connection.
SendStor ==
    /\ pc = "sendStor"
    /\ \/ Send("STOR") /\ pc' = "storReply" /\ UNCHANGED <<result, sock, link>>
       \/ SendFails /\ CloseDataConnection /\ Return("error")
    /\ UNCHANGED <<StartUnchanged, ctrl, hasPASV, attempts, portMode, target,
                   cancelXfer, canceled, replies, loose>>

\* Mutant: a refusal of STOR leaves the data connection open.
StorReply_KeepsSocket ==
    /\ pc = "storReply"
    /\ \/ /\ GetResponse /\ UNCHANGED <<ctrl, sock, link>>
          /\ IF Reply.code <= 2 THEN pc' = "accept" /\ UNCHANGED result ELSE Return("error")
       \/ GetResponseFails /\ Return("error")
    /\ UNCHANGED <<StartUnchanged, hasPASV, attempts, portMode, target, cancelXfer,
                   canceled, cmds, loose>>

StorReply ==
    /\ pc = "storReply"
    /\ \/ /\ GetResponse /\ UNCHANGED ctrl
          /\ IF Reply.code <= 2
             THEN pc' = "accept" /\ UNCHANGED <<result, sock, link>>
             ELSE CloseDataConnection /\ Return("error")
       \/ GetResponseFails /\ Return("error")
    /\ UNCHANGED <<StartUnchanged, hasPASV, attempts, portMode, target, cancelXfer,
                   canceled, cmds, loose>>

AcceptUnchanged == <<server, puts, errNo, curType, sent, noUtime, pipe, ctrl, hasPASV,
    attempts, portMode, target, cancelXfer, canceled, cmds, replies>>

\* AcceptDataConnection, then FTPPutOneF calls FTPInitIOTimer.
AcceptDataConnection ==
    /\ pc = "accept"
    /\ portMode = "port" => sock = "listening" /\ link = "up"
    /\ sock' = IF portMode = "port" THEN "connected" ELSE sock
    /\ dataTimedOut' = 0
    /\ pc' = "put"
    /\ UNCHANGED <<AcceptUnchanged, result, link, loose>>

\* The server does not connect in time, or the connection is not from the host or
\* the port that is required.  FTPEndDataCmd(cip, 0) reads no reply.
AcceptFails ==
    /\ pc = "accept" /\ portMode = "port"
    /\ CloseDataConnection /\ Return("error")
    /\ loose' = 1
    /\ UNCHANGED <<AcceptUnchanged, dataTimedOut>>

-----------------------------------------------------------------------------
(***************************************************************************)
(* FTPPutOneF: the loop that reads the file and writes it with FTPPutBlock *)
(***************************************************************************)
PutLoopUnchanged == <<server, puts, result, ctrl, hasPASV, portMode, attempts, target,
                      curType, cancelXfer, canceled, noUtime, replies>>

\* The write is accepted.  It is lost if the server has closed its end, and goes
\* to the server's control port if the data socket was connected to that.
PutBlock ==
    /\ pc = "put" /\ sent < Blocks /\ cancelXfer = 0
    /\ \/ sock = "connected" /\ link = "up" /\ pipe < PipeCapacity /\ pipe' = pipe + 1
       \/ (sock = "stray" \/ (sock = "connected" /\ link = "none")) /\ UNCHANGED pipe
    /\ sent' = sent + 1
    /\ UNCHANGED <<PutLoopUnchanged, pc, errNo, sock, dataTimedOut, cmds, link, loose>>

\* Mutant: the loop ends on an error that "result" does not keep.
PutFails_ErrorForgotten ==
    /\ pc = "put"
    /\ pc' = "brk"
    /\ UNCHANGED <<PutLoopUnchanged, errNo, sock, dataTimedOut, sent, cmds, link, pipe, loose>>

\* The local read() or the SWrite fails.
PutFails ==
    /\ pc = "put"
    /\ errNo' = "error" /\ pc' = "brk"
    /\ UNCHANGED <<PutLoopUnchanged, sock, dataTimedOut, sent, cmds, link, pipe, loose>>

\* WaitForRemoteOutput gives up.  It waits to the end also when cancelXfer was set
\* before it was called.
PutTimesOut ==
    /\ pc = "put" /\ sent < Blocks
    /\ sock = "connected" /\ link = "up" /\ pipe = PipeCapacity
    /\ dataTimedOut' = 1 /\ errNo' = "error" /\ pc' = "brk"
    /\ UNCHANGED <<PutLoopUnchanged, sock, sent, cmds, link, pipe, loose>>

PutEndOfFile ==
    /\ pc = "put" /\ sent = Blocks
    /\ pc' = "brk"
    /\ UNCHANGED <<PutLoopUnchanged, errNo, sock, dataTimedOut, sent, cmds, link, pipe, loose>>

-----------------------------------------------------------------------------
(***************************************************************************)
(* FTPAbortDataTransfer.                                                   *)
(***************************************************************************)
AbortUnchanged == <<server, puts, result, hasPASV, portMode, attempts, target, curType,
                    cancelXfer, dataTimedOut, sent, noUtime, pipe>>

\* FTPCmdNoResponse reports no error even when ABOR could not be written.
StartAbort ==
    /\ pc = "put" /\ sent < Blocks /\ cancelXfer = 1
    /\ Send("ABOR") \/ SendFails
    /\ errNo' = "error" /\ pc' = "abortWait1"
    /\ UNCHANGED <<AbortUnchanged, ctrl, sock, canceled, replies, link, loose>>

\* What select on the control socket can answer.
Readable == replies # <<>> \/ peer = "gone"
NotReadable == ~Readable \/ MayBeBuffered

AbortWait1 ==
    /\ pc = "abortWait1"
    /\ \/ Readable /\ pc' = "abortReply1" /\ UNCHANGED <<sock, link>>
       \/ NotReadable /\ pc' = "abortWait2" /\ CloseDataConnection
    /\ UNCHANGED <<AbortUnchanged, errNo, ctrl, canceled, cmds, replies, loose>>

\* "giving up": canceled stays 0.
AbortWait2 ==
    /\ pc = "abortWait2"
    /\ \/ Readable /\ pc' = "abortReply1" /\ UNCHANGED loose
       \/ NotReadable /\ pc' = "brk" /\ loose' = 1
    /\ UNCHANGED <<AbortUnchanged, errNo, ctrl, sock, canceled, cmds, replies, link>>

\* Only a 4xx reply is taken as the transfer's, with ABOR's still to come.
AbortReply1 ==
    /\ pc = "abortReply1"
    /\ \/ /\ GetResponse /\ UNCHANGED ctrl
          /\ IF Reply.code = 4
             THEN pc' = "abortReply2" /\ UNCHANGED <<sock, link, canceled, loose>>
             ELSE /\ canceled' = 1 /\ CloseDataConnection /\ pc' = "brk"
                  /\ loose' = 1
       \/ GetResponseFails /\ pc' = "brk" /\ UNCHANGED <<canceled, loose>>
    /\ UNCHANGED <<AbortUnchanged, errNo, cmds>>

AbortReply2 ==
    /\ pc = "abortReply2"
    /\ \/ /\ GetResponse /\ canceled' = 1 /\ CloseDataConnection
          /\ UNCHANGED ctrl
       \/ GetResponseFails /\ UNCHANGED canceled
    /\ pc' = "brk"
    /\ UNCHANGED <<AbortUnchanged, errNo, cmds, loose>>

-----------------------------------------------------------------------------
(***************************************************************************)
(* FTPPutOneF from the label brk on: FTPEndDataCmd, FTPUtime.              *)
(***************************************************************************)
EndUnchanged == <<server, puts, errNo, hasPASV, portMode, attempts, target, curType,
                  cancelXfer, canceled, sent, pipe, loose>>

\* shutdown(cip->dataSocket, 1): the server can see the end of the file.
ShutdownWriting ==
    /\ pc = "brk"
    /\ link' = Hangup
    /\ pc' = "waitInput"
    /\ UNCHANGED <<EndUnchanged, result, ctrl, sock, dataTimedOut, noUtime, cmds, replies>>

\* WaitForRemoteInput returns: the socket is closed, or the server has closed its
\* end, or the transfer is cancelled meanwhile, or this or an earlier wait timed
\* out.  FTPEndDataCmd follows.
WaitForRemoteInput ==
    /\ pc = "waitInput"
    /\ IF sock = "connected" /\ link # "none"
       THEN dataTimedOut' = 1 \/ (cancelXfer = 1 /\ UNCHANGED dataTimedOut)
       ELSE UNCHANGED dataTimedOut
    /\ IF canceled = 1
       THEN Return("error") /\ UNCHANGED <<sock, link>>
       ELSE pc' = "endReply" /\ CloseDataConnection /\ UNCHANGED result
    /\ UNCHANGED <<EndUnchanged, ctrl, noUtime, cmds, replies>>

\* Where FTPUtime starts, and what it does when MFF (with the creation time) fails:
\* with neither MFMT nor SITE it does not come to MDTM.
StartUtime ==
    /\ pc' = IF "MFF" \notin noUtime THEN "mff"
             ELSE IF "MFMT" \notin noUtime THEN "mfmt" ELSE "site"
    /\ UNCHANGED result

AfterMFF ==
    IF {"MFMT", "SITE"} \subseteq noUtime THEN Return("ok")
    ELSE /\ pc' = IF "MFMT" \notin noUtime THEN "mfmt" ELSE "site"
         /\ UNCHANGED result

\* Mutants of FTPEndDataCmd: it reads no reply after an error, and it takes any
\* reply for a success.
EndReply_SkippedOnError ==
    /\ pc = "endReply"
    /\ \/ /\ errNo = "error" /\ Return("error")
          /\ UNCHANGED <<ctrl, sock, link, replies>>
       \/ /\ errNo = "kNoErr" /\ GetResponse /\ UNCHANGED <<ctrl, sock, link>>
          /\ IF Reply.code = 2
             THEN StartUtime
             ELSE Return("error")
       \/ errNo = "kNoErr" /\ GetResponseFails /\ Return("error")
    /\ UNCHANGED <<EndUnchanged, dataTimedOut, noUtime, cmds>>

EndReply_AnyCode ==
    /\ pc = "endReply"
    /\ \/ /\ GetResponse /\ UNCHANGED <<ctrl, sock, link>>
          /\ IF errNo = "kNoErr"
             THEN StartUtime
             ELSE Return("error")
       \/ GetResponseFails /\ Return("error")
    /\ UNCHANGED <<EndUnchanged, dataTimedOut, noUtime, cmds>>

EndReply ==
    /\ pc = "endReply"
    /\ \/ /\ GetResponse /\ UNCHANGED <<ctrl, sock, link>>
          /\ IF Reply.code = 2 /\ errNo = "kNoErr"
             THEN StartUtime
             ELSE Return("error")
       \/ GetResponseFails /\ Return("error")
    /\ UNCHANGED <<EndUnchanged, dataTimedOut, noUtime, cmds>>

\* FTPUtime with the times of the local file, for a name without spaces.  Whatever
\* it returns, the result of FTPPutOneF stays kNoErr.
FTPUtime ==
    /\ \/ pc = "mff" /\ Send("MFF") /\ pc' = "mffReply" /\ UNCHANGED result
       \/ pc = "mff" /\ SendFails /\ AfterMFF
       \/ pc = "mfmt" /\ Send("MFMT") /\ pc' = "mfmtReply" /\ UNCHANGED result
       \/ pc = "site" /\ "SITE" \notin noUtime /\ Send("SITE") /\ pc' = "siteReply" /\ UNCHANGED result
       \/ pc = "site" /\ "SITE" \in noUtime /\ pc' = "mdtm" /\ UNCHANGED <<result, cmds>>
       \/ pc = "mdtm" /\ "MDTM" \notin noUtime /\ Send("MDTM") /\ pc' = "mdtmReply" /\ UNCHANGED result
       \/ pc = "mdtm" /\ "MDTM" \in noUtime /\ Return("ok") /\ UNCHANGED cmds
       \/ /\ \/ pc = "mfmt"
             \/ pc = "site" /\ "SITE" \notin noUtime
             \/ pc = "mdtm" /\ "MDTM" \notin noUtime
          /\ SendFails /\ Return("ok")
    /\ UNCHANGED <<EndUnchanged, ctrl, sock, dataTimedOut, noUtime, replies, link>>

\* SITE is given up on "not implemented" and MDTM also on a 550.
UtimeReply ==
    /\ \/ /\ pc \in {"mffReply", "mfmtReply", "siteReply", "mdtmReply"} /\ GetResponse
          /\ pc = "mffReply" => Reply.code = 2
          /\ Return("ok") /\ UNCHANGED <<ctrl, sock, link, noUtime>>
       \/ /\ pc = "mffReply" /\ GetResponse /\ Reply.code # 2
          /\ AfterMFF /\ UNCHANGED <<ctrl, sock, link, noUtime>>
       \/ /\ pc = "siteReply" /\ GetResponse /\ Reply.code = 5
          /\ noUtime' = noUtime \cup {"SITE"} /\ pc' = "mdtm"
          /\ UNCHANGED <<result, ctrl, sock, link>>
       \/ /\ pc = "mdtmReply" /\ GetResponse /\ Reply.code = 5
          /\ noUtime' = noUtime \cup {"MDTM"} /\ Return("ok")
          /\ UNCHANGED <<ctrl, sock, link>>
       \/ /\ pc = "mffReply" /\ GetResponseFails /\ AfterMFF /\ UNCHANGED noUtime
       \/ /\ pc \in {"mfmtReply", "siteReply", "mdtmReply"} /\ GetResponseFails
          /\ Return("ok") /\ UNCHANGED noUtime
    /\ UNCHANGED <<EndUnchanged, dataTimedOut, cmds>>

-----------------------------------------------------------------------------
(***************************************************************************)
(* FTPCloseHost, and the application that cancels a transfer.              *)
(***************************************************************************)
CloseUnchanged == <<EndUnchanged, result, dataTimedOut, noUtime>>

FTPCloseHost ==
    /\ pc = "ready" /\ sock = "closed"
    /\ \/ Send("QUIT") /\ pc' = "quitReply" /\ UNCHANGED ctrl
       \/ SendFails /\ pc' = "closed" /\ ctrl' = "closed"
    /\ UNCHANGED <<CloseUnchanged, sock, replies, link>>

\* Whatever the reply, the control connection is closed and all is freed.
QuitReply ==
    /\ pc = "quitReply"
    /\ \/ GetResponse
       \/ replies = <<>> /\ UNCHANGED replies
    /\ ctrl' = "closed" /\ pc' = "closed"
    /\ UNCHANGED <<CloseUnchanged, sock, link, cmds>>

\* cancelXfer may be set at any moment; FTPStartDataCmd3 clears it and only these
\* two waits look at it.
Cancel ==
    /\ pc \in {"put", "waitInput"} /\ cancelXfer = 0
    /\ cancelXfer' = 1
    /\ UNCHANGED <<server, pc, puts, result, errNo, ctrl, sock, hasPASV, portMode,
                   attempts, target, curType, canceled, dataTimedOut, sent, noUtime,
                   cmds, replies, link, pipe, loose>>

-----------------------------------------------------------------------------
(***************************************************************************)
(* The FTP server (external).  It answers the commands in order, each once *)
(* (a STOR that is accepted twice: 1xx, then 2xx or 4xx), and while it     *)
(* stores a file it looks at the control connection only for ABOR.         *)
(***************************************************************************)
Command == Head(cmds)
Idle == peer = "up" /\ srv = "idle" /\ cmds # <<>>
Storing == peer = "up" /\ srv = "storing"
Answer(c, code) == [cmd |-> c.cmd, put |-> c.put, code |-> code]
StorCommand == [cmd |-> "STOR", put |-> storing]

Others == <<client, loose>>

ServerAnswers ==
    /\ Idle /\ Command.cmd # "STOR"
    /\ cmds' = Tail(cmds)
    /\ \E code \in {2, 5} :
         /\ replies' = Append(replies, Answer(Command, code))
         /\ portTo' = CASE Command.cmd = "PORT" /\ code = 2 -> Command.put
                        [] Command.cmd = "PASV" /\ code = 2 -> 0
                        [] OTHER -> portTo
         /\ link' = CASE Command.cmd = "PORT" /\ code = 2 -> "none"
                      [] Command.cmd = "PASV" /\ code = 2 -> "listen"
                      [] OTHER -> link
         /\ pipe' = IF Command.cmd \in {"PORT", "PASV"} /\ code = 2 THEN 0 ELSE pipe
    /\ UNCHANGED <<Others, peer, srv, storing, got, file>>

ServerRefusesStor ==
    /\ Idle /\ Command.cmd = "STOR"
    /\ cmds' = Tail(cmds)
    /\ replies' = Append(replies, Answer(Command, 5))
    /\ UNCHANGED <<Others, server, link, pipe>>

\* The remote file is created or truncated.
ServerStartsStor ==
    /\ Idle /\ Command.cmd = "STOR"
    /\ cmds' = Tail(cmds)
    /\ replies' = Append(replies, Answer(Command, 1))
    /\ srv' = "storing" /\ storing' = Command.put
    /\ got' = 0 /\ file' = [put |-> Command.put, part |-> "partial"]
    /\ UNCHANGED <<Others, peer, portTo, link, pipe>>

ServerConnects ==
    /\ Storing /\ portTo # 0 /\ link = "none"
    /\ sock = "listening" /\ portTo = puts
    /\ link' = "up" /\ pipe' = 0 /\ portTo' = 0
    /\ UNCHANGED <<Others, peer, srv, storing, got, file, cmds, replies>>

ServerReads ==
    /\ Storing /\ link \in {"up", "fin"} /\ pipe > 0
    /\ pipe' = pipe - 1 /\ got' = got + 1
    /\ UNCHANGED <<Others, peer, srv, storing, portTo, file, cmds, replies, link>>

ServerEnds(code) ==
    /\ srv' = "idle" /\ link' = "none" /\ pipe' = 0 /\ portTo' = 0
    /\ replies' = Append(replies, Answer(StorCommand, code))
    /\ UNCHANGED <<Others, peer, storing, got, cmds>>

\* To the server the end of the data connection is the end of the file.
ServerFinishesStor ==
    /\ Storing /\ link = "fin" /\ pipe = 0
    /\ ServerEnds(2)
    /\ file' = [file EXCEPT !.part = IF got = Blocks THEN "whole" ELSE "partial"]

\* No data connection, a full disk, ...
ServerFailsStor ==
    /\ Storing
    /\ ServerEnds(4)
    /\ UNCHANGED file

\* ABOR during the transfer: 426 for the STOR, then the reply to ABOR.
ServerAborts ==
    /\ Storing /\ cmds # <<>> /\ Command.cmd = "ABOR"
    /\ srv' = "idle" /\ link' = "none" /\ pipe' = 0 /\ portTo' = 0
    /\ replies' = replies \o <<Answer(StorCommand, 4), Answer(Command, 2)>>
    /\ cmds' = Tail(cmds)
    /\ UNCHANGED <<Others, peer, storing, got, file>>

\* 421 or a crash: what was sent before can still be read.
ServerGone ==
    /\ peer = "up"
    /\ peer' = "gone" /\ srv' = "idle" /\ cmds' = <<>>
    /\ link' = "none" /\ pipe' = 0
    /\ UNCHANGED <<Others, storing, portTo, got, file, replies>>

-----------------------------------------------------------------------------
Client ==
    \/ Put \/ SetTransferType \/ TypeReply
    \/ StartData \/ SendPassive \/ PassiveExhausted \/ PasvReply
    \/ ConnectSucceeds \/ ConnectFails \/ SendPort \/ PortReply
    \/ SendStor \/ StorReply \/ AcceptDataConnection \/ AcceptFails
    \/ PutBlock \/ PutFails \/ PutTimesOut \/ PutEndOfFile
    \/ StartAbort \/ AbortWait1 \/ AbortWait2 \/ AbortReply1 \/ AbortReply2
    \/ ShutdownWriting \/ WaitForRemoteInput \/ EndReply
    \/ FTPUtime \/ UtimeReply \/ FTPCloseHost \/ QuitReply

Server ==
    \/ ServerAnswers \/ ServerRefusesStor \/ ServerStartsStor \/ ServerConnects
    \/ ServerReads \/ ServerFinishesStor \/ ServerFailsStor \/ ServerAborts
    \/ ServerGone

Next == Client \/ Cancel \/ Server

Spec == Init /\ [][Next]_vars

\* The application's thread runs; nothing is assumed of the server.
FairSpec == Spec /\ WF_vars(Client)

-----------------------------------------------------------------------------
(***************************************************************************)
(* Properties.                                                             *)
(***************************************************************************)

\* The reply the client is about to take as the answer to what it asked.  In an
\* abort the first reply may be the transfer's own.
Awaited ==
    [s \in ReplyStates |->
        CASE s = "typeReply" -> {"TYPE"}
          [] s = "pasvReply" -> {"PASV"}
          [] s = "portReply" -> {"PORT"}
          [] s = "mffReply" -> {"MFF"}
          [] s = "mfmtReply" -> {"MFMT"}
          [] s = "siteReply" -> {"SITE"}
          [] s = "mdtmReply" -> {"MDTM"}
          [] s = "quitReply" -> {"QUIT"}
          [] s \in {"storReply", "endReply"} -> {"STOR"}
          [] s = "abortReply1" -> {"STOR", "ABOR"}
          [] OTHER -> {"ABOR"}]

(***************************************************************************)
(* The inductive invariant: for every place in the client, what is on the  *)
(* control connection and what the server is doing, as long as no transfer *)
(* was left with a reply owed ("loose") and the host is not shut down.     *)
(***************************************************************************)
Cmd(c) == [cmd |-> c, put |-> puts]
Rep(c, code) == [cmd |-> c, put |-> puts, code |-> code]
ServerHas(c, s) == peer = "up" => cmds = c /\ srv = s /\ (s = "storing" => storing = puts)

\* Every command has been answered and every answer read.
Quiet == replies = <<>> /\ ServerHas(<<>>, "idle")

\* One command is being answered.
Asked(c) ==
    \/ replies = <<>> /\ ServerHas(<<Cmd(c)>>, "idle")
    \/ \E code \in {2, 5} : replies = <<Rep(c, code)>> /\ ServerHas(<<>>, "idle")

\* After the preliminary reply to STOR.  The final reply comes once.
Transferring ==
    \/ replies = <<>> /\ ServerHas(<<>>, "storing")
    \/ \E code \in {2, 4} : replies = <<Rep("STOR", code)>> /\ ServerHas(<<>>, "idle")

StorAsked ==
    \/ replies = <<>> /\ ServerHas(<<Cmd("STOR")>>, "idle")
    \/ replies = <<Rep("STOR", 5)>> /\ ServerHas(<<>>, "idle")
    \/ replies = <<Rep("STOR", 1)>> /\ ServerHas(<<>>, "storing")
    \/ \E code \in {2, 4} :
         replies = <<Rep("STOR", 1), Rep("STOR", code)>> /\ ServerHas(<<>>, "idle")

\* ABOR was sent during the transfer: two replies are owed, whoever wins.
Aborting ==
    \/ replies = <<>> /\ ServerHas(<<Cmd("ABOR")>>, "storing")
    \/ \E code \in {2, 4} :
         /\ replies = <<Rep("STOR", code)>>
         /\ ServerHas(<<Cmd("ABOR")>>, "idle")
    \/ \E code \in {2, 4}, c \in {2, 5} :
         /\ replies = <<Rep("STOR", code), Rep("ABOR", c)>>
         /\ ServerHas(<<>>, "idle")

QuietStates == {"ready", "setType", "startData", "sendPasv", "connect", "sendPort",
                "sendStor", "mff", "mfmt", "site", "mdtm"}

InSync ==
    /\ pc \in QuietStates => Quiet
    /\ pc = "typeReply" => Asked("TYPE")
    /\ pc = "pasvReply" => Asked("PASV")
    /\ pc = "portReply" => Asked("PORT")
    /\ pc = "mffReply" => Asked("MFF")
    /\ pc = "mfmtReply" => Asked("MFMT")
    /\ pc = "siteReply" => Asked("SITE")
    /\ pc = "mdtmReply" => Asked("MDTM")
    /\ pc = "quitReply" => Asked("QUIT")
    /\ pc = "storReply" => StorAsked
    /\ pc \in {"accept", "put"} => Transferring
    /\ pc \in {"abortWait1", "abortWait2", "abortReply1"} => Aborting
    /\ pc = "abortReply2" => Asked("ABOR")
    /\ pc \in {"brk", "waitInput"} => IF canceled = 1 THEN Quiet ELSE Transferring
    /\ pc = "endReply" => Transferring

\* canceled is set by an abort only, and keeps FTPEndDataCmd from reading a reply.
CanceledInv ==
    pc \in {"sendPasv", "pasvReply", "connect", "sendPort", "portReply", "sendStor",
            "storReply", "accept", "put", "abortWait1", "abortWait2", "abortReply1",
            "abortReply2", "endReply"} => canceled = 0

\* The control connection is in step with the client: the library never has another
\* command under way than the one whose reply it will read next.
SyncInv ==
    /\ CanceledInv
    /\ (loose = 0 /\ ctrl = "open") => InSync

(***************************************************************************)
(* What the data connection and the remote file have to do with it: the    *)
(* second invariant, inductive together with SyncInv.                      *)
(***************************************************************************)
Setup == {"setType", "typeReply", "startData", "sendPasv", "pasvReply", "connect",
          "sendPort", "portReply"}
Starting == {"sendStor", "storReply", "accept"}
Ending == {"brk", "waitInput", "endReply"}
Utime == {"mff", "mffReply", "mfmt", "mfmtReply", "site", "siteReply", "mdtm", "mdtmReply"}
Stored == file = [put |-> puts, part |-> "whole"]

CallInv ==
    /\ pc \in Setup \cup Starting => sent = 0 /\ errNo = "kNoErr"
    /\ pc \in {"abortWait1", "abortWait2", "abortReply1", "abortReply2"} => errNo = "error"
    /\ pc \notin {"ready", "quitReply", "closed"} => result = "none"

ServerInv ==
    /\ srv = "storing" => peer = "up" /\ file = [put |-> storing, part |-> "partial"]
    /\ link \in {"none", "listen"} => pipe = 0
    /\ link = "up" => sock \in {"connected", "listening"}

\* A link that is in use is the one of this transfer, not the rest of an earlier.
LinkInv ==
    /\ pc = "portReply" => link # "up"
    /\ pc \in Starting \cup {"connect", "put"} => link # "fin"
    /\ (pc = "sendPasv" /\ attempts < maxNumberOfSuccessivePASVAttempts) => link # "fin"
    /\ (pc \in {"pasvReply", "portReply"} /\ replies # <<>> /\ Reply.code = 2) => link # "fin"
    /\ pc = "connect" => target = "data"
    /\ pc \in Starting \cup Ending \cup {"put"} => sock # "stray"
    /\ pc \in {"put", "brk", "waitInput"} => sock # "listening"
    /\ (pc \in Starting /\ sock = "listening") => portMode = "port"
    /\ (pc \in Starting /\ sock = "connected" /\ peer = "up"
          /\ (srv = "storing" \/ replies = <<>>)) => link = "up"
    /\ (pc = "put" /\ sock = "connected" /\ srv = "storing") => link = "up"

\* Every block that was sent is in the pipe or in the file.
BlocksInv ==
    /\ pc \in {"storReply", "accept", "put"} =>
         \A i \in 1 .. Len(replies) : replies[i].code # 2
    /\ pc \in Starting => pipe = 0 /\ (srv = "storing" => got = 0)
    /\ (pc \in Ending \cup {"put"} /\ errNo = "kNoErr" /\ srv = "storing" /\ link \in {"up", "fin"})
         => got + pipe = sent
    /\ (pc \in Ending /\ errNo = "kNoErr") => sent = Blocks
    /\ (pc \in Ending /\ errNo = "kNoErr" /\ replies # <<>> /\ Reply.code = 2) => Stored

\* Once the transfer is known to have succeeded the file is not touched again.
SettledInv ==
    (result = "ok" \/ pc \in Utime) =>
        /\ Stored /\ srv = "idle"
        /\ peer = "up" => \A i \in 1 .. Len(cmds) : cmds[i].cmd # "STOR"

\* While FTPPutOneF runs no block is lost unnoticed, and after it has reported a
\* success the server leaves the file alone.
StoredInv ==
    /\ CallInv /\ ServerInv
    /\ (loose = 0 /\ ctrl = "open") => LinkInv /\ BlocksInv
    /\ loose = 0 => SettledInv

\* As long as no transfer was left with a reply still owed, GetResponse never
\* hands a command the reply to another command or of another transfer, whatever
\* the order in which the server works, cancellations come and waits time out.
RepliesMatch ==
    (loose = 0 /\ ctrl = "open" /\ pc \in ReplyStates /\ replies # <<>>) =>
        /\ Reply.cmd \in Awaited[pc]
        /\ Reply.put = puts

\* FTPPutOneFile returns kNoErr only if the server has the whole of this version
\* of the file (again as long as no reply is still owed): not when the transfer
\* timed out, was cancelled, lost its data connection or could not read the file.
OkMeansStored ==
    (loose = 0 /\ result = "ok") => file = [put |-> puts, part |-> "whole"]

\* No call leaves the data socket behind: not an abort, not a failed open, not a
\* shutdown of the host in the middle (FTPCloseHost, "Data connection shouldn't
\* be open normally").
DataClosedBetweenCalls == pc \in {"ready", "quitReply", "closed"} => sock = "closed"

\* Why: after FTPEndDataCmd, or the abort that makes it read nothing, it is closed.
SocketInv ==
    /\ pc \in {"ready", "quitReply", "closed", "setType", "typeReply", "startData",
              "endReply"} \cup Utime => sock = "closed"
    /\ (pc \in {"brk", "waitInput"} /\ canceled = 1) => sock = "closed"
    /\ pc \in {"sendPasv", "pasvReply", "connect", "sendPort"} => sock = "fresh"
    /\ pc = "portReply" => sock = "listening"

\* The session as the application sees it.
JobPhase ==
    IF pc = "ready" THEN "idle" ELSE IF pc \in {"quitReply", "closed"} THEN "over" ELSE "busy"

JobRemote ==
    IF file.put # puts THEN "old" ELSE IF file.part = "partial" THEN "partial" ELSE "new"

Job == INSTANCE FtpJob WITH
    phase <- JobPhase, outcome <- result, remote <- JobRemote, inStep <- loose = 0

\* The steps of the connection are steps of the job: every call returns, and once a
\* success has been reported the server does not touch the file again.
ImplementsJob == Job!Spec

\* Every call returns, however silent the server is: each wait has a timeout and
\* the retries of PASV are bounded.
PutsReturn == (pc \notin {"ready", "closed"}) ~> (pc \in {"ready", "closed"})

\* FTPEndDataCmd after an abort: "Already read the post-transfer response."
AbortReadsAllReplies ==
    (pc = "ready" /\ canceled = 1 /\ ctrl = "open" /\ peer = "up") =>
        cmds = <<>> /\ replies = <<>>

\* FTPCmd: "used to send the command and receive one response"; so the response
\* is the one to the command.
CommandGetsItsResponse ==
    (ctrl = "open" /\ pc \in {"pasvReply", "portReply"} /\ replies # <<>> /\ canceled = 0)
        => Reply.cmd \in Awaited[pc]

\* FTPPutOneF on a result of kNoErr: "The store succeeded".
StoreSucceeded == result = "ok" => file = [put |-> puts, part |-> "whole"]

\* AcceptDataConnection: "If we did a PASV, we're ready to go."
PassiveIsReady == (loose = 0 /\ pc = "put") => sock = "connected"

\* GetResponse with dataTimedOut: "Odds are since the data is timed out, so is the
\* control": so the flag is one of a transfer under way, never of an earlier one.
TimeoutIsOfThisTransfer ==
    pc \in {"typeReply", "pasvReply", "portReply", "storReply"} => dataTimedOut = 0

\* OpenDataConnection: PORT is not tried "automatically, because if your host is
\* running a firewall you (probably) do not want SendPort FTP", so a connection in
\* kPassiveMode never sends it.
NoPortInPassiveMode ==
    DataPortMode = "passive" => \A i \in 1 .. Len(cmds) : cmds[i].cmd # "PORT"

=============================================================================
