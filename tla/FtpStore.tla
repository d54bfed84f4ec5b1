------------------------------ MODULE FtpStore ------------------------------
(***************************************************************************)
(* libncftp: what one program uploads over FTP.  It calls FTPPutOneF (a    *)
(* local file, perhaps under a temporary name, perhaps to be resumed) and  *)
(* FTPPutFileFromMemory, one call after the other, and may be killed and   *)
(* started again; the local file is edited in between.                     *)
(*                                                                         *)
(* As in FtpFetch a file is a sequence of blocks <<version, number>> and   *)
(* an exchange on the control connection is one step.  A block that was    *)
(* written is on the server's disk; one that is lost on the way is one     *)
(* that was not written.  How a transfer starts, ends and is aborted is    *)
(* the subject of FtpSession.                                              *)
(***************************************************************************)
EXTENDS Integers, Sequences, FiniteSets

CONSTANTS
    MaxLen,         \* bound: blocks in a file
    MaxCalls,       \* bound: uploads
    MaxSessions,    \* bound: connections, the first one included
    MaxVersion,     \* bound: versions of the local file, from 1
    Gap,            \* seconds between two events, at least
    NoAPPE,         \* what the application may have put into cip->hasAPPE
    Calls,          \* the calls the program may make
    Servers         \* what the server may be able to do

CallRecord == [op : {"file", "mem"}, resume : BOOLEAN, append : BOOLEAN, delete : BOOLEAN,
               ascii : BOOLEAN, temp : BOOLEAN, batch : BOOLEAN, sendfile : BOOLEAN]
\* "SIZE", "MDTM": sizes and times are told, by MLST or one by one; "REST": restart
\* points in binary mode; "REST STOR": for uploads too; "RNTO": over a file that is
\* there; "UTIME": one of the ways to set a time.
Features == {"SIZE", "MDTM", "REST", "REST STOR", "APPE", "RNTO", "UTIME"}

ASSUME BoundsAssumption == {MaxLen, MaxCalls, MaxSessions, MaxVersion} \subseteq Nat \ {0}
ASSUME TimeAssumption == Gap \in Nat \ {0, 1}
ASSUME FeaturesAssumption == NoAPPE \subseteq {"unknown", "no"} /\ Servers \subseteq SUBSET Features
\* FTPPutFileFromMemory has neither a temporary name nor resume nor delete mode.
ASSUME CallsAssumption ==
    /\ Calls \subseteq CallRecord
    /\ \A c \in Calls : c.op = "mem" => ~c.temp /\ ~c.resume /\ ~c.delete

VARIABLES
    pc,        \* where the library is in the call it executes
    calls,     \* uploads begun
    call,      \* the parameters of the current one
    has,       \* cip->hasREST, hasAPPE
    view,      \* startPoint and mdtm: what the server said of the remote file
    zaction,   \* zaction of FTPPutOneF
    cmd,       \* the command the transfer is meant to be
    wanted,    \* startPoint, once the decision is made
    from,      \* the file position of fd, in blocks
    result,    \* of the current call, then of the last one
    batch,     \* the program's note: batchStartTime and origLmtime
    net,       \* the connection: up, replies nobody read, aborted
    remote,    \* the remote files: under the temporary and the final name
    server,    \* what this server can do
    local,     \* the local file
    clock, sessions,
    was,       \* history: the local file when the call began
    taint,     \* history: why a remote file may be no prefix of one version
    lens,      \* history: the length of each version
    direct     \* history: a file was sent straight to the final name

client == <<pc, calls, call, has, view, zaction, cmd, wanted, from, result, batch>>
world == <<net, remote, server, local, clock, sessions>>
history == <<was, taint, lens, direct>>
vars == <<client, world, history>>

Unknown == -1                     \* kSizeUnknown, kModTimeUnknown
Names == {"temp", "final"}
Block == (0 .. MaxVersion) \X (1 .. MaxLen)
Whole(v, n) == [i \in 1 .. n |-> <<v, i>>]
Content(f) == Whole(f.ver, f.len)
LocalRecord == [there : BOOLEAN, ver : 0 .. MaxVersion, len : 0 .. MaxLen, mtime : Nat]
NoFile == [there |-> FALSE, blocks |-> <<>>, mtime |-> 0]
NoCall == [op |-> "file", resume |-> FALSE, append |-> FALSE, delete |-> FALSE,
           ascii |-> FALSE, temp |-> FALSE, batch |-> FALSE, sendfile |-> FALSE]
Results == {"ok", "same", "open", "refused", "failed", "timeout", "aborted", "stor",
            "rename", "unlink"}

\* The types of the parameters, of cip's fields, of the files and of the history.
TypeOK ==
    /\ pc \in {"idle", "probe", "ask", "decide", "start", "put", "end", "rename",
               "displace", "again", "utime", "unlink"}
    /\ calls \in 0 .. MaxCalls /\ sessions \in 1 .. MaxSessions
    /\ call \in CallRecord
    /\ has \in [{"REST", "APPE"} -> {"unknown", "yes", "no"}]
    /\ view \in [size : Nat \cup {Unknown}, mdtm : Nat \cup {Unknown}]
    /\ zaction \in {"none", "same", "resume", "append", "overwrite"}
    /\ cmd \in {"STOR", "APPE"}
    /\ wanted \in 0 .. MaxLen /\ from \in 0 .. MaxLen
    /\ result \in Results
    /\ batch \in [start : Nat, mtime : Nat]
    /\ net \in [up : BOOLEAN, owed : BOOLEAN, canceled : BOOLEAN]
    /\ remote \in [Names -> [there : BOOLEAN, blocks : Seq(Block), mtime : Nat]]
    /\ server \subseteq Features
    /\ local \in LocalRecord /\ was \in LocalRecord
    /\ clock \in Nat
    /\ taint \in [Names -> SUBSET {"append", "undated", "sendfile", "seek", "misdated"}]
    /\ lens \in [0 .. MaxVersion -> 0 .. MaxLen]
    /\ direct \in BOOLEAN

\* A local file of some length; nothing on the server, or an older file (version 0)
\* of one block.
Init ==
    /\ pc = "idle" /\ calls = 0 /\ call = NoCall /\ sessions = 1
    /\ \E appe \in NoAPPE : has = [REST |-> "unknown", APPE |-> appe]
    /\ view = [size |-> Unknown, mdtm |-> Unknown]
    /\ zaction = "none" /\ cmd = "STOR" /\ wanted = 0 /\ from = 0 /\ result = "ok"
    /\ batch = [start |-> 0, mtime |-> 0]
    /\ net = [up |-> TRUE, owed |-> FALSE, canceled |-> FALSE]
    /\ server \in Servers
    /\ \E n \in 1 .. MaxLen, old \in 0 .. 1 :
         /\ local = [there |-> TRUE, ver |-> 1, len |-> n, mtime |-> Gap]
         /\ remote = [temp |-> NoFile,
                      final |-> IF old = 0 THEN NoFile
                                ELSE [there |-> TRUE, blocks |-> Whole(0, old), mtime |-> 0]]
         /\ lens = [v \in 0 .. MaxVersion |-> CASE v = 0 -> old [] v = 1 -> n [] OTHER -> 0]
    /\ clock = Gap /\ was = local
    /\ taint = [n \in Names |-> {}] /\ direct = FALSE

\* dstfile: the temporary name once a prefix or a suffix is given.
Dst == IF call.temp THEN "temp" ELSE "final"

-----------------------------------------------------------------------------
(***************************************************************************)
(* Up to the decision.                                                     *)
(***************************************************************************)

\* A call begins.  A program that passes batchStartTime keeps it, with the time of
\* the local file, until the file has been sent.
Call(c) ==
    /\ pc = "idle" /\ calls < MaxCalls /\ net.up /\ ~net.owed
    /\ calls' = calls + 1 /\ call' = c
    /\ clock' = clock + Gap
    /\ view' = [size |-> Unknown, mdtm |-> Unknown]
    /\ zaction' = "none" /\ cmd' = "STOR" /\ wanted' = 0 /\ from' = 0
    /\ result' = IF local.there THEN "ok" ELSE "open"
    /\ pc' = IF ~local.there THEN "idle"
             ELSE IF c.resume \/ c.op = "mem" THEN "probe" ELSE "decide"
    /\ batch' = IF c.batch /\ (batch.start = 0 \/ result \in {"ok", "same"})
                THEN [start |-> clock', mtime |-> local.mtime] ELSE batch
    /\ was' = local
    /\ direct' = (direct \/ ~c.temp)
    /\ UNCHANGED <<has, net, remote, server, local, sessions, taint, lens>>

\* FTPCheckForRestartModeAvailability.
Probe ==
    /\ pc = "probe"
    /\ has' = [has EXCEPT !.REST = IF @ # "unknown" \/ ~net.up THEN @
                                   ELSE IF "REST" \in server THEN "yes" ELSE "no"]
    /\ pc' = IF call.op = "file" THEN "ask" ELSE "decide"
    /\ UNCHANGED <<calls, call, view, zaction, cmd, wanted, from, result, batch, world, history>>

\* FTPFileSizeAndModificationTime of dstfile.
Ask ==
    /\ pc = "ask"
    /\ view' = IF ~net.up \/ ~remote[Dst].there THEN view
               ELSE [size |-> IF "SIZE" \in server THEN Len(remote[Dst].blocks) ELSE Unknown,
                     mdtm |-> IF {"SIZE", "MDTM"} \subseteq server
                              THEN remote[Dst].mtime ELSE Unknown]
    /\ pc' = "decide"
    /\ UNCHANGED <<calls, call, has, zaction, cmd, wanted, from, result, batch, world, history>>

\* The remote file was written after the program first tried to send this one, and
\* the local file has not changed since.
Continued ==
    /\ view.mdtm # Unknown /\ view.mdtm >= batch.start
    /\ batch.mtime \in {0, local.mtime}

\* Mutant of Guess: a file that has changed since is taken up again.
Guess_RemoteNeverSpliced ==
    IF local.len = view.size THEN "same"
    ELSE IF /\ view.size # Unknown /\ local.len > view.size
            /\ "yes" \in {has.REST, has.APPE}
            /\ call.batch => view.mdtm # Unknown /\ view.mdtm >= batch.start
         THEN "resume" ELSE "overwrite"

\* kConfirmResumeProcSaidBestGuess turned into a decision.
Guess ==
    IF view.mdtm # Unknown /\ local.mtime > view.mdtm + 1 THEN "overwrite"
    ELSE IF local.len = view.size THEN "same"
    ELSE IF /\ view.size # Unknown /\ local.len > view.size
            /\ "yes" \in {has.REST, has.APPE}
            /\ call.batch => Continued
         THEN "resume" ELSE "overwrite"

Decision == IF call.append THEN "append" ELSE IF call.resume THEN Guess ELSE "overwrite"
Undated == IF view.mdtm = Unknown THEN {"undated"} ELSE {}

DecideUnchanged == UNCHANGED <<calls, call, has, view, batch, world, was, lens, direct>>
TransferBy(command, startPoint, position, reasons) ==
    /\ cmd' = command /\ wanted' = startPoint /\ from' = position
    /\ taint' = [taint EXCEPT ![Dst] = @ \cup reasons]
    /\ pc' = "start" /\ UNCHANGED result /\ DecideUnchanged

\* The same size and not older: nothing is sent, kErrRemoteSameAsLocal.
DecideSame ==
    /\ pc = "decide" /\ call.op = "file" /\ Decision = "same"
    /\ zaction' = "same" /\ result' = "same"
    /\ pc' = IF call.delete THEN "unlink" ELSE "idle"
    /\ taint' = [taint EXCEPT ![Dst] = @ \cup Undated]
    /\ UNCHANGED <<cmd, wanted, from>> /\ DecideUnchanged

DecidePlain ==
    /\ pc = "decide" /\ Decision \in {"append", "overwrite"}
    /\ zaction' = Decision
    /\ IF Decision = "append" THEN TransferBy("APPE", 0, 0, {"append"})
                              ELSE TransferBy("STOR", 0, 0, {})

\* A binary file is resumed with REST and STOR.  Without REST it is sent anew; with
\* sendfile() the file position is left where it is, for DoSendfile to start at an
\* offset that nobody passes on.
ResumeBinary ==
    /\ pc = "decide" /\ Decision = "resume" /\ ~call.ascii
    /\ zaction' = "resume"
    /\ IF has.REST = "no" THEN TransferBy("STOR", 0, 0, {})
       ELSE IF call.sendfile THEN TransferBy("STOR", view.size, 0, Undated \cup {"sendfile"})
       ELSE TransferBy("STOR", view.size, view.size, Undated)

\* A text file is resumed with APPE, after FTPASCIILocalFileSeek; when the local
\* file has a carriage return in it, or its lines do not fit, it is sent anew, but
\* appended once more when APPE is known not to be available.
ResumeAscii ==
    /\ pc = "decide" /\ Decision = "resume" /\ call.ascii
    /\ \/ zaction' = "append" /\ TransferBy("APPE", 0, view.size, Undated)
       \/ has.APPE # "no" /\ zaction' = "resume" /\ TransferBy("STOR", 0, 0, {})
       \/ has.APPE = "no" /\ zaction' = "append" /\ TransferBy("APPE", 0, 0, {"seek"})

\* FTPASCIILocalFileSeek cannot read the local file: kErrAsciiSeekErr, nothing is sent.
AsciiSeekFails ==
    /\ pc = "decide" /\ Decision = "resume" /\ call.ascii
    /\ zaction' = "resume" /\ result' = "failed" /\ pc' = "idle"
    /\ UNCHANGED <<cmd, wanted, from, taint>> /\ DecideUnchanged

-----------------------------------------------------------------------------
(***************************************************************************)
(* FTPStartDataCmd2.                                                       *)
(***************************************************************************)

\* How the transfer may be started: command, offset, and the local file position.
\* A REST that is refused, or a STOR that is refused after it, is replaced by APPE
\* unless that is known not to exist; then the file is wound back and sent anew.
Started ==
    IF wanted = 0 THEN {<<cmd, 0, from>>}
    ELSE (IF {"REST", "REST STOR"} \subseteq server THEN {<<"STOR", wanted, from>>} ELSE {})
         \cup {IF has.APPE # "no" THEN <<"APPE", 0, from>> ELSE <<"STOR", 0, 0>>}

StartUnchanged == UNCHANGED <<calls, call, view, zaction, cmd, batch, server, local, clock,
                              sessions, was, lens, direct>>

\* Refused, or the data connection does not come about; after the 150 a reply is owed.
StartFails ==
    /\ pc = "start" /\ pc' = "idle" /\ result' = "refused"
    /\ \E owed \in BOOLEAN :
         /\ owed => net.up
         /\ net' = [net EXCEPT !.owed = owed, !.canceled = FALSE]
    /\ \E rest \in {has.REST} \cup (IF wanted = 0 \/ ~net.up THEN {}
                                    ELSE {"no"} \cup ({"yes"} \cap {IF "REST" \in server THEN "yes" ELSE "no"})) :
         has' = [has EXCEPT !.REST = rest]
    /\ UNCHANGED <<wanted, from, remote, taint>> /\ StartUnchanged

\* A mutant: the position is not wound back when the start point was refused.
TransferStarts_OkMeansStored ==
    /\ pc = "start" /\ net.up
    /\ \E s \in Started :
         /\ s[1] = "APPE" => "APPE" \in server
         /\ wanted' = s[2] /\ from' = from
         /\ remote' = [remote EXCEPT ![Dst] =
              [there |-> TRUE, mtime |-> clock,
               blocks |-> IF s[1] = "APPE" THEN @.blocks ELSE SubSeq(@.blocks, 1, s[2])]]
         /\ taint' = IF s[1] = "STOR" /\ s[2] = 0 THEN [taint EXCEPT ![Dst] = {}] ELSE taint
         /\ \E rest \in IF wanted = 0 \/ s[2] # 0 THEN {has.REST} ELSE {has.REST, "no"} :
              has' = [has EXCEPT !.REST = rest]
    /\ pc' = "put" /\ net' = [net EXCEPT !.canceled = FALSE]
    /\ UNCHANGED result /\ StartUnchanged

\* Sent anew after all, the local file must be wound back; when that fails
\* (kErrLseekFailed) the call returns with the server's transfer begun, its reply owed.
TransferStarts ==
    /\ pc = "start" /\ net.up
    /\ \E s \in Started :
         /\ s[1] = "APPE" => "APPE" \in server
         /\ wanted' = s[2] /\ from' = s[3]
         /\ remote' = [remote EXCEPT ![Dst] =
              [there |-> TRUE, mtime |-> clock,
               blocks |-> IF s[1] = "APPE" THEN @.blocks ELSE SubSeq(@.blocks, 1, s[2])]]
         /\ taint' = IF s[1] = "STOR" /\ s[2] = 0 THEN [taint EXCEPT ![Dst] = {}] ELSE taint
         /\ \E rest \in IF wanted = 0 \/ s[2] # 0 THEN {has.REST} ELSE {has.REST, "no"} :
              has' = [has EXCEPT !.REST = rest]
         /\ \/ pc' = "put" /\ UNCHANGED result /\ net' = [net EXCEPT !.canceled = FALSE]
            \/ /\ s = <<"STOR", 0, 0>> /\ wanted # 0 /\ ~call.sendfile
               /\ pc' = "idle" /\ result' = "failed"
               /\ net' = [net EXCEPT !.owed = TRUE, !.canceled = FALSE]
    /\ StartUnchanged

-----------------------------------------------------------------------------
(***************************************************************************)
(* The loop, the end of the transfer, and what follows it.                 *)
(***************************************************************************)
LoopUnchanged == UNCHANGED <<calls, call, has, view, zaction, cmd, wanted, batch, server,
                             local, clock, sessions, history>>

PutBlock ==
    /\ pc = "put" /\ net.up /\ from < local.len
    /\ from' = from + 1
    /\ remote' = [remote EXCEPT ![Dst].blocks = Append(@, <<local.ver, from'>>),
                                ![Dst].mtime = clock]
    /\ UNCHANGED <<pc, result, net>> /\ LoopUnchanged

PutEndOfFile ==
    /\ pc = "put" /\ from = local.len /\ pc' = "end"
    /\ UNCHANGED <<result, from, net, remote>> /\ LoopUnchanged

\* A read or a write fails, the write times out, sendfile() comes to less than it should.
PutFails ==
    /\ pc = "put" /\ pc' = "end"
    /\ result' \in {"failed", "timeout"}
    /\ UNCHANGED <<from, net, remote>> /\ LoopUnchanged

\* FTPPutBlock sees cancelXfer; DoSendfile does not look at it.
Cancel ==
    /\ pc = "put" /\ (~call.sendfile \/ call.ascii)
    /\ pc' = "end" /\ result' = "aborted"
    /\ \E owed \in BOOLEAN : net' = [net EXCEPT !.canceled = TRUE, !.owed = owed]
    /\ UNCHANGED <<from, remote>> /\ LoopUnchanged

EndUnchanged == UNCHANGED <<calls, call, view, zaction, cmd, wanted, from, batch, server,
                            local, clock, sessions>>

\* Mutants of End: the reply that ends the transfer is not waited for; a temporary
\* file is renamed although it could not be sent.
End_DeletedMeansStored ==
    /\ pc = "end"
    /\ result' = "ok" /\ has' = has
    /\ pc' = IF call.op = "mem" THEN "idle"
             ELSE IF call.temp /\ cmd = "STOR" THEN "rename" ELSE "utime"
    /\ UNCHANGED <<net, remote, history>> /\ EndUnchanged

End_FinalNeverPartial ==
    /\ pc = "end"
    /\ \E good \in BOOLEAN : result' = IF result = "ok" /\ ~(good /\ net.up) THEN "stor" ELSE result
    /\ pc' = IF call.op = "mem" THEN "idle"
             ELSE IF call.temp /\ cmd = "STOR" THEN "rename" ELSE "utime"
    /\ UNCHANGED <<has, net, remote, history>> /\ EndUnchanged

\* shutdown(), WaitForRemoteInput and FTPEndDataCmd; APPE is there if it was used.
End ==
    /\ pc = "end"
    /\ \E good \in BOOLEAN : result' = IF result = "ok" /\ ~(good /\ net.up) THEN "stor" ELSE result
    /\ has' = IF result' = "ok" /\ call.op = "file" /\ cmd = "APPE"
              THEN [has EXCEPT !.APPE = "yes"] ELSE has
    /\ pc' = IF result' # "ok" \/ call.op = "mem" THEN "idle"
             ELSE IF call.temp /\ cmd = "STOR" THEN "rename" ELSE "utime"
    /\ UNCHANGED <<net, remote, history>> /\ EndUnchanged

\* FTPRename of the temporary file.  The server may rename and the answer be lost.
Renames(after, otherwise) ==
    \E done \in BOOLEAN, told \in BOOLEAN :
       /\ done => /\ net.up /\ remote["temp"].there
                  /\ remote["final"].there => "RNTO" \in server
       /\ remote' = IF done THEN [temp |-> NoFile, final |-> remote["temp"]] ELSE remote
       /\ taint' = IF done THEN [temp |-> {}, final |-> taint["temp"]] ELSE taint
       /\ net' = [net EXCEPT !.up = @ /\ told]
       /\ result' = IF done /\ told THEN "ok" ELSE "rename"
       /\ pc' = IF done /\ told THEN after ELSE otherwise
       /\ UNCHANGED <<has, was, lens, direct>> /\ EndUnchanged

Rename == pc = "rename" /\ Renames("utime", "displace")
RenameAgain == pc = "again" /\ Renames("utime", "utime")

\* ... and when it fails the old file is deleted first.
Displace ==
    /\ pc = "displace"
    /\ \E done \in BOOLEAN, told \in BOOLEAN :
         /\ done => net.up /\ remote["final"].there
         /\ remote' = IF done THEN [remote EXCEPT !["final"] = NoFile] ELSE remote
         /\ taint' = IF done THEN [taint EXCEPT !["final"] = {}] ELSE taint
         /\ net' = [net EXCEPT !.up = @ /\ told]
         /\ pc' = IF done /\ told THEN "again" ELSE "utime"
    /\ UNCHANGED <<has, result, was, lens, direct>> /\ EndUnchanged

\* FTPUtime of the final name, which after a failed rename, or an upload that was
\* appended under the temporary name, is not the file that was sent.
Utime ==
    /\ pc = "utime"
    /\ \E done \in BOOLEAN :
         /\ done => net.up /\ remote["final"].there /\ "UTIME" \in server
         /\ remote' = IF done THEN [remote EXCEPT !["final"].mtime = local.mtime] ELSE remote
         /\ taint' = IF done /\ (result # "ok" \/ (call.temp /\ cmd = "APPE"))
                     THEN [taint EXCEPT !["final"] = @ \cup {"misdated"}] ELSE taint
    /\ pc' = IF result = "ok" /\ call.delete THEN "unlink" ELSE "idle"
    /\ UNCHANGED <<has, result, net, was, lens, direct>> /\ EndUnchanged

Unlink ==
    /\ pc = "unlink" /\ pc' = "idle"
    /\ \/ local' = [local EXCEPT !.there = FALSE] /\ UNCHANGED result
       \/ result' = "unlink" /\ UNCHANGED local
    /\ UNCHANGED <<calls, call, has, view, zaction, cmd, wanted, from, batch, net, remote,
                   server, clock, sessions, history>>

-----------------------------------------------------------------------------
(***************************************************************************)
(* The surroundings.                                                       *)
(***************************************************************************)
ConnectionLost ==
    /\ net.up /\ pc # "idle" /\ net' = [net EXCEPT !.up = FALSE]
    /\ UNCHANGED <<client, remote, server, local, clock, sessions, history>>

\* The local file is written anew, between two calls.
Edit ==
    /\ pc = "idle" /\ local.ver < MaxVersion
    /\ clock' = clock + Gap
    /\ \E n \in 0 .. MaxLen :
         /\ local' = [there |-> TRUE, ver |-> local.ver + 1, len |-> n, mtime |-> clock']
         /\ lens' = [lens EXCEPT ![local'.ver] = n]
    /\ UNCHANGED <<client, net, remote, server, sessions, was, taint, direct>>

\* A new connection: the old one is lost, a reply is owed, or the program was killed.
Restart ==
    /\ sessions < MaxSessions /\ sessions' = sessions + 1
    /\ pc # "idle" \/ ~net.up \/ net.owed
    /\ pc' = "idle" /\ result' = IF pc = "idle" THEN result ELSE "aborted"
    /\ has' = [REST |-> "unknown", APPE |-> IF has.APPE = "no" THEN "no" ELSE "unknown"]
    /\ net' = [up |-> TRUE, owed |-> FALSE, canceled |-> FALSE]
    /\ UNCHANGED <<calls, call, view, zaction, cmd, wanted, from, batch, remote, server,
                   local, clock, history>>

Library ==
    \/ Probe \/ Ask \/ DecideSame \/ DecidePlain \/ ResumeBinary \/ ResumeAscii
    \/ AsciiSeekFails \/ StartFails \/ TransferStarts \/ PutBlock \/ PutEndOfFile \/ PutFails \/ Cancel
    \/ End \/ Rename \/ Displace \/ RenameAgain \/ Utime \/ Unlink

Next ==
    \/ \E c \in Calls : Call(c)
    \/ Library
    \/ ConnectionLost \/ Edit \/ Restart

Spec == Init /\ [][Next]_vars

-----------------------------------------------------------------------------
(***************************************************************************)
(* What the library promises.                                              *)
(***************************************************************************)

Returned == pc = "idle" /\ calls > 0
Prefix(s) == \E v \in 0 .. MaxVersion : s = Whole(v, Len(s))
Complete(s) == \E v \in 0 .. MaxVersion : s = Whole(v, lens[v])

\* No remote file is ever put together from two versions of the local one, or has a
\* part of it missing or twice, across calls, failures, cancellations, kills and
\* resumed uploads (io_put.c:355-427, rcmd.c:566-640).  Not covered (taint): kAppendYes, a
\* server that tells no times, resuming with sendfile(), a text file that cannot be
\* resumed while APPE is known not to exist, and a file whose time was set in vain.
RemoteNeverSpliced ==
    \A n \in Names : remote[n].there /\ taint[n] = {} => Prefix(remote[n].blocks)

\* kNoErr and kErrRemoteSameAsLocal mean that the server holds the whole file: under
\* the final name, or under the temporary one when that was found to be complete or
\* was completed with APPE (tmppfx = "" at io_put.c:501).
OkMeansStored ==
    Returned /\ result \in {"ok", "same"} =>
        LET name == IF call.temp /\ (zaction = "same" \/ cmd = "APPE") THEN "temp" ELSE "final"
        IN remote[name].there /\ (taint[name] = {} => remote[name].blocks = Content(was))

\* A local file that the library deleted is whole on the server, under one name or
\* the other, and stays so.
DeletedMeansStored ==
    ~local.there => \E n \in Names : /\ remote[n].there
                                     /\ taint[n] = {} => remote[n].blocks = Content(local)

\* What temporary names are for: as long as every upload uses one, whoever reads the
\* final name finds a complete file, the old or the new one (or, between the DELE and
\* the second RNTO of io_put.c:815-826, none).
FinalNeverPartial ==
    ~direct /\ remote["final"].there /\ taint["final"] = {} => Complete(remote["final"].blocks)

=============================================================================
