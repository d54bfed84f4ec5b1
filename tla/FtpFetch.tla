------------------------------ MODULE FtpFetch ------------------------------
(***************************************************************************)
(* libncftp: what one program downloads over FTP.  It calls FTPGetOneF     *)
(* (into a file), FTPGetFileToMemory, FTPGetOneTarF and FTPListToMemory2   *)
(* on one remote file or directory, one call after the other, and may be   *)
(* killed and started again in between.                                    *)
(*                                                                         *)
(* A file is a sequence of blocks <<version, number>>: what matters is     *)
(* whether the blocks that are put together belong together.  An exchange  *)
(* on the control connection is one step.  The steps inside                *)
(* FTPStartDataCmd and FTPAbortDataTransfer, and what a reply nobody read  *)
(* does to later commands, are the subject of FtpSession: here such a      *)
(* reply is only remembered (net.owed), and the program opens a new        *)
(* connection before it goes on.                                           *)
(***************************************************************************)
EXTENDS Integers, Sequences, FiniteSets

CONSTANTS
    MaxLen,         \* bound: blocks in a remote file
    MaxCalls,       \* bound: downloads
    MaxSessions,    \* bound: connections, the first one included
    MaxVersion,     \* bound: versions of the remote file, from 1
    Gap,            \* seconds between two events, at least
    Threshold,      \* cip->recentMdtmThreshold
    Heuristic,      \* the bits set in cip->recentMdtmHeuristic
    Calls,          \* the calls the program may make
    Servers         \* what the server may be able to do

CallRecord == [op : {"get", "mem", "tar", "list"}, resume : BOOLEAN, append : BOOLEAN,
               delete : BOOLEAN, ascii : BOOLEAN, from : Nat, room : Nat]
\* "REST": a restart point in binary mode; "REST A": in ASCII mode too;
\* "TAR": RETR of <directory>.tar.
Features == {"MLST", "SIZE", "MDTM", "REST", "REST A", "TAR"}

ASSUME BoundsAssumption == {MaxLen, MaxCalls, MaxSessions, MaxVersion} \subseteq Nat \ {0}
ASSUME TimeAssumption ==
    Gap \in Nat \ {0} /\ Threshold \in Nat \ {0} /\ Heuristic \subseteq {1, 2}
ASSUME CallsAssumption == Calls \subseteq CallRecord /\ Servers \subseteq SUBSET Features

VARIABLES
    pc,        \* where the library is in the call it executes
    calls,     \* downloads begun
    call,      \* the parameters of the current one
    has,       \* cip->hasMLST, hasSIZE, hasMDTM, hasREST, hasRETR_tar
    view,      \* expectedSize and mdtm of the call: what the server said
    zaction,   \* zaction of FTPGetOneF, or why a call ended before it
    start,     \* the start points: wanted by the call, and cip->startPoint
    result,    \* of the current call, then of the last one
    net,       \* the connection: up, the data socket, replies nobody read
    wire,      \* the data connection: blocks to come, and how it will end
    remote,    \* the remote file
    server,    \* what this server can do
    local,     \* the local file
    mem,       \* the caller's buffer, list of lines, or tar's standard input
    tar,       \* the tar process
    clock, sessions,
    was,       \* history: the remote file at every moment of the call
    source,    \* history: the one the call's transfer began with
    late,      \* history: the local file was written to after the remote file it
               \* comes from had been replaced, and keeps the time of that
    taint,     \* history: why the local file may be no prefix of one version
    gone       \* history: the call deleted the remote file

client == <<pc, calls, call, has, view, zaction, start, result, mem, tar>>
world == <<net, wire, remote, server, local, clock, sessions>>
history == <<was, source, late, taint, gone>>
vars == <<client, world, history>>

Unknown == -1                     \* kSizeUnknown, kModTimeUnknown
Block == (0 .. MaxVersion) \X (1 .. MaxLen)
Whole(v, n) == [i \in 1 .. n |-> <<v, i>>]
Content(f) == Whole(f.ver, f.len)
FileRecord == [there : BOOLEAN, ver : 0 .. MaxVersion, len : 0 .. MaxLen, mtime : Nat]
NoCall == [op |-> "get", resume |-> FALSE, append |-> FALSE, delete |-> FALSE,
           ascii |-> FALSE, from |-> 0, room |-> 0]
Commands == {"MLST", "SIZE", "MDTM", "REST", "TAR"}
Early == {"skip", "same", "done", "empty", "past"}   \* nothing was transferred
Actions == {"none", "resume", "append", "overwrite", "guess"} \cup Early
Failures == {"newer", "noStart", "open", "noREST", "refused", "timeout", "aborted",
             "write", "retr", "list", "dele", "cwd"}

\* The types of the parameters, of cip's fields, of the files and of the history.
TypeOK ==
    /\ pc \in {"idle", "facts", "time", "probe", "decide", "start", "read", "end", "finish", "delete"}
    /\ calls \in 0 .. MaxCalls /\ sessions \in 1 .. MaxSessions
    /\ call \in CallRecord
    /\ has \in [Commands -> {"unknown", "yes", "no"}]
    /\ view \in [size : Nat \cup {Unknown}, mdtm : Nat \cup {Unknown}]
    /\ zaction \in Actions
    /\ start \in [wanted : Nat, cip : Nat]
    /\ result \in {"ok", "same"} \cup Failures
    /\ net \in [up : BOOLEAN, sock : BOOLEAN, owed : BOOLEAN, canceled : BOOLEAN]
    /\ wire \in [blocks : Seq(Block), end : {"good", "bad"}]
    /\ {remote, source} \cup was \subseteq FileRecord
    /\ server \subseteq Features
    /\ local \in [there : BOOLEAN, blocks : Seq(Block), mtime : Nat]
    /\ mem \in Seq(Block)
    /\ tar \in {"none", "running", "dead"}
    /\ clock \in Nat
    /\ taint \subseteq {"append", "undo", "undated", "raced", "overtaken"}
    /\ late \in BOOLEAN /\ gone \in BOOLEAN

\* A remote file of some length, older than the first call; no local file, or one
\* that was fetched earlier and is older than the remote one (version 0).
Init ==
    /\ pc = "idle" /\ calls = 0 /\ call = NoCall /\ sessions = 1
    /\ has = [c \in Commands |-> "unknown"]
    /\ view = [size |-> Unknown, mdtm |-> Unknown]
    /\ zaction = "none" /\ start = [wanted |-> 0, cip |-> 0] /\ result = "ok"
    /\ net = [up |-> TRUE, sock |-> FALSE, owed |-> FALSE, canceled |-> FALSE]
    /\ wire = [blocks |-> <<>>, end |-> "good"]
    /\ \E n \in 1 .. MaxLen :
         remote = [there |-> TRUE, ver |-> 1, len |-> n, mtime |-> Gap]
    /\ server \in Servers
    /\ local \in {[there |-> FALSE, blocks |-> <<>>, mtime |-> 0]} \cup
                 {[there |-> TRUE, blocks |-> Whole(0, n), mtime |-> 0] : n \in 1 .. MaxLen}
    /\ mem = <<>> /\ tar = "none" /\ clock = Gap
    /\ was = {remote} /\ source = remote /\ late = FALSE /\ taint = {} /\ gone = FALSE

-----------------------------------------------------------------------------
(***************************************************************************)
(* Asking the server.                                                      *)
(***************************************************************************)

\* What command c tells about the file, if it is sent at all; and what the answer
\* teaches: only "unimplemented" (500, 502, 504) rules a command out for good.
Gives(c) == net.up /\ has[c] # "no" /\ c \in server /\ remote.there
Learnt(c) == IF ~net.up \/ has[c] = "no" THEN has[c]
             ELSE IF c \notin server THEN "no"
             ELSE IF remote.there THEN "yes" ELSE has[c]

\* A call begins.  FTPGetOneF asks for size and time only when it may have to resume.
Call(c) ==
    /\ pc = "idle" /\ calls < MaxCalls /\ net.up /\ ~net.owed
    /\ calls' = calls + 1 /\ call' = c
    /\ \E wait \in {Gap, Threshold} : clock' = clock + wait
    /\ view' = [size |-> Unknown, mdtm |-> Unknown]
    /\ zaction' = "none" /\ result' = "ok" /\ mem' = <<>>
    /\ start' = [start EXCEPT !.wanted = c.from]
    /\ pc' = CASE c.op = "get" -> IF c.resume THEN "facts" ELSE "decide"
               [] c.op = "mem" -> "probe"
               [] c.op = "tar" -> "decide"
               [] c.op = "list" -> "start"
    /\ was' = {remote} /\ source' = remote /\ gone' = FALSE
    /\ UNCHANGED <<has, tar, net, wire, remote, server, local, sessions, late, taint>>

\* FTPFileSizeAndModificationTime: MLST answers both questions ...
FactsByMlst ==
    /\ pc = "facts" /\ Gives("MLST")
    /\ view' = [size |-> remote.len, mdtm |-> remote.mtime]
    /\ pc' = "probe"
    /\ UNCHANGED <<calls, call, has, zaction, start, result, mem, tar, world, history>>

\* ... and without it SIZE is asked, and MDTM when SIZE was answered.
FactsBySize ==
    /\ pc = "facts" /\ ~Gives("MLST")
    /\ view' = [view EXCEPT !.size = IF Gives("SIZE") THEN remote.len ELSE Unknown]
    /\ has' = [has EXCEPT
                !["MLST"] = IF net.up /\ "MLST" \notin server THEN "no" ELSE @,
                !["SIZE"] = Learnt("SIZE")]
    /\ pc' = IF Gives("SIZE") THEN "time" ELSE "probe"
    /\ UNCHANGED <<calls, call, zaction, start, result, mem, tar, world, history>>

FactsByTime ==
    /\ pc = "time"
    /\ view' = [view EXCEPT !.mdtm = IF Gives("MDTM") THEN remote.mtime ELSE Unknown]
    /\ has' = [has EXCEPT !["MDTM"] = Learnt("MDTM")]
    /\ pc' = "probe"
    /\ UNCHANGED <<calls, call, zaction, start, result, mem, tar, world, history>>

\* FTPCheckForRestartModeAvailability: REST 1 and, when that works, REST 0.
Restart == IF has["REST"] # "unknown" \/ ~net.up THEN has["REST"]
           ELSE IF "REST" \in server THEN "yes" ELSE "no"

Probe ==
    /\ pc = "probe" /\ call.op = "get"
    /\ has' = [has EXCEPT !["REST"] = Restart]
    /\ pc' = "decide"
    /\ UNCHANGED <<calls, call, view, zaction, start, result, mem, tar, world, history>>

\* FTPGetFileToMemory gives up when the server is known not to restart, and asks
\* for the size otherwise.
ProbeToMemory ==
    /\ pc = "probe" /\ call.op = "mem"
    /\ LET refused == call.from # 0 /\ Restart = "no"
       IN /\ has' = [has EXCEPT !["REST"] = Restart,
                                !["SIZE"] = IF refused THEN @ ELSE Learnt("SIZE")]
          /\ view' = [view EXCEPT !.size = IF ~refused /\ Gives("SIZE") THEN remote.len ELSE @]
          /\ pc' = IF refused THEN "idle" ELSE "decide"
          /\ result' = IF refused THEN "noREST" ELSE "ok"
    /\ UNCHANGED <<calls, call, zaction, start, mem, tar, world, history>>

-----------------------------------------------------------------------------
(***************************************************************************)
(* What to do with a local file that is already there.                     *)
(***************************************************************************)

Here == Len(local.blocks)
Recent == clock - local.mtime < Threshold
SameTime == local.mtime - view.mdtm \in -1 .. 1
\* Heuristic bit 1: a young local file beside an old remote one was never finished.
Untrusted == 1 \in Heuristic /\ Recent /\ clock - view.mdtm >= Threshold

\* A mutant: a remote file that is newer is taken for the rest of the local one.
Guess_NeverSpliced ==
    IF view.size = Unknown
    THEN IF has["MDTM"] = "yes" \/ has["SIZE"] # "yes" THEN "skip" ELSE "overwrite"
    ELSE IF Here = view.size THEN "same" ELSE IF Here > view.size THEN "overwrite" ELSE "resume"

\* kConfirmResumeProcSaidBestGuess turned into a decision.
Guess ==
    IF view.size = Unknown
    THEN IF has["MDTM"] = "yes" \/ has["SIZE"] # "yes" THEN "skip" ELSE "overwrite"
    ELSE IF view.mdtm = Unknown \/ Untrusted \/ SameTime
    THEN IF Here = view.size THEN "same" ELSE IF Here > view.size THEN "overwrite" ELSE "resume"
    ELSE IF view.mdtm > local.mtime THEN "overwrite"
    ELSE IF 2 \in Heuristic /\ Recent THEN "resume" ELSE "newer"

\* zaction once the code has looked at everything, with the ends of the call that
\* a resumed or appended file may still come to.
Decision ==
    LET asked == IF call.append THEN "append"
                 ELSE IF ~call.resume \/ has["REST"] = "no" THEN "overwrite" ELSE Guess
    IN IF ~local.there THEN "overwrite"
       ELSE IF asked = "resume" /\ Here = view.size THEN "done"
       ELSE IF asked = "resume" /\ Here > view.size THEN "noStart"
       ELSE IF asked = "append" /\ view.size = 0 THEN "empty" ELSE asked

\* What the local file is taken for without a proof: it is as old as it looks only
\* if the server told its times, and the file is not late.
Doubts == (IF view.mdtm = Unknown THEN {"undated"} ELSE {}) \cup
          (IF late THEN {"overtaken"} ELSE {})

Decide(d) ==
    /\ pc = "decide" /\ call.op = "get" /\ d = Decision
    /\ UNCHANGED <<calls, call, has, view, mem, tar, net, wire, remote, server, clock,
                   sessions, was, source, gone>>

\* The call ends here: with an error, or as if the file had been fetched.
DecideNot ==
    \E d \in {"newer", "noStart"} \cup Early :
       /\ Decide(d)
       /\ zaction' = IF d \in Early THEN d ELSE zaction
       /\ result' = IF d = "same" \/ d \in Failures THEN d ELSE "ok"
       /\ pc' = IF d \in Early /\ call.delete THEN "delete" ELSE "idle"
       /\ local' = [local EXCEPT !.mtime =
                       IF d = "empty" /\ view.mdtm # Unknown THEN view.mdtm ELSE @]
       /\ taint' = taint \cup IF d = "empty" THEN {"append"}
                             ELSE IF d \in {"same", "done"} THEN Doubts ELSE {}
       /\ UNCHANGED <<start, late>>

\* The local file is opened: O_APPEND to resume or append, O_TRUNC to overwrite.
DecideToFetch ==
    \E d \in {"resume", "append", "overwrite"} :
       /\ Decide(d)
       /\ zaction' = d /\ pc' = "start"
       /\ start' = [start EXCEPT !.wanted = IF d = "resume" THEN Here ELSE 0]
       /\ local' = IF d = "overwrite" THEN [there |-> TRUE, blocks |-> <<>>, mtime |-> clock]
                   ELSE local
       /\ taint' = CASE d = "overwrite" -> {}
                     [] d = "append" -> taint \cup {"append"}
                     [] d = "resume" -> taint \cup Doubts
       /\ late' = (late /\ d # "overwrite")
       /\ UNCHANGED result

\* The local file cannot be opened.
DecideFails ==
    \E d \in {"resume", "append", "overwrite"} :
       /\ Decide(d)
       /\ zaction' = d /\ result' = "open" /\ pc' = "idle"
       /\ start' = [start EXCEPT !.wanted = IF d = "resume" THEN Here ELSE 0]
       /\ UNCHANGED <<local, taint, late>>

\* FTPGetFileToMemory: nothing is read past the end of the file.
DecideToMemory ==
    /\ pc = "decide" /\ call.op = "mem"
    /\ LET past == view.size # 0 /\ call.from > view.size
       IN /\ zaction' = IF past THEN "past" ELSE "overwrite"
          /\ pc' = IF ~past THEN "start" ELSE IF call.delete THEN "delete" ELSE "idle"
    /\ UNCHANGED <<calls, call, has, view, start, result, mem, tar, world, history>>

\* FTPGetOneTarF: not when the server has no RETR of a .tar, nor when MDTM finds
\* that there is such a file already, nor when it cannot go to the directory above,
\* as it does for some names (the way back, whose result is dropped, is left out);
\* then tar is started.
DecideToTar ==
    /\ pc = "decide" /\ call.op = "tar"
    /\ \/ /\ has["TAR"] # "no" /\ tar' = "running" /\ pc' = "start" /\ result' = "ok"
       \/ tar' = "none" /\ pc' = "idle" /\ result' \in {"open", "cwd"}
    /\ start' = [start EXCEPT !.wanted = 0]
    /\ UNCHANGED <<calls, call, has, view, zaction, mem, world, history>>

-----------------------------------------------------------------------------
(***************************************************************************)
(* FTPStartDataCmd: the data connection, REST, and RETR or LIST.           *)
(***************************************************************************)

\* What a failed start does: FTPGetOneF removes the file it created, if
\* cip->startPoint is zero; FTPGetOneTarF remembers that there is no RETR of .tar
\* and waits for tar.
StartFails(reason, cipStart, owed) ==
    /\ result' = reason /\ pc' = "idle" /\ tar' = "none"
    /\ start' = [start EXCEPT !.cip = cipStart]
    /\ local' = IF call.op = "get" /\ zaction = "overwrite" /\ ~call.append /\ cipStart = 0
                THEN [there |-> FALSE, blocks |-> <<>>, mtime |-> 0] ELSE local
    /\ net' = [net EXCEPT !.owed = owed, !.canceled = FALSE]
    /\ UNCHANGED <<calls, call, view, zaction, mem, wire, remote, server, clock,
                   sessions, history>>

NoTar == [has EXCEPT !["TAR"] = IF call.op = "tar" /\ @ = "unknown" THEN "no" ELSE @]

\* TYPE, PASV, PORT or the connection fails; cip->startPoint is the last transfer's.
NoDataConnection ==
    /\ pc = "start" /\ has' = NoTar /\ StartFails("refused", start.cip, FALSE)

\* FTPSetStartOffset inside FTPStartDataCmd: cip->startPoint is zero when the
\* server refuses, which in ASCII mode it may do although REST 1 was fine.
Offsets == IF start.wanted = 0 THEN {0}
           ELSE IF (IF call.ascii THEN "REST A" ELSE "REST") \in server THEN {start.wanted} ELSE {0}
RestLearnt(offset) ==
    IF start.wanted = 0 THEN {has["REST"]}
    ELSE IF offset # 0 THEN {"yes"} ELSE {has["REST"], "no"}

RetrRefused ==
    /\ pc = "start" /\ net.up
    /\ \E offset \in Offsets :
         /\ \E rest \in RestLearnt(offset) : has' = [NoTar EXCEPT !["REST"] = rest]
         /\ StartFails("refused", offset, FALSE)

\* The 150 was read but the server's connection never came: its last reply is owed.
AcceptFails ==
    /\ pc = "start" /\ net.up
    /\ \E offset \in Offsets :
         /\ \E rest \in RestLearnt(offset) : has' = [NoTar EXCEPT !["REST"] = rest]
         /\ StartFails("refused", offset, TRUE)

\* The transfer starts, with n blocks to come from an offset on.  When the restart
\* point was refused FTPGetOneF winds the local file back to its beginning, which
\* does nothing to a file opened with O_APPEND, and FTPGetFileToMemory returns as
\* it is.  When it was accepted, the file may have been replaced in the meantime.
Transfers(offset, n, end) ==
    /\ \E rest \in RestLearnt(offset) :
         has' = [has EXCEPT !["REST"] = rest, !["TAR"] = IF call.op = "tar" THEN "yes" ELSE @]
    /\ n = 0 \/ n + offset <= remote.len
    /\ end = "good" => n + offset >= remote.len
    /\ wire' = [blocks |-> SubSeq(Content(remote), offset + 1, offset + n), end |-> end]
    /\ source' = remote
    /\ start' = [wanted |-> IF offset = 0 THEN 0 ELSE start.wanted, cip |-> offset]
    /\ LET undone == start.wanted # 0 /\ offset = 0
           raced == offset # 0 /\ view.mdtm # remote.mtime
       IN /\ taint' = IF call.op # "get" THEN taint
                      ELSE taint \cup (IF undone THEN {"undo"} ELSE {})
                                 \cup (IF raced THEN {"raced"} ELSE {})
          /\ pc' = IF undone /\ call.op = "mem" THEN "idle" ELSE "read"
          /\ result' = IF undone /\ call.op = "mem" THEN "noStart" ELSE "ok"
          /\ net' = [net EXCEPT !.sock = TRUE, !.canceled = FALSE,
                                !.owed = undone /\ call.op = "mem"]
    /\ UNCHANGED <<calls, call, view, zaction, mem, tar, remote, server, local, clock,
                   sessions, was, late, gone>>

TransferStarts ==
    /\ pc = "start" /\ net.up /\ remote.there
    /\ call.op = "tar" => "TAR" \in server
    /\ \E offset \in Offsets, n \in 0 .. MaxLen, end \in {"good", "bad"} : Transfers(offset, n, end)

-----------------------------------------------------------------------------
(***************************************************************************)
(* The loop over the data connection.                                      *)
(***************************************************************************)

Reading(op) == pc = "read" /\ call.op \in op
Arrives == wire' = [wire EXCEPT !.blocks = Tail(@)]
LoopUnchanged == UNCHANGED <<calls, call, has, view, zaction, start, remote, server,
                             clock, sessions, history>>

ReadToFile ==
    /\ Reading({"get"}) /\ wire.blocks # <<>> /\ Arrives
    /\ local' = [local EXCEPT !.blocks = Append(@, Head(wire.blocks)), !.mtime = clock]
    /\ late' = (late \/ source.ver # remote.ver)
    /\ UNCHANGED <<client, net, remote, server, clock, sessions, was, source, taint, gone>>

\* A mutant: the loop ends one block before the buffer is full.
ReadToMemory_OkMeansReceived ==
    /\ Reading({"mem"}) /\ wire.blocks # <<>> /\ Arrives
    /\ mem' = Append(mem, Head(wire.blocks))
    /\ pc' = IF Len(mem') >= call.room - 1 THEN "end" ELSE "read"
    /\ UNCHANGED <<result, tar, local, net>> /\ LoopUnchanged

\* FTPGetFileToMemory breaks off when the buffer is full: the rest is aborted,
\* unless the size says that nothing is left, and the call has succeeded if the
\* abort has.
ReadToMemory ==
    /\ Reading({"mem"}) /\ wire.blocks # <<>> /\ Arrives
    /\ mem' = Append(mem, Head(wire.blocks))
    /\ LET full == Len(mem') = call.room
           atEOF == Len(mem') + call.from = view.size
       IN /\ pc' = IF full THEN "end" ELSE "read"
          /\ IF full /\ ~atEOF
             THEN \E owed \in BOOLEAN :
                    /\ net' = [net EXCEPT !.canceled = TRUE, !.sock = FALSE, !.owed = owed]
                    /\ result' \in {result, "retr"}
             ELSE UNCHANGED <<net, result>>
    /\ UNCHANGED <<tar, local>> /\ LoopUnchanged

ReadToList ==
    /\ Reading({"tar", "list"}) /\ wire.blocks # <<>> /\ Arrives
    /\ call.op = "tar" => tar = "running"
    /\ mem' = Append(mem, Head(wire.blocks))
    /\ UNCHANGED <<pc, result, tar, local, net>> /\ LoopUnchanged

\* The local write fails: the disk is full, or tar is gone.
WriteFails ==
    /\ Reading({"get", "tar"}) /\ wire.blocks # <<>>
    /\ call.op = "tar" => tar = "dead"
    /\ wire' = [blocks |-> <<>>, end |-> "bad"] /\ result' = "write" /\ pc' = "end"
    /\ UNCHANGED <<mem, tar, local, net>> /\ LoopUnchanged

\* The server closed the data connection.
EndOfFile ==
    /\ pc = "read" /\ wire.blocks = <<>> /\ pc' = "end"
    /\ UNCHANGED <<result, mem, tar, local, net, wire>> /\ LoopUnchanged

\* The socket breaks.
ReadFails ==
    /\ pc = "read"
    /\ wire' = [blocks |-> <<>>, end |-> "bad"] /\ pc' = "end"
    /\ result' = IF call.op = "list" THEN "list" ELSE "retr"
    /\ UNCHANGED <<mem, tar, local, net>> /\ LoopUnchanged

\* A mutant: every operation returns as FTPListToMemory2 does.
ReadTimesOut_NothingLeftBehind ==
    /\ pc = "read" /\ result' = "timeout"
    /\ wire' = [blocks |-> <<>>, end |-> "bad"]
    /\ pc' = "idle" /\ net' = [net EXCEPT !.owed = TRUE]
    /\ UNCHANGED <<mem, tar, local>> /\ LoopUnchanged

\* The server stays silent: the loop ends and the last reply is waited for, but
\* FTPListToMemory2 returns with everything still open.
ReadTimesOut ==
    /\ pc = "read" /\ result' = "timeout"
    /\ wire' = [blocks |-> <<>>, end |-> "bad"]
    /\ pc' = IF call.op = "list" THEN "idle" ELSE "end"
    /\ net' = [net EXCEPT !.owed = call.op = "list"]
    /\ UNCHANGED <<mem, tar, local>> /\ LoopUnchanged

\* cancelXfer is seen: FTPAbortDataTransfer.  A listing does not look at it.
Cancel ==
    /\ Reading({"get", "mem", "tar"})
    /\ result' = "aborted" /\ pc' = "end"
    /\ \E owed \in BOOLEAN :
         net' = [net EXCEPT !.canceled = TRUE, !.sock = FALSE, !.owed = owed]
    /\ UNCHANGED <<mem, tar, local, wire>> /\ LoopUnchanged

\* A mutant: the code of the last reply is not looked at.
End_OkMeansFetched ==
    /\ pc = "end"
    /\ result' = IF result = "ok" /\ ~net.canceled /\ ~net.up
                 THEN (IF call.op = "list" THEN "list" ELSE "retr") ELSE result
    /\ net' = IF net.canceled THEN net ELSE [net EXCEPT !.sock = FALSE]
    /\ wire' = [blocks |-> <<>>, end |-> "good"]
    /\ pc' = IF call.op \in {"get", "mem"} THEN "finish" ELSE "idle"
    /\ tar' = "none"
    /\ UNCHANGED <<calls, call, has, view, zaction, start, mem, remote, server, local,
                   clock, sessions, history>>

\* FTPEndDataCmd: after an abort there is nothing to do; otherwise the socket is
\* closed and the last reply read.  A server that is not done yet may notice.
End ==
    /\ pc = "end"
    /\ \E noticed \in BOOLEAN :
       LET bad == ~net.canceled /\ (~net.up \/ wire.end = "bad" \/ (noticed /\ wire.blocks # <<>>))
           empty == call.op = "tar" /\ mem = <<>>
       IN result' = IF result = "ok" /\ bad THEN (IF call.op = "list" THEN "list" ELSE "retr")
                    ELSE IF result = "ok" /\ empty THEN "open" ELSE result
    /\ net' = IF net.canceled THEN net ELSE [net EXCEPT !.sock = FALSE]
    /\ wire' = [blocks |-> <<>>, end |-> "good"]
    /\ pc' = IF call.op \in {"get", "mem"} THEN "finish" ELSE "idle"
    /\ tar' = "none"                     \* close() and waitpid()
    /\ UNCHANGED <<calls, call, has, view, zaction, start, mem, remote, server, local,
                   clock, sessions, history>>

\* A mutant: the remote file is deleted whatever came of the transfer.
Finish_DeletedMeansHeld ==
    /\ pc = "finish"
    /\ local' = [local EXCEPT !.mtime =
                    IF call.op = "get" /\ view.mdtm # Unknown THEN view.mdtm ELSE @]
    /\ pc' = IF call.delete THEN "delete" ELSE "idle"
    /\ late' = (late /\ (call.op # "get" \/ view.mdtm = Unknown))
    /\ UNCHANGED <<calls, call, has, view, zaction, start, result, mem, tar, net, wire,
                   remote, server, clock, sessions, was, source, taint, gone>>

\* The file gets the time of the remote one, whatever came of the transfer.
Finish ==
    /\ pc = "finish"
    /\ local' = [local EXCEPT !.mtime =
                    IF call.op = "get" /\ view.mdtm # Unknown THEN view.mdtm ELSE @]
    /\ pc' = IF result = "ok" /\ call.delete THEN "delete" ELSE "idle"
    /\ late' = (late /\ (call.op # "get" \/ view.mdtm = Unknown))
    /\ UNCHANGED <<calls, call, has, view, zaction, start, result, mem, tar, net, wire,
                   remote, server, clock, sessions, was, source, taint, gone>>

\* FTPDelete of the one file.  Where nothing was transferred its result is dropped.
Delete ==
    /\ pc = "delete" /\ pc' = "idle"
    /\ \E done \in BOOLEAN :
         /\ done => net.up /\ remote.there
         /\ remote' = IF done THEN [remote EXCEPT !.there = FALSE] ELSE remote
         /\ gone' = done
         /\ result' = IF done \/ zaction \in Early THEN result ELSE "dele"
    /\ UNCHANGED <<calls, call, has, view, zaction, start, mem, tar, net, wire, server,
                   local, clock, sessions, was, source, late, taint>>

-----------------------------------------------------------------------------
(***************************************************************************)
(* The surroundings.                                                       *)
(***************************************************************************)

\* The control connection is lost.
ConnectionLost ==
    /\ net.up /\ net' = [net EXCEPT !.up = FALSE]
    /\ UNCHANGED <<client, wire, remote, server, local, clock, sessions, history>>

\* tar exits before it has read everything.
TarDies ==
    /\ tar = "running" /\ tar' = "dead"
    /\ UNCHANGED <<pc, calls, call, has, view, zaction, start, result, mem, world, history>>

\* The remote file is replaced by another, at any time; a transfer under way goes
\* on with the file it began with.
Edit ==
    /\ remote.ver < MaxVersion
    /\ clock' = clock + Gap
    /\ \E n \in 0 .. MaxLen :
         remote' = [there |-> TRUE, ver |-> remote.ver + 1, len |-> n, mtime |-> clock']
    /\ was' = IF pc = "idle" THEN was ELSE was \cup {remote'}
    /\ gone' = FALSE
    /\ UNCHANGED <<client, net, wire, server, local, sessions, source, late, taint>>

NewConnection ==
    /\ sessions < MaxSessions /\ sessions' = sessions + 1
    /\ has' = [c \in Commands |-> "unknown"]
    /\ net' = [up |-> TRUE, sock |-> FALSE, owed |-> FALSE, canceled |-> FALSE]
    /\ wire' = [blocks |-> <<>>, end |-> "good"]
    /\ pc' = "idle" /\ tar' = "none"
    /\ UNCHANGED <<calls, call, remote, server, local, clock, was, source, late, taint>>

\* The program opens a new connection when the old one is lost or a reply is owed.
Reconnect ==
    /\ pc = "idle" /\ (~net.up \/ net.owed) /\ NewConnection
    /\ start' = [start EXCEPT !.cip = 0]
    /\ UNCHANGED <<view, zaction, result, mem, gone>>

\* The program is killed in the middle of a call, and started again.
Kill ==
    /\ pc # "idle" /\ NewConnection
    /\ start' = [wanted |-> 0, cip |-> 0] /\ zaction' = "none"
    /\ view' = [size |-> Unknown, mdtm |-> Unknown]
    /\ result' = "aborted" /\ mem' = <<>> /\ gone' = FALSE

Library ==
    \/ FactsByMlst \/ FactsBySize \/ FactsByTime \/ Probe \/ ProbeToMemory
    \/ DecideNot \/ DecideToFetch \/ DecideFails \/ DecideToMemory \/ DecideToTar
    \/ NoDataConnection \/ RetrRefused \/ AcceptFails \/ TransferStarts
    \/ ReadToFile \/ ReadToMemory \/ ReadToList \/ WriteFails \/ EndOfFile
    \/ ReadFails \/ ReadTimesOut \/ Cancel \/ End \/ Finish \/ Delete

Next ==
    \/ \E c \in Calls : Call(c)
    \/ Library
    \/ ConnectionLost \/ TarDies \/ Edit \/ Reconnect \/ Kill

Spec == Init /\ [][Next]_vars

-----------------------------------------------------------------------------
(***************************************************************************)
(* What the library promises.                                              *)
(***************************************************************************)

Returned == pc = "idle" /\ calls > 0
Prefix(s) == \E v \in 0 .. MaxVersion : s = Whole(v, Len(s))

\* The local file is never put together from two versions of the remote one, nor
\* is a part of it missing or twice: across calls, failures, cancellations, kills
\* and replacements of the remote file it is the beginning of one version
\* (FTPGetOneF's comparison of sizes and times, io_get.c:170-299).  Not covered are
\* the local files that FTPGetOneF extends or accepts although it cannot know them:
\* with kAppendYes ("append"); without a time from the server ("undated"); when the
\* server refuses in the transfer the REST it had accepted before, and the Lseek of
\* io_get.c has no effect on O_APPEND ("undo"); when the remote file is replaced
\* between the comparison and the RETR ("raced"); and when it was replaced during
\* an earlier transfer that did not come to set the local time, because the program
\* was killed or had no time to set, so that io_get.c:251-270 takes the local file
\* for a younger one and resumes it ("overtaken").
NeverSpliced == taint = {} => Prefix(local.blocks)

\* kNoErr and kErrLocalSameAsRemote mean that the local file is what the remote file
\* was at some moment of the call.  Not covered besides: the skip of io_get.c:288.
OkMeansFetched ==
    Returned /\ call.op = "get" /\ result \in {"ok", "same"} /\ zaction # "skip" /\ taint = {}
        => \E f \in was : local.blocks = Content(f)

\* kNoErr from FTPGetFileToMemory means the buffer holds the file as it was at some
\* moment of the call, from the start point on, or as much of it as it has room for;
\* from FTPListToMemory2 and FTPGetOneTarF, that every line or byte was received.
OkMeansReceived ==
    Returned /\ result = "ok" /\ call.op # "get"
    /\ (zaction = "past" => view.size # Unknown)
        => \E f \in was :
           LET rest == SubSeq(Content(f), call.from + 1, f.len)
           IN \/ mem = rest
              \/ call.op = "mem" /\ call.room <= Len(rest) /\ mem = SubSeq(rest, 1, call.room)

\* When the library has deleted the remote file, the program has what was in it at
\* some moment of the call, as long as the server told the size and the caller's
\* buffer was large enough.  A file that replaces it between RETR and DELE is
\* deleted unseen: FTP has no way to ask for less.
DeletedMeansHeld ==
    gone /\ view.size # Unknown /\ taint = {}
        => IF call.op = "mem"
           THEN \/ Len(mem) = call.room
                \/ \E f \in was : mem = SubSeq(Content(f), call.from + 1, f.len)
           ELSE \E f \in was : local.blocks = Content(f)

\* What kDeleteYes is documented to do (doc/libncftp.html:1503): "after the file
\* is downloaded successfully the remote file is deleted".
DeletedWasFetched ==
    gone /\ taint = {}
        => IF call.op = "mem"
           THEN \E f \in was : mem = SubSeq(Content(f), call.from + 1, f.len)
           ELSE \E f \in was : local.blocks = Content(f)

\* A call that returns leaves no tar process, and the data connection closed with
\* all replies read, except after a listing that timed out, a restart point that
\* FTPGetFileToMemory was refused, an abort, or a connection that never came.
NothingLeftBehind ==
    pc = "idle" /\ net.up =>
        /\ tar = "none"
        /\ net.sock => /\ net.owed
                       /\ <<call.op, result>> \in {<<"list", "timeout">>, <<"mem", "noStart">>}
        /\ net.owed => net.sock \/ net.canceled \/ result = "refused"

=============================================================================
