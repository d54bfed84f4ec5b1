---------------------------- MODULE KeyForwarder ----------------------------
(***************************************************************************)
(* keyForwarder: launchd starts it when the patch file changes; main       *)
(* starts a thread that sends the file with libncftp (FtpOpen, FtpSession, *)
(* of which only the results matter here) and reports until the thread     *)
(* raises finishedFlag.                                                    *)
(***************************************************************************)
EXTENDS Naturals

CONSTANT MaxChanges     \* bound: changes of the patch file
ASSUME ChangesAssumption == MaxChanges \in Nat

VARIABLES
    exists, changes,    \* the patch file; how often it has changed
    changed,            \* it has changed since launchd looked
    main,               \* where main is; "off" when the process does not run
    patchFile,          \* main's FILE, open for the whole of the transfer
    said,               \* the last thing main printed
    worker,             \* where transferFile is
    session,            \* ci: the connection to the server
    sent,               \* what FTPPutOneFile returned was kNoErr
    finishedFlag        \* threadParams.finishedFlag, in main's stack frame

file == <<exists, changes, changed>>
process == <<main, patchFile, said>>
thread == <<worker, session, sent>>
vars == <<file, process, thread, finishedFlag>>

\* The types of the locals of main and of transferFile.
TypeOK ==
    /\ exists \in BOOLEAN /\ changes \in 0 .. MaxChanges /\ changed \in BOOLEAN
    /\ main \in {"off", "fopen", "create", "loop", "join", "fclose"}
    /\ patchFile \in {"open", "closed"}
    /\ said \in {"nothing", "proceeding", "deleted", "error", "transmitting", "done"}
    /\ worker \in {"none", "open", "put", "close", "flag", "exit", "returned"}
    /\ session \in {"open", "closed"} /\ sent \in BOOLEAN
    /\ finishedFlag \in {0, 1}

Init ==
    /\ exists = TRUE /\ changes = 0 /\ changed = FALSE
    /\ main = "off" /\ patchFile = "closed" /\ said = "nothing"
    /\ worker = "none" /\ session = "closed" /\ sent = FALSE
    /\ finishedFlag = 0

-----------------------------------------------------------------------------
(***************************************************************************)
(* Whoever writes the patch file, and launchd with WatchPaths (external):  *)
(* it runs at most one keyForwarder, and a change during a run may be lost.*)
(***************************************************************************)
Change ==
    /\ changes < MaxChanges
    /\ changes' = changes + 1 /\ exists' \in BOOLEAN
    /\ \/ changed' = TRUE
       \/ main # "off" /\ UNCHANGED changed
    /\ UNCHANGED <<process, thread, finishedFlag>>

Launch ==
    /\ main = "off" /\ changed
    /\ changed' = FALSE
    /\ main' = "fopen" /\ patchFile' = "closed" /\ said' = "nothing"
    /\ worker' = "none" /\ session' = "closed" /\ sent' = FALSE
    /\ UNCHANGED <<exists, changes, finishedFlag>>

-----------------------------------------------------------------------------
(***************************************************************************)
(* main.                                                                   *)
(***************************************************************************)
OpenPatchFile ==
    /\ main = "fopen"
    /\ \/ exists /\ main' = "create" /\ patchFile' = "open" /\ said' = "proceeding"
       \/ ~exists /\ main' = "off" /\ said' = "deleted" /\ UNCHANGED patchFile
    /\ UNCHANGED <<file, thread, finishedFlag>>

\* pthread_create; when it fails main returns without fclose.
CreateThread ==
    /\ main = "create"
    /\ finishedFlag' = 0
    /\ \/ worker' = "open" /\ main' = "loop" /\ UNCHANGED <<patchFile, said>>
       \/ main' = "off" /\ said' = "error" /\ patchFile' = "closed" /\ UNCHANGED worker
    /\ UNCHANGED <<file, session, sent>>

Loop ==
    /\ main = "loop"
    /\ \/ finishedFlag = 0 /\ said' = "transmitting" /\ UNCHANGED main
       \/ finishedFlag = 1 /\ said' = "done" /\ main' = "join"
    /\ UNCHANGED <<file, patchFile, thread, finishedFlag>>

\* Mutant: main does not wait for the thread.
Join_WithoutWaiting ==
    /\ main = "join"
    /\ main' = "fclose"
    /\ UNCHANGED <<file, patchFile, said, thread, finishedFlag>>

Join ==
    /\ main = "join" /\ worker = "returned"
    /\ main' = "fclose"
    /\ UNCHANGED <<file, patchFile, said, thread, finishedFlag>>

Return ==
    /\ main = "fclose"
    /\ main' = "off" /\ patchFile' = "closed"
    /\ UNCHANGED <<file, said, thread, finishedFlag>>

Main == OpenPatchFile \/ CreateThread \/ Loop \/ Join \/ Return

-----------------------------------------------------------------------------
(***************************************************************************)
(* transferFile.                                                           *)
(***************************************************************************)

\* FTPOpenHost.  When it fails the thread returns and never raises the flag.
OpenHost ==
    /\ worker = "open"
    /\ \/ worker' = "put" /\ session' = "open"
       \/ worker' = "returned" /\ UNCHANGED session
    /\ UNCHANGED <<file, process, sent, finishedFlag>>

\* FTPPutOneFile opens the file again, by name; what it returns is dropped.
PutOneFile ==
    /\ worker = "put"
    /\ worker' = "close" /\ sent' \in {FALSE, exists}
    /\ UNCHANGED <<file, process, session, finishedFlag>>

CloseHost ==
    /\ worker = "close"
    /\ worker' = "flag" /\ session' = "closed"
    /\ UNCHANGED <<file, process, sent, finishedFlag>>

\* Mutant: the flag is raised only for a file that has arrived.
RaiseFlag_OnlyIfSent ==
    /\ worker = "flag"
    /\ worker' = "exit" /\ finishedFlag' = IF sent THEN 1 ELSE 0
    /\ UNCHANGED <<file, process, session, sent>>

RaiseFlag ==
    /\ worker = "flag"
    /\ worker' = "exit" /\ finishedFlag' = 1
    /\ UNCHANGED <<file, process, session, sent>>

ThreadReturns ==
    /\ worker = "exit"
    /\ worker' = "returned"
    /\ UNCHANGED <<file, process, session, sent, finishedFlag>>

Worker == OpenHost \/ PutOneFile \/ CloseHost \/ RaiseFlag \/ ThreadReturns

-----------------------------------------------------------------------------
Next == Change \/ Launch \/ Main \/ Worker

Spec == Init /\ [][Next]_vars

\* Two runnable threads; FTPOpenHost and FTPPutOneFile return (FtpOpen!OpenReturns,
\* FtpSession!PutsReturn).
FairSpec == Spec /\ WF_vars(Main) /\ WF_vars(Worker)

-----------------------------------------------------------------------------
\* finishedFlag and the FILE belong to main: the thread still runs only while main
\* is in the part of its body where both are alive, and it has the frame of this run.
FrameOutlivesThread ==
    worker \notin {"none", "returned"} => main \in {"loop", "join"} /\ patchFile = "open"

\* "Done" is said when the connection is closed: the process cannot end, and launchd
\* cannot start another one, in the middle of a session.
DoneAfterClose == said = "done" \/ main = "off" => session = "closed"

\* The flag of the thread ties the two: it is up exactly from RaiseFlag on.
HandshakeInv ==
    /\ FrameOutlivesThread
    /\ session = "open" <=> worker \in {"put", "close"}
    /\ worker \in {"open", "put", "close", "flag"} => finishedFlag = 0
    /\ worker = "exit" => finishedFlag = 1
    /\ main \in {"fopen", "create"} => worker = "none"
    /\ main \in {"join", "fclose"} => finishedFlag = 1 /\ worker \in {"exit", "returned"}
    /\ main = "fclose" => worker = "returned"
    /\ main = "loop" => patchFile = "open" /\ said # "done" /\ worker # "none"
    /\ main \in {"create", "join"} => patchFile = "open"
    /\ said = "done" => main \in {"join", "fclose", "off"}

\* Once FTPOpenHost has succeeded the process ends, whatever becomes of the file, so
\* that the next change is forwarded.
ForwardReturns == worker = "put" ~> main = "off"

\* "Done transmitting file...": it has been transmitted.
DoneMeansSent == said = "done" => sent

\* "Transmitting file...": somebody is transmitting it.
SomebodyTransmits ==
    main = "loop" /\ said = "transmitting" => worker # "returned" \/ finishedFlag = 1

=============================================================================
