------------------------------- MODULE FtpJob -------------------------------
(***************************************************************************)
(* What an application may rely on when it calls FTPPutOneFile on an open  *)
(* connection: the call returns; kNoErr means that the server has the      *)
(* whole file, as long as no earlier call lost count of the replies the    *)
(* server owes ("inStep"); an error means nothing about the remote file,   *)
(* which the server may still be writing.                                  *)
(***************************************************************************)
VARIABLES
    phase,      \* "idle": no call, "busy": in FTPPutOneFile, "over": closed
    outcome,    \* what the last FTPPutOneFile returned
    remote,     \* the remote file, compared with the file of the last call
    inStep      \* every call has read all the replies of its transfer

vars == <<phase, outcome, remote, inStep>>

TypeOK ==
    /\ phase \in {"idle", "busy", "over"}
    /\ outcome \in {"none", "ok", "error"}
    /\ remote \in {"old", "partial", "new"}
    /\ inStep \in BOOLEAN

Init ==
    /\ phase = "idle" /\ outcome = "none"
    /\ remote = "new"                      \* nothing has been sent yet
    /\ inStep = TRUE

Begin ==
    /\ phase = "idle"
    /\ phase' = "busy" /\ outcome' = "none" /\ remote' = "old"
    /\ UNCHANGED inStep

\* The connection had been shut down: the call fails at once (kErrNoBuf).
FailAtOnce ==
    /\ phase = "idle"
    /\ outcome' = "error" /\ remote' = "old"
    /\ UNCHANGED <<phase, inStep>>

\* The server truncates, writes and completes the file in its own time, also after
\* the client has given the transfer up, but never after a success it can trust.
Store ==
    /\ phase = "busy" \/ outcome = "error" \/ ~inStep
    /\ \/ remote = "old" /\ remote' = "partial"
       \/ remote = "partial" /\ remote' = "new"
    /\ UNCHANGED <<phase, outcome, inStep>>

\* An abort leaves a reply of the transfer unread.
LoseStep ==
    /\ phase = "busy"
    /\ inStep' = FALSE /\ UNCHANGED <<phase, outcome, remote>>

Succeed ==
    /\ phase = "busy" /\ (inStep => remote = "new")
    /\ phase' = "idle" /\ outcome' = "ok" /\ UNCHANGED <<remote, inStep>>

Fail ==
    /\ phase = "busy"
    /\ phase' = "idle" /\ outcome' = "error" /\ UNCHANGED remote
    /\ inStep' \in {inStep, FALSE}

Close ==
    /\ phase = "idle"
    /\ phase' = "over" /\ UNCHANGED <<outcome, remote, inStep>>

Next == Begin \/ FailAtOnce \/ Store \/ LoseStep \/ Succeed \/ Fail \/ Close

Safety == Init /\ [][Next]_vars

Spec == Safety /\ WF_vars(Succeed \/ Fail)
=============================================================================
