----------------------------- MODULE FileBatch -----------------------------
(***************************************************************************)
(* Many files in one call: FTPGetFiles3 (io_getfiles.c) and FTPPutFiles4   *)
(* (io_putfiles.c), with the lists they are given (lglobr.c, rglobr.c) and *)
(* the names they compute (ComputeRNames, ComputeLNames of linelist.c).    *)
(*                                                                         *)
(* A batch is a loop over what was asked for and, inside, over what was    *)
(* listed; a step of the model is one turn of a loop.  One transfer is an  *)
(* operator with every result that FTPGetOneF and FTPPutOneF have (see     *)
(* FtpFetch and FtpStore for how they come about), and so are one listing  *)
(* and one MKD.  Any of them may fail, a bounded number of times, and the  *)
(* program may raise cancelXfer between two steps.                         *)
(*                                                                         *)
(* A text is the sequence of its components between slashes: "/a" is       *)
(* <<"", "a">> and the empty text <<"">>.  A path is a sequence of names   *)
(* from the top of a tree; both sides start at the top of theirs.          *)
(***************************************************************************)
EXTENDS Integers, Sequences, FiniteSets, SequencesExt

CONSTANTS
    NameSeq,    \* the names of items, in the order in which directories list them
    Contents,   \* what files hold
    Depth,      \* names in the longest path
    Remotes,    \* trees the server may hold to begin with
    Locals,     \* trees the local disk may hold to begin with
    Patterns,   \* texts the program asks for; "*" at the end is expanded
    DstDirs,    \* directories it names as destination
    Options,    \* sets of options it passes: "recurse", "tar", "delete", "resume" and "ascii"
    MaxCalls,   \* calls in one behaviour
    MaxFaults   \* commands that fail in one behaviour, and cancellations

VARIABLES
    remote,  \* the server's tree
    local,   \* the local tree
    cip,     \* the connection: connected, cancelXfer and the directory the server is in
    job,     \* the call that runs, or the last one that ended
    calls,   \* calls begun
    faults   \* faults so far

vars == <<remote, local, cip, job, calls, faults>>

kNoErr == 0
kErrGeneric == -1
kErrUserCanceled == -195
kErrRemoteHostClosedConnection == -158
kErrBadParameter == -139
kErrMKDFailed == -140
kErrGlobFailed == -151
kErrLocalFileNewer == -176
kErrRemoteFileNewer == -177
kErrLocalSameAsRemote == -178
kErrRemoteSameAsLocal == -197
kErrNoValidFilesSpecified == -174
kErrLocalDeleteFailed == -167
kErrTYPEFailed == -147
kErrTransferFailed == -2   \* any other failure of one file
UpToDate == {kErrLocalFileNewer, kErrRemoteFileNewer, kErrLocalSameAsRemote, kErrRemoteSameAsLocal}

-----------------------------------------------------------------------------
(* Trees.  Links lead out of the tree to a file of its own.                *)

Names == Range(NameSeq)
Paths == UNION {[1..n -> Names] : n \in 1..Depth}
Partial == "partial"
Elsewhere == "elsewhere"

IsDir(tree, p) == p = <<>> \/ (p \in Paths /\ tree[p] = "dir")
IsLink(tree, p) == p \in Paths /\ tree[p] = "link"
IsFile(tree, p) == p \in Paths /\ tree[p] \in Contents \cup {Partial, Elsewhere}
Exists(tree, p) == IsDir(tree, p) \/ IsLink(tree, p) \/ IsFile(tree, p)

CanRead(tree, p) == IsFile(tree, p) \/ IsLink(tree, p)
Read(tree, p) == IF IsLink(tree, p) THEN Elsewhere ELSE tree[p]
CanWrite(tree, p) == p \in Paths /\ IsDir(tree, Front(p)) /\ ~IsDir(tree, p)
Written(tree, p, content) == IF IsLink(tree, p) THEN tree ELSE [tree EXCEPT ![p] = content]
Unlinked(tree, p) == [tree EXCEPT ![p] = "none"]

\* The path a text names.
Resolve(text) == SelectSeq(text, LAMBDA c : c \notin {"", "."})
RemotePath(text) == IF text[1] = "" THEN Resolve(text) ELSE cip.cwd \o Resolve(text)
Under(base, p) == SubSeq(p, Len(base) + 1, Len(p))

\* MkDirs makes the directories that are missing, or none if something is in the way.
MkDirs(tree, d) ==
    LET Way == {p \in Paths : IsPrefix(p, d)} IN
    IF d \notin Paths \/ \E p \in Way : tree[p] \notin {"none", "dir"} THEN tree
    ELSE [p \in Paths |-> IF p \in Way THEN "dir" ELSE tree[p]]

\* What Ftw and FTPFtw list below a directory: its files and links, then each
\* subdirectory followed by its own list; nothing of a directory that cannot be read.
Traverse(tree, unread) ==
    LET list[d \in {p \in Paths \cup {<<>>} : IsDir(tree, p)}] ==
          LET here == [k \in DOMAIN NameSeq |-> Append(d, NameSeq[k])]
              files == SelectSeq(here, LAMBDA p : CanRead(tree, p))
              subdirs == SelectSeq(here, LAMBDA p : IsDir(tree, p))
          IN  IF d \in unread THEN <<>>
              ELSE files \o FlattenSeq([k \in DOMAIN subdirs |-> <<subdirs[k]>> \o list[subdirs[k]]])
    IN  list

Type(tree, p) == IF IsDir(tree, p) THEN "d" ELSE IF IsLink(tree, p) THEN "l" ELSE "-"

\* A pattern that ends in "*" stands for the items of its directory.
IsGlob(pattern) == Last(pattern) = "*"
Expanded(tree, pattern) ==
    LET here == [k \in DOMAIN NameSeq |-> Append(Front(pattern), NameSeq[k])]
    IN  SelectSeq(here, LAMBDA text : Exists(tree, Resolve(text)))

-----------------------------------------------------------------------------
(* Names.  An entry of a list has relname, rname, lname and a type.        *)

NULL == <<>>
Entry(relname, type) == [relname |-> relname, rname |-> NULL, lname |-> NULL, type |-> type]
Trivial(dir) == dir \in {<<"">>, <<".">>}
InDir(dir, name) == IF Trivial(dir) THEN name ELSE dir \o name
Chopped(name, nochop) == IF nochop THEN name ELSE <<Last(name)>>
Named(list, Of(_)) == [k \in DOMAIN list |-> Of(list[k])]

ComputeRNames(list, dstdir, pflag, nochop) ==
    Named(list, LAMBDA f :
        [f EXCEPT !.rname = InDir(dstdir, Chopped(f.relname, nochop)),
                  !.lname = IF pflag /\ ~Trivial(dstdir) /\ Len(dstdir) > 1 THEN <<Last(dstdir)>> ELSE f.lname])

\* Mutant: the directory a remote list was taken from is left out of the local names.
ComputeLNames_BatchKeepsRest(list, srcdir, dstdir, nochop) ==
    Named(list, LAMBDA f :
        [f EXCEPT !.lname = InDir(dstdir, (IF nochop THEN f.lname ELSE <<>>) \o Chopped(f.relname, nochop))])

ComputeLNames(list, srcdir, dstdir, nochop) ==
    Named(list, LAMBDA f :
        [f EXCEPT !.lname = InDir(dstdir,
            (IF ~nochop THEN <<>> ELSE IF f.lname # NULL THEN f.lname
             ELSE IF srcdir # NULL THEN <<Last(srcdir)>> ELSE <<>>)
            \o Chopped(f.relname, nochop))])

LineToFileInfoList(line) == <<Entry(line, "-")>>

\* FTPLocalRecursiveFileList: the entries of one line of the expanded pattern.
LocalEntries(tree, line, unread) ==
    LET top == Resolve(line)
        below == Traverse(tree, unread)[top]
        shown == IF line = <<".">> THEN <<>> ELSE <<Last(line)>>   \* "" of "/"
        Of(p) == [Entry(IF top = <<>> THEN Under(top, p) ELSE shown \o Under(top, p), Type(tree, p))
                  EXCEPT !.lname = line \o Under(top, p)]
    IN  IF ~CanRead(tree, top) /\ ~IsDir(tree, top) THEN <<>>
        ELSE IF ~IsDir(tree, top) THEN <<[Entry(shown, "-") EXCEPT !.lname = line]>>
        ELSE (IF line = <<".">> THEN <<>> ELSE <<[Entry(shown, "d") EXCEPT !.lname = line]>>) \o Named(below, Of)

-----------------------------------------------------------------------------
(* One file.                                                               *)

Outcome(result, from, to, connected, cancel) ==
    [result |-> result, from |-> from, to |-> to, connected |-> connected, cancel |-> cancel]

\* FTPGetOneF and FTPPutOneF, from path s of one tree to path d of the other: done, up
\* to date, cancelled by the user or failed, with the source removed when asked.
OneFile(from, to, s, d, options, same) ==
    LET can == CanRead(from, s) /\ CanWrite(to, d)
        left == {to} \cup IF can THEN {Written(to, d, Partial)} ELSE {}
        Kept == {<<from, kErrLocalDeleteFailed>>}
        Gone(result) == IF "delete" \in options /\ can THEN {<<Unlinked(from, s), result>>} ELSE {<<from, result>>}
        may == faults < MaxFaults
        Ends(result, tree) ==
            {Outcome(e[2], e[1], tree, TRUE, cip.cancel) :
                e \in Gone(result) \cup (IF "delete" \in options /\ may THEN Kept ELSE {})}
    IN  (IF can THEN Ends(kNoErr, Written(to, d, Read(from, s))) ELSE {})
        \cup (IF can /\ "resume" \in options /\ IsFile(to, d) /\ to[d] = Read(from, s) THEN Ends(same, to) ELSE {})
        \cup (IF same = kErrLocalSameAsRemote /\ can /\ "resume" \in options /\ IsFile(to, d)
              THEN {Outcome(kErrLocalFileNewer, from, to, TRUE, cip.cancel)} ELSE {})
        \cup (IF ~can \/ may
              THEN {Outcome(kErrTransferFailed, from, tree, c, cip.cancel) : tree \in left, c \in IF may THEN BOOLEAN ELSE {TRUE}}
              ELSE {})
        \cup (IF may /\ can THEN {Outcome(kErrUserCanceled, from, tree, TRUE, TRUE) : tree \in left} ELSE {})

-----------------------------------------------------------------------------
(* The calls.                                                              *)

Idle == [at |-> "idle", op |-> "none"]

Init ==
    /\ remote \in Remotes /\ local \in Locals
    /\ cip = [connected |-> TRUE, cancel |-> FALSE, cwd |-> <<>>]
    /\ job = Idle /\ calls = 0 /\ faults = 0

Fault == faults < MaxFaults /\ faults' = faults + 1
NoFault == UNCHANGED faults
Costs(e) == faults' = IF e.result \in {kErrTransferFailed, kErrUserCanceled, kErrLocalDeleteFailed} /\ faults < MaxFaults
                      THEN faults + 1 ELSE faults

Started(op, pattern, dst, options, lines) ==
    [at |-> "items", op |-> op, dst |-> dst, options |-> options, lines |-> lines, items |-> lines,
     files |-> <<>>, k |-> 1, batch |-> kNoErr, recurse1 |-> FALSE, listed |-> FALSE, tried |-> FALSE,
     from |-> IF op = "get" THEN remote ELSE local, to |-> IF op = "get" THEN local ELSE remote,
     unread |-> {}, skipped |-> {}, slips |-> IF cip.cwd = <<>> THEN {} ELSE {"strayed"}]

Returns(j, result) == job' = [j EXCEPT !.at = "idle", !.batch = result]

GetFiles(pattern, dst, options) ==
    /\ job.at = "idle" /\ calls < MaxCalls /\ calls' = calls + 1
    /\ LET pat == IF pattern = <<"">> THEN <<".">>
                  ELSE IF pattern = <<"", "">> /\ Trivial(dst) THEN <<"", ".">> ELSE pattern
           Start(lines) == Started("get", pat, dst, options, lines)
       IN  \/ /\ pat = <<".">> /\ "recurse" \notin options
              /\ Returns(Start(<<>>), kErrBadParameter) /\ NoFault /\ UNCHANGED cip
           \/ /\ ~(pat = <<".">> /\ "recurse" \notin options)
              /\ \/ IsGlob(pat) /\ Returns(Start(<<>>), kErrGlobFailed) /\ UNCHANGED cip
                    /\ IF cip.connected /\ Expanded(remote, pat) # <<>> THEN Fault ELSE NoFault
                 \/ /\ IsGlob(pat) => cip.connected /\ Expanded(remote, pat) # <<>>
                    /\ job' = Start(IF IsGlob(pat) THEN Expanded(remote, pat) ELSE <<pat>>)
                    /\ cip' = [cip EXCEPT !.cancel = FALSE] /\ NoFault
    /\ UNCHANGED <<remote, local>>

\* The list of the next line, unless the program has cancelled meanwhile.
WithList(files, recurse1) ==
    [job EXCEPT !.at = IF cip.cancel THEN "end" ELSE "files", !.items = Tail(job.items), !.k = 1,
                !.files = files, !.recurse1 = recurse1, !.listed = TRUE, !.tried = FALSE,
                !.slips = IF cip.cancel THEN @ \cup {"stopped"} ELSE @]

\* A directory may come as an archive, in a recursive and binary batch that neither
\* appends nor deletes, and not as "." or "/".  (The archive of a directory of the
\* server's own directory: with what the names in any other begin is up to the server.)
MayTar ==
    /\ job.at = "items" /\ job.op = "get" /\ job.items # <<>> /\ cip.connected /\ ~job.tried
    /\ {"recurse", "tar"} \subseteq job.options /\ job.options \cap {"ascii", "delete"} = {}
    /\ Len(Head(job.items)) = 1 /\ Head(job.items)[1] \in Names
    /\ IsDir(remote, RemotePath(Head(job.items)))

\* tar unpacks the first n entries below the local directory dst, which it does not
\* make: it puts aside a file, and fails where a directory is in the way of a file or
\* anything in the way of a directory.
Archive == LET top == RemotePath(Head(job.items)) IN <<top>> \o Traverse(remote, {})[top]
Unpacked(p) == Resolve(job.dst) \o Under(cip.cwd, p)
TakeOut(tree, p) ==
    LET d == Unpacked(p)
        free == IF remote[p] = "dir" THEN ~Exists(tree, d) ELSE ~IsDir(tree, d)
    IN  IF d \in Paths /\ IsDir(tree, Front(d)) /\ free THEN [tree EXCEPT ![d] = remote[p]] ELSE tree
Extracted(n) == FoldLeft(TakeOut, local, SubSeq(Archive, 1, n))

\* FTPGetOneTarF returns kNoErr when tar could be sent everything; how tar ended is
\* not looked at.
TarDirectory ==
    /\ MayTar
    /\ \E n \in 0..Len(Archive) :
          /\ local' = Extracted(n)
          /\ IF n = Len(Archive) THEN NoFault ELSE Fault
          /\ job' = [job EXCEPT !.items = Tail(@),
                      !.slips = IF \A p \in ToSet(Archive) : Unpacked(p) \in Paths /\ local'[Unpacked(p)] = remote[p]
                                THEN @ ELSE @ \cup {"untarred"}]
    /\ UNCHANGED <<remote, cip, calls>>

\* It fails with a part unpacked, and the directory is listed instead.
TarFails ==
    /\ MayTar /\ Fault
    /\ job' = [job EXCEPT !.tried = TRUE]
    /\ \E n \in 0..Len(Archive), c \in BOOLEAN :
          /\ local' = IF n > 0 /\ Extracted(n) # Extracted(n - 1) /\ IsFile(remote, Archive[n])
                      THEN [Extracted(n) EXCEPT ![Unpacked(Archive[n])] = Partial] ELSE Extracted(n)
          /\ cip' = [cip EXCEPT !.connected = c]
    /\ UNCHANGED <<remote, calls>>

\* One file, or a directory that FTPIsDir does not know for one.
ListOne ==
    /\ job.at = "items" /\ job.op = "get" /\ job.items # <<>>
    /\ LET line == Head(job.items)
           directory == "recurse" \in job.options /\ IsDir(remote, RemotePath(line)) /\ cip.connected
       IN  /\ IF directory THEN Fault ELSE NoFault
           /\ job' = WithList(ComputeLNames(ComputeRNames(LineToFileInfoList(line), <<".">>, FALSE, TRUE), NULL, job.dst, FALSE), FALSE)
    /\ UNCHANGED <<remote, local, cip, calls>>

\* FTPRemoteRecursiveFileList2, whose result nobody looks at: the whole list or the list
\* without a directory that cannot be read, a single file because the directory cannot
\* be entered, a part of the list without remote names, and the way back that fails.
ListDirectory ==
    /\ job.at = "items" /\ job.op = "get" /\ job.items # <<>> /\ cip.connected
    /\ "recurse" \in job.options /\ IsDir(remote, RemotePath(Head(job.items)))
    /\ LET line == Head(job.items)
           top == RemotePath(line)
           Entries(unread) == Named(Traverse(remote, unread)[top], LAMBDA p : Entry(Under(top, p), Type(remote, p)))
           RNamed(list) == ComputeRNames(list, line, TRUE, TRUE)
           LNamed(list) == ComputeLNames(list, line, job.dst, TRUE)
           Slip(s) == [WithList(LNamed(RNamed(Entries({}))), TRUE) EXCEPT !.slips = @ \cup {s}]
       IN  \/ job' = WithList(LNamed(RNamed(Entries({}))), TRUE) /\ NoFault /\ UNCHANGED cip
           \/ \E d \in {p \in Paths \cup {<<>>} : IsDir(remote, p) /\ IsPrefix(top, p)} :
                 /\ job' = [WithList(LNamed(RNamed(Entries({d}))), TRUE) EXCEPT !.unread = @ \cup {d}]
                 /\ Fault /\ UNCHANGED cip
           \/ job' = WithList(LNamed(LineToFileInfoList(line)), TRUE) /\ Fault /\ UNCHANGED cip
           \/ \E n \in 0..Len(Entries({})), c \in BOOLEAN :
                 /\ job' = [WithList(LNamed(SubSeq(Entries({}), 1, n)), TRUE) EXCEPT !.slips = @ \cup {"unlisted"}]
                 /\ cip' = [cip EXCEPT !.connected = c] /\ Fault
           \/ \E c \in BOOLEAN :
                 job' = Slip("strayed") /\ cip' = [cip EXCEPT !.connected = c, !.cwd = top] /\ Fault
    /\ UNCHANGED <<remote, local, calls>>

\* FTPGetCWD fails before the list is initialized: the list of the line before, which
\* is empty, is taken again, and before the first line whatever the stack holds.
ListNothing ==
    /\ job.at = "items" /\ job.op = "get" /\ job.items # <<>> /\ cip.connected
    /\ "recurse" \in job.options /\ IsDir(remote, RemotePath(Head(job.items)))
    /\ Fault
    /\ job' = IF job.listed THEN [WithList(<<>>, TRUE) EXCEPT !.slips = @ \cup {"unlisted"}]
              ELSE [job EXCEPT !.at = "crashed"]
    /\ \E c \in BOOLEAN : cip' = [cip EXCEPT !.connected = c]
    /\ UNCHANGED <<remote, local, calls>>

\* Mutant: a file that is transferred takes back the failure of an earlier one.
Counted_BatchArrives(result) == result

\* What the batch returns after the result of one file: an error, except that of a
\* file that is up to date among several.
Counted(result) ==
    IF result = kNoErr \/ (Len(job.files) # 1 /\ result \in UpToDate) THEN job.batch ELSE result

Turn(j) == [j EXCEPT !.k = @ + 1]
File == job.files[job.k]
AtFile(op) == job.at = "files" /\ job.op = op /\ job.k <= Len(job.files)

\* The loop ends early when the connection is gone.
Disconnected ==
    /\ job.at = "files" /\ job.k <= Len(job.files) /\ ~cip.connected
    /\ job' = [job EXCEPT !.k = Len(job.files) + 1,
                          !.batch = IF @ = kNoErr THEN kErrRemoteHostClosedConnection ELSE @]
    /\ UNCHANGED <<remote, local, cip, calls, faults>>

\* After a transfer: stop when it was cancelled, or the program has cancelled.
After(e, d) ==
    LET stop == e.cancel
        j == [job EXCEPT !.batch = Counted(e.result),
                         !.skipped = IF e.result = kErrLocalFileNewer THEN @ \cup {d} ELSE @]
    IN  /\ job' = IF stop THEN [j EXCEPT !.at = "end", !.slips = @ \cup {"stopped"}] ELSE Turn(j)
        /\ cip' = [cip EXCEPT !.connected = e.connected, !.cancel = e.cancel]

GetEntry ==
    /\ AtFile("get") /\ cip.connected /\ File.type # "-"
    /\ local' = IF File.type = "d" THEN MkDirs(local, Resolve(File.lname)) ELSE local
    /\ job' = Turn(job)
    /\ UNCHANGED <<remote, cip, calls, faults>>

\* The directory of the file is made first, in a recursive batch.
GetFile ==
    /\ AtFile("get") /\ cip.connected /\ File.type = "-"
    /\ LET d == Resolve(File.lname)
           made == IF job.recurse1 THEN MkDirs(local, Front(d)) ELSE local
       IN  \/ /\ job.recurse1 /\ ~IsDir(made, Front(d))
              /\ job' = Turn([job EXCEPT !.batch = kErrGeneric])
              /\ local' = made /\ UNCHANGED <<remote, cip, faults>>
           \/ /\ job.recurse1 /\ IsDir(made, Front(d)) /\ "ascii" \in job.options
              /\ Fault /\ local' = made
              /\ Returns(job, kErrTYPEFailed)
              /\ UNCHANGED <<remote, cip>>
           \/ /\ job.recurse1 => IsDir(made, Front(d))
              /\ File.rname # NULL
              /\ \E e \in OneFile(remote, made, RemotePath(File.rname), d, job.options, kErrLocalSameAsRemote) :
                    remote' = e.from /\ local' = e.to /\ After(e, d) /\ Costs(e)
           \/ /\ job.recurse1 => IsDir(made, Front(d))
              /\ File.rname = NULL
              /\ local' = made /\ After(Outcome(kErrBadParameter, remote, made, TRUE, cip.cancel), d)
              /\ UNCHANGED <<remote, faults>>
    /\ UNCHANGED calls

\* The symbolic links of a list are made after its files; what is in the way is
\* removed.
Symlinked(tree) ==
    LET links == {Resolve(f.lname) : f \in {g \in Range(job.files) : g.type = "l"}}
    IN  [p \in Paths |-> IF p \in links /\ CanWrite(tree, p) THEN "link" ELSE tree[p]]

\* FTPRmdirRecursive2 follows in delete mode; it leaves the server's tree alone.
EndItem ==
    /\ job.at = "files" /\ job.op = "get" /\ job.k > Len(job.files)
    /\ local' = IF cip.cancel THEN local ELSE Symlinked(local)
    /\ job' = [job EXCEPT !.at = IF cip.cancel THEN "end" ELSE "items",
                          !.slips = IF cip.cancel THEN @ \cup {"stopped"} ELSE @]
    /\ UNCHANGED <<remote, cip, calls, faults>>

\* FTPPutFiles4: the shell expands the pattern, and its failure goes unnoticed, as
\* does FTPLocalGlob's kErrBadParameter for the empty pattern.
PutFiles(pattern, dst, options) ==
    /\ job.at = "idle" /\ calls < MaxCalls /\ calls' = calls + 1
    /\ \E none \in IF IsGlob(pattern) THEN BOOLEAN ELSE {FALSE}, unread \in {{}} \cup {{p} : p \in {q \in Paths : IsDir(local, q)}} :
          LET lines == IF none \/ pattern = <<"">> THEN <<>> ELSE IF IsGlob(pattern) THEN Expanded(local, pattern) ELSE <<pattern>>
              recursive == FlattenSeq([k \in DOMAIN lines |-> LocalEntries(local, lines[k], unread)])
              single == FlattenSeq([k \in DOMAIN lines |-> LineToFileInfoList(lines[k])])
              j == [Started("put", pattern, dst, options, lines) EXCEPT !.unread = unread, !.items = <<>>, !.at = "files"]
          IN  /\ IF none \/ unread # {} THEN Fault ELSE NoFault
              /\ IF "recurse" \notin options
                 THEN unread = {} /\ job' = [j EXCEPT !.files = ComputeRNames(ComputeLNames(single, NULL, NULL, TRUE), dst, FALSE, FALSE)]
                 ELSE IF recursive = <<>> THEN Returns(j, kErrNoValidFilesSpecified)
                 ELSE job' = [j EXCEPT !.files = ComputeRNames(recursive, dst, FALSE, TRUE)]
    /\ UNCHANGED <<remote, local, cip>>

\* FTPMkdir: the directory may be there already; the way back from it may fail.
PutDirectory ==
    /\ AtFile("put") /\ cip.connected /\ File.type = "d"
    /\ LET d == RemotePath(File.rname)
           Ends(result) == job' = Turn([job EXCEPT !.batch = IF result # kNoErr THEN result ELSE @])
       IN  \/ /\ IsDir(remote, d) /\ d # <<>> /\ Ends(kNoErr) /\ NoFault /\ UNCHANGED <<remote, cip>>
           \/ /\ d # <<>> /\ CanWrite(remote, d) /\ ~Exists(remote, d) /\ Ends(kNoErr)
              /\ remote' = [remote EXCEPT ![d] = "dir"] /\ NoFault /\ UNCHANGED cip
           \/ /\ d = <<>> \/ (~IsDir(remote, d) /\ (Exists(remote, d) \/ ~CanWrite(remote, d)))
              /\ Ends(kErrMKDFailed) /\ NoFault /\ UNCHANGED <<remote, cip>>
           \/ /\ Ends(kErrMKDFailed) /\ Fault
              /\ \E c \in BOOLEAN : cip' = [cip EXCEPT !.connected = c]
              /\ UNCHANGED remote
           \/ /\ IsDir(remote, d) /\ Fault
              /\ job' = Turn([job EXCEPT !.batch = kErrMKDFailed, !.slips = @ \cup {"strayed"}])
              /\ cip' = [cip EXCEPT !.cwd = d] /\ UNCHANGED remote
    /\ UNCHANGED <<local, calls>>

\* SITE SYMLINK, if the server knows it.
PutSymlink ==
    /\ AtFile("put") /\ cip.connected /\ File.type = "l"
    /\ LET d == RemotePath(File.rname)
       IN  \/ UNCHANGED remote
           \/ CanWrite(remote, d) /\ ~Exists(remote, d) /\ remote' = [remote EXCEPT ![d] = "link"]
    /\ job' = Turn(job)
    /\ UNCHANGED <<local, cip, calls, faults>>

PutFile ==
    /\ AtFile("put") /\ cip.connected /\ File.type = "-"
    /\ LET d == RemotePath(File.rname) IN
       \E e \in OneFile(local, remote, Resolve(File.lname), d, job.options, kErrRemoteSameAsLocal) :
          local' = e.from /\ remote' = e.to /\ After(e, d) /\ Costs(e)
    /\ UNCHANGED calls

\* The end of the outer loop, or of both after a cancellation.
Return ==
    /\ \/ job.at = "items" /\ job.items = <<>>
       \/ job.at = "end"
       \/ job.at = "files" /\ job.op = "put" /\ job.k > Len(job.files)
    /\ Returns(job, job.batch)
    /\ UNCHANGED <<remote, local, cip, calls, faults>>

\* A progress callback or another thread of the program raises cancelXfer.
Cancel ==
    /\ job.at \in {"items", "files"} /\ ~cip.cancel /\ Fault
    /\ cip' = [cip EXCEPT !.cancel = TRUE]
    /\ UNCHANGED <<remote, local, job, calls>>

\* The program opens the host again.
Reopen ==
    /\ job.at = "idle" /\ (~cip.connected \/ cip.cwd # <<>>)
    /\ cip' = [connected |-> TRUE, cancel |-> FALSE, cwd |-> <<>>]
    /\ UNCHANGED <<remote, local, job, calls, faults>>

Ask == \E pattern \in Patterns, dst \in DstDirs, options \in Options :
          GetFiles(pattern, dst, options) \/ PutFiles(pattern, dst, options)

Next ==
    \/ Ask \/ TarDirectory \/ TarFails \/ ListOne \/ ListDirectory \/ ListNothing \/ Disconnected \/ GetEntry \/ GetFile \/ EndItem
    \/ PutDirectory \/ PutSymlink \/ PutFile \/ Return \/ Cancel \/ Reopen

Spec == Init /\ [][Next]_vars

-----------------------------------------------------------------------------
(* Properties.                                                             *)

From == IF job.op = "get" THEN remote ELSE local
To == IF job.op = "get" THEN local ELSE remote

Returned == job.at = "idle" /\ job.op # "none"

\* The items a line of the expanded pattern stands for, by their paths, and where each
\* of them belongs on the other side.
ItemsOf(line) ==
    LET base == Resolve(line)
    IN  IF "recurse" \in job.options /\ IsDir(job.from, base)
        THEN {p \in Paths \cup {<<>>} : IsPrefix(base, p) /\ Exists(job.from, p)}
        ELSE {base}
Destination(line, p) ==
    LET base == Resolve(line)
    IN  Resolve(job.dst) \o (IF base = <<>> THEN <<>> ELSE <<Last(base)>>) \o Under(base, p)
Unseen(p) == \E d \in job.unread : IsPrefix(d, p)

\* A batch that reports success has brought every file it was asked for, and could list,
\* to its own place, with what it held, or found a newer file there: nothing is lost in
\* the lists, mixed up by the names or forgotten by a later success.  It is not said of
\* a batch that was stopped, of a list that broke off, of a server left in another
\* directory, and of a tar that did not unpack what it was sent (io_getfiles.c:113-251, io_putfiles.c:79-131, linelist.c:597-752).
BatchArrives ==
    (Returned /\ job.batch = kNoErr /\ job.slips = {}) =>
       \A k \in DOMAIN job.lines :
          LET line == job.lines[k] IN
          /\ Exists(job.from, Resolve(line))
          /\ \A p \in ItemsOf(line) :
                LET d == Destination(line, p) IN
                (IsFile(job.from, p) /\ ~Unseen(p)) =>
                   To[d] = job.from[p] \/ d \in job.skipped \/ job.to[d] = "link"

\* Whatever a batch returns, a file it was to move is on one of the two sides, other
\* files are left alone, and on the other side nothing changes but the places of what
\* was asked for and the directories above them; it is not said of a server left in
\* another directory (io_get.c:851-863, io_put.c:833-837, io_getfiles.c:153-241).
BatchKeepsRest ==
    (Returned /\ "strayed" \notin job.slips) =>
       LET Asked == {<<job.lines[k], p>> : k \in DOMAIN job.lines, p \in Paths \cup {<<>>}}
           Meant == {a \in Asked : a[2] \in ItemsOf(a[1])}
       IN  /\ \A p \in Paths : IsFile(job.from, p) =>
                 \/ From[p] = job.from[p]
                 \/ /\ "delete" \in job.options
                    /\ \E a \in Meant : /\ a[2] = p
                                        /\ LET d == Destination(a[1], p) IN To[d] = job.from[p] \/ job.to[d] = "link"
           /\ \A p \in Paths : To[p] = job.to[p] \/ \E a \in Meant : IsPrefix(p, Destination(a[1], a[2]))

\* What the manual says of FTPGetFiles3: 0 means that all transfers succeeded
\* (libncftp.html:1564-1566).  A list that broke off because the connection was lost is
\* not noticed.
OkMeansAllFetched ==
    (Returned /\ job.op = "get" /\ job.batch = kNoErr /\ job.unread = {} /\ "stopped" \notin job.slips) =>
       \A k \in DOMAIN job.lines : \A p \in ItemsOf(job.lines[k]) :
          LET d == Destination(job.lines[k], p) IN
          IsFile(job.from, p) => To[d] = job.from[p] \/ d \in job.skipped \/ job.to[d] = "link"
=============================================================================
