------------------------------ MODULE FtpTree ------------------------------
(***************************************************************************)
(* The commands of libncftp that ask about and change the tree of the      *)
(* server: FTPChdir, FTPChdir3, FTPChdirList, FTPGetCWD, FTPMkdir,         *)
(* FTPRmdir, FTPDelete, FTPRename, FTPChmod, FTPFileType, FTPFileExists,   *)
(* FTPRemoteGlob, FTPFtw and the recursive lists built from it.            *)
(*                                                                         *)
(* One library call is a fixed sequence of FTP commands by one thread, so  *)
(* a call is one step.  What makes the sequence hard is that any command   *)
(* of it may be refused by the server or find the connection lost, that    *)
(* the library moves the working directory about and must bring it back,   *)
(* and that it remembers what it was told: the working directory           *)
(* (currentWorkingDirectory), the directory to go back to (cip->buf) and   *)
(* which commands the server knows.  Each routine of the library is an     *)
(* operator from a state of the connection to a state of the connection;   *)
(* Cmd, through which every command goes, applies the fault of the call.   *)
(*                                                                         *)
(* A path is the sequence of its components as the text has them: "" in    *)
(* front for an absolute path, ".", ".." and names.  <<>> is the empty     *)
(* string.  The server's own paths are sequences of names from the root.   *)
(***************************************************************************)
EXTENDS Integers, Sequences, FiniteSets, SequencesExt

CONSTANTS
    Names,       \* the names an item may have
    Trees,       \* the trees the server may hold to begin with
    Servers,     \* what a server understands: see ServerType
    Args,        \* the paths the program names
    ChdirFlags,  \* the flags it passes: sets of "mkdir", "pwd", "one" and "full"
    LinkTarget,  \* where the symbolic links of the tree point
    MaxCalls,    \* calls in one behaviour
    MaxFault,    \* the last command of a call that may meet a fault
    DepthLimit,  \* limitMaxDepth of rglobr.c:147 (50 there)
    MaxDepth     \* calls of FTPRmdirRecursiveL2 the stack has room for

VARIABLES
    conn,   \* the connection: client state, server state and the fault to come
    last,   \* the last call, its result and the server before it
    calls,  \* calls made so far
    renamed,  \* history: a rename has moved the working directory
    refusals  \* history: the commands refused for no reason so far

vars == <<conn, last, calls, renamed, refusals>>

-----------------------------------------------------------------------------
(* Replies by their first digit, and the results of the library by name.   *)

Completed == 2      \* 2xx
More == 3           \* 350, after RNFR
Refused == 5        \* 4xx and 5xx
Unimplemented == 50 \* 500, 502 and 504: FTP_UNIMPLEMENTED_CMD

kNoErr == 0
kErrNotConnected == -159
kErrInvalidDirParam == -122
kErrPWDFailed == -124
kErrCWDFailed == -125
kErrRMDFailed == -126
kErrLISTFailed == -130
kErrBadParameter == -139
kErrMKDFailed == -140
kErrCannotGoToPrevDir == -141
kErrChmodFailed == -142
kErrDELEFailed == -144
kErrSIZEFailed == -145
kErrMDTMFailed == -146
kErrSIZENotAvailable == -148
kErrMDTMNotAvailable == -149
kErrRenameFailed == -150
kErrGlobNoMatch == -172
kErrMLSTFailed == -180
kErrMLSTNotAvailable == -182
kErrSTATFailed == -184
kErrSTATwithFileNotAvailable == -185
kErrNLSTFailed == -186
kErrNLSTwithFileNotAvailable == -187
kErrNoSuchFileOrDirectory == -188
kErrCantTellIfFileExists == -189
kErrFileExistsButCannotDetermineType == -190
kErrNotADirectory == -191

NoParent == -299    \* no parent of the new directory was found
Crashed == -300     \* the stack of the program is exhausted
Results == Crashed .. 2

-----------------------------------------------------------------------------
(* The server's tree.                                                      *)

TestFile == "testfile.ftp"
Paths == {<<n>> : n \in Names \cup {TestFile}} \cup {<<m, n>> : m, n \in Names}
Kinds == {"none", "-", "d", "l"}
NoPath == <<"">>

Kind(tree, d) == IF d = <<>> THEN "d" ELSE IF d \in Paths THEN tree[d] ELSE "none"
Below(tree, d) == {e \in Paths : IsStrictPrefix(d, e) /\ tree[e] # "none"}
Children(tree, d) == {e \in Below(tree, d) : Len(e) = Len(d) + 1}
WellFormed(tree) ==
    \A d \in Paths : tree[d] # "none" => Kind(tree, Front(d)) = "d"

\* One component further, the link of the last component not followed.
Component(tree, d, c) ==
    CASE c = "" -> <<>>
      [] c = "." -> d
      [] c = ".." -> IF d = <<>> THEN d ELSE Front(d)
      [] OTHER -> Append(d, c)

Followed(tree, d) == IF Kind(tree, d) = "l" THEN LinkTarget ELSE d

\* The directory or item that path p names from directory d.
Walk(tree, d, p) ==
    FoldLeft(LAMBDA at, c : IF at = NoPath \/ Kind(tree, Followed(tree, at)) # "d"
                            THEN NoPath
                            ELSE Component(tree, Followed(tree, at), c),
             d, p)

At(s, p) == Walk(s.tree, s.cwd, p)
Target(s, p) == LET d == At(s, p) IN IF d = NoPath THEN d ELSE Followed(s.tree, d)
KindAt(s, p) == Kind(s.tree, At(s, p))
IsDirectory(s, p) == Kind(s.tree, Target(s, p)) = "d"

\* The text in which PWD names the directory.
Text(d) == <<"">> \o d

-----------------------------------------------------------------------------
(* What the server understands, and the connection.                        *)

ServerType ==
    [mlst : BOOLEAN,                      \* MLST, and MLSD announced by FEAT
     mdtm : {"no", "files", "all"},       \* MDTM, of files only or of directories too
     size : {"no", "files", "all"},
     stat : {"no", "file", "any"},        \* STAT with a path: refused, works, always says yes
     nlst : {"dirs", "files"},            \* what NLST takes for an argument
     dashA : BOOLEAN,                     \* NLST -a
     list : BOOLEAN,                      \* LIST -la in a form unls.c can read
     prefixes : BOOLEAN,                  \* NLST dir answers dir/name, not name
     quotes : BOOLEAN]                    \* the reply to CWD begins with the path in quotes

Learnt == {"unknown", "yes", "no"}
Unknown == <<"unknown">>                  \* an empty currentWorkingDirectory

ConnType ==
    [tree : [Paths -> Kinds], cwd : Paths \cup {<<>>}, server : ServerType,
     up : BOOLEAN,
     n : Nat,                             \* commands sent in this call
     at : Nat, fault : {"none", "lost", "refused"},  \* the fault meets command number at
     refused : {"", "CWD", "PWD", "other"},          \* the command refused for no reason
     cache : {Text(d) : d \in Paths \cup {<<>>}} \cup {Unknown},
     buf : Seq(Names \cup {"", ".", "..", TestFile}),        \* cip->buf
     has : [{"MLST", "MDTM", "SIZE", "STAT", "NLST", "-a"} -> Learnt],
     r : Results, ftype : Kinds \cup {""},           \* what the last routine returned
     lines : Seq([line : Seq(STRING), type : Kinds \cup {""}])]  \* and the list it made

NoCall == [op |-> "none", p |-> <<>>, r |-> kNoErr, refused |-> "", cwd |-> <<>>,
           tree |-> <<>>, lines |-> <<>>]

Init ==
    /\ conn \in {[tree |-> t, cwd |-> <<>>, server |-> v, up |-> TRUE, n |-> 0, at |-> 0,
                  fault |-> "none", refused |-> "", cache |-> Unknown, buf |-> <<>>,
                  has |-> [f \in {"MLST", "MDTM", "SIZE", "STAT", "NLST", "-a"} |->
                             IF f = "MLST" /\ v.mlst THEN "yes" ELSE "unknown"],
                  r |-> kNoErr, ftype |-> "", lines |-> <<>>] :
                    t \in Trees, v \in Servers}
    /\ last = NoCall
    /\ calls = 0
    /\ renamed = FALSE
    /\ refusals = {}

\* A routine is a pipeline: Then hands the state one step left to the next.
Then(s, Step(_)) == Step(s)

Return(s, result) == [s EXCEPT !.r = result]
Reply(possible) == IF possible THEN Completed ELSE Refused
\* A reply that is not the one hoped for becomes the routine's own error.
Checked(s, hoped, error) ==
    IF s.r < 0 THEN s ELSE Return(s, IF s.r = hoped THEN kNoErr ELSE error)
\* The server does what a completed command is for.
Effect(s, Done(_)) == IF s.r = Completed THEN Done(s) ELSE s

\* FTPCmd and RCmd: the command goes out and its reply is read.
Cmd(s, verb, reply) ==
    LET hit == s.n + 1 = s.at
        sent == [s EXCEPT !.n = @ + 1, !.lines = <<>>] IN
    CASE ~s.up -> [sent EXCEPT !.r = kErrNotConnected]
      [] s.up /\ hit /\ s.fault = "lost" -> [sent EXCEPT !.up = FALSE, !.r = kErrNotConnected]
      [] s.up /\ hit /\ s.fault = "refused" -> [sent EXCEPT !.r = Refused, !.refused = verb]
      [] OTHER -> [sent EXCEPT !.r = reply]

-----------------------------------------------------------------------------
(* FTP commands that change the server: external.                          *)

CWD(s, p) ==
    LET d == Target(s, p) IN
    Effect(Cmd(s, "CWD", Reply(Kind(s.tree, d) = "d")), LAMBDA t : [t EXCEPT !.cwd = d])

MKD(s, p) ==
    LET d == At(s, p) IN
    Effect(Cmd(s, "other", Reply(d \in Paths /\ Kind(s.tree, d) = "none" /\ Last(p) \in Names)),
           LAMBDA t : [t EXCEPT !.tree[d] = "d"])

\* A server refuses to remove the directory it is in.
RMD(s, p) ==
    LET d == At(s, p) IN
    Effect(Cmd(s, "other", Reply(/\ d \in Paths /\ Kind(s.tree, d) = "d"
                                 /\ Below(s.tree, d) = {} /\ d # s.cwd)),
           LAMBDA t : [t EXCEPT !.tree[d] = "none"])

DELE(s, p) ==
    LET d == At(s, p) IN
    Effect(Cmd(s, "other", Reply(d \in Paths /\ Kind(s.tree, d) \in {"-", "l"})),
           LAMBDA t : [t EXCEPT !.tree[d] = "none"])

SITE_CHMOD(s, p) == Cmd(s, "other", Reply(KindAt(s, p) # "none"))

\* FTPPutFileFromMemory of the file that makes sure that a directory has an item.
PutTestFile(s) ==
    LET d == At(s, <<TestFile>>) IN
    Effect(Cmd(s, "other", Completed), LAMBDA t : [t EXCEPT !.tree[d] = "-"])

\* RNFR and RNTO: an item moves with all that is below it, and so does the
\* directory the server is in when it is the item or below it.
Moved(d, from, to) == IF IsPrefix(from, d) THEN to \o SubSeq(d, Len(from) + 1, Len(d)) ELSE d
CanMove(tree, from, to) ==
    /\ {from, to} \subseteq Paths /\ ~IsPrefix(from, to)
    /\ Kind(tree, to) = "none" /\ Kind(tree, Front(to)) = "d"
    /\ \A e \in Below(tree, from) : Moved(e, from, to) \in Paths
Renamed(s, from, to) ==
    [s EXCEPT !.cwd = Moved(@, from, to),
              !.tree = [d \in Paths |-> IF IsPrefix(from, d) THEN "none"
                                        ELSE Kind(s.tree, Moved(d, to, from))]]
FTPRename(s, p, q) ==
    LET from == At(s, p)
        to == At(s, q) IN
    Then(Cmd(s, "other", IF Kind(s.tree, from) = "none" THEN Refused ELSE More), LAMBDA t :
    IF t.r # More THEN Checked(t, More, kErrRenameFailed)
    ELSE Checked(Effect(Cmd(t, "other", Reply(CanMove(s.tree, from, to))),
                        LAMBDA u : Renamed(u, from, to)), Completed, kErrRenameFailed))

-----------------------------------------------------------------------------
(* The working directory.                                                  *)

\* Mutant: the cached directory is emptied only when it is left by "..".
FTPChdir_CacheTrue(s, p) ==
    Then(IF p = <<>> THEN Return(s, Completed) ELSE CWD(s, p), LAMBDA t :
    IF t.r = Completed THEN [t EXCEPT !.cache = IF p = <<"..">> THEN Unknown ELSE @, !.r = kNoErr]
    ELSE Checked(t, Completed, kErrCWDFailed))
FTPChdir(s, p) ==
    Then(IF p = <<>> THEN Return(s, Completed) ELSE CWD(s, p), LAMBDA t :
    IF t.r = Completed THEN [t EXCEPT !.cache = Unknown, !.r = kNoErr]
    ELSE Checked(t, Completed, kErrCWDFailed))

\* What it returns is always what it has put into the cache.
FTPGetCWD(s) ==
    IF s.cache # Unknown THEN Return(s, kNoErr)
    ELSE Checked(Effect(Cmd(s, "PWD", Completed), LAMBDA t : [t EXCEPT !.cache = Text(t.cwd)]),
                 Completed, kErrPWDFailed)

FTPChdirAndGetCWD(s, p) ==
    IF p = <<>> THEN FTPGetCWD(s)
    ELSE Then(CWD(s, p), LAMBDA t :
         IF t.r # Completed THEN Checked(t, Completed, kErrCWDFailed)
         ELSE IF s.server.quotes THEN [t EXCEPT !.cache = Text(t.cwd), !.r = kNoErr]
         ELSE FTPGetCWD([t EXCEPT !.cache = Unknown]))

Enter(s, p, pwd) == IF pwd THEN FTPChdirAndGetCWD(s, p) ELSE FTPChdir(s, p)

\* (void) FTPGetCWD(cip, cip->buf, ...): when it fails buf stays as it was.
SaveCwd(s) ==
    Then(FTPGetCWD(s), LAMBDA t : IF t.r = kNoErr THEN [t EXCEPT !.buf = t.cache] ELSE t)

-----------------------------------------------------------------------------
(* FTPMkdir2: curDir, when the caller knows it, saves the PWD.             *)

\* The search for the deepest parent that is there: k components of p, and
\* then the directories below it, made one after the other from there.
RECURSIVE MakeEach(_, _, _)
MakeEach(s, p, j) ==
    Then(MKD(s, SubSeq(p, 1, j)), LAMBDA t :
    IF t.r # Completed \/ j = Len(p) THEN Checked(t, Completed, kErrMKDFailed)
    ELSE MakeEach(t, p, j + 1))

RECURSIVE MakeBelowParent(_, _, _)
MakeBelowParent(s, p, k) ==
    IF k = 0 THEN MakeEach(s, p, 1)
    ELSE IF k = 1 /\ p[1] = "" THEN Return(s, NoParent)
    ELSE Then(FTPChdir(s, SubSeq(p, 1, k)), LAMBDA t :
         IF t.r = kNoErr THEN MakeEach(t, SubSeq(p, k + 1, Len(p)), 1)
         ELSE MakeBelowParent(t, p, k - 1))

\* Back to buf or curDir; to go there when nothing was entered does no harm.
GoBack(s, curDir) ==
    Then(FTPChdir(s, IF curDir = <<>> THEN s.buf ELSE curDir), LAMBDA t :
    IF s.r = kNoErr /\ t.r < 0 THEN Return(t, kErrCannotGoToPrevDir) ELSE Return(t, s.r))

FTPMkdir2(s, p, recurse, curDir) ==
    IF p = <<>> THEN Return(s, kErrInvalidDirParam)
    ELSE Then(FTPChdir(IF curDir = <<>> THEN SaveCwd(s) ELSE s, p), LAMBDA t :
         IF t.r = kNoErr THEN GoBack(t, curDir)
         ELSE IF ~recurse \/ (p[1] = "" /\ Len(p) <= 2)
              THEN Checked(MKD(t, p), Completed, kErrMKDFailed)
         ELSE Then(MakeBelowParent(t, p, Len(p) - 1), LAMBDA u :
              IF u.r = NoParent THEN Return(u, kErrMKDFailed)
              ELSE IF u.r \in {kNoErr, kErrMKDFailed} THEN GoBack(u, curDir)
              ELSE u))

FTPMkdir(s, p, recurse) == FTPMkdir2(s, p, recurse, <<>>)

\* Mutant: a path of two components is taken for one whose parent is the root.
FTPMkParentDir_OkMeansDone(s, p, recurse, curDir) ==
    IF p = <<>> THEN Return(s, kErrInvalidDirParam)
    ELSE IF Len(p) <= 2 THEN Return(s, kNoErr)
    ELSE FTPMkdir2(s, Front(p), recurse, curDir)
FTPMkParentDir(s, p, recurse, curDir) ==
    IF p = <<>> THEN Return(s, kErrInvalidDirParam)
    ELSE IF Len(p) = 1 \/ (p[1] = "" /\ Len(p) = 2) THEN Return(s, kNoErr)
    ELSE FTPMkdir2(s, Front(p), recurse, curDir)

-----------------------------------------------------------------------------
(* FTPChdir3 and FTPChdirList: the whole path at once, then one directory  *)
(* at a time.                                                              *)

FullPath(s, p, flags) ==
    Then(Enter(s, p, "pwd" \in flags), LAMBDA t :
    IF t.r = kNoErr \/ "mkdir" \notin flags THEN t
    ELSE Then(FTPMkdir(t, p, TRUE), LAMBDA m :
         IF m.r = kNoErr THEN Enter(m, p, "pwd" \in flags) ELSE Return(m, t.r)))

\* One component: entered, or made and entered.
OneSubdir(s, c, mkdir, pwd, pwdAfterMkdir) ==
    Then(IF c # "." THEN Enter(s, <<c>>, pwd)
         ELSE IF pwd THEN FTPGetCWD(s) ELSE Return(s, kNoErr), LAMBDA t :
    IF t.r >= 0 \/ ~mkdir \/ c = "" THEN t
    ELSE Then(MKD(t, <<c>>), LAMBDA m :
         IF m.r = Completed THEN Enter(m, <<c>>, pwdAfterMkdir) ELSE Return(m, t.r)))

OneAtATime(s, p, flags, pwdAfterMkdir) ==
    FoldLeftDomain(LAMBDA t, k : IF t.r # kNoErr THEN t
                                 ELSE OneSubdir(t, p[k], "mkdir" \in flags,
                                                "pwd" \in flags /\ k = Len(p), pwdAfterMkdir),
                   Return(s, kNoErr), p)

\* The path is cut up in cip->buf, which then holds its first component.
FTPChdir3(s, p, flags) ==
    LET one == "one" \in flags
        full == "full" \in flags \/ ~one
        first == IF p = <<>> \/ Head(p) = "" THEN <<>> ELSE <<Head(p)>> IN
    Then(IF full THEN FullPath(s, p, flags) ELSE s, LAMBDA t :
    IF full /\ (t.r = kNoErr \/ ~one) THEN t
    ELSE Then([t EXCEPT !.buf = first], LAMBDA u :
         IF p \notin {<<>>, <<".">>} THEN OneAtATime(u, p, flags, "pwd" \in flags)
         ELSE IF "pwd" \in flags THEN FTPGetCWD(u) ELSE Return(u, kNoErr)))

FTPChdirList(s, p, flags) ==
    LET full == "full" \in flags \/ flags = {} IN
    Then(IF full THEN FTPChdir3(s, p, (flags \cup {"full"}) \ {"one"}) ELSE s, LAMBDA t :
    IF full /\ t.r = kNoErr THEN t
    ELSE IF "one" \notin flags THEN Return(t, kErrBadParameter)
    ELSE OneAtATime(t, p, flags, FALSE))

-----------------------------------------------------------------------------
(* Lists.  A list comes over a data connection; FTPListToMemory2 drops     *)
(* the lines "." and "..".  The command is part of the argument because    *)
(* the flags decide it: "NLST", "NLST -a", "LIST", "LIST -R" or "MLSD".    *)

ListReply(s, command, p) ==
    Reply(/\ command = "NLST -a" => s.server.dashA
          /\ command \in {"LIST", "LIST -R"} => s.server.list
          /\ \/ IsDirectory(s, p)
             \/ Kind(s.tree, Target(s, p)) = "-" /\ (command = "NLST" => s.server.nlst = "files"))

Lines(s, command, p) ==
    LET d == Target(s, p)
        items == SetToSeq(IF command = "LIST -R" THEN Below(s.tree, d) ELSE Children(s.tree, d))
        \* only NLST repeats the directory before the name
        prefix == IF command \in {"NLST", "NLST -a"} /\ s.server.prefixes THEN p ELSE <<>> IN
    IF Kind(s.tree, d) = "-" THEN <<[line |-> p, type |-> "-"]>>
    ELSE [i \in DOMAIN items |-> [line |-> prefix \o SubSeq(items[i], Len(d) + 1, Len(items[i])),
                                  type |-> Kind(s.tree, items[i])]]

FTPListToMemory2(s, command, p) ==
    Checked(Effect(Cmd(s, "other", ListReply(s, command, p)),
                   LAMBDA t : [t EXCEPT !.lines = Lines(s, command, p)]),
            Completed, kErrLISTFailed)

NothingListed(s) == s.r < 0 \/ s.lines = <<>>
DashA(s) == IF s.has["-a"] = "no" THEN "NLST" ELSE "NLST -a"

\* Lines that begin with the pattern (a path without wildcards; <<>> for "*")
\* are cut after the next component and listed once; a bare name is put into
\* the pattern's directory; others are omitted.  The component that follows a
\* path without a slash at its end is the empty string.
RemoteGlobCollapse(pattern, lines) ==
    LET Name(l) == IF pattern = <<>> THEN <<Head(l)>> ELSE pattern
        Collapse(acc, item) ==
            IF ~IsPrefix(pattern, item.line)
            THEN IF Len(item.line) > 1 THEN acc
                 ELSE [acc EXCEPT !.out = Append(@, [item EXCEPT !.line = Front(pattern) \o @])]
            ELSE IF acc.prev = Name(item.line) THEN acc
            ELSE [out |-> Append(acc.out, [item EXCEPT !.line = Name(@)]), prev |-> Name(item.line)] IN
    FoldLeft(Collapse, [out |-> <<>>, prev |-> <<>>], lines).out

\* The patterns are "*" and paths without wildcards.
FTPRemoteGlob(s, pattern, doGlob) ==
    IF ~doGlob \/ pattern # <<"*">>
    THEN [s EXCEPT !.r = kNoErr, !.lines = <<[line |-> pattern, type |-> ""]>>]
    ELSE Then(FTPListToMemory2(s, DashA(s), <<>>), LAMBDA t :
         Then(IF t.r < 0 /\ DashA(s) = "NLST -a"
              THEN FTPListToMemory2([t EXCEPT !.has["-a"] = "no"], "NLST", <<>>) ELSE t, LAMBDA u :
         IF u.r < 0 THEN u
         ELSE IF u.lines = <<>> THEN Return(u, kErrGlobNoMatch)
         ELSE [u EXCEPT !.lines = RemoteGlobCollapse(<<>>, @)]))

-----------------------------------------------------------------------------
(* Questions about one item.                                               *)

\* MDTM and SIZE, which a server may know for files only.
Ask(s, command, allows, p, failed, notAvailable) ==
    LET kind == Kind(s.tree, Target(s, p)) IN
    IF s.has[command] = "no" THEN Return(s, notAvailable)
    ELSE Then(Cmd(s, "other", IF allows = "no" THEN Unimplemented
                              ELSE Reply(kind = "-" \/ (kind = "d" /\ allows = "all"))), LAMBDA t :
         IF t.r < 0 THEN t
         ELSE IF t.r = Completed THEN [t EXCEPT !.r = kNoErr, !.has[command] = "yes"]
         ELSE IF t.r = Unimplemented THEN [t EXCEPT !.r = notAvailable, !.has[command] = "no"]
         ELSE Return(t, failed))

FTPFileModificationTime(s, p) ==
    Ask(s, "MDTM", s.server.mdtm, p, kErrMDTMFailed, kErrMDTMNotAvailable)
FTPFileSize(s, p) ==
    Ask(s, "SIZE", s.server.size, p, kErrSIZEFailed, kErrSIZENotAvailable)

\* Any reply but the two others, a lost connection too, is kErrMLSTFailed.
FTPMListOneFile(s, p) ==
    IF s.has["MLST"] = "no" THEN Return(s, kErrMLSTNotAvailable)
    ELSE Then(Cmd(s, "other", IF ~s.server.mlst THEN Unimplemented
                              ELSE Reply(KindAt(s, p) # "none")), LAMBDA t :
         IF t.r = Completed THEN [t EXCEPT !.r = kNoErr, !.ftype = KindAt(s, p)]
         ELSE IF t.r = Unimplemented THEN [t EXCEPT !.r = kErrMLSTNotAvailable, !.has["MLST"] = "no"]
         ELSE Return(t, kErrMLSTFailed))

\* What STAT p or NLST p makes the library believe: kNoErr for "it is there".
Says(s, f, p) ==
    IF f = "NLST"
    THEN Then(FTPListToMemory2(s, "NLST", p), LAMBDA t :
         Return(t, IF NothingListed(t) THEN kErrNLSTFailed ELSE kNoErr))
    ELSE Then(Cmd(s, "other", CASE s.server.stat = "no" -> Refused
                                [] s.server.stat = "any" -> Completed
                                [] OTHER -> Reply(KindAt(s, p) # "none")), LAMBDA t :
         Return(t, IF t.r = Completed THEN kNoErr ELSE kErrSTATFailed))

NotAvailable(s, f) ==
    [s EXCEPT !.has[f] = "no", !.r = IF f = "STAT" THEN kErrSTATwithFileNotAvailable
                                     ELSE kErrNLSTwithFileNotAvailable]

\* The last item of the starting directory is asked for; an empty one (or one
\* that could not be listed) gets a file for as long as NLST is tried on it.
LearnFrom(s, f) ==
    Then(FTPListToMemory2(s, "NLST", <<>>), LAMBDA list :
    IF ~NothingListed(list)
    THEN Then(Says(list, f, Last(list.lines).line), LAMBDA t :
         IF t.r = kNoErr THEN [t EXCEPT !.has[f] = "yes"] ELSE NotAvailable(t, f))
    ELSE IF f = "STAT" THEN NotAvailable(list, f)
    ELSE Then(PutTestFile(list), LAMBDA put :
         IF put.r # Completed THEN NotAvailable(put, f)
         ELSE Then(Says(put, f, <<TestFile>>), LAMBDA t :
              IF t.r = kNoErr THEN [DELE(t, <<TestFile>>) EXCEPT !.has[f] = "yes"]
              ELSE NotAvailable(DELE(t, <<TestFile>>), f))))

\* Mutant: the way back is only taken after a success.
Learn_LeavesAsFound(s, f) ==
    Then(Says(s, f, <<"NoSuchFile">>), LAMBDA absent :
    IF absent.r = kNoErr THEN NotAvailable(absent, f)
    ELSE Then(FTPGetCWD(absent), LAMBDA cwd :
         IF cwd.r # kNoErr THEN cwd
         ELSE Then(FTPChdir(cwd, <<"">>), LAMBDA start :
              IF start.r # kNoErr THEN start
              ELSE Then(LearnFrom(start, f), LAMBDA t :
                   IF t.has[f] = "yes" THEN FTPChdir(t, cwd.cache) ELSE t))))
\* Whether STAT or NLST can be asked about one file is found out once, first with
\* a name that cannot be there.
Learn(s, f) ==
    Then(Says(s, f, <<"NoSuchFile">>), LAMBDA absent :
    IF absent.r = kNoErr THEN NotAvailable(absent, f)
    ELSE Then(FTPGetCWD(absent), LAMBDA cwd :
         IF cwd.r # kNoErr THEN cwd
         ELSE Then(FTPChdir(cwd, <<"">>), LAMBDA start :
              IF start.r # kNoErr THEN start
              ELSE Then(LearnFrom(start, f), LAMBDA t : Return(FTPChdir(t, cwd.cache), t.r)))))

FTPFileExistsBy(s, f, p) ==
    IF s.has[f] = "no" THEN NotAvailable(s, f)
    ELSE Then(IF s.has[f] = "unknown" THEN Learn(s, f) ELSE s, LAMBDA t :
         IF t.has[f] = "yes" THEN Says(t, f, p) ELSE t)

\* Each way in turn; an error that is the way's own "Failed" is an answer.
Answered == {kNoErr, kErrMDTMFailed, kErrMLSTFailed, kErrSTATFailed, kErrNLSTFailed}
FTPFileExists2(s, p, ways) ==
    Then(FoldLeft(LAMBDA t, way : IF t.r \in Answered THEN t
                                  ELSE CASE way = "MDTM" -> FTPFileModificationTime(t, p)
                                         [] way = "SIZE" -> FTPFileSize(t, p)
                                         [] way = "MLST" -> FTPMListOneFile(t, p)
                                         [] OTHER -> FTPFileExistsBy(t, way, p),
                  Return(s, kErrCantTellIfFileExists), ways), LAMBDA told :
    Return(told, IF told.r = kNoErr THEN kNoErr
                 ELSE IF told.r \in Answered THEN kErrNoSuchFileOrDirectory
                 ELSE kErrCantTellIfFileExists))

FTPFileExists(s, p) == FTPFileExists2(s, p, <<"MDTM", "SIZE", "MLST", "STAT", "NLST">>)

FTPFileType(s, p) ==
    Then(FTPMListOneFile([s EXCEPT !.ftype = ""], p), LAMBDA mlst :
    IF mlst.r = kNoErr THEN mlst
    ELSE Then(FTPChdir(SaveCwd(mlst), p), LAMBDA dir :
         IF dir.r = kNoErr
         THEN [FTPChdir(dir, dir.buf) EXCEPT !.r = kNoErr, !.ftype = "d"]
         ELSE Then(FTPFileExists2(dir, p, <<"MDTM", "SIZE", "STAT", "NLST">>), LAMBDA t :
              Return(t, IF t.r = kErrNoSuchFileOrDirectory THEN t.r
                        ELSE kErrFileExistsButCannotDetermineType))))

\* FTPIsDir and FTPIsRegularFile: an item of unknown type is taken for a file.
IsOfType(s, p, ifDirectory, otherwise) ==
    Then(FTPFileType(s, p), LAMBDA t :
    IF t.r \notin {kNoErr, kErrFileExistsButCannotDetermineType} THEN t
    ELSE Return(t, IF t.ftype = "d" THEN ifDirectory ELSE otherwise))
FTPIsDir(s, p) == IsOfType(s, p, 1, 0)
FTPIsRegularFile(s, p) == IsOfType(s, p, 0, 1)

-----------------------------------------------------------------------------
(* Removal.  A batch goes on after a failure, unless go says otherwise.    *)

Stop(s, result) == [s |-> s, r |-> result, go |-> FALSE]
GoOn(s, result) == [s |-> s, r |-> result, go |-> TRUE]
Each(s, Op(_, _)) ==
    Then(FoldLeft(LAMBDA acc, item :
                    IF ~acc.go THEN acc
                    ELSE Then(Op(acc.s, item.line), LAMBDA o :
                         [o EXCEPT !.r = IF @ = kNoErr THEN acc.r ELSE @]),
                  GoOn(s, kNoErr), s.lines), LAMBDA done : Return(done.s, done.r))
Matching(s, pattern, doGlob, Op(_, _)) ==
    Then(FTPRemoteGlob(s, pattern, doGlob), LAMBDA g : IF g.r # kNoErr THEN g ELSE Each(g, Op))

FTPChmod(s, pattern, doGlob) ==
    Matching(s, pattern, doGlob, LAMBDA t, f :
        Then(SITE_CHMOD(t, f), LAMBDA u :
        IF u.r < 0 THEN Stop(u, u.r)
        ELSE GoOn(u, IF u.r = Completed THEN kNoErr ELSE kErrChmodFailed)))

\* FTPRmdir and FTPDelete of one file, when they do not recurse.
RmdirPlain(s, f) == Checked(RMD(s, f), Completed, kErrRMDFailed)
DeletePlain(s, f) == Checked(DELE(s, f), Completed, kErrDELEFailed)

\* It calls itself for a directory of the current directory without going there.
RECURSIVE FTPRmdirRecursiveL2(_, _, _)
FTPRmdirRecursiveL2(s, rmEmptyDirsOnly, room) ==
    LET AfterSubdir(inner, f) ==
            IF inner.r = Crashed THEN Stop(inner, Crashed)
            ELSE Then(FTPChdir(inner, <<"..">>), LAMBDA up :
                 IF up.r # kNoErr THEN Stop(up, kErrCannotGoToPrevDir)
                 ELSE IF inner.r < 0 /\ inner.r # kErrGlobNoMatch THEN Stop(up, inner.r)
                 ELSE Then(RmdirPlain(up, f), LAMBDA gone :
                      IF gone.r # kNoErr /\ ~rmEmptyDirsOnly THEN Stop(gone, gone.r)
                      ELSE GoOn(gone, gone.r)))
        One(acc, f) ==
            Then(FTPIsDir(acc.s, f), LAMBDA dir :
            IF dir.r > 0 THEN AfterSubdir(FTPRmdirRecursiveL2(dir, rmEmptyDirsOnly, room - 1), f)
            ELSE IF rmEmptyDirsOnly THEN GoOn(dir, acc.r)
            ELSE Then(DeletePlain(dir, f), LAMBDA file : GoOn(file, file.r))) IN
    IF room = 0 THEN [s EXCEPT !.up = FALSE, !.r = Crashed]
    ELSE Then(FTPRemoteGlob(s, <<"*">>, TRUE), LAMBDA g :
         IF g.r # kNoErr THEN g
         ELSE Then(FoldLeft(LAMBDA acc, item : IF acc.go THEN One(acc, item.line) ELSE acc,
                            GoOn(g, kNoErr), g.lines), LAMBDA done : Return(done.s, done.r)))

FTPRmdirRecursive2(s, p, rmEmptyDirsOnly) ==
    Then(FTPIsDir(SaveCwd(s), p), LAMBDA dir :
    IF dir.r # kNoErr THEN dir
    ELSE Then(FTPChdir(dir, p), LAMBDA into :
         IF into.r # kNoErr THEN into
         ELSE Then(FTPRmdirRecursiveL2(into, rmEmptyDirsOnly, MaxDepth), LAMBDA done :
              IF done.r = Crashed THEN done
              ELSE Then(FTPChdir(done, done.buf), LAMBDA back :
                   IF back.r # kNoErr
                   THEN Return(back, IF done.r = kNoErr THEN kNoErr ELSE kErrCannotGoToPrevDir)
                   ELSE Then(RmdirPlain(back, p), LAMBDA root :
                        Return(root, IF done.r = kNoErr THEN root.r ELSE done.r))))))

Recursively(s, f) ==
    Then(FTPRmdirRecursive2(s, f, FALSE), LAMBDA t :
    IF t.r = Crashed THEN Stop(t, Crashed)
    ELSE GoOn(t, IF t.r < 0 THEN kErrRMDFailed ELSE kNoErr))

\* One item: FTPDelete tries DELE before RMD, FTPRmdir only RMD.
RemoveItem(s, f, dele, recurse) ==
    Then(IF dele THEN DELE(s, f) ELSE RMD(s, f), LAMBDA t :
    IF t.r < 0 THEN Stop(t, t.r)
    ELSE IF t.r = Completed THEN GoOn(t, kNoErr)
    ELSE IF ~recurse THEN GoOn(t, IF dele THEN kErrDELEFailed ELSE kErrRMDFailed)
    ELSE Then(IF dele THEN RMD(t, f) ELSE t, LAMBDA u :
         IF u.r < 0 THEN Stop(u, u.r)
         ELSE IF u.r = Completed THEN GoOn(u, kNoErr)
         ELSE Recursively(u, f)))

\* FTPDelete if dele, else FTPRmdir.
FTPRemove(s, pattern, dele, recurse, doGlob) ==
    Matching(s, pattern, doGlob, LAMBDA t, f : RemoveItem(t, f, dele, recurse))

-----------------------------------------------------------------------------
(* The walk of FTPFtw with FTPRemoteFtwProc, which makes a list of what it *)
(* is shown.  w.s is the connection, w.found the list, w.ok is false once  *)
(* the walk was given up, w.depth is ftwip->depth, the depth of the        *)
(* directory that was read last.                                           *)

Found(path, type) == [line |-> path, type |-> type]

FTPRemoteFtwProc(w, path, type) ==
    IF w.depth >= DepthLimit THEN [w EXCEPT !.ok = FALSE]
    ELSE IF path = <<".">> THEN w
    ELSE [w EXCEPT !.found = Append(@, Found(Tail(path), type))]

\* The list of a directory: with types from MLSD or LIST, else from NLST.
ReadDirectory(s, path) ==
    IF s.server.mlst
    THEN Then(FTPListToMemory2(s, "MLSD", path), LAMBDA t : [s |-> t, by |-> "MLSD"])
    ELSE Then(FTPListToMemory2(s, "LIST", path), LAMBDA list :
         IF ~NothingListed(list) THEN [s |-> list, by |-> "LIST"]
         ELSE Then(FTPListToMemory2(list, DashA(list), path), LAMBDA t :
              [s |-> [t EXCEPT !.lines = RemoteGlobCollapse(path, @)], by |-> "NLST"]))

\* The type of one line, with the questions that are asked for it; "" when none
\* could be found out.
Typed(s, by, type, path) ==
    CASE by = "MLSD" -> [s EXCEPT !.ftype = type]
      [] by = "LIST" -> [FTPFileModificationTime(s, path) EXCEPT !.ftype = type]
      [] OTHER -> Then(FTPIsDir(s, path), LAMBDA t :
                  IF t.r < 0 THEN [t EXCEPT !.ftype = ""]
                  ELSE IF t.r = 1 THEN [FTPFileModificationTime(t, path) EXCEPT !.ftype = "d"]
                  ELSE [FTPFileModificationTime(FTPFileSize(t, path), path) EXCEPT !.ftype = "-"])

\* What is not a directory is shown at once, a directory kept for later.
Show(w, by, path, item) ==
    Then(Typed(w.s, by, item.type, path \o item.line), LAMBDA t :
    CASE t.ftype = "" -> [w EXCEPT !.s = t]
      [] t.ftype = "d" -> [w EXCEPT !.s = t, !.dirs = Append(@, path \o item.line)]
      [] OTHER -> FTPRemoteFtwProc([w EXCEPT !.s = t], path \o item.line, t.ftype))

RECURSIVE FTPFtwTraverse(_, _, _)
FTPFtwTraverse(w, path, depth) ==
    LET Descend(acc, p) ==
            Then(IF acc.ok THEN FTPRemoteFtwProc(acc, p, "d") ELSE acc, LAMBDA shown :
            IF shown.ok THEN FTPFtwTraverse(shown, p, depth + 1) ELSE shown) IN
    Then(ReadDirectory(w.s, path), LAMBDA dir :
    IF NothingListed(dir.s) THEN [w EXCEPT !.s = dir.s]
    ELSE Then(FoldLeft(LAMBDA acc, item : IF acc.ok THEN Show(acc, dir.by, path, item) ELSE acc,
                       [w EXCEPT !.s = dir.s, !.dirs = <<>>, !.depth = depth], dir.s.lines),
              LAMBDA files : FoldLeft(Descend, files, files.dirs)))

FTPFtw(s, path) ==
    LET Walk0(t) == [s |-> t, found |-> <<>>, ok |-> TRUE, dirs |-> <<>>, depth |-> 0] IN
    Then(FTPIsDir(s, path), LAMBDA dir :
    IF dir.r < 0 THEN Walk0(dir)
    ELSE IF dir.r = 0 THEN Walk0(Return(dir, kErrNotADirectory))
    ELSE Then(FTPMListOneFile(dir, path), LAMBDA mlst :
         FTPFtwTraverse(FTPRemoteFtwProc(Walk0(IF mlst.r = kNoErr THEN mlst
                                               ELSE FTPFileModificationTime(mlst, path)),
                                         path, "d"), path, 1)))

\* The lists end where they began; the result is that of the way back, which
\* hides that of the walk.
BackWith(s, cwd, found) == [FTPChdir(s, cwd) EXCEPT !.lines = found]
FileOnly(s, p) == [s EXCEPT !.r = kNoErr, !.lines = <<Found(p, "-")>>]

FTPRemoteRecursiveFileList2(s, p) ==
    Then(FTPGetCWD(s), LAMBDA cwd :
    IF cwd.r < 0 THEN cwd
    ELSE Then(FTPChdir(cwd, p), LAMBDA into :
         IF into.r < 0 THEN FileOnly(into, p)
         ELSE Then(FTPFtw(into, <<".">>), LAMBDA w : BackWith(w.s, cwd.cache, w.found))))

FTPRemoteRecursiveFileList1(s, p) ==
    Then(FTPGetCWD(s), LAMBDA cwd :
    IF cwd.r < 0 THEN cwd
    ELSE Then(FTPChdir(cwd, p), LAMBDA into :
         IF into.r < 0 THEN FileOnly(into, p)
         ELSE Then(FTPListToMemory2(into, "LIST -R", <<>>), LAMBDA all :
              BackWith(all, cwd.cache, IF all.r < 0 THEN <<>> ELSE all.lines))))

\* Several at once, as FTPGetFiles3 asks for them.
FTPRemoteRecursiveFileList(s, ps) ==
    LET Item(p, items) == [i \in DOMAIN items |-> Found(p \o items[i].line, items[i].type)]
        One(acc, p, cwd) ==
            Then(FTPChdir(acc.s, p), LAMBDA into :
            IF into.r < 0 THEN [acc EXCEPT !.s = into, !.found = Append(@, Found(p, "-"))]
            ELSE Then(FTPListToMemory2(into, "LIST -R", <<>>), LAMBDA all :
                 Then(FTPChdir(all, cwd), LAMBDA back :
                 [s |-> back, found |-> acc.found \o IF all.r < 0 THEN <<>> ELSE Item(p, all.lines),
                  r |-> back.r, go |-> back.r >= 0]))) IN
    Then(FTPGetCWD(s), LAMBDA cwd :
    IF cwd.r < 0 THEN cwd
    ELSE Then(FoldLeft(LAMBDA acc, p : IF acc.go THEN One(acc, p, cwd.cache) ELSE acc,
                       [s |-> cwd, found |-> <<>>, r |-> kNoErr, go |-> TRUE], ps), LAMBDA done :
         [done.s EXCEPT !.r = done.r, !.lines = done.found]))

-----------------------------------------------------------------------------
(* The calls.  A call that meets no fault is one with the fault "none".    *)

Faults == {<<0, "none">>} \cup ((1 .. MaxFault) \X {"lost", "refused"})
Ready(fault) == [conn EXCEPT !.at = fault[1], !.fault = fault[2]]

Idle == calls < MaxCalls /\ last.op = "none"

\* The call op on path p took the connection to s.
Call(op, p, s) ==
    /\ s.n >= s.at                     \* the fault was met
    /\ conn' = [s EXCEPT !.n = 0, !.at = 0, !.fault = "none", !.refused = "", !.r = kNoErr,
                         !.ftype = "", !.lines = <<>>]
    /\ last' = [op |-> op, p |-> p, r |-> s.r, refused |-> s.refused, cwd |-> conn.cwd,
                tree |-> conn.tree, lines |-> s.lines]
    /\ calls' = calls + 1
    /\ renamed' = (renamed \/ (op = "rename" /\ s.cwd # conn.cwd))
    /\ refusals' = refusals \cup ({s.refused} \ {""})

\* The program takes note of the result; after a crash there is no program.
TakeResult ==
    /\ last.op # "none" /\ last.r # Crashed
    /\ last' = NoCall
    /\ UNCHANGED <<conn, calls, renamed, refusals>>

ChangeDirectory ==
    Idle /\ \E f \in Faults, p \in Args :
        \/ Call("chdir", p, FTPChdir(Ready(f), p))
        \/ Call("chdir", p, FTPChdirAndGetCWD(Ready(f), p))
        \/ \E flags \in ChdirFlags :
              \/ Call("chdir", p, FTPChdir3(Ready(f), p, flags))
              \/ Call("chdir", p, FTPChdirList(Ready(f), p, flags))
AskDirectory == Idle /\ \E f \in Faults : Call("getcwd", <<>>, FTPGetCWD(Ready(f)))
MakeDirectory ==
    Idle /\ \E f \in Faults, p \in Args, recurse \in BOOLEAN :
        \/ Call("mkdir", p, FTPMkdir(Ready(f), p, recurse))
        \/ \E curDir \in {<<>>, conn.cache} \ {Unknown} :
              Call("mkparent", p, FTPMkParentDir(Ready(f), p, recurse, curDir))
RemoveItems ==
    Idle /\ \E f \in Faults, p \in Args \cup {<<"*">>}, dele, recurse \in BOOLEAN :
        Call((IF dele THEN "delete" ELSE "rmdir") \o (IF recurse THEN "r" ELSE ""), p,
             FTPRemove(Ready(f), p, dele, recurse, p = <<"*">>))
RemoveEmpty == Idle /\ \E f \in Faults, p \in Args : Call("rmempty", p, FTPRmdirRecursive2(Ready(f), p, TRUE))
RenameItem == Idle /\ \E f \in Faults, p, q \in Args : p # q /\ Call("rename", p, FTPRename(Ready(f), p, q))
ChangeMode == Idle /\ \E f \in Faults, p \in Args \cup {<<"*">>} :
                 Call("chmod", p, FTPChmod(Ready(f), p, p = <<"*">>))
AskItem ==
    Idle /\ \E f \in Faults, p \in Args :
        \/ Call("exists", p, FTPFileExists(Ready(f), p))
        \/ Call("isdir", p, FTPIsDir(Ready(f), p))
        \/ Call("isfile", p, FTPIsRegularFile(Ready(f), p))
ListItems ==
    Idle /\ \E f \in Faults, p \in Args :
        \/ Call("walk", p, FTPRemoteRecursiveFileList2(Ready(f), p))
        \/ Call("listr", p, FTPRemoteRecursiveFileList1(Ready(f), p))
        \/ \E q \in Args : Call("lists", p, FTPRemoteRecursiveFileList(Ready(f), <<p, q>>))

Next ==
    \/ ChangeDirectory \/ AskDirectory \/ MakeDirectory \/ RemoveItems \/ RemoveEmpty
    \/ RenameItem \/ ChangeMode \/ AskItem \/ ListItems \/ TakeResult

Spec == Init /\ [][Next]_vars

-----------------------------------------------------------------------------
(* Properties.                                                             *)

\* Every variable has its type, the server's tree is a tree and the server is in
\* a directory of it.
TypeOK ==
    /\ conn \in ConnType
    /\ WellFormed(conn.tree)
    /\ Kind(conn.tree, conn.cwd) = "d"
    /\ calls \in 0 .. MaxCalls
    /\ renamed \in BOOLEAN
    /\ last.r \in Results

\* FTPGetCWD answers from the cache for as long as FTPChdir and FTPChdirAndGetCWD do
\* not empty it (c_chdir.c:34, c_getcwd.c:29, 126): what it says is where the server
\* is, unless a rename has moved that directory.
CacheTrue == conn.up /\ ~renamed /\ conn.cache # Unknown => conn.cache = Text(conn.cwd)

\* A call that goes into other directories to look, to make or to remove comes back
\* to where it was, and a question leaves the tree alone, the file made to test NLST
\* included (c_exists.c:305-338), unless the server refused a command for no reason.
Questions == {"getcwd", "exists", "isdir", "isfile", "walk", "listr", "lists", "chmod"}
LeavesAsFound ==
    conn.up =>
        /\ last.op \in Questions \cup {"mkdir", "mkparent"} /\ last.refused \notin {"CWD", "PWD"}
             => conn.cwd = last.cwd
        /\ last.op \in {"rmdir", "rmdirr", "delete", "deleter", "rmempty"} /\ last.refused = ""
             => conn.cwd = last.cwd
        /\ last.op \in Questions /\ last.refused = "" => conn.tree = last.tree

\* What a call says it did is done: the directory entered, unless PWD failed on the
\* way, or made, or gone; the file gone; an item that is said to be there is there,
\* unless a refusal taught the library something wrong of STAT or NLST; a walk has
\* shown every item there is below the directory, links not followed.
Before == [conn EXCEPT !.cwd = last.cwd]
TypesGiven == conn.server.mlst \/ conn.server.list
OkMeansDone ==
    LET p == last.p
        d == Target(Before, p)
        shown == {<<d \o last.lines[i].line, last.lines[i].type>> : i \in DOMAIN last.lines} IN
    last.r = kNoErr =>
        /\ last.op = "chdir" /\ last.refused # "PWD" => conn.cwd = d
        /\ last.op = "mkdir" => IsDirectory(Before, p)
        /\ last.op = "mkparent" => IsDirectory(Before, Front(p))
        /\ last.op \in {"rmdir", "delete"} /\ p # <<"*">> => KindAt(Before, p) = "none"
        /\ last.op = "exists" /\ refusals = {} => KindAt(Before, p) # "none"
        /\ last.op = "walk" /\ last.refused = "" /\ conn.up /\ IsDirectory(Before, p) /\ TypesGiven
             => shown = {<<e, conn.tree[e]>> : e \in Below(conn.tree, d)}
\* FTPRmdir with kRecursiveYes that returns kNoErr has removed the item, as
\* "/bin/rm -rf" would (doc/libncftp.html:2236-2248).  It does not: FTPIsDir says 1 for a
\* directory and FTPRmdirRecursive2 takes any answer but 0 for the end (c_rmdirr.c:91-93).
RmdirRemoves ==
    last.op = "rmdirr" /\ last.p # <<"*">> /\ last.r = kNoErr /\ last.refused = "" /\ conn.up
        => KindAt(Before, last.p) = "none"
=============================================================================
