----------------------------- MODULE MCFtpFetch -----------------------------
\* FtpFetch for TLC: two calls over two connections of a file of at most two
\* blocks that may be replaced once, so that a partial file can outlive a kill
\* and an edit, before, after or in the middle of it, and then be resumed.
EXTENDS FtpFetch

Get(resume, append, delete, ascii) ==
    [NoCall EXCEPT !.resume = resume, !.append = append, !.delete = delete, !.ascii = ascii]
AllCalls ==
    {Get(TRUE, FALSE, TRUE, TRUE), Get(FALSE, FALSE, TRUE, FALSE), Get(TRUE, TRUE, FALSE, FALSE)} \cup
    {[NoCall EXCEPT !.op = "mem", !.delete = w[2] = 1, !.from = w[1], !.room = w[2]] :
        w \in {<<0, 1>>, <<0, 2>>, <<1, 1>>}} \cup
    {[NoCall EXCEPT !.op = o, !.ascii = o = "list"] : o \in {"tar", "list"}}

\* A server that tells size and time in two answers, and one that tells them in one;
\* the second takes no restart point in ASCII mode, and cannot send a directory.
SomeServers == {Features \ {"MLST"}, {"MLST", "REST"}}
=============================================================================
