----------------------------- MODULE MCFtpStore -----------------------------
(***************************************************************************)
(* Instances of FtpStore for TLC: the calls and the servers that differ in *)
(* the code.                                                               *)
(***************************************************************************)
EXTENDS FtpStore

Resume == [NoCall EXCEPT !.resume = TRUE, !.delete = TRUE]
AllCalls ==
    {[NoCall EXCEPT !.op = "mem"], [NoCall EXCEPT !.append = TRUE],
     [NoCall EXCEPT !.temp = TRUE, !.delete = TRUE], Resume,
     [Resume EXCEPT !.temp = TRUE], [Resume EXCEPT !.batch = TRUE],
     [Resume EXCEPT !.ascii = TRUE], [Resume EXCEPT !.ascii = TRUE, !.temp = TRUE],
     [Resume EXCEPT !.sendfile = TRUE]}

SomeServers ==
    {Features, Features \ {"MDTM"}, Features \ {"UTIME", "RNTO", "REST STOR"},
     Features \ {"REST", "REST STOR"}, {"SIZE", "MDTM"}}

=============================================================================
