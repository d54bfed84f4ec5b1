------------------------------ MODULE MCFtpTree ------------------------------
\* Instance of FtpTree for TLC: two names, three trees and four servers.
EXTENDS FtpTree

Tree(items) == [d \in Paths |-> IF d \in DOMAIN items THEN items[d] ELSE "none"]
SomeTrees ==
    {Tree(<<"a">> :> "d" @@ <<"a", "a">> :> "-" @@ <<"a", "b">> :> "d"),
     Tree(<<"a">> :> "l" @@ <<"b">> :> "d" @@ <<"b", "b">> :> "-"),
     Tree(<<>>)}
Link == <<"b">>

Unix == [mlst |-> FALSE, mdtm |-> "files", size |-> "files", stat |-> "file", nlst |-> "files",
         dashA |-> TRUE, list |-> TRUE, prefixes |-> TRUE, quotes |-> FALSE]
Modern == [Unix EXCEPT !.mlst = TRUE, !.mdtm = "all", !.quotes = TRUE, !.dashA = FALSE]
Plain1 == [mlst |-> FALSE, mdtm |-> "no", size |-> "no", stat |-> "any", nlst |-> "files",
          dashA |-> FALSE, list |-> FALSE, prefixes |-> FALSE, quotes |-> FALSE]
SomeServers == {Unix, Modern, Plain1}

SomeFlags == {{"one"}, {"mkdir", "pwd"}, {"mkdir", "pwd", "one"}, {"mkdir", "full", "one"}}
SomeArgs == {<<"a">>, <<"a", "b">>, <<"", "b">>, <<".">>, <<"..">>}
=============================================================================
