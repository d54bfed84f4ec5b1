---------------------------- MODULE MCFileBatch ----------------------------
\* Instance of FileBatch for TLC.
EXTENDS FileBatch

TwoNames == <<"p", "q">>
Tree(dirs, files, links) ==
    [x \in Paths |-> IF x \in dirs THEN "dir" ELSE IF x \in links THEN "link"
                     ELSE IF \E f \in files : f[1] = x THEN (CHOOSE f \in files : f[1] = x)[2] ELSE "none"]

\* A directory with a directory of the same name inside, a link, and files of the same
\* name on two levels; and two files at the top.
SomeRemotes == {
    Tree({<<"p">>, <<"p", "p">>}, {<<<<"p", "q">>, "x">>, <<<<"p", "p", "q">>, "y">>}, {<<"p", "p", "p">>}),
    Tree({}, {<<<<"p">>, "x">>, <<<<"q">>, "y">>}, {})}
SomeLocals == {
    Tree({}, {}, {}),
    Tree({<<"q">>, <<"q", "p">>}, {<<<<"p">>, "y">>, <<<<"q", "q">>, "x">>}, {<<"q", "p", "q">>})}

SomePatterns == {<<"p">>, <<"*">>, <<"p", "*">>, <<".">>, <<"">>, <<"", "">>, <<"", "p", "p">>}
SomeDirs == {<<".">>, <<"q">>}
SomeOptions == {{"recurse", "tar"}, {"delete", "resume"}, {"recurse", "delete"}, {"recurse", "resume", "ascii"}}
=============================================================================
