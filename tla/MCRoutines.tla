----------------------------- MODULE MCRoutines -----------------------------
\* Instance for TLC of the routines below the library's commands: the machines of
\* StreamIO and of FileLists, of which one moves in a behaviour, and the routines of
\* AsciiText, UnLs and ImageRle as trials, one input in one state.
EXTENDS StreamIO, FileLists

VARIABLE trial

EolnOne == <<"\n">>
Ascii == INSTANCE AsciiText WITH EOLN <- EolnOne, OutSize <- 3, InSize <- 2
Ls == INSTANCE UnLs
Rle == INSTANCE ImageRle

-----------------------------------------------------------------------------
(* Values for the constants.                                               *)

Bytes == {"a", LF, CR, NUL}
SomeLimits == {-1, 0, 1, 2}
SomeTexts == UNION {[1..n -> Bytes] : n \in 0..5}

Item(n, t, s, d) == [name |-> n, mdtm |-> t, size |-> s, depth |-> d]
SomeItems == {Item(1, 2, 5, 1), Item(2, 1, 5, 0), Item(3, 2, 4, 1)}

-----------------------------------------------------------------------------
(* Trials.                                                                 *)

\* A text of up to five bytes, and the ways to cut n bytes.
TextBytes == {"a", "\r", "\n"}
Cuts(n) == {c \in SUBSET (1..n) : n > 0 => n \in c}
Piece(t, c, k) ==
    LET From == {i \in c : i < k} IN
    SubSeq(t, (IF From = {} THEN 0 ELSE CHOOSE i \in From : \A j \in From : j <= i) + 1, k)
CutUp(t, c) ==
    LET RECURSIVE Go(_, _)
        Go(k, acc) == IF k > Len(t) THEN acc ELSE Go(k + 1, IF k \in c THEN Append(acc, Piece(t, c, k)) ELSE acc)
    IN  Go(1, <<>>)
TryText ==
    \E n \in 0..5 : \E text \in [1..n -> TextBytes], c \in Cuts(n), disk \in {2, 20} :
       trial' = [of |-> "ascii", text |-> text, cut |-> c, n |-> disk]

\* Trees of up to two entries, with directories of up to two; listed by a client in
\* the root or in /h on 1 March of a leap year.
Date(y, m, d, h) == [year |-> y, mon |-> m, day |-> d, hr |-> h]
Today == Date(2024, 3, 1, 12)
Entry(n, t, s, link, d) == [name |-> n, type |-> t, size |-> s, linkto |-> link, date |-> d, in |-> <<>>]
FileA == Entry(<<"a">>, "-", 5, <<>>, Date(2024, 2, 29, 13))
Hidden == Entry(<<".", "x">>, "l", 7, <<"a">>, Date(2023, 4, 1, 0))
Dotted == Entry(<<"a", "b", "c", ".">>, "-", 0, <<>>, Date(2023, 8, 9, 12))
Colon == Entry(<<"b", ":">>, "-", 1, <<>>, Date(1998, 6, 30, 23))
Socket == Entry(<<"p">>, "s", 0, <<>>, Date(2024, 1, 1, 1))
Dot == Entry(<<".">>, "d", 2, <<>>, Date(2024, 1, 31, 2))
DotDot == Entry(<<".", ".">>, "d", 2, <<>>, Date(2024, 1, 31, 3))
Files == {FileA, Hidden, Dotted, Colon}
DirOf(n, es) == [Entry(n, "d", 4, <<>>, Date(2023, 12, 31, 11)) EXCEPT !.in = es]
Contents == {<<>>, <<FileA>>, <<Dotted, Hidden>>, <<Dot, DotDot, FileA>>, <<Socket, Colon>>, <<DirOf(<<"t">>, <<>>)>>}
Dirs == {DirOf(n, es) : n \in {<<"s">>, <<".", "s", "a">>}, es \in Contents}
Entries == Files \cup Dirs \cup {Socket, Dot, DotDot}
TreesOf(es) == {<<>>} \cup {<<a>> : a \in es} \cup {<<a, b>> : a \in es, b \in es}
Home == <<"/", "h">>

TryListing(style, es, prefix, cwd) ==
    \E tree \in TreesOf(es) :
       /\ \A k \in DOMAIN tree : style = "time" => tree[k].date.year > 2000
       /\ trial' = [of |-> "ls", tree |-> tree, style |-> style, prefix |-> prefix, cwd |-> cwd]
TryListings ==
    \/ \E style \in {"year", "iso"}, prefix \in {<<>>, <<".", "/">>}, cwd \in {<<"/">>, Home} :
          TryListing(style, Entries, prefix, cwd)
    \/ TryListing("iso", {FileA, Hidden, Colon, Socket} \cup
                         {DirOf(<<"s">>, es) : es \in {<<>>, <<FileA>>, <<Hidden, FileA>>, <<Socket, Colon>>}},
                  Home \o <<"/">>, Home)
    \/ TryListing("time", {FileA, Hidden, Dotted, Dot}, <<>>, Home)
    \/ TryListing("dos", {FileA, Dotted, Colon, Dot, DotDot, DirOf(<<"s">>, <<>>)}, <<>>, Home)
    \/ TryListing("mls", {FileA, Hidden, Dotted, Colon, Dot, DotDot, DirOf(<<"s">>, <<>>)}, <<>>, Home)

\* Files of any month of two years and of 2000 to 2009, looked at around the turn of
\* a year and around 29 February.
TryDate ==
    \E y \in {1999, 2000, 2005, 2009, 2010, 2023, 2024, 2025}, m \in 1..12, d \in {1, 2, 3, 28, 29, 30, 31}, h \in {0, 23},
       today \in {Date(2024, 1, 1, 0), Date(2024, 2, 28, 12), Date(2024, 2, 29, 12), Date(2024, 3, 1, 0),
                  Date(2025, 1, 2, 0), Date(2025, 2, 28, 12), Date(2024, 12, 30, 23), Date(2024, 12, 31, 23)} :
       /\ d <= Ls!MonthLength(y, m)
       /\ y < 2023 => today.mon = 1
       /\ trial' = [of |-> "date", file |-> Date(y, m, d, h), today |-> today]

\* Images of up to five pixels of one to four bytes, of which the first two differ.
PixelsOf(size) == {[k \in 1..size |-> CASE k = 1 -> a [] k = 2 -> b [] OTHER -> 0] : a \in {0, 1, -1}, b \in {0, 1}}
TryImage ==
    \E n \in 1..4, size \in 1..4 : \E pixels \in [1..n -> PixelsOf(size)] :
       trial' = [of |-> "image", pixels |-> pixels]

-----------------------------------------------------------------------------

Untried == [of |-> "none"]

MCInit == Init /\ ListInit /\ trial = Untried
IOMoves == Next /\ UNCHANGED <<listVars, trial>>
ListsMove == ListNext /\ UNCHANGED <<vars, trial>>
Try == (TryText \/ TryListings \/ TryDate \/ TryImage) /\ UNCHANGED <<vars, listVars>>
MCNext ==
    /\ trial = Untried
    /\ \/ heap = <<>> /\ lines = InitLineList /\ infos = FileList /\ IOMoves
       \/ call = Blank /\ srl = NoReader /\ ListsMove
       \/ /\ heap = <<>> /\ lines = InitLineList /\ infos = FileList
          /\ call = Blank /\ srl = NoReader
          /\ Try
MCSpec == MCInit /\ [][MCNext]_<<vars, listVars, trial>>

\* A text arrives as the same file however the network cuts it into blocks
\* (AsciiText, io_get.c:471-725).
SplitInvisible == trial.of = "ascii" => Ascii!SplitInvisible(CutUp(trial.text, trial.cut), trial.n)

\* A text is sent with the network's line ends, as many bytes as its size was said to
\* be, and from the right place when it is resumed (AsciiText, io_put.c:571-697).
UploadIsNetText == trial.of = "ascii" => Ascii!UploadIsNetText(trial.text)

\* A listing reads back as the files it was made from (UnLs, unls.c:576-1024).
ListingReadBack ==
    trial.of = "ls" => Ls!ListingReadBack(trial.tree, trial.style, trial.prefix, trial.cwd, Today)

\* The dates of listings and of MDTM read back, also those printed without a year
\* (UnLs, unls.c:503-536, u_unmdtm.c:20-68).
DatesReadBack == trial.of = "date" => Ls!DatesReadBack(trial.file, trial.today)

\* A compressed image is read again within the buffer allocated for it (ImageRle,
\* image_compression/main.c:187-202).
DecompressionFits == trial.of = "image" => Rle!DecompressionFits(trial.pixels)
=============================================================================
