-------------------------------- MODULE UnLs --------------------------------
(***************************************************************************)
(* How directory listings are read (unls.c): UnLslR reads what "ls -lR" or *)
(* Microsoft's server prints, UnMlsD what MLSD sends.  Nothing standard    *)
(* says what a listing looks like; names, types, sizes and dates are       *)
(* picked out of the text, and the directory a line belongs to out of the  *)
(* headers before it.                                                      *)
(*                                                                         *)
(* A line is taken apart into its fields: a record of kind "unix", "dos",  *)
(* "mls" or, for a line that is none of these, "text".  A path is a        *)
(* sequence of characters, since prefixes of paths are compared by the     *)
(* character; a time is a number of hours.  Buffers are long enough.       *)
(***************************************************************************)
EXTENDS Integers, Sequences, FiniteSets, SequencesExt

Slash == {"/", "\\"}
At(s, k) == IF k \in 1..Len(s) THEN s[k] ELSE ""   \* "" is the NUL at the end
From(s, k) == SubSeq(s, k, Len(s))

-----------------------------------------------------------------------------
(* Dates.                                                                  *)

Leap(y) == (y % 4 = 0 /\ y % 100 # 0) \/ y % 400 = 0
MonthLength(y, m) == CASE m = 2 -> IF Leap(y) THEN 29 ELSE 28 [] m \in {4, 6, 9, 11} -> 30 [] OTHER -> 31
DaysBeforeYear(y) == LET p == y - 1 IN 365 * y + (p \div 4) - (p \div 100) + (p \div 400)
DaysBeforeMonth(y, m) == FoldLeft(LAMBDA n, k : n + MonthLength(y, k), 0, [k \in 1..(m - 1) |-> k])

\* mktime: the time of a date, which is put in order on the way (30 February is 1 or
\* 2 March afterwards).
Normal(tm) ==
    IF tm.day > MonthLength(tm.year, tm.mon)
    THEN [tm EXCEPT !.mon = @ + 1, !.day = @ - MonthLength(tm.year, tm.mon)] ELSE tm
mktime(tm) == 24 * (DaysBeforeYear(tm.year) + DaysBeforeMonth(tm.year, tm.mon) + tm.day) + tm.hr

TwoDays == 48

\* The three letters of a month, told apart as the code does.
LsMonthNameToNum(cp) ==
    CASE cp[1] = "A" -> IF cp[2] = "u" THEN 8 ELSE 4
      [] cp[1] = "D" -> 12
      [] cp[1] = "F" -> 2
      [] cp[1] = "M" -> IF cp[3] = "r" THEN 3 ELSE 5
      [] cp[1] = "N" -> 11
      [] cp[1] = "O" -> 10
      [] cp[1] = "S" -> 9
      [] OTHER -> IF cp[2] # "u" THEN 1 ELSE IF cp[3] = "l" THEN 7 ELSE 6

YearGuessed_DatesReadBack(tm, now) == mktime([tm EXCEPT !.year = now.year])

\* No year is printed for a recent file: it is taken to be of this year, unless that
\* is more than two days ahead.
YearGuessed(tm, now) ==
    LET this == [tm EXCEPT !.year = now.year]
        last == [Normal(this) EXCEPT !.year = now.year - 1]
    IN  IF mktime(this) > mktime(now) + TwoDays THEN mktime(last) ELSE mktime(this)

\* The stamp of a line of ls: "Mon DD YYYY", "Mon DD HH:MM" or "YYYY-mm-dd HH:MM".
Stamped(stamp, now) ==
    CASE stamp.form = "year" ->
            mktime([year |-> stamp.year, mon |-> LsMonthNameToNum(stamp.month), day |-> stamp.day, hr |-> 23])
      [] stamp.form = "time" ->
            YearGuessed([year |-> 0, mon |-> LsMonthNameToNum(stamp.month), day |-> stamp.day, hr |-> stamp.hr], now)
      [] stamp.form = "iso" -> mktime(stamp.date)

\* The date of a line of Microsoft's server, with two or four digits of year and an
\* hour of a.m. or p.m.
DosStamped(stamp) ==
    LET year == IF stamp.year >= 1900 THEN stamp.year
                ELSE IF stamp.year < 98 THEN 2000 + stamp.year ELSE 1900 + stamp.year
        hr == IF stamp.pm /\ stamp.hr < 12 THEN stamp.hr + 12
              ELSE IF ~stamp.pm /\ stamp.hr = 12 THEN 0 ELSE stamp.hr
    IN  mktime([year |-> year, mon |-> stamp.mon, day |-> stamp.day, hr |-> hr])

kModTimeUnknown == -1
Number(digits) == FoldLeft(LAMBDA n, d : 10 * n + d, 0, digits)

\* UnMDTMDate: fourteen digits, of which sscanf lets the last be missing (the seconds,
\* which hours do not show); a server that prints 19 and the years since 1900 is put
\* right up to 2009.  The zone added at the end is the one mktime took off.
UnMDTMDate(dstr) ==
    LET year == IF SubSeq(dstr, 1, 4) = <<1, 9, 1, 0>> THEN <<2, 0, At(dstr, 4), At(dstr, 5)>>
                ELSE SubSeq(dstr, 1, 4)
        rest == From(dstr, IF SubSeq(dstr, 1, 4) = <<1, 9, 1, 0>> THEN 6 ELSE 5)
        Two(k) == Number(SubSeq(rest, k, k + 1))
    IN  IF Len(year) + Len(rest) < 13 THEN kModTimeUnknown
        ELSE mktime([year |-> Number(year), mon |-> Two(1), day |-> Two(3), hr |-> Two(5)])

-----------------------------------------------------------------------------
(* Lines.                                                                  *)

\* A component that is two dots or more, which only an evil server would send.
PathContainsIntermediateDotDotSubDir(s) ==
    \E i \in 1..Len(s) : \E j \in (i + 1)..Len(s) :
       /\ i = 1 \/ s[i - 1] \in Slash
       /\ \A k \in i..j : s[k] = "."
       /\ j = Len(s) \/ s[j + 1] \in Slash

NotRead == [rc |-> -1]
Read(fname, linkto, ftype, fsize, ftime) ==
    [rc |-> 0, fname |-> fname, linkto |-> linkto, ftype |-> ftype, fsize |-> fsize, ftime |-> ftime]

\* Devices and sockets are not files to this library (their names do not end in ":"
\* here: that would make headers of them).
UnLslRLine(line, curdir, now) ==
    IF line.kind # "unix" \/ line.type \in {"b", "c", "s"} THEN NotRead
    ELSE Read(curdir \o line.name, line.linkto, IF line.type \in {"d", "l"} THEN line.type ELSE "-",
              line.size, Stamped(line.stamp, now))

UnDosLine(line, curdir) ==
    IF line.kind # "dos" THEN NotRead
    ELSE Read(curdir \o line.name, <<>>, IF line.dir THEN "d" ELSE "-", IF line.dir THEN 0 ELSE line.size,
              DosStamped(line.stamp))

\* The separators of Microsoft's server.
WithSlashes(line) ==
    LET Turned(s) == [k \in DOMAIN s |-> IF s[k] = "\\" THEN "/" ELSE s[k]]
    IN  IF line.kind = "text" THEN [line EXCEPT !.text = Turned(@)] ELSE [line EXCEPT !.name = Turned(@)]

\* memcmp(cp, cip->buf, cwdlen) == 0, and what is left of cp after it and a separator.
BelowCwd(cp, cwd) == Len(cp) >= Len(cwd) /\ SubSeq(cp, 1, Len(cwd)) = cwd
PastCwd(cp, cwd) == From(cp, Len(cwd) + (IF At(cp, Len(cwd) + 1) \in Slash THEN 2 ELSE 1))

\* The loop's variables: curdir and its length, whether the files of this directory
\* are left out, and what was read so far.
Unread == [curdir |-> <<>>, curdirlen |-> 0, skipdir |-> FALSE, files |-> <<>>, linesread |-> 0, converted |-> 0]

\* A file: "." and ".." are left out, and so is an absolute name that is not below
\* the directory the client is in, and a name with ".." in it.
TakeFile(s, f, cwd) ==
    LET dots == From(f.fname, s.curdirlen + 1)
        cp0 == IF At(f.fname, 1) = "." /\ At(f.fname, 2) \in Slash THEN From(f.fname, 3) ELSE f.fname
        outside == At(cp0, 1) \in Slash /\ Len(cwd) > 1
        cp == IF outside THEN PastCwd(cp0, cwd) ELSE cp0
        counted == [s EXCEPT !.converted = @ + 1]
    IN  IF s.skipdir \/ dots \in {<<".">>, <<".", ".">>} THEN s
        ELSE IF outside /\ ~BelowCwd(cp0, cwd) THEN counted
        ELSE IF PathContainsIntermediateDotDotSubDir(cp) THEN counted
        ELSE [counted EXCEPT !.files = Append(@, [relname |-> cp, rlinkto |-> f.linkto, type |-> f.ftype,
                                                  size |-> f.fsize, mdtm |-> f.ftime])]

TakeHeader_ListingReadBack(s, text, cwd) ==
    LET path == SubSeq(text, 1, Len(text) - 1) \o <<"/">>
    IN  [s EXCEPT !.curdir = IF SubSeq(path, 1, 2) = <<".", "/">> THEN From(path, 3) ELSE path,
                  !.curdirlen = Len(path)]

\* A header "dir:": the files after it are in dir.  An absolute dir below the client's
\* is made relative to that, and curdirlen stays as long as it was.
TakeHeader(s, text, cwd) ==
    LET end == IF text[1] = "." /\ At(text, 2) = "\\" THEN "\\" ELSE "/"
        path == SubSeq(text, 1, Len(text) - 1) \o <<end>>
        dir == IF text[1] = "." /\ At(text, 2) \in Slash THEN From(path, 3) ELSE path
        absolute == At(dir, 1) \in Slash
        below == absolute /\ Len(cwd) # 1 /\ BelowCwd(dir, cwd)
        curdir == IF below THEN PastCwd(dir, cwd) ELSE dir
    IN  [s EXCEPT !.curdir = curdir, !.curdirlen = Len(dir),
                  !.skipdir = \/ absolute /\ ~below /\ Len(cwd) # 1
                              \/ PathContainsIntermediateDotDotSubDir(curdir)]

\* One line: blank ones are skipped, and the others read in the one way or the other.
TakeLine(s, line0, cwd, now, microsoft) ==
    LET line == IF microsoft THEN WithSlashes(line0) ELSE line0
        unix == UnLslRLine(line, s.curdir, now)
        f == IF unix.rc = -1 /\ microsoft THEN UnDosLine(line, s.curdir) ELSE unix
        counted == [s EXCEPT !.linesread = @ + 1]
    IN  IF line.kind = "text" /\ line.text = <<>> THEN s
        ELSE IF f.rc = 0 THEN TakeFile(counted, f, cwd)
        ELSE IF line.kind = "text" /\ Last(line.text) = ":" THEN TakeHeader(counted, line.text, cwd)
        ELSE counted

\* The result as in the code: the number of files taken or passed over, -1 if there
\* were lines and none was a file.  cwd is what FTPGetCWD says, <<>> if it fails.
UnLslR(lines, cwd, now, microsoft) ==
    LET s == FoldLeft(LAMBDA t, line : TakeLine(t, line, cwd, now, microsoft), Unread, lines)
    IN  [files |-> s.files,
         result |-> IF s.linesread = 0 THEN 0 ELSE IF s.converted > 0 THEN s.converted ELSE -1]

-----------------------------------------------------------------------------
(* MLSD: each line has facts "name=value" and the name.                    *)

kSizeUnknown == -1
NoFacts == [rc |-> 0, mode |-> -1, fsize |-> kSizeUnknown, ftype |-> "-", ftime |-> kModTimeUnknown,
            perm |-> {}, owner |-> "", group |-> "", fname |-> <<>>]

\* One fact, after "OS." and the case of the letters are taken away; the ones not
\* named here say nothing.
TakeFact(m, f) ==
    CASE m.rc # 0 -> m
      [] m.rc = 0 /\ f.fact = "type" ->
            (CASE f.val = "file" -> [m EXCEPT !.ftype = "-"]
               [] f.val = "dir" -> [m EXCEPT !.ftype = "d"]
               [] f.val \in {"cdir", "pdir"} -> [m EXCEPT !.rc = -2]
               [] OTHER -> [m EXCEPT !.rc = -1])
      [] m.rc = 0 /\ f.fact = "UNIX.mode" -> [m EXCEPT !.mode = f.val % 512]
      [] m.rc = 0 /\ f.fact = "perm" -> [m EXCEPT !.perm = f.val]
      [] m.rc = 0 /\ f.fact = "size" -> [m EXCEPT !.fsize = f.val]
      [] m.rc = 0 /\ f.fact = "modify" -> [m EXCEPT !.ftime = UnMDTMDate(f.val)]
      [] m.rc = 0 /\ f.fact = "UNIX.owner" -> [m EXCEPT !.owner = f.val]
      [] m.rc = 0 /\ f.fact = "UNIX.group" -> [m EXCEPT !.group = f.val]
      [] OTHER -> m

\* The facts end at the first space; a line without one, or without any fact, is no
\* line of MLSD.  Only a blank line is read: as a file with no name.
UnMlsT(line) ==
    IF line.kind = "text" /\ line.text = <<>> THEN NoFacts
    ELSE IF line.kind # "mls" \/ line.facts = <<>> THEN [NoFacts EXCEPT !.rc = -1]
    ELSE [FoldLeft(TakeFact, NoFacts, line.facts) EXCEPT !.fname = line.name]

\* The plug, as "ls -l" would print it: the type, three digits of mode where one is
\* known (perm says only what the client may do and fills the last), the owner, and
\* the group if there is an owner.
Allowed(m) ==
    LET Bit(letter, n) == IF letter \in m.perm THEN n ELSE 0
    IN  IF m.ftype = "d" THEN Bit("e", 1) + Bit("c", 2) + Bit("l", 4) ELSE Bit("w", 2) + Bit("r", 4)

Plug(m) ==
    LET mode == CASE m.mode # -1 -> <<m.mode \div 64, (m.mode \div 8) % 8, m.mode % 8>>
                  [] m.mode = -1 /\ m.perm # {} -> <<0, 0, Allowed(m)>>
                  [] OTHER -> <<>>
        owned == IF m.owner = "" THEN <<>> ELSE IF m.group = "" THEN <<m.owner>> ELSE <<m.owner, m.group>>
    IN  [type |-> m.ftype, mode |-> mode, owned |-> owned]

TakeMls(s, line) ==
    LET m == UnMlsT(line) IN
    CASE m.rc = 0 /\ PathContainsIntermediateDotDotSubDir(m.fname) -> [s EXCEPT !.ignored = @ + 1]
      [] m.rc = 0 /\ ~PathContainsIntermediateDotDotSubDir(m.fname) ->
            [s EXCEPT !.converted = @ + 1,
                      !.files = Append(@, [relname |-> m.fname, type |-> m.ftype, size |-> m.fsize,
                                           mdtm |-> m.ftime, mode |-> m.mode, plug |-> Plug(m)])]
      [] m.rc = -2 -> [s EXCEPT !.ignored = @ + 1]
      [] OTHER -> s

UnMlsD(lines) ==
    LET s == FoldLeft(TakeMls, [files |-> <<>>, converted |-> 0, ignored |-> 0], lines)
    IN  [files |-> s.files,
         result |-> CASE s.converted > 0 -> s.converted
                      [] s.converted = 0 /\ (lines = <<>> \/ s.ignored > 0) -> 0
                      [] OTHER -> -1]

-----------------------------------------------------------------------------
(* What servers print.  A tree is a sequence of entries                    *)
(* [name, type, size, linkto, date, in], in the entries of a directory.    *)

MonthName == <<<<"J","a","n">>, <<"F","e","b">>, <<"M","a","r">>, <<"A","p","r">>, <<"M","a","y">>, <<"J","u","n">>,
               <<"J","u","l">>, <<"A","u","g">>, <<"S","e","p">>, <<"O","c","t">>, <<"N","o","v">>, <<"D","e","c">>>>
TwoDigits(n) == <<n \div 10, n % 10>>
DateDigits(tm) == TwoDigits(tm.mon) \o TwoDigits(tm.day) \o TwoDigits(tm.hr) \o <<0, 0, 0, 0>>
MdtmDigits(tm) == TwoDigits(tm.year \div 100) \o TwoDigits(tm.year % 100) \o DateDigits(tm)
Y2kDigits(tm) == <<1, 9>> \o <<(tm.year - 1900) \div 100>> \o TwoDigits((tm.year - 1900) % 100) \o DateDigits(tm)

\* The style of a listing: the form of its dates, or the server's own format.
Stamp(style, tm) ==
    CASE style = "year" -> [form |-> "year", month |-> MonthName[tm.mon], day |-> tm.day, year |-> tm.year]
      [] style = "time" -> [form |-> "time", month |-> MonthName[tm.mon], day |-> tm.day, hr |-> tm.hr]
      [] style = "iso" -> [form |-> "iso", date |-> tm]
      [] style = "dos" -> [mon |-> tm.mon, day |-> tm.day, year |-> tm.year % 100, pm |-> tm.hr >= 12,
                           hr |-> IF tm.hr % 12 = 0 THEN 12 ELSE tm.hr % 12]

DotNames == {<<".">>, <<".", ".">>}
MlsType(f) == CASE f.name = <<".">> -> "cdir" [] f.name = <<".", ".">> -> "pdir"
                [] OTHER -> IF f.type = "d" THEN "dir" ELSE "file"

EntryLine(style, f) ==
    CASE style = "dos" -> [kind |-> "dos", name |-> f.name, dir |-> f.type = "d", size |-> f.size,
                           stamp |-> Stamp(style, f.date)]
      [] style = "mls" -> [kind |-> "mls", name |-> f.name,
                           facts |-> <<[fact |-> "type", val |-> MlsType(f)], [fact |-> "size", val |-> f.size],
                                       [fact |-> "modify", val |-> MdtmDigits(f.date)],
                                       [fact |-> "UNIX.mode", val |-> 420]>>]
      [] OTHER -> [kind |-> "unix", name |-> f.name, type |-> f.type, size |-> f.size, linkto |-> f.linkto,
                   stamp |-> Stamp(style, f.date)]

Text(s) == [kind |-> "text", text |-> s]
Total == Text(<<"t", "o", "t", "a", "l">>)

\* "ls -lR": the top directory, then each directory in it under its header, which
\* begins with prefix.  The other servers list one directory.
Listing(tree, style, prefix) ==
    LET EntryLines(es) == [k \in DOMAIN es |-> EntryLine(style, es[k])]
        Dir(f) == IF f.type # "d" \/ f.name \in DotNames THEN <<>>
                  ELSE <<Text(<<>>), Text(prefix \o f.name \o <<":">>), Total>> \o EntryLines(f.in)
    IN  IF style \in {"dos", "mls"} THEN EntryLines(tree)
        ELSE <<Total>> \o EntryLines(tree) \o FlattenSeq([k \in DOMAIN tree |-> Dir(tree[k])])

\* The files there are.
RECURSIVE FilesIn(_, _)
FilesIn(tree, dir) ==
    LET real == SelectSeq(tree, LAMBDA f : f.name \notin DotNames /\ f.type \notin {"b", "c", "s"})
        Below(f) == IF f.type = "d" THEN FilesIn(f.in, dir \o f.name \o <<"/">>) ELSE <<>>
    IN  [k \in DOMAIN real |-> [real[k] EXCEPT !.name = dir \o @]]
        \o FlattenSeq([k \in DOMAIN real |-> Below(real[k])])

-----------------------------------------------------------------------------
(* Properties.                                                             *)

SameDate(style, tm, t) == t = mktime(IF style = "year" THEN [tm EXCEPT !.hr = 23] ELSE tm)
SameFile(style, f, r) ==
    /\ r.relname = f.name
    /\ r.type = IF f.type = "l" /\ style \in {"dos", "mls"} THEN "-" ELSE f.type
    /\ r.size = IF style = "dos" /\ f.type = "d" THEN 0 ELSE f.size
    /\ SameDate(style, f.date, r.mdtm)
    /\ style \notin {"dos", "mls"} => r.rlinkto = f.linkto

\* A listing reads back as the files it was made from: each of them once, in order,
\* by its name from the listed directory, with its type, its size and its date,
\* without "." and ".." and without devices; and their number is the result
\* (UnLslR, unls.c:576-760, UnLslRLine, UnDosLine, UnMlsD).  Headers may begin with
\* nothing, with "./" or with the client's directory; in the last case "." and ".."
\* must not be listed, since they are looked for at the wrong place there
\* (unls.c:649, 742).
ListingReadBack(tree, style, prefix, cwd, now) ==
    LET lines == Listing(tree, style, prefix)
        got == IF style = "mls" THEN UnMlsD(lines) ELSE UnLslR(lines, cwd, now, style = "dos")
        there == IF style \in {"dos", "mls"} THEN SelectSeq(FilesIn(tree, <<>>), LAMBDA f : "/" \notin ToSet(f.name))
                 ELSE FilesIn(tree, <<>>)
    IN  /\ Len(got.files) = Len(there)
        /\ \A k \in DOMAIN there : SameFile(style, there[k], got.files[k])
        /\ there # <<>> => got.result = Len(there)

\* Dates read back: one printed without its year, of any file up to 362 days old,
\* unless it is of 29 February; and one in the digits of MDTM, also from a server
\* that counts its years from 1900 (unls.c:503-536, u_unmdtm.c:20-68).
DatesReadBack(tm, now) ==
    /\ (/\ mktime(now) - mktime(tm) \in 0..(24 * 362)
        /\ ~(tm.mon = 2 /\ tm.day = 29)) => Stamped(Stamp("time", tm), now) = mktime(tm)
    /\ UnMDTMDate(MdtmDigits(tm)) = mktime(tm)
    /\ tm.year \in 2000..2009 => UnMDTMDate(Y2kDigits(tm)) = mktime(tm)

=============================================================================
