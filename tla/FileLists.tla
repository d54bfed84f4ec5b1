----------------------------- MODULE FileLists -----------------------------
(***************************************************************************)
(* The lists of lines and of files in which the results of globs, lists    *)
(* and tree walks are kept (linelist.c): doubly linked, and for sorting    *)
(* turned into a vector of pointers and back.                              *)
(*                                                                         *)
(* The nodes live on a heap; freeing one leaves every pointer to it        *)
(* dangling.  wanted and wantedLines are histories: the nodes that belong  *)
(* to the two lists by the calls made, in order.                           *)
(***************************************************************************)
EXTENDS Integers, Sequences, FiniteSets, SequencesExt

CONSTANTS
    Items,     \* what a node may hold: records [name, mdtm, size, depth] of numbers
    MaxNodes   \* nodes in use beyond which the program adds none

ItemType == [name : Int, mdtm : Int, size : Int, depth : Int]

ASSUME ListsAssumption == Items \subseteq ItemType /\ MaxNodes \in Nat

VARIABLES
    heap,         \* the nodes allocated and not freed, by address
    lines,        \* a FTPLineList
    infos,        \* a FTPFileInfoList
    wantedLines,  \* history: the lines added and not removed
    wanted,       \* history: the files added and not removed
    changed       \* history: files were added since the list was last sorted

listVars == <<heap, lines, infos, wantedLines, wanted, changed>>

NULL == 0

-----------------------------------------------------------------------------
(* Nodes and lists.                                                        *)

InitLineList == [first |-> NULL, last |-> NULL, n |-> 0]
InitFileInfoList == InitLineList
FileList == [first |-> NULL, last |-> NULL, n |-> 0, vec |-> <<>>, vectored |-> FALSE,
             sortKey |-> "", sortOrder |-> ""]

\* malloc returns an address that is not in use.
Unused == (1..MaxNodes) \ DOMAIN heap
Fresh == CHOOSE a \in Unused : TRUE

With(h, a, node) == [x \in DOMAIN h \cup {a} |-> IF x = a THEN node ELSE h[x]]
Without(h, a) == [x \in DOMAIN h \ {a} |-> h[x]]
Point(h, a, field, to) == IF a = NULL THEN h ELSE [h EXCEPT ![a][field] = to]

\* AddLine and AddFileInfo: the list as <<heap, list>> after node a was put last.
AddLine(h, l, a, item) ==
    LET node == [item |-> item, next |-> NULL, prev |-> IF l.first = NULL THEN NULL ELSE l.last]
    IN  IF l.first = NULL
        THEN <<With(h, a, node), [l EXCEPT !.first = a, !.last = a, !.n = 1]>>
        ELSE <<Point(With(h, a, node), l.last, "next", a), [l EXCEPT !.last = a, !.n = @ + 1]>>
AddFileInfo(h, l, a, item) == AddLine(h, l, a, item)

RemoveLine_ListsHold(h, l, a) ==
    LET next == h[a].next
        prev == h[a].prev
    IN  <<Without(Point(Point(h, next, "prev", prev), prev, "next", next), a),
          [l EXCEPT !.first = IF @ = a THEN next ELSE @, !.n = @ - 1]>>

\* RemoveLine and RemoveFileInfo: what went around node a goes past it.
RemoveLine(h, l, a) ==
    LET next == h[a].next
        prev == h[a].prev
    IN  <<Without(Point(Point(h, next, "prev", prev), prev, "next", next), a),
          [l EXCEPT !.first = IF @ = a THEN next ELSE @,
                    !.last = IF @ = a THEN prev ELSE @,
                    !.n = @ - 1]>>
RemoveFileInfo(h, l, a) == RemoveLine(h, l, a)

\* The nodes of a list as a loop from node a by next meets them.
Walk(h, a) ==
    LET at[k \in Nat] == IF k <= 1 THEN a ELSE IF at[k - 1] \in DOMAIN h THEN h[at[k - 1]].next ELSE NULL
        met == CHOOSE n \in 0..Cardinality(DOMAIN h) :
                   at[n + 1] \notin DOMAIN h /\ \A k \in 1..n : at[k] \in DOMAIN h
    IN  [k \in 1..met |-> at[k]]

DisposeLineListContents(h, l) == [x \in DOMAIN h \ Range(Walk(h, l.first)) |-> h[x]]
DisposeFileInfoListContents(h, l) == DisposeLineListContents(h, l)

-----------------------------------------------------------------------------
(* The comparisons of SortFileInfoList: negative, zero, positive.          *)

TimeCmp(a, b) == b.mdtm - a.mdtm
ReverseTimeCmp(a, b) == a.mdtm - b.mdtm
SizeCmp(a, b) == b.size - a.size
ReverseSizeCmp(a, b) == a.size - b.size
NameCmp(a, b) == a.name - b.name
ReverseNameCmp(a, b) == b.name - a.name
BreadthFirstCmp(a, b) == IF a.depth # b.depth THEN a.depth - b.depth ELSE a.name - b.name

Cmp(key, order, a, b) ==
    CASE key = "n" -> IF order = "a" THEN NameCmp(a, b) ELSE ReverseNameCmp(a, b)
      [] key = "t" -> IF order = "a" THEN TimeCmp(a, b) ELSE ReverseTimeCmp(a, b)
      [] key = "s" -> IF order = "a" THEN SizeCmp(a, b) ELSE ReverseSizeCmp(a, b)
      [] key = "b" -> BreadthFirstCmp(a, b)

Ordered(h, v, key, order) ==
    \A i, j \in 1..Len(v) : i < j => Cmp(key, order, h[v[i]].item, h[v[j]].item) <= 0

\* The vectors SortFileInfoList may leave: a list already sorted by the key is left,
\* or reversed for the other order; equal elements come in any order out of qsort.
SortedVectors(h, l, key, order) ==
    IF l.sortKey = key THEN {IF l.sortOrder = order THEN l.vec ELSE Reverse(l.vec)}
    ELSE {v \in Bijection(1..Len(l.vec), Range(l.vec)) : Ordered(h, v, key, order)}

-----------------------------------------------------------------------------
(* One call on the lists.                                                  *)

Room == Unused # {} /\ DOMAIN heap \subseteq 1..MaxNodes

CallAddLine(item) ==
    /\ Room
    /\ LET r == AddLine(heap, lines, Fresh, item)
       IN  heap' = r[1] /\ lines' = r[2]
    /\ wantedLines' = Append(wantedLines, Fresh)
    /\ UNCHANGED <<infos, wanted, changed>>

CallRemoveLine(k) ==
    /\ LET r == RemoveLine(heap, lines, wantedLines[k])
       IN  heap' = r[1] /\ lines' = r[2]
    /\ wantedLines' = RemoveAt(wantedLines, k)
    /\ UNCHANGED <<infos, wanted, changed>>

\* The nodes of a list may be added to and taken out while it is not a vector.
CallAddFileInfo(item) ==
    /\ Room /\ ~infos.vectored
    /\ LET r == AddFileInfo(heap, infos, Fresh, item)
       IN  heap' = r[1] /\ infos' = r[2]
    /\ wanted' = Append(wanted, Fresh)
    /\ changed' = TRUE
    /\ UNCHANGED <<lines, wantedLines>>

CallRemoveFileInfo(k) ==
    /\ ~infos.vectored
    /\ LET r == RemoveFileInfo(heap, infos, wanted[k])
       IN  heap' = r[1] /\ infos' = r[2]
    /\ wanted' = RemoveAt(wanted, k)
    /\ UNCHANGED <<lines, wantedLines, changed>>

kSizeUnknown == -1
kModTimeUnknown == -1
InitFileInfo(item) == [item EXCEPT !.size = kSizeUnknown, !.mdtm = kModTimeUnknown]

\* LineListToFileInfoList starts the list of files anew without freeing the old one,
\* which the callers have disposed of, and adds a file for each line, of which only
\* the name is known.  Its nodes get addresses of their own.
AddEach(h, src) ==
    LET added[k \in 0..Len(src)] ==
            IF k = 0 THEN <<h, FileList>>
            ELSE AddFileInfo(added[k - 1][1], added[k - 1][2], MaxNodes + k, InitFileInfo(h[src[k]].item))
    IN  added[Len(src)]

LineListToFileInfoList ==
    /\ wanted = <<>> /\ ~infos.vectored /\ wantedLines # <<>>
    /\ \A a \in DOMAIN heap : a <= MaxNodes
    /\ LET src == Walk(heap, lines.first)
           r == AddEach(heap, src)
       IN  /\ heap' = r[1] /\ infos' = r[2]
           /\ wanted' = [k \in 1..Len(src) |-> MaxNodes + k]
    /\ changed' = TRUE
    /\ UNCHANGED <<lines, wantedLines>>

Dispose ==
    \/ /\ wantedLines # <<>>
       /\ heap' = DisposeLineListContents(heap, lines)
       /\ lines' = InitLineList
       /\ wantedLines' = <<>>
       /\ UNCHANGED <<infos, wanted, changed>>
    \/ /\ wanted # <<>>
       /\ heap' = DisposeFileInfoListContents(heap, infos)
       /\ infos' = FileList
       /\ wanted' = <<>>
       /\ changed' = TRUE
       /\ UNCHANGED <<lines, wantedLines>>

VectorizeFileInfoList ==
    /\ ~infos.vectored
    /\ infos' = [infos EXCEPT !.vec = Walk(heap, infos.first), !.vectored = TRUE]
    /\ UNCHANGED <<heap, lines, wantedLines, wanted, changed>>

\* Breadth first is asked for in ascending order only: a list sorted anew in
\* descending order would come out ascending.
SortFileInfoList(key, order) ==
    /\ infos.vectored /\ (key = "b" => order = "a")
    /\ \E v \in SortedVectors(heap, infos, key, order) :
          /\ infos' = [infos EXCEPT !.vec = v, !.sortKey = key, !.sortOrder = order]
          /\ wanted' = v
    /\ changed' = (infos.sortKey = key /\ changed)
    /\ UNCHANGED <<heap, lines, wantedLines>>

\* The vector gives the nodes their links.
Relinked(h, v) ==
    [x \in DOMAIN h |->
        IF x \notin Range(v) THEN h[x]
        ELSE LET i == CHOOSE k \in 1..Len(v) : v[k] = x
             IN  [h[x] EXCEPT !.prev = IF i = 1 THEN NULL ELSE v[i - 1],
                              !.next = IF i < Len(v) THEN v[i + 1] ELSE NULL]]

UnvectorizeFileInfoList ==
    /\ infos.vectored
    /\ heap' = Relinked(heap, infos.vec)
    /\ infos' = [infos EXCEPT !.first = IF infos.vec = <<>> THEN NULL ELSE infos.vec[1],
                              !.last = IF infos.vec = <<>> THEN @ ELSE Last(infos.vec),
                              !.vec = <<>>, !.vectored = FALSE]
    /\ UNCHANGED <<lines, wantedLines, wanted, changed>>

ListInit ==
    /\ heap = <<>>
    /\ lines = InitLineList
    /\ infos = FileList
    /\ wantedLines = <<>>
    /\ wanted = <<>>
    /\ changed = TRUE

ListNext ==
    \/ \E item \in Items : CallAddLine(item) \/ CallAddFileInfo(item)
    \/ \E k \in 1..Len(wantedLines) : CallRemoveLine(k)
    \/ \E k \in 1..Len(wanted) : CallRemoveFileInfo(k)
    \/ LineListToFileInfoList
    \/ Dispose
    \/ VectorizeFileInfoList
    \/ UnvectorizeFileInfoList
    \/ \E key \in {"n", "t", "s", "b"}, order \in {"a", "d"} : SortFileInfoList(key, order)

ListSpec == ListInit /\ [][ListNext]_listVars

-----------------------------------------------------------------------------
(* Properties.                                                             *)

\* A sorted list is in the order its sortKey and sortOrder say, whatever sequence of
\* sorts and reversals led there (linelist.c:366-430): as long as no file was added
\* since, which the next sort by the same key would not notice.
SortedAsAsked ==
    infos.vectored /\ ~changed /\ infos.sortKey # "" =>
        Ordered(heap, infos.vec, infos.sortKey, infos.sortOrder)

\* The nodes read from address a by next or by prev are those of w, and then NULL.
ReadsAs(h, a, field, w) ==
    /\ a = IF w = <<>> THEN NULL ELSE w[1]
    /\ \A k \in 1..Len(w) :
          w[k] \in DOMAIN h /\ h[w[k]][field] = IF k < Len(w) THEN w[k + 1] ELSE NULL

\* Each list is the sequence of what was put into it and not taken out, in the order
\* of the calls or of the last sort: read from the front by next, read from the back
\* by prev, and by its count (linelist.c:65-124, 454-568).  A node of neither list is
\* not on the heap, no link leads to a freed node, and a sorted list is sorted.
ListsHold ==
    /\ SortedAsAsked
    /\ ReadsAs(heap, lines.first, "next", wantedLines)
    /\ ReadsAs(heap, lines.last, "prev", Reverse(wantedLines))
    /\ lines.n = Len(wantedLines)
    /\ infos.n = Len(wanted)
    /\ IF infos.vectored THEN infos.vec = wanted
       ELSE /\ ReadsAs(heap, infos.first, "next", wanted)
            /\ ReadsAs(heap, infos.last, "prev", Reverse(wanted))
    /\ DOMAIN heap = Range(wantedLines) \cup Range(wanted)
    /\ \A a \in DOMAIN heap : {heap[a].next, heap[a].prev} \subseteq DOMAIN heap \cup {NULL}

=============================================================================
