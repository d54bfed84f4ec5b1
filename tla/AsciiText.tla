----------------------------- MODULE AsciiText -----------------------------
(***************************************************************************)
(* Text transfers.  FTP sends the lines of a text file with CR LF at their *)
(* ends; FTPGetOneF turns what arrives into the line ends of this system,  *)
(* FTPPutOneF turns the file into what is sent, FTPLocalASCIIFileSize says *)
(* how long that will be, and FTPASCIILocalFileSeek finds the place in the *)
(* file from which an interrupted upload goes on.                          *)
(*                                                                         *)
(* Each of them works on blocks, and a line end may lie across two: the    *)
(* translation remembers how the block before ended.  Blocks come off the  *)
(* network in any sizes, and off the disk in whole buffers but the last.   *)
(***************************************************************************)
EXTENDS Integers, Sequences, SequencesExt

CONSTANTS
    EOLN,     \* cip->textEOLN, one or two bytes
    OutSize,  \* sizeof(outbuf) in FTPGetOneF, more than two
    InSize    \* sizeof(inbuf) in FTPPutOneF

CR == "\r"
LF == "\n"

-----------------------------------------------------------------------------
(* Downloads.                                                              *)

\* The state of the loop: the local file and the bytes the disk takes, the output
\* buffer, whether a CR or a CR CR was left over by the block before, and whether a
\* local write has failed, which leaves the loop by the label brk.
Opened(disk) == [file |-> <<>>, disk |-> disk, out |-> <<>>, cr |-> FALSE, crcr |-> FALSE,
                 failed |-> FALSE]

Flush(s) ==
    LET all == s.file \o s.out
    IN  IF Len(all) > s.disk
        THEN [s EXCEPT !.file = SubSeq(all, 1, s.disk), !.out = <<>>, !.failed = TRUE]
        ELSE [s EXCEPT !.file = all, !.out = <<>>]

\* The label add_eoln: room for two bytes is made before one line end is added.
AddEoln(s) ==
    LET r == IF Len(s.out) + 2 >= OutSize THEN Flush(s) ELSE s
    IN  IF r.failed THEN r ELSE [r EXCEPT !.out = @ \o EOLN]

RECURSIVE FromBlock(_, _), AfterCR(_, _), AfterCRCR(_, _)

\* CR CR LF is one line end, as some servers send it; CR CR before anything else is
\* two of them.
AfterCRCR(s, src) ==
    IF src[1] = LF THEN FromBlock(AddEoln(s), Tail(src)) ELSE FromBlock(AddEoln(AddEoln(s)), src)

AfterCR(s, src) ==
    CASE src[1] = LF -> FromBlock(AddEoln(s), Tail(src))
      [] src[1] = CR -> IF Len(src) = 1 THEN [s EXCEPT !.crcr = TRUE] ELSE AfterCRCR(s, Tail(src))
      [] OTHER -> FromBlock(AddEoln(s), src)

\* One turn of the inner loop after another, on what is left of the block.
FromBlock(s, src) ==
    LET r == IF Len(s.out) >= OutSize THEN Flush(s) ELSE s
    IN  IF src = <<>> \/ s.failed THEN s
        ELSE IF r.failed THEN r
        ELSE IF r.crcr THEN AfterCRCR([r EXCEPT !.crcr = FALSE], src)
        ELSE IF r.cr THEN AfterCR([r EXCEPT !.cr = FALSE], src)
        ELSE CASE src[1] = LF -> FromBlock(AddEoln(r), Tail(src))
               [] src[1] = CR -> IF Len(src) = 1 THEN [r EXCEPT !.cr = TRUE] ELSE AfterCR(r, Tail(src))
               [] OTHER -> FromBlock([r EXCEPT !.out = Append(@, src[1])], Tail(src))

\* One block from the data connection.
GetBlock_SplitInvisible(s, block) == IF s.failed THEN s ELSE Flush(FromBlock([s EXCEPT !.crcr = FALSE], block))

GetBlock(s, block) == IF s.failed THEN s ELSE Flush(FromBlock(s, block))

\* After the last block, carriage returns left over become line ends, each written by
\* itself.  That holds of a transfer that timed out, was cancelled or lost its
\* connection as of one that came to its end: each leaves the loop by break, and only
\* a local write that failed passes this by.
LastEolns(s) ==
    IF s.failed \/ ~(s.cr \/ s.crcr) THEN s
    ELSE LET r == Flush([s EXCEPT !.out = EOLN])
         IN  IF s.crcr /\ ~r.failed THEN Flush([r EXCEPT !.out = EOLN]) ELSE r

\* The blocks are the ones that arrived: all of them, or of a transfer that failed the
\* first.
FTPGetText(blocks, disk) == LastEolns(FoldLeft(GetBlock, Opened(disk), blocks))

-----------------------------------------------------------------------------
(* Uploads.                                                                *)

\* The translation of what is left of a block whose last byte is not a CR; the byte
\* after a CR at the end of it is the zero put in the place of the CR taken off.
RECURSIVE Translated(_)
Translated(src) ==
    IF src = <<>> THEN <<>>
    ELSE IF src[1] = CR /\ Len(src) > 1 /\ src[2] = LF THEN <<CR, LF>> \o Translated(SubSeq(src, 3, Len(src)))
    ELSE (IF src[1] \in {CR, LF} THEN <<CR, LF>> ELSE <<src[1]>>) \o Translated(Tail(src))

\* One block of the file.  A CR at its end waits for the next block; a block that
\* was nothing else ends the loop, whatever the file still holds.
PutBlock_UploadIsNetText(s, block) ==
    IF s.stopped THEN s
    ELSE [s EXCEPT !.sent = @ \o Translated(block), !.prev = Last(block)]

PutBlock(s, block) ==
    LET src == IF Last(block) = CR THEN Front(block) ELSE block
    IN  IF s.stopped THEN s
        ELSE IF src = <<>> THEN [s EXCEPT !.prev = CR, !.stopped = TRUE]
        ELSE IF src[1] = LF
             THEN [s EXCEPT !.sent = @ \o <<CR, LF>> \o Translated(Tail(src)), !.prev = Last(block)]
             ELSE [s EXCEPT !.sent = @ \o (IF s.prev = CR THEN <<CR, LF>> ELSE <<>>) \o Translated(src),
                            !.prev = Last(block)]

\* The file in buffers of InSize bytes, and the line end owed for a CR at its end.
Blocks(text) ==
    [k \in 1..((Len(text) + InSize - 1) \div InSize) |->
        SubSeq(text, (k - 1) * InSize + 1, IF k * InSize < Len(text) THEN k * InSize ELSE Len(text))]

FTPPutText(text) ==
    LET s == FoldLeft(PutBlock, [sent |-> <<>>, prev |-> "", stopped |-> FALSE], Blocks(text))
    IN  IF s.prev = CR THEN s.sent \o <<CR, LF>> ELSE s.sent

\* One for each byte and one more for each LF that has no CR before it, over the
\* blocks.
FTPLocalASCIIFileSize(text) ==
    FoldLeft(LAMBDA a, c : [n |-> a.n + (IF c = LF /\ a.prevc # CR THEN 2 ELSE 1), prevc |-> c],
             [n |-> 0, prevc |-> ""], text).n

\* The bytes of the file to skip so that skip bytes of what is sent are skipped, or
\* -1: the file holds a CR, is too short, or the place lies inside a line end.
FTPASCIILocalFileSeek(text, skip) ==
    LET r == FoldLeft(LAMBDA a, c :
                          IF a.count <= 0 THEN a
                          ELSE CASE c = CR -> [a EXCEPT !.count = -1]
                                 [] c = LF -> [pos |-> a.pos + 1, count |-> a.count - 2]
                                 [] OTHER -> [pos |-> a.pos + 1, count |-> a.count - 1],
                      [pos |-> 0, count |-> skip], text)
    IN  IF r.count = 0 THEN r.pos ELSE -1

-----------------------------------------------------------------------------
(* Properties of one text, cut into blocks.                                *)

\* What the bytes of the network mean, with no blocks: read from the left, CR LF,
\* CR CR LF, LF and a CR by itself are line ends, and CR CR before anything else two.
RECURSIVE LinesEnded(_)
LinesEnded(t) ==
    LET Rest(n) == LinesEnded(SubSeq(t, n + 1, Len(t)))
    IN  IF t = <<>> THEN <<>>
        ELSE IF IsPrefix(<<CR, CR, LF>>, t) THEN EOLN \o Rest(3)
        ELSE IF IsPrefix(<<CR, CR>>, t) THEN EOLN \o EOLN \o Rest(2)
        ELSE IF IsPrefix(<<CR, LF>>, t) THEN EOLN \o Rest(2)
        ELSE (IF t[1] \in {CR, LF} THEN EOLN ELSE <<t[1]>>) \o Rest(1)

\* However the network cuts a text into blocks, the file written is the text with
\* its line ends turned into those of this system (io_get.c:541-725); when the disk
\* is full it is a beginning of that, and the transfer has failed.  Of a transfer
\* that breaks off the text is what arrived, a CR at the end of it being a line end.
SplitInvisible(blocks, disk) ==
    LET want == LinesEnded(FlattenSeq(blocks))
        got == FTPGetText(blocks, disk)
    IN  /\ got.failed <=> Len(want) > disk
        /\ got.file = IF got.failed THEN SubSeq(want, 1, disk) ELSE want

\* What is uploaded is the text with each of its line ends, CR LF, CR or LF, sent as
\* CR LF, for every length of the file against the buffer (io_put.c:622-696): except
\* that of a file that ends with CR CR, the second alone in the last buffer, one line
\* end is lost.
RECURSIVE NetText(_)
NetText(t) ==
    IF t = <<>> THEN <<>>
    ELSE IF IsPrefix(<<CR, LF>>, t) THEN <<CR, LF>> \o NetText(SubSeq(t, 3, Len(t)))
    ELSE (IF t[1] \in {CR, LF} THEN <<CR, LF>> ELSE <<t[1]>>) \o NetText(Tail(t))

UploadIsNetText(text) ==
    /\ ~(Len(text) % InSize = 1 /\ Len(text) > 1 /\ IsSuffix(<<CR, CR>>, text)) =>
           FTPPutText(text) = NetText(text)
    \* the size announced is the size sent, when no CR stands without its LF
    /\ (\A i \in 1..Len(text) : text[i] = CR => i < Len(text) /\ text[i + 1] = LF) =>
           FTPLocalASCIIFileSize(text) = Len(FTPPutText(text))
    \* an upload resumed where the seek says sends the rest of what the whole upload sends
    /\ \A skip \in 1..(2 * Len(text)) :
          LET p == FTPASCIILocalFileSeek(text, skip)
          IN  p # -1 => FTPPutText(SubSeq(text, 1, p)) \o NetText(SubSeq(text, p + 1, Len(text)))
                           = NetText(text) /\ Len(FTPPutText(SubSeq(text, 1, p))) = skip

=============================================================================
