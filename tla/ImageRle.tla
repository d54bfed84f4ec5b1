------------------------------ MODULE ImageRle ------------------------------
(***************************************************************************)
(* The run-length compression of bitmaps (image_compression/main.c).  A    *)
(* pixel is a sequence of bytes, which are signed here; an image is the    *)
(* sequence of its pixels, and a compressed file the sequence of its       *)
(* blocks, each a pixel and a count of 32 bits.  Headers are kept as they  *)
(* are but for the compression flag, and rows have no padding.             *)
(***************************************************************************)
EXTENDS Integers, Sequences

\* Only what is told apart: a negative byte is extended over all the bytes above it,
\* so that they no longer count.
convertPixelToInt(pixel) ==
    LET negative == {k \in DOMAIN pixel : pixel[k] < 0}
    IN  IF negative = {} THEN pixel
        ELSE SubSeq(pixel, 1, CHOOSE k \in negative : \A j \in negative : k <= j)

\* One pixel: when the value changes a block is stored, with the pixel just read and
\* the count of the run before it.
CompressPixel(s, pixel) ==
    LET value == convertPixelToInt(pixel) IN
    CASE s.isFirst -> [s EXCEPT !.isFirst = FALSE, !.previous = value]
      [] ~s.isFirst /\ value # s.previous ->
            [s EXCEPT !.blocks = Append(@, [pixel |-> pixel, count |-> s.count]),
                      !.count = 1, !.previous = value]
      [] OTHER -> [s EXCEPT !.count = @ + 1]

\* The loop over the pixels; nothing is stored for the last run.
Compressed(pixels) ==
    LET after[k \in 0..Len(pixels)] ==
            IF k = 0 THEN [isFirst |-> TRUE, previous |-> <<>>, count |-> 1, blocks |-> <<>>]
            ELSE CompressPixel(after[k - 1], pixels[k])
    IN  after
compressImage(pixels) == Compressed(pixels)[Len(pixels)].blocks

BufferRoom_DecompressionFits(pixelCount, size) == pixelCount * size

\* The bytes allocated for the pixels of an image.
BufferRoom(pixelCount, size) == pixelCount * (size + 4)

\* One block; at the end of the file the last one counts again.
DecompressBlock(buffer, blocks, k) ==
    LET b == blocks[IF k > Len(blocks) THEN Len(blocks) ELSE k]
    IN  buffer \o [j \in 1..b.count |-> b.pixel]

\* Blocks are read until there are enough pixels, which takes as many turns at most, for
\* each block has one.  What is written is only the image's size.
Unpacked(blocks, pixelCount) ==
    LET after[k \in 0..pixelCount] ==
            IF k = 0 THEN <<>>
            ELSE IF Len(after[k - 1]) >= pixelCount THEN after[k - 1]
            ELSE DecompressBlock(after[k - 1], blocks, k)
    IN  after
decompressImage(blocks, pixelCount) == SubSeq(Unpacked(blocks, pixelCount)[pixelCount], 1, pixelCount)

-----------------------------------------------------------------------------

\* A file that compressImage made of an image of more than one value can be read
\* again: the pixels never run over the buffer, although the last run is missing and
\* another is repeated for it (main.c:187-202).
DecompressionFits(pixels) ==
    LET blocks == compressImage(pixels)
        size == Len(pixels[1])
    IN  blocks # <<>> =>
          /\ Len(Unpacked(blocks, Len(pixels))[Len(pixels)]) * size <= BufferRoom(Len(pixels), size)
          /\ Len(decompressImage(blocks, Len(pixels))) = Len(pixels)

=============================================================================
