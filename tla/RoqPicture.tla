----------------------------- MODULE RoqPicture -----------------------------
(***************************************************************************)
(* What one chunk of a RoQ video does to the picture: the list of blocks   *)
(* that setupQuad makes, the vectors of RoQPrepMcomp, blitVQQuad32fs over  *)
(* them, and decodeCodeBook (Cinematic.cpp).  Against each stands the      *)
(* video file, as its format has it, that is decoded.                      *)
(*                                                                         *)
(* A cell is two by two pixels.  Its content is the part of a code book    *)
(* entry that was blitted to it, the offset in the image of what was moved *)
(* to it, or "kept".  Of code books, only the layout that readQuadInfo     *)
(* leaves possible is modelled: four bytes a pixel, whole and not doubled. *)
(***************************************************************************)
EXTENDS Integers, Sequences, SequencesExt, FiniteSets

CONSTANTS RoqFrames,     \* frames, as an encoder thinks of them (see Units)
          RoqBooks,      \* code books: cells of six bytes, and fours of cells
          BookSize       \* 256, in a book

ASSUME RoqAssumption ==
  /\ BookSize \in Nat \ {0}
  /\ \A f \in RoqFrames : f.w % 8 = 0 /\ f.h % 8 = 0 /\ Len(f.blocks) * 64 = f.w * f.h
  /\ \A b \in RoqBooks : Len(b.cells) \in 1..BookSize /\ Len(b.fours) <= BookSize

VARIABLES frame,         \* the chunk that is decoded
          blit,          \* newd, celdata, data, index and i of blitVQQuad32fs
          screen,        \* the half of the image that is drawn to
          tables         \* a code book of a file, and what was made of it

roqVars == <<frame, blit, screen, tables>>

CellsOf(f) == (0..f.w \div 2 - 1) \X (0..f.h \div 2 - 1)

-----------------------------------------------------------------------------
(* The file.  A block is [code, entry | to | parts]: an entry of 8x8, a    *)
(* vector, nothing, or four blocks of 4x4, which may have four entries.    *)

\* 8x8 blocks go through the picture by squares of 16x16, and in a square by rows.
Rank(x, y) == <<y \div 16, x \div 16, y \div 8, x \div 8>>
Before(p, q) == \E k \in 1..4 : /\ Rank(p[1], p[2])[k] < Rank(q[1], q[2])[k]
                                /\ \A j \in 1..k - 1 : Rank(p[1], p[2])[j] = Rank(q[1], q[2])[j]
Corners(f) == {<<8 * x, 8 * y>> : x \in 0..f.w \div 8 - 1, y \in 0..f.h \div 8 - 1}
BlockAt(f, p) == f.blocks[1 + Cardinality({q \in Corners(f) : Before(q, p)})]

\* Vectors are taken from their mean, in steps of two pixels when the picture is
\* four times as wide as it is high.
Step(f) == IF f.w = 4 * f.h THEN 2 ELSE 1
VectorByte(f, to) == 16 * (8 - to[1] \div Step(f) - f.mean[1]) + (8 - to[2] \div Step(f) - f.mean[2])

Bytes(f, b) == CASE b.code = "vq" -> b.entries
                 [] b.code = "move" -> <<VectorByte(f, b.to)>>
                 [] OTHER -> <<>>
Unit(f, b) == [code |-> CASE b.code = "keep" -> 0 [] b.code = "move" -> 1
                          [] b.code = "vq" /\ Len(b.entries) = 1 -> 2 [] OTHER -> 3,
               bytes |-> Bytes(f, b)]
Units(f) == FlattenSeq([i \in DOMAIN f.blocks |->
              <<Unit(f, f.blocks[i])>> \o
                (IF f.blocks[i].code # "drop" THEN <<>>
                 ELSE [k \in 1..4 |-> Unit(f, f.blocks[i].parts[k])])])

\* Eight codes to a word, that stands before the bytes of the first.
CodeAt(u, i) == IF i <= Len(u) THEN u[i].code ELSE 0
Word(u, i) == LET C(k) == CodeAt(u, i + k)
                  high == 64 * C(0) + 16 * C(1) + 4 * C(2) + C(3)
                  low == 64 * C(4) + 16 * C(5) + 4 * C(6) + C(7)
              IN <<low, high>>
Stream(f) == LET u == Units(f)
             IN FlattenSeq([i \in DOMAIN u |-> (IF i % 8 = 1 THEN Word(u, i) ELSE <<>>) \o u[i].bytes])

\* The content of cell <<x, y>> of a block of n cells a side.
Content(f, b, n, x, y) ==
  CASE b.code = "keep" -> "kept"
    [] b.code = "move" -> <<"moved", 4 * (f.w * b.to[2] + b.to[1])>>
    [] b.code = "vq" /\ Len(b.entries) = 1 -> <<n, b.entries[1], x, y>>
    [] OTHER -> <<1, b.entries[1 + 2 * y + x], 0, 0>>
Meant(f) ==
  [c \in CellsOf(f) |->
     LET p == <<8 * (c[1] \div 4), 8 * (c[2] \div 4)>>
         b == BlockAt(f, p)
     IN IF b.code # "drop" THEN Content(f, b, 4, c[1] % 4, c[2] % 4)
        ELSE Content(f, b.parts[1 + ((c[1] \div 2) % 2) + 2 * ((c[2] \div 2) % 2)], 2, c[1] % 2, c[2] % 2)]

-----------------------------------------------------------------------------
(* setupQuad and RoQPrepMcomp. *)

Quarters(x, y, q) == <<<<x, y>>, <<x + q, y>>, <<x, y + q>>, <<x + q, y + q>>>>

Listed(f, p, q) == IF p[1] + q <= f.w /\ p[2] + q <= f.h THEN <<p>> ELSE <<>>
recurseQuad8(f, p) == LET k == Quarters(p[1], p[2], 4)
                      IN Listed(f, p, 8) \o FlattenSeq([i \in 1..4 |-> Listed(f, k[i], 4)])
recurseQuad16(f, p) == LET k == Quarters(p[1], p[2], 8)
                       IN FlattenSeq([i \in 1..4 |-> recurseQuad8(f, k[i])])

Sixteens(n) == (n + 15) \div 16
setupQuad(f) ==
  FlattenSeq([i \in 1..Sixteens(f.w) * Sixteens(f.h) |->
    recurseQuad16(f, <<16 * ((i - 1) % Sixteens(f.w)), 16 * ((i - 1) \div Sixteens(f.w))>>)])
\* The null pointers stand where the list of a picture of whole 8x8 blocks ends.
numQuadCels(f) == LET n == (f.w * f.h) \div 16 IN n + n \div 4

\* A slip: the halves of the byte are exchanged.
PrepMcompSwapped(f, byte) ==
  LET double == IF f.w = 4 * f.h THEN 2 ELSE 1
      i == 4 * f.w * double
      j == 4 * double
  IN 0 - ((byte \div 16 + f.mean[2] - 8) * i + ((byte % 16) + f.mean[1] - 8) * j)

\* mcomp[byte], without the way from one half of the image to the other.
RoQPrepMcomp(f, byte) ==
  LET double == IF f.w = 4 * f.h THEN 2 ELSE 1
      i == 4 * f.w * double
      j == 4 * double
  IN 0 - (((byte % 16) + f.mean[2] - 8) * i + (byte \div 16 + f.mean[1] - 8) * j)

-----------------------------------------------------------------------------
(* blitVQQuad32fs. *)

Status(n) == setupQuad(frame)[n + 1]
Ended == blit.index >= numQuadCels(frame)
Data(n) == LET s == Stream(frame) IN IF n <= Len(s) THEN s[n] ELSE 0

\* The top two bits of the word are next; a word is read when eight were taken.
Celdata == IF blit.newd = 0 THEN Data(blit.data) + 256 * Data(blit.data + 1) ELSE blit.celdata
At == IF blit.newd = 0 THEN blit.data + 2 ELSE blit.data
Code == Celdata \div 16384
Took(bytes, blocks, left) ==
  blit' = [newd |-> IF blit.newd = 0 THEN 7 ELSE blit.newd - 1, celdata |-> (4 * Celdata) % 65536,
           data |-> At + bytes, index |-> blit.index + blocks, left |-> left]

\* n by n cells at p.
Draw(p, n, What(_, _)) ==
  screen' = [c \in DOMAIN screen |->
               LET x == c[1] - p[1] \div 2
                   y == c[2] - p[2] \div 2
               IN IF x \in 0..n - 1 /\ y \in 0..n - 1 THEN What(x, y) ELSE screen[c]]

Moved(byte) == <<"moved", RoQPrepMcomp(frame, byte)>>

Eight == blit.left = 0 /\ ~Ended /\ UNCHANGED <<frame, tables>>
Blit8 == /\ Eight /\ Code = 2 /\ Took(1, 5, 0)
         /\ Draw(Status(blit.index), 4, LAMBDA x, y : <<4, Data(At), x, y>>)
Move8 == /\ Eight /\ Code = 1 /\ Took(1, 5, 0)
         /\ Draw(Status(blit.index), 4, LAMBDA x, y : Moved(Data(At)))
Keep8 == /\ Eight /\ Code = 0 /\ Took(0, 5, 0)
         /\ UNCHANGED screen
Drop == /\ Eight /\ Code = 3 /\ Took(0, 1, 4)
        /\ UNCHANGED screen

Four == blit.left > 0 /\ UNCHANGED <<frame, tables>>

Blit4 == /\ Four /\ Code = 2 /\ Took(1, 1, blit.left - 1)
         /\ Draw(Status(blit.index), 2, LAMBDA x, y : <<2, Data(At), x, y>>)
Blit2 == /\ Four /\ Code = 3 /\ Took(4, 1, blit.left - 1)
         /\ Draw(Status(blit.index), 2, LAMBDA x, y : <<1, Data(At + 2 * y + x), 0, 0>>)
Move4 == /\ Four /\ Code = 1 /\ Took(1, 1, blit.left - 1)
         /\ Draw(Status(blit.index), 2, LAMBDA x, y : Moved(Data(At)))
Keep4 == /\ Four /\ Code = 0 /\ Took(0, 1, blit.left - 1)
         /\ UNCHANGED screen

blitVQQuad32fs == Blit8 \/ Move8 \/ Keep8 \/ Drop \/ Blit4 \/ Blit2 \/ Move4 \/ Keep4

-----------------------------------------------------------------------------
(* decodeCodeBook. *)

\* The file's book: its cells and fours one after the other, and how many of
\* each there are, where 256 does not fit: a whole book is said to have none.
BookBytes(b) == FlattenSeq(b.cells) \o FlattenSeq(b.fours)
BookFlags(b) == 256 * (Len(b.cells) % BookSize) + (Len(b.fours) % BookSize)

Clamp(n) == IF n < 0 THEN 0 ELSE IF n > 255 THEN 255 ELSE n
\* The tables of InitCinematic, in thousandths; floats are cut off at the point.
Cut(n) == IF n < 0 THEN 0 - (0 - n) \div 1000 ELSE n \div 1000
YY(y) == 64 * y + y \div 4
UB(u) == Cut(57204 * (2 * u - 255) + 32000)
VR(v) == Cut(45364 * (2 * v - 255) + 32000)
UG(u) == Cut(0 - 11512 * (2 * u - 255))
VG(v) == Cut(32000 - 23352 * (2 * v - 255))

yuv_to_rgb24(y, u, v) ==
  <<Clamp((YY(y) + VR(v)) \div 64), Clamp((YY(y) + UG(u) + VG(v)) \div 64), Clamp((YY(y) + UB(u)) \div 64)>>

\* vq2 from the first bytes, and a row of four pixels in vq4, and twice a row of
\* eight in vq8, for each of the two rows of each pair of cells.
Counts(flags) == IF flags = 0 THEN <<BookSize, BookSize>>
                 ELSE <<IF flags \div 256 = 0 THEN BookSize ELSE flags \div 256, flags % 256>>
Vq2(input, two) ==
  [i \in 1..4 * two |->
     LET at == 6 * ((i - 1) \div 4)
     IN yuv_to_rgb24(input[at + 1 + ((i - 1) % 4)], input[at + 5], input[at + 6])]
VQ2TO4(a, b, row) == <<a[2 * row + 1], a[2 * row + 2], b[2 * row + 1], b[2 * row + 2]>>
Twice(s) == [i \in 1..2 * Len(s) |-> s[(i + 1) \div 2]]
decodeCodeBook(input, flags) ==
  LET two == Counts(flags)[1]
      four == 2 * Counts(flags)[2]
      vq2 == Vq2(input, two)
      Cell(n) == SubSeq(vq2, 4 * n + 1, 4 * n + 4)
      Rows == FlattenSeq([i \in 1..four |->
                LET a == Cell(input[6 * two + 2 * i - 1])
                    b == Cell(input[6 * two + 2 * i])
                IN <<VQ2TO4(a, b, 0), VQ2TO4(a, b, 1)>>])
  IN [vq2 |-> vq2, vq4 |-> FlattenSeq(Rows),
      vq8 |-> FlattenSeq([r \in DOMAIN Rows |-> Twice(Rows[r]) \o Twice(Rows[r])])]

DecodeBook == /\ tables.made = <<>>
              /\ tables' = [tables EXCEPT !.made = decodeCodeBook(BookBytes(tables.of), BookFlags(tables.of))]
              /\ UNCHANGED <<frame, blit, screen>>

-----------------------------------------------------------------------------
RoqInit == /\ frame \in RoqFrames
           /\ blit = [newd |-> 0, celdata |-> 0, data |-> 1, index |-> 0, left |-> 0]
           /\ screen = [c \in CellsOf(frame) |-> "kept"]
           /\ \E b \in RoqBooks : tables = [of |-> b, made |-> <<>>]

RoqNext == blitVQQuad32fs \/ DecodeBook

\* When the null pointer is reached, each cell shows what the file has for it, and
\* the chunk is used up: codes and bytes were told apart all along, whatever mix
\* of blocks there was before (blitVQQuad32fs).
PictureAsWritten ==
  Ended => screen = Meant(frame) /\ blit.data = Len(Stream(frame)) + 1 /\ blit.left = 0

\* Each pixel of a four, whole or doubled, is the pixel of its cell, in the color
\* of the cell's bytes up to five levels (decodeCodeBook, yuv_to_rgb24).
Near(n, exact) == n \in Clamp(exact \div 1000 - 5)..Clamp(exact \div 1000 + 5)
IsColor(rgb, y, u, v) ==
  /\ Near(rgb[1], 1000 * y + 1402 * (v - 128))
  /\ Near(rgb[2], 1000 * y - 344 * (u - 128) - 714 * (v - 128))
  /\ Near(rgb[3], 1000 * y + 1772 * (u - 128))
BookAsWritten ==
  LET m == tables.made
      b == tables.of
      Shows(rgb, n, x, y) == LET c == b.cells[n + 1] IN IsColor(rgb, c[1 + 2 * y + x], c[5], c[6])
  IN m # <<>> =>
       \A k \in DOMAIN b.fours, x, y \in 0..7 :
         LET n == b.fours[k][1 + 2 * (y \div 4) + x \div 4]
         IN /\ Shows(m.vq8[64 * (k - 1) + 8 * y + x + 1], n, (x \div 2) % 2, (y \div 2) % 2)
            /\ m.vq4[16 * (k - 1) + 4 * (y \div 2) + x \div 2 + 1] = m.vq8[64 * (k - 1) + 8 * y + x + 1]

\* A video is shown as its file has it, its pictures and the colors they are made of.
VideoAsWritten == PictureAsWritten /\ BookAsWritten
=============================================================================
