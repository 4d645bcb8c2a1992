----------------------------- MODULE ImageProcess ----------------------------
(***************************************************************************)
(* Image_process.cpp: resampling, mip maps, borders, blends, flips and the *)
(* writing of Targa files, over pixels of four bytes that lie behind each  *)
(* other, row by row and slice by slice.  A picture goes through any       *)
(* sequence of them, next to the texels that it should have by then.       *)
(*                                                                         *)
(* R_SetAlphaNormalDivergence, which is arithmetic on floats, is left out. *)
(* The file belongs to no build of the program.                            *)
(***************************************************************************)
EXTENDS Integers, Sequences, FiniteSets, FiniteSetsExt

CONSTANTS
  Pictures,          \* what there is at first: [w, h, d, data]
  NoFile,
  AnyByte,           \* meant: what nothing is said of; data: what was never written
  MaxProcessCalls    \* bounds the model

ASSUME ProcessBound == MaxProcessCalls \in Nat

VARIABLES
  pic,          \* the bytes, and what the caller knows of their order
  texels,       \* history: the texels that there should be
  tgaFile,      \* the file, or NoFile
  processCalls  \* history

processVars == <<pic, texels, tgaFile, processCalls>>

At4(p, x, y, z) == 4 * ((z * p.h + y) * p.w + x)
Texels(p) == [t \in (0 .. p.w - 1) \X (0 .. p.h - 1) \X (0 .. p.d - 1) |->
                [c \in 0 .. 3 |-> p.data[At4(p, t[1], t[2], t[3]) + c]]]

ProcessInit ==
  /\ pic \in Pictures /\ texels = Texels(pic) /\ tgaFile = NoFile /\ processCalls = 0

ProcessIdle ==
  /\ pic = CHOOSE p \in Pictures : TRUE
  /\ texels = Texels(pic) /\ tgaFile = NoFile /\ processCalls = MaxProcessCalls

------------------------------------------------------------------------------
(* The functions, byte by byte. *)

HalfOf(n) == IF n \div 2 > 0 THEN n \div 2 ELSE 1
MAX_DIMENSION == 4096
Least(m, n) == IF m < n THEN m ELSE n

\* The row that a resampled row is taken from, at a quarter q of its height.
RowAt(i, q, inheight, outheight) == ((4 * i + q) * inheight) \div (4 * outheight)
\* The column, counted in steps of 1 / 65536.
ColumnAt(j, q, inwidth, outwidth) ==
  LET fracstep == (inwidth * 65536) \div outwidth
  IN  (q * (fracstep \div 4) + j * fracstep) \div 65536

\* R_ResampleTexture: the mean of four pixels.
R_ResampleTexture(p, width, height) ==
  LET ow == Least(width, MAX_DIMENSION)  oh == Least(height, MAX_DIMENSION)
      In(x, y, c) == p.data[At4(p, x, y, 0) + c]
  IN  [w |-> ow, h |-> oh, d |-> 1, data |->
        [b \in 0 .. 4 * ow * oh - 1 |->
           LET i == b \div (4 * ow)  j == (b \div 4) % ow  c == b % 4
               y1 == RowAt(i, 1, p.h, oh)  y2 == RowAt(i, 3, p.h, oh)
               x1 == ColumnAt(j, 1, p.w, ow)  x2 == ColumnAt(j, 3, p.w, ow)
           IN  (In(x1, y1, c) + In(x2, y1, c) + In(x1, y2, c) + In(x2, y2, c)) \div 4]]

\* R_Dropsample: one pixel.
R_Dropsample(p, ow, oh) ==
  [w |-> ow, h |-> oh, d |-> 1, data |->
    [b \in 0 .. 4 * ow * oh - 1 |->
       LET i == b \div (4 * ow)  j == (b \div 4) % ow
       IN  p.data[4 * (p.w * RowAt(i, 1, p.h, oh) + (j * p.w) \div ow) + (b % 4)]]]

\* count pixels from `from' on, one every `step' bytes.
Walk(from, step, count) == {from + step * i : i \in 0 .. count - 1}
Bordered(data, pixels, border) ==
  [b \in DOMAIN data |-> IF b - (b % 4) \in pixels THEN border[b % 4] ELSE data[b]]

\* The four sides of a rectangle of pixels.
Sides(base, width, height) ==
  Walk(base, 4 * width, height) \cup Walk(base + (width - 1) * 4, 4 * width, height)
  \cup Walk(base, 4, width) \cup Walk(base + width * 4 * (height - 1), 4, width)

R_SetBorderTexels(p, border) == [p EXCEPT !.data = Bordered(@, Sides(0, p.w, p.h), border)]

\* R_SetBorderTexels3D, where a slice has as many rows as there are slices.
R_SetBorderTexels3D(p, border) ==
  LET plane == p.w * 4 * p.d
  IN  [p EXCEPT !.data = Bordered(@,
         UNION {Sides(j * plane, p.w, p.h) : j \in 1 .. p.d - 2}
         \cup Walk(0, 4, plane \div 4) \cup Walk((p.d - 1) * plane, 4, plane \div 4), border)]

Border(p) == [c \in 0 .. 3 |-> p.data[c]]

\* A slip to test the property with: a row of texels starts behind the last pixel of the one before.
FirstOfFourAdjacent(p, i, j) == i * 8 * (p.w \div 2) + 8 * j

\* The first of the four pixels of the texel in column j and row i of the smaller picture: it
\* went over one row, and skipped another.
FirstOfFour(p, i, j) == i * (8 * (p.w \div 2) + 4 * p.w) + 8 * j

\* R_MipMap: a picture of one row or column becomes half as long.
R_MipMap(p, preserveBorder) ==
  LET w == p.w \div 2  h == p.h \div 2  row == 4 * p.w
      Pair(b) == (p.data[b] + p.data[b + 4]) \div 2
      Four(b) == (p.data[b] + p.data[b + 4] + p.data[b + row] + p.data[b + row + 4]) \div 4
      half == [w |-> HalfOf(p.w), h |-> HalfOf(p.h), d |-> 1, data |->
        IF w = 0 \/ h = 0
        THEN [b \in 0 .. 4 * (w + h) - 1 |->
                IF preserveBorder THEN Border(p)[b % 4] ELSE Pair(8 * (b \div 4) + (b % 4))]
        ELSE [b \in 0 .. 4 * w * h - 1 |->
                Four(FirstOfFour(p, b \div (4 * w), (b \div 4) % w) + (b % 4))]]
  IN  IF preserveBorder /\ w > 0 /\ h > 0 THEN R_SetBorderTexels(half, Border(p)) ELSE half

\* R_MipMap3D: where the alpha of the second slice should be read twice, its blue is.
R_MipMap3D(p, preserveBorder) ==
  LET w == p.w \div 2  h == p.h \div 2  d == p.d \div 2  row == 4 * p.w  plane == row * p.h
      Right(c) == IF c = 3 THEN 6 ELSE c + 4
      half == [w |-> w, h |-> h, d |-> d, data |->
        [b \in 0 .. 4 * w * h * d - 1 |->
           LET i == (b \div (4 * w)) % h  k == b \div (4 * w * h)  c == b % 4
               in_p == k * (plane + h * (row + 8 * w)) + i * (8 * w + row) + 8 * ((b \div 4) % w)
               In(o) == p.data[in_p + o]
           IN  (In(c) + In(c + 4) + In(row + c) + In(row + c + 4)
                + In(plane + c) + In(plane + Right(c)) + In(plane + row + c) + In(plane + row + Right(c))) \div 8]]
  IN  IF preserveBorder THEN R_SetBorderTexels3D(half, Border(p)) ELSE half

\* R_MipMapWithAlphaSpecularity: memory for the picture, and nothing in it.
R_MipMapWithAlphaSpecularity(p) ==
  [w |-> HalfOf(p.w), h |-> HalfOf(p.h), d |-> 1,
   data |-> [b \in 0 .. 4 * HalfOf(p.w) * HalfOf(p.h) - 1 |-> AnyByte]]

\* R_BlendOverTexture: both parts together are divided by 512.
R_BlendOverTexture(p, blend) ==
  [p EXCEPT !.data = [b \in DOMAIN p.data |->
     IF b % 4 = 3 THEN p.data[b]
     ELSE (p.data[b] * (255 - blend[3]) + blend[b % 4] * blend[3]) \div 512]]

\* The pixel m of a picture gets pixel from[m].
Rearranged(p, from) ==
  [p EXCEPT !.data = [b \in DOMAIN p.data |-> p.data[4 * from[b \div 4] + (b % 4)]]]
Pixels(p) == 0 .. p.w * p.h - 1

R_HorizontalFlip(p) == Rearranged(p, [m \in Pixels(p) |-> (m \div p.w) * p.w + p.w - 1 - (m % p.w)])
R_VerticalFlip(p) == Rearranged(p, [m \in Pixels(p) |-> (p.h - 1 - (m \div p.w)) * p.w + (m % p.w)])
R_RotatePic(p) == Rearranged(p, [m \in Pixels(p) |-> (m % p.w) * p.w + (m \div p.w)])

\* R_WriteTGA: its header, and the colors in the order of the format.
R_WriteTGA(p, flipVertical) ==
  [width |-> <<p.w % 256, p.w \div 256>>, height |-> <<p.h % 256, p.h \div 256>>,
   fromTop |-> ~flipVertical,
   data |-> [b \in 0 .. 4 * p.w * p.h - 1 |->
               p.data[IF b % 4 = 0 THEN b + 2 ELSE IF b % 4 = 2 THEN b - 2 ELSE b]]]

------------------------------------------------------------------------------
(* What the calls mean for the texels, by their places. *)

Columns(t) == Cardinality({x[1] : x \in DOMAIN t})
RowsOf(t) == Cardinality({x[2] : x \in DOMAIN t})
Slices(t) == Cardinality({x[3] : x \in DOMAIN t})
Grid(w, h, d) == (0 .. w - 1) \X (0 .. h - 1) \X (0 .. d - 1)

\* The mean of channel c over a sequence of places.
Mean(t, places, c) ==
  IF \E i \in DOMAIN places : t[places[i]][c] = AnyByte THEN AnyByte
  ELSE MapThenSumSet(LAMBDA i : t[places[i]][c], DOMAIN places) \div Len(places)

\* The texels of the larger picture that one of the smaller covers.
Covered(t, x) ==
  {y \in DOMAIN t : y[1] \div 2 = x[1] /\ y[2] \div 2 = x[2] /\ y[3] \div 2 = x[3]}

\* R_MipMap and R_MipMap3D step over whole pairs of columns: with one column more, they are
\* a pixel behind in every row of texels but the first.
PixelBehind(t, x) == Columns(t) > 1 /\ Columns(t) % 2 = 1 /\ (x[2] > 0 \/ x[3] > 0)

OnRing(x, w, h, d) == x[1] \in {0, w - 1} \/ x[2] \in {0, h - 1} \/ (d > 1 /\ x[3] \in {0, d - 1})

Quartered(t, keep) ==
  LET w == HalfOf(Columns(t))  h == HalfOf(RowsOf(t))  d == HalfOf(Slices(t))
  IN  [x \in Grid(w, h, d) |-> [c \in 0 .. 3 |->
         IF keep /\ OnRing(x, w, h, d) THEN t[<<0, 0, 0>>][c]
         ELSE IF PixelBehind(t, x) \/ (Slices(t) > 1 /\ c = 3) THEN AnyByte
         ELSE IF \E y \in Covered(t, x) : t[y][c] = AnyByte THEN AnyByte
         ELSE MapThenSumSet(LAMBDA y : t[y][c], Covered(t, x)) \div Cardinality(Covered(t, x))]]

\* The texels at the middles of the four quarters of a texel of a picture of w times h, as
\* far as R_ResampleTexture comes to them in steps of 1 / 65536.
Resampled(t, w, h) ==
  LET Near(x, y) == <<(x * Columns(t)) \div (4 * w), (y * RowsOf(t)) \div (4 * h), 0>>
  IN  [x \in Grid(w, h, 1) |-> [c \in 0 .. 3 |->
         IF (65536 * Columns(t)) % w # 0 THEN AnyByte ELSE
         Mean(t, [i \in 1 .. 4 |-> Near(4 * x[1] + 1 + 2 * (i % 2), 4 * x[2] + 1 + 2 * (i \div 3))], c)]]

Dropped(t, w, h) ==
  [x \in Grid(w, h, 1) |-> t[<<(x[1] * Columns(t)) \div w, ((4 * x[2] + 1) * RowsOf(t)) \div (4 * h), 0>>]]

Framed(t, border) ==
  [x \in DOMAIN t |-> IF OnRing(x, Columns(t), RowsOf(t), Slices(t)) THEN border ELSE t[x]]

\* Of the colors nothing is said: they come out half as bright as the blend would be.
Blended(t) == [x \in DOMAIN t |-> [c \in 0 .. 3 |-> IF c = 3 THEN t[x][c] ELSE AnyByte]]

Mirrored(t) == [x \in DOMAIN t |-> t[<<Columns(t) - 1 - x[1], x[2], x[3]>>]]
TurnedOver(t) == [x \in DOMAIN t |-> t[<<x[1], RowsOf(t) - 1 - x[2], x[3]>>]]
Transposed(t) == [x \in DOMAIN t |-> t[<<x[2], x[1], x[3]>>]]

------------------------------------------------------------------------------
(* Steps.  A picture with slices is a cube, as R_MipMap3D assumes.         *)

Colors == {[c \in 0 .. 3 |-> 0], [c \in 0 .. 3 |-> 60 + 60 * c], [c \in 0 .. 3 |-> 255]}
Sizes == {1, 3, 4}

\* Every byte has been written.
CanProcess ==
  processCalls < MaxProcessCalls /\ \A b \in DOMAIN pic.data : pic.data[b] # AnyByte

\* flat: there is one slice.
CallsOn(flat) ==
  /\ CanProcess /\ processCalls' = processCalls + 1
  /\ flat => pic.d = 1
Processed(p, t) == pic' = p /\ texels' = t /\ tgaFile' = NoFile

Resample ==
  /\ CallsOn(TRUE)
  /\ \E w, h \in Sizes :
       \/ Processed(R_ResampleTexture(pic, w, h), Resampled(texels, w, h))
       \/ Processed(R_Dropsample(pic, w, h), Dropped(texels, w, h))

SetBorder ==
  \E border \in Colors :
    \/ CallsOn(TRUE) /\ Processed(R_SetBorderTexels(pic, border), Framed(texels, border))
    \/ CallsOn(FALSE) /\ pic.d > 1 /\ Processed(R_SetBorderTexels3D(pic, border), Framed(texels, border))

\* R_MipMap3D hands a picture without slices on to R_MipMap; one pixel is refused.
MipMap ==
  \E preserveBorder \in BOOLEAN :
    \/ /\ CallsOn(TRUE) /\ pic.w + pic.h # 2
       /\ Processed(R_MipMap(pic, preserveBorder), Quartered(texels, preserveBorder))
    \/ /\ CallsOn(FALSE) /\ pic.d > 1
       /\ Processed(R_MipMap3D(pic, preserveBorder), Quartered(texels, preserveBorder))

MipMapSpecular ==
  /\ CallsOn(TRUE) /\ pic.w + pic.h # 2
  /\ Processed(R_MipMapWithAlphaSpecularity(pic),
             [x \in Grid(HalfOf(pic.w), HalfOf(pic.h), 1) |-> [c \in 0 .. 3 |-> AnyByte]])

Blend ==
  /\ CallsOn(FALSE)
  /\ \E blend \in Colors : Processed(R_BlendOverTexture(pic, blend), Blended(texels))

Flip ==
  /\ CallsOn(TRUE)
  /\ \/ Processed(R_HorizontalFlip(pic), Mirrored(texels))
     \/ Processed(R_VerticalFlip(pic), TurnedOver(texels))
     \/ pic.w = pic.h /\ Processed(R_RotatePic(pic), Transposed(texels))

WriteTGA ==
  /\ CallsOn(TRUE)
  /\ \E flipVertical \in BOOLEAN : tgaFile' = R_WriteTGA(pic, flipVertical)
  /\ UNCHANGED <<pic, texels>>

ProcessNext ==
  Resample \/ SetBorder \/ MipMap \/ MipMapSpecular \/ Blend \/ Flip \/ WriteTGA

------------------------------------------------------------------------------
(* The texels of the picture are the ones that the calls mean, whatever    *)
(* the picture was framed with, flipped to and stretched to before:        *)
(* resampling takes the mean of the middles of four quarters, a frame goes *)
(* around, halving takes the mean of what is covered, inside the border of *)
(* the larger picture if that is asked for, flips move texels, and a blend *)
(* leaves alpha alone.  The file says by its format, which has blue first  *)
(* and rows from the corner that it names, what the picture is.            *)
(*                                                                         *)
(* Where the code does something else, nothing is said but the size of the *)
(* picture, and of nothing that is made from these texels later: of the    *)
(* colors that R_BlendOverTexture leaves, which shifts by nine where eight *)
(* would do; of all that R_MipMapWithAlphaSpecularity returns, which fills *)
(* in nothing; of the alpha of R_MipMap3D, which adds blue to it; of what  *)
(* both mip maps of an odd width have behind their first row; and of what  *)
(* is stretched to a width that 65536 columns are no multiple of.          *)
ProcessedAsMeant ==
  /\ DOMAIN texels = Grid(pic.w, pic.h, pic.d)
  /\ \A x \in DOMAIN texels, c \in 0 .. 3 :
       texels[x][c] \in {AnyByte, Texels(pic)[x][c]}
  /\ tgaFile # NoFile =>
       /\ tgaFile.width[1] + 256 * tgaFile.width[2] = Columns(texels)
       /\ tgaFile.height[1] + 256 * tgaFile.height[2] = RowsOf(texels)
       /\ \A x \in DOMAIN texels :
            LET first == 4 * (x[2] * Columns(texels) + x[1])
            IN  \A c \in 0 .. 3 : texels[x][c] \in
                  {AnyByte, tgaFile.data[first + IF c = 3 THEN 3 ELSE 2 - c]}
==============================================================================
