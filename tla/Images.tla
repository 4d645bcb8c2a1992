-------------------------------- MODULE Images -------------------------------
(***************************************************************************)
(* Image (Image.cpp) and the loaders that fill it: image_load_png, _jpg,   *)
(* _bmp, _tga and _dds.  A picture goes from the bytes of a file, in the   *)
(* order its format has them, through what the loader does to them, to     *)
(* OpenGL, which reads them by the format, the type and the rows that      *)
(* Texture::Init names.  Scripts can flip an image and fold a cross into   *)
(* the six faces of a cube.                                                *)
(*                                                                         *)
(* A byte is named after what it says: <<x, y, c, k>> is the k-th byte,    *)
(* the most significant one first, of channel c of the pixel in column x   *)
(* and row y from the bottom.  What libpng and libjpeg do is external.     *)
(***************************************************************************)
EXTENDS Integers, Sequences, FiniteSets

CONSTANTS
  ImageFiles,     \* the files: see their fields below
  NoImage,
  Unset,          \* a byte that was never written, or lies behind the others
  ShortValues,    \* how many values an unsigned short has: 65536 where this is built
  MaxImageCalls   \* bounds the model

ASSUME ImagesBound == MaxImageCalls \in Nat
ASSUME ShortAssumption == ShortValues \in Nat \ {0}

\* What can be in a file that does not break off.
ASSUME ImageFilesAssumption ==
  \A f \in ImageFiles : f.breaks = "no" =>
    /\ f.kind \in {"png", "jpg", "tga"} => f.width \in Nat /\ f.height \in Nat
    /\ f.kind = "png" => f.form \in {"L", "LA", "RGB", "RGBA"} /\ f.bytes \in {1, 2}
    /\ f.kind = "jpg" => f.form \in {"RGB", "CMYK"} /\ f.bytes = 1
    /\ f.kind = "tga" => f.form \in {"L", "BGR", "BGRA"} /\ f.bytes = 1 /\ f.fromTop \in BOOLEAN
    /\ f.kind = "dds" => /\ f.width \in Nat /\ f.height \in Nat /\ f.depth \in Nat
                         /\ f.levels \in Nat /\ f.cube \in BOOLEAN

\* What can be in a file, for every kind that can hold it.
PixelChannels ==
  [L |-> <<"l">>, LA |-> <<"l", "a">>, RGB |-> <<"r", "g", "b">>, RGBA |-> <<"r", "g", "b", "a">>,
   BGR |-> <<"b", "g", "r">>, BGRA |-> <<"b", "g", "r", "a">>]

VARIABLES
  image,      \* the Image, or NoImage
  picture,    \* history: the file it was read from
  flips,      \* history: how often a script flipped it
  overrun,    \* history: memory behind what was allocated was touched, or libjpeg went on
              \* after an error: what comes then is not told
  left,       \* history: what loaders left open or allocated
  imageCalls  \* history

imageVars == <<image, picture, flips, overrun, left, imageCalls>>

\* Image::Image
NewImage ==
  [width |-> 0, height |-> 0, depth |-> 0, levelCount |-> 0, faces |-> 0,
   format |-> "RGBA", bytes |-> 1, elementSize |-> 0, data |-> <<>>]

ImagesInit ==
  /\ image = NoImage /\ picture = NoImage /\ flips = 0
  /\ overrun = FALSE /\ left = {} /\ imageCalls = 0

ImagesIdle ==
  /\ image = NoImage /\ picture = NoImage /\ flips = 0
  /\ overrun = FALSE /\ left = {} /\ imageCalls = MaxImageCalls

------------------------------------------------------------------------------
(* Bytes in memory: functions from 0 on. *)

\* Row y of w pixels, byte i of it.
RowByte(y, i, channels, bytes) ==
  LET n == Len(channels) * bytes
  IN  <<i \div n, y, channels[((i % n) \div bytes) + 1], (i % bytes) + 1>>

\* What a row of the picture takes.
RowLength(f) == f.width * Len(PixelChannels[f.form]) * f.bytes

\* Rows that begin at multiples of `span', the picture's rows in the order of `rows', where
\* each is written over the one before it when it begins before that one ends.
Lines(f, rows, span) ==
  [i \in 0 .. span * f.height - 1 |->
     RowByte(rows[i \div span], i % span, PixelChannels[f.form], f.bytes)]

FirstOnTop(f) == [j \in 0 .. f.height - 1 |-> f.height - 1 - j]
FirstBelow(f) == [j \in 0 .. f.height - 1 |-> j]
TopDown(f) == Lines(f, FirstOnTop(f), RowLength(f))
BottomUp(f) == Lines(f, FirstBelow(f), RowLength(f))

\* FlipSurface, for which nothing is compressed: the lines of each slice change places, from
\* the outside to the middle.
Flipped(data, line, h) ==
  LET slice == line * h
  IN  [i \in DOMAIN data |->
         IF line = 0 THEN data[i]
         ELSE data[(i \div slice) * slice + (h - 1 - ((i % slice) \div line)) * line + (i % line)]]

\* With an element size of zero there are no lines, and other levels and faces stay.
FlipSurface(im) ==
  [im EXCEPT !.data[1] = Flipped(@, im.elementSize * im.width, im.height)]

------------------------------------------------------------------------------
(* Loaders.  A file says where it breaks off: "no", or at a place that its *)
(* loader tells from others.                                               *)

Loaded(f, im, over, behind) ==
  /\ image' = im /\ picture' = f /\ overrun' = (overrun \/ over)
  /\ left' = left \cup {<<f.kind, f.breaks, thing>> : thing \in behind}

NotLoaded(f, behind) == Loaded(f, NoImage, FALSE, behind)

\* A slip to test the property with: the rows stay as the file has them.
PngRowsAsRead(im) == im

\* What image_load_png does to the rows that it has.
PngRows(im) == FlipSurface(im)

\* image_load_png: libpng hands out one to four channels, of one byte or of two.  An error
\* in the rows, or behind them, comes back to where the blocks are not known any more.
image_load_png(f) ==
  /\ f.kind = "png"
  /\ \/ f.breaks \in {"missing", "signature", "header"} /\ NotLoaded(f, {})
     \/ f.breaks = "rows" /\ NotLoaded(f, {"data", "rowPointers"})
     \/ f.breaks = "end" /\ NotLoaded(f, {"data"})
     \/ f.breaks = "no" /\ Loaded(f, PngRows([NewImage EXCEPT
                             !.width = f.width, !.height = f.height, !.levelCount = 1,
                             !.format = f.form, !.bytes = f.bytes,
                             !.elementSize = Len(PixelChannels[f.form]) * f.bytes,
                             !.data = <<TopDown(f)>>]), FALSE, {})

\* rowspan, an unsigned short: libjpeg fills rows of n bytes a pixel in memory for rows of
\* this many bytes.
RowSpan(f, n) == (f.width * n) % ShortValues

\* image_load_jpg: neither the file nor the copy of it in memory is let go of.  The colors
\* of a CMYK file are converted for as many bytes as the file has, into three for each pixel.
\* error_exit comes back to libjpeg, which goes on without what it missed, and the jump that
\* setjmp waits for is never made: it may come back with anything, or not at all.
image_load_jpg(f) ==
  /\ f.kind = "jpg"
  /\ \/ f.breaks = "missing" /\ NotLoaded(f, {})
     \/ /\ f.breaks \in {"header", "rows"}
        /\ \/ Loaded(f, NoImage, TRUE, {"fp", "buff"})
           \/ Loaded(f, [NewImage EXCEPT
                 !.width = f.width, !.height = f.height, !.levelCount = 1, !.format = "RGB",
                 !.elementSize = 3, !.data = <<[i \in DOMAIN TopDown(f) |-> Unset]>>],
                 TRUE, {"fp", "buff"})
     \/ /\ f.breaks = "no" /\ f.form = "RGB"
        /\ LET rowspan == RowSpan(f, 3)
               im == [NewImage EXCEPT
                 !.width = f.width, !.height = f.height, !.levelCount = 1, !.format = "RGB",
                 !.elementSize = 3, !.data = <<Lines(f, FirstOnTop(f), rowspan)>>]
           IN  \/ rowspan = f.width * 3 /\ Loaded(f, FlipSurface(im), FALSE, {"fp", "buff"})
               \/ rowspan # f.width * 3 /\ Loaded(f, im, TRUE, {"fp", "buff"})
     \/ /\ f.breaks = "no" /\ f.form = "CMYK"
        /\ LET fits == RowSpan(f, 4) = f.width * 4
               converted == TopDown([f EXCEPT !.form = "BGR"])
               end == ((f.size + 2) \div 3) * 3
           IN  Loaded(f, [NewImage EXCEPT
                 !.width = f.width, !.height = f.height, !.levelCount = 1,
                 !.data = <<[i \in DOMAIN converted |->
                               IF fits /\ i < end THEN converted[i] ELSE Unset]>>],
                 ~fits \/ end > f.width * f.height * 3, {"fp", "buff"})

\* image_load_bmp: bitmapfileheader takes 16 bytes where the file has 14, as nothing packs it.
\* So the width that is read is the file's height with 16 bits behind it, the height is one
\* plane with 16 bits behind it, and the bits of a pixel are the file's compression, which is
\* none: no pixel is read.
Behind16(n) == n * 65536
image_load_bmp(f) ==
  /\ f.kind = "bmp"
  /\ \/ f.breaks \in {"missing", "signature"} /\ NotLoaded(f, {})
     \/ f.breaks = "no" /\ Loaded(f, [NewImage EXCEPT
                             !.width = Behind16(f.height), !.height = Behind16(1), !.levelCount = 1,
                             !.format = "RGB", !.data = <<[i \in {} |-> Unset]>>], FALSE, {})

\* image_load_tga: run lengths are not read, the corner that the rows start at is not looked
\* at, and the element size is the number of bits.  The formats are named the wrong way round.
TgaFormat == [L |-> "BGR", BGR |-> "RGB", BGRA |-> "RGBA"]
image_load_tga(f) ==
  /\ f.kind = "tga"
  /\ \/ f.breaks = "missing" /\ NotLoaded(f, {"file"})
     \/ f.breaks = "no" /\ Loaded(f, [NewImage EXCEPT
                             !.width = f.width, !.height = f.height, !.levelCount = 1,
                             !.format = TgaFormat[f.form], !.elementSize = Len(PixelChannels[f.form]) * 8,
                             !.data = <<IF f.packed THEN [i \in DOMAIN BottomUp(f) |-> Unset]
                                        ELSE IF f.fromTop THEN TopDown(f) ELSE BottomUp(f)>>], FALSE, {})

------------------------------------------------------------------------------
(* image_load_dds, which no table names. *)

\* Bytes of a block of four by four, for what is compressed.
DdsBlock ==
  [DXT1 |-> 8, DXT2 |-> 16, DXT3 |-> 16, DXT4 |-> 16, DXT5 |-> 16, ATI1 |-> 8, ATI2 |-> 16]
\* Bytes of an element, for the other codes and for what is told by masks.
DdsCoded ==
  [R8G8B8 |-> 3, A8R8G8B8 |-> 4, X8R8G8B8 |-> 4, R5G6B5 |-> 2, A8 |-> 1, A2B10G10R10 |-> 4,
   A8B8G8R8 |-> 4, X8B8G8R8 |-> 4, A2R10G10B10 |-> 4, A16B16G16R16 |-> 8, L8 |-> 1, A8L8 |-> 2,
   L16 |-> 2, R16F |-> 2, A16B16G16R16F |-> 8, R32F |-> 4, A32B32G32R32F |-> 16]
DdsMasked == [rgba32 |-> 4, rgb32 |-> 4, rgb24 |-> 3, bits8 |-> 1]

DdsCompressed == DOMAIN DdsBlock

DdsBytes ==
  [form \in DdsCompressed \cup DOMAIN DdsCoded \cup DOMAIN DdsMasked |->
     IF form \in DdsCompressed THEN DdsBlock[form]
     ELSE IF form \in DOMAIN DdsCoded THEN DdsCoded[form] ELSE DdsMasked[form]]

\* A side of a level, which is never nothing.
Half(n, level) == LET m == n \div 2 ^ level IN IF m \in 1 .. n THEN m ELSE 1
Blocks4(n) == (n + 3) \div 4

DdsSize(f, level) ==
  LET w == Half(f.width, level)  h == Half(f.height, level)  d == Half(f.depth, level)
  IN  IF f.form \in DdsCompressed THEN Blocks4(w) * Blocks4(h) * d * DdsBytes[f.form]
      ELSE w * h * d * DdsBytes[f.form]

\* A file that begins with "DDS " is refused, and one that does not is read, unless strstr,
\* which the four bytes do not end, finds "DDS " in what lies behind them.
image_load_dds(f) ==
  LET faces == IF f.cube THEN 6 ELSE 1
  IN  /\ f.kind = "dds"
      /\ \/ NotLoaded(f, {})
         \/ /\ f.breaks = "no" /\ ~f.marked /\ f.form \in DOMAIN DdsBytes
            /\ f.cube => f.faces = 6 /\ f.width = f.height
            /\ Loaded(f, [NewImage EXCEPT
                 !.width = f.width, !.height = f.height, !.depth = f.depth,
                 !.levelCount = f.levels, !.faces = IF f.cube THEN 6 ELSE 0,
                 !.format = f.form, !.elementSize = DdsBytes[f.form],
                 !.data = [b \in 1 .. faces * f.levels |->
                             [i \in 0 .. DdsSize(f, (b - 1) % f.levels) - 1 |->
                                <<(b - 1) \div f.levels, (b - 1) % f.levels>>]]], FALSE, {})

------------------------------------------------------------------------------
(* What can be asked of an image. *)

\* GetImageSize, for which nothing is compressed.
GetImageSize(im, level) ==
  im.elementSize * Half(im.width, level) * Half(im.height, level) * Half(im.depth, level)

\* GetLevel, of the faces 0 to 5.
GetLevel(im, level, face) == im.data[face * im.levelCount + level + 1]

\* Texture::Init: what OpenGL takes from level 0 for component k of the texel in column x
\* and row y: rows start at multiples of four, numbers of two bytes with the smaller one.
Texel(im, x, y, k) ==
  LET components == Len(PixelChannels[im.format])
      line == ((im.width * components * im.bytes + 3) \div 4) * 4
      first == y * line + (x * components + k - 1) * im.bytes
  IN  [b \in 1 .. im.bytes |->
         LET at == first + im.bytes - b
         IN  IF at \in DOMAIN GetLevel(im, 0, 0) THEN GetLevel(im, 0, 0)[at] ELSE Unset]

\* The faces of a vertical cross: the pixel of the cross, in rows from the first byte on, that
\* row j of a face takes at i.  n is the side of a face.
\* A slip to test the property with: the last face is not turned.
CrossPixelUnturned(face, i, j, n) ==
  CASE face = 1 -> <<2 * n + i, 3 * n - 1 - j>>
    [] face = 2 -> <<i, 3 * n - 1 - j>>
    [] face = 3 -> <<n + i, 4 * n - 1 - j>>
    [] face = 4 -> <<n + i, 2 * n - 1 - j>>
    [] face = 5 -> <<n + i, 3 * n - 1 - j>>
    [] face = 6 -> <<n + i, n - 1 - j>>

CrossPixel(face, i, j, n) ==
  CASE face = 1 -> <<2 * n + i, 3 * n - 1 - j>>
    [] face = 2 -> <<i, 3 * n - 1 - j>>
    [] face = 3 -> <<n + i, 4 * n - 1 - j>>
    [] face = 4 -> <<n + i, 2 * n - 1 - j>>
    [] face = 5 -> <<n + i, 3 * n - 1 - j>>
    [] face = 6 -> <<2 * n - 1 - i, j>>

IsCross(im) ==
  /\ im.faces = 0 /\ im.levelCount = 1 /\ im.depth = 0
  /\ im.width \div 3 = im.height \div 4 /\ im.width % 3 = 0 /\ im.height % 4 = 0

\* ConvertCrossToCubemap
ConvertCrossToCubemap(im) ==
  LET n == im.width \div 3
      size == im.elementSize
  IN  [im EXCEPT
         !.faces = 6, !.width = n, !.height = n,
         !.data = [face \in 1 .. 6 |->
                     [b \in 0 .. n * n * size - 1 |->
                        LET p == CrossPixel(face, (b \div size) % n, b \div (size * n), n)
                        IN  im.data[1][(p[2] * im.width + p[1]) * size + (b % size)]]]]

------------------------------------------------------------------------------
(* Steps: FindTexture loads a file into an image of its own; what a script *)
(* does to one; and ~Image.  Nothing is told of what comes after memory    *)
(* was touched that is not the image's.                                    *)

CallsImage == imageCalls < MaxImageCalls /\ ~overrun /\ imageCalls' = imageCalls + 1

LoadImage ==
  /\ CallsImage /\ image = NoImage
  /\ \E f \in ImageFiles :
       image_load_png(f) \/ image_load_jpg(f) \/ image_load_bmp(f) \/ image_load_tga(f) \/ image_load_dds(f)
  /\ flips' = 0

\* The pixels are as many as the element size says.
Sized(im) == GetImageSize(im, 0) <= Cardinality(DOMAIN im.data[1])

ScriptFlips ==
  /\ CallsImage /\ image # NoImage
  /\ \/ Sized(image) /\ image' = FlipSurface(image) /\ flips' = flips + 1 /\ UNCHANGED overrun
     \/ ~Sized(image) /\ overrun' = TRUE /\ UNCHANGED <<image, flips>>
  /\ UNCHANGED <<picture, left>>

ScriptFolds ==
  /\ CallsImage /\ image # NoImage
  /\ \/ ~IsCross(image) /\ UNCHANGED <<image, overrun>>
     \/ IsCross(image) /\ Sized(image) /\ image' = ConvertCrossToCubemap(image) /\ UNCHANGED overrun
     \/ IsCross(image) /\ ~Sized(image) /\ overrun' = TRUE /\ UNCHANGED image
  /\ UNCHANGED <<picture, flips, left>>

\* ~Image, and FreeData
DeleteImage ==
  /\ CallsImage /\ image # NoImage
  /\ image' = NoImage /\ picture' = NoImage /\ flips' = 0 /\ UNCHANGED <<overrun, left>>

ImagesNext == LoadImage \/ ScriptFlips \/ ScriptFolds \/ DeleteImage

------------------------------------------------------------------------------
(* Properties. *)

\* The pictures that are shown as their files have them: a PNG of channels of one byte and a
\* JPEG of three colors whose row an unsigned short can count, when their rows end at
\* multiples of four, where OpenGL looks for the next one.  All others are left out because
\* they are not shown so: numbers of two bytes, of which OpenGL takes the smaller byte
\* first; other rows, which slant; longer rows of a JPEG, which are written over each other
\* and over what lies behind them; CMYK files, which have no element size; every BMP, of
\* which no pixel is read; and every Targa, whose blue and red are taken for each other,
\* which is upside down when it starts at the top, and garbage when it is run-length coded.
\* Of a DDS file, which no table names, only the place of its levels is told (LevelsFit).
ShowsAll(f, im) ==
  /\ f.kind = "png" \/ (f.kind = "jpg" /\ f.form = "RGB" /\ f.width * 3 < ShortValues)
  /\ f.bytes = 1 /\ (f.width * Len(PixelChannels[im.format])) % 4 = 0
  /\ im.faces = 0 /\ ~overrun

\* A PNG or a JPEG that ShowsAll admits has each channel of each pixel where Texture::Init
\* lets OpenGL look for it, the right way up until a script turns it over: rows come from
\* the top, FlipSurface turns them once, and each call of a script once more.
ShownAsPictured ==
  image # NoImage /\ ShowsAll(picture, image) =>
    LET f == picture
        named == PixelChannels[f.form]
    IN  \A x \in 0 .. f.width - 1, y \in 0 .. f.height - 1 : \A k \in DOMAIN named :
          Texel(image, x, y, k) =
            << <<x, IF flips % 2 = 1 THEN f.height - 1 - y ELSE y, named[k], 1>> >>

\* Where a texel of a face is on the cube whose sides are n from the middle, by the rules of
\* OpenGL for the faces +X, -X, +Y, -Y, +Z and -Z.
OnCube(face, i, j, n) ==
  LET s == 2 * i + 1 - n  t == 2 * j + 1 - n
  IN  CASE face = 1 -> <<n, -t, -s>> [] face = 2 -> <<-n, -t, s>>
        [] face = 3 -> <<s, n, t>>   [] face = 4 -> <<s, -n, -t>>
        [] face = 5 -> <<s, -t, n>>  [] face = 6 -> <<-s, -t, -n>>

Distance(m, n) == IF m < n THEN n - m ELSE m - n

\* The texels of the cube that show the pixel <<x, y>> of the cross.
Places(im, x, y) ==
  {p \in (1 .. 6) \X (0 .. im.width - 1) \X (0 .. im.height - 1) :
     LET b == im.data[p[1]][(p[3] * im.width + p[2]) * im.elementSize]
     IN  b[1] = x /\ b[2] = y}

\* A cross that is folded is whole and without seams: each pixel of its squares is on the cube
\* once, and pixels next to each other in the cross are next to each other on the cube, around
\* its edges too.  It is a PNG or a JPEG of three colors with rows that an unsigned short can
\* count.  (The pixels of a CMYK file have no size, so that nothing of them is folded.)
CrossFolds ==
  /\ image # NoImage /\ image.faces = 6 /\ picture.kind \in {"png", "jpg"}
  /\ picture.form # "CMYK" /\ flips = 0 /\ ~overrun
  /\ picture.kind = "jpg" => picture.width * 3 < ShortValues
  =>
    LET n == image.width
        InCross(x, y) == (x \div n = 1 \/ y \div n = 2) /\ x < 3 * n /\ y < 4 * n
        At(x, y) == LET p == CHOOSE p \in Places(image, x, y) : TRUE IN OnCube(p[1], p[2], p[3], n)
        Next(p, q) == Distance(p[1], q[1]) + Distance(p[2], q[2]) + Distance(p[3], q[3]) = 2
    IN  \A x \in 0 .. 3 * n - 1, y \in 0 .. 4 * n - 1 : InCross(x, y) =>
          /\ Cardinality(Places(image, x, y)) = 1
          /\ InCross(x + 1, y) => Next(At(x, y), At(x + 1, y))
          /\ InCross(x, y + 1) => Next(At(x, y), At(x, y + 1))

\* The levels of a DDS file, where one is read at all, are behind each other, level by level
\* within face by face, each as long as GetImageSize says it is, unless it is compressed,
\* until a script flips or folds it.
LevelsFit ==
  /\ image # NoImage /\ picture.kind = "dds" /\ flips = 0
  /\ image.faces = IF picture.cube THEN 6 ELSE 0
  =>
    \A level \in 0 .. image.levelCount - 1, face \in 0 .. (IF image.faces = 6 THEN 5 ELSE 0) :
      LET data == GetLevel(image, level, face)
      IN  /\ \A i \in DOMAIN data : data[i] = <<face, level>>
          /\ picture.form \notin DdsCompressed => Cardinality(DOMAIN data) = GetImageSize(image, level)

\* Of a file that does not break off, only a JPEG leaves something open or allocated.
OnlyJpegsLeave == \A l \in left : l[2] = "no" => l[1] = "jpg"

\* PNGs and JPEGs of the kinds ShowsAll names are shown as their files have them, the levels
\* of a DDS file are where they are looked for, and only JPEGs leave something behind.
ImagesAsPictured == ShownAsPictured /\ LevelsFit /\ OnlyJpegsLeave
==============================================================================
