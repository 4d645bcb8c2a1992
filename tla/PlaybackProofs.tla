--------------------------- MODULE PlaybackProofs ---------------------------
(***************************************************************************)
(* Proofs about Cinematic, for all videos, any number of cinematics and    *)
(* all times that are asked for, and about Animation, for all meshes, any  *)
(* ranges of frames and any steps of the counter.                          *)
(*                                                                         *)
(* An object that no call works on rests: behind a picture, before its     *)
(* first code book, or where it must be set back before it is played.  So  *)
(* the code book may change while it waits.  One that a call works on and  *)
(* that is between a code book and its picture has that book, because      *)
(* nothing else is played before the call comes back; and a call comes     *)
(* back only when it has counted a picture, come round or come to the end. *)
(*                                                                         *)
(* An animated model's counter is never before the start of its range and  *)
(* every frame wraps it before it is drawn, so that only a range of at     *)
(* least one frame is needed for what is shown to be in it.                *)
(*                                                                         *)
(* A pass over the joints gives every vertex the matrices along the path   *)
(* to the last joint that has a say in it, because a joint comes after its *)
(* parent: its parent's matrix is of this pass.  That joint is the same in *)
(* every pass, and the base pose was made in one of them.                  *)
(***************************************************************************)
EXTENDS Cinematic, Animation, FiniteSetTheorems, WellFoundedInduction,
        NaturalsInduction, SequenceTheorems, TLAPS

\* A record with these fields.  (EXCEPT keeps a record's fields, whatever it is.)
IsObj(o) ==
  /\ DOMAIN o = {"status", "video", "file", "image", "buf", "half", "quads", "pos", "looping", "reset"}
  /\ o.status \in {"EOF", "IDLE", "PLAY", "LOOPED"} /\ o.video \in Videos
  /\ o.file \in {"none", "open", "refused"} /\ o.image \in BOOLEAN /\ o.buf \in 0..2
  /\ o.half \in [1..2 -> Int] /\ o.quads \in Int /\ o.pos \in Int
  /\ o.looping \in BOOLEAN /\ o.reset \in BOOLEAN
Calls == [at : {"none", "first", "until", "looped", "again"}, who : Cins, tfps : Int,
          init : BOOLEAN]

\* How far an object is in its video, and what it has of it.
Placed(o) ==
  /\ o.pos \in 1..Len(o.video) /\ o.quads \in -1..FramesBefore(o.video, o.pos)
  /\ o.pos >= 2 => o.image
  /\ o.buf = 0 => \A i \in 1..o.pos - 1 : o.video[i] # "vq"
  /\ o.buf # 0 => o.image
  /\ o.image => o.file = "open"

\* The halves after the nth picture, and the one it is in.
Side(n) == IF n % 2 = 0 THEN 2 ELSE 1
Halves(n) == IF n = 1 THEN <<1, 1>> ELSE IF n % 2 = 0 THEN <<n - 1, n>> ELSE <<n, n - 1>>
Drawn(o) ==
  /\ o.pos >= 2 => o.quads = FramesBefore(o.video, o.pos)
  /\ o.quads >= 1 => o.half = Halves(o.quads)
  /\ o.half[1] # Garbled /\ o.half[2] # Garbled
  /\ o.quads >= 2 => o.buf = Side(o.quads)
Good(o) == IsObj(o) /\ Placed(o) /\ (WellMade(o.video) => Drawn(o))

\* Between a code book and its picture there is no rest.
BooksBefore(v, p) == {i \in 1..p - 1 : v[i] = "book"}
LatestBook(v, p) == CHOOSE i \in BooksBefore(v, p) : \A j \in BooksBefore(v, p) : j <= i
AtRest(v, p) == \A b \in BooksBefore(v, p) : \E i \in Pictures(v) : b <= i /\ i < p

\* An object that has shown nothing yet.
Fresh(o) ==
  /\ DOMAIN o = {"status", "video", "file", "image", "buf", "half", "quads", "pos", "looping", "reset"}
  /\ o.video \in Videos /\ o.file \in {"none", "open", "refused"}
  /\ o.image = FALSE /\ o.looping \in BOOLEAN /\ o.reset \in BOOLEAN
  /\ o.buf = 0 /\ o.half = <<0, 0>> /\ o.quads \in -1..0 /\ o.pos = 1
  /\ o.status \in {"EOF", "IDLE", "PLAY"}

\* An object that no call works on: only one whose video was opened while
\* r_skipROQ was set has it open and shows nothing.
Outside(o, c, sk) ==
  /\ o.file = "open" /\ o.buf = 0 => c \in sk /\ Fresh(o) /\ (o.looping => o.status = "PLAY")
  /\ WellMade(o.video) => AtRest(o.video, o.pos) \/ o.reset \/ o.status \in {"EOF", "IDLE"}
\* One that a call works on.
Held(o, at) ==
  /\ o.file = "open" /\ o.status # "IDLE"
  /\ at \in {"until", "looped"} => o.buf # 0
  /\ at = "again" => o.image
  /\ at = "first" /\ o.buf = 0 => o.status \in {"PLAY", "LOOPED"}
  /\ at = "again" /\ o.buf = 0 => o.status = "PLAY"
HasBook(o, at, tfps, bk) ==
  AtRest(o.video, o.pos) \/ /\ bk = <<o.video, LatestBook(o.video, o.pos)>>
                            /\ at \in {"first", "again"} => o.buf = 0
                            /\ at = "until" => o.status = "EOF" \/ (o.status = "PLAY" /\ tfps # o.quads)
                            /\ at # "looped"
Inside(o, at, tfps, bk) ==
  Held(o, at) /\ (WellMade(o.video) => HasBook(o, at, tfps, bk))

CinInv ==
  /\ DOMAIN cin = Cins /\ call \in Calls /\ leaked = FALSE
  /\ \A c \in Cins : /\ Good(cin[c])
                     /\ IF call.at # "none" /\ call.who = c
                        THEN Inside(cin[c], call.at, call.tfps, book)
                        ELSE Outside(cin[c], c, skipped)

-----------------------------------------------------------------------------
(* Videos. *)

LEMMA FileBegins ==
  ASSUME NEW v \in Videos
  PROVE  /\ v \in Seq(Kinds) /\ Len(v) \in Nat /\ Len(v) >= 3 /\ v[1] = "info"
         /\ \E i \in 2..Len(v) - 1 : v[i] = "vq"
         /\ \A i \in 1..Len(v) : v[i] \in Kinds
         /\ \A i \in 1..Len(v) : v[i] = "packet" => i < Len(v) - 1 /\ v[i + 1] \in {"vq", "book", "sound"}
         /\ \A i \in 1..Len(v) : v[i] \in {"bad", "over"} => \E j \in 2..i : v[j] = "vq"
<1>1. v \in Seq(Kinds) /\ v[1] = "info"
  BY CinAssumption
<1>2. PICK i \in 2..Len(v) - 1 : v[i] = "vq"
  BY CinAssumption
<1>3. Len(v) \in Nat /\ DOMAIN v = 1..Len(v)
  BY <1>1
<1>4. Len(v) >= 3
  BY <1>2, <1>3
<1>5. \A j \in 1..Len(v) : v[j] \in Kinds
  BY <1>1, <1>3
<1>6. /\ \A j \in 1..Len(v) : v[j] = "packet" => j < Len(v) - 1 /\ v[j + 1] \in {"vq", "book", "sound"}
      /\ \A j \in 1..Len(v) : v[j] \in {"bad", "over"} => \E k \in 2..j : v[k] = "vq"
  BY <1>3, CinAssumption
<1> QED
  BY <1>1, <1>2, <1>3, <1>4, <1>5, <1>6

LEMMA FramesCount ==
  ASSUME NEW v \in Videos, NEW p \in 1..Len(v)
  PROVE  /\ FramesBefore(v, p) \in Nat
         /\ FramesBefore(v, 1) = 0
         /\ v[p] \in {"vq", "jpeg"} => FramesBefore(v, p + 1) = FramesBefore(v, p) + 1
         /\ v[p] \notin {"vq", "jpeg"} => FramesBefore(v, p + 1) = FramesBefore(v, p)
<1>1. DOMAIN v = 1..Len(v) /\ Len(v) \in Nat
  BY FileBegins
<1> DEFINE S == {i \in Pictures(v) : i < p}
<1>2. Pictures(v) \subseteq 1..Len(v)
  BY <1>1 DEF Pictures
<1>3. IsFiniteSet(1..Len(v))
  BY <1>1, FS_Interval
<1>4. IsFiniteSet(S) /\ p \notin S
  BY <1>2, <1>3, FS_Subset
<1>5. Cardinality(S) \in Nat
  BY <1>4, FS_CardinalityType
<1>6. {i \in Pictures(v) : i < 1} = {}
  BY <1>2
<1>7. {i \in Pictures(v) : i < p + 1} = IF v[p] \in {"vq", "jpeg"} THEN S \cup {p} ELSE S
  BY <1>1, <1>2 DEF Pictures
<1>8. Cardinality(S \cup {p}) = Cardinality(S) + 1
  BY <1>4, FS_AddElement
<1>9. FramesBefore(v, 1) = 0
  BY <1>6, FS_EmptySet DEF FramesBefore
<1>10. ASSUME v[p] \in {"vq", "jpeg"} PROVE FramesBefore(v, p + 1) = FramesBefore(v, p) + 1
  BY <1>7, <1>8, <1>10 DEF FramesBefore
<1>11. ASSUME v[p] \notin {"vq", "jpeg"} PROVE FramesBefore(v, p + 1) = FramesBefore(v, p)
  BY <1>7, <1>11 DEF FramesBefore
<1>12. FramesBefore(v, p) \in Nat
  BY <1>5 DEF FramesBefore
<1> QED
  BY <1>9, <1>10, <1>11, <1>12

LEMMA FrameCounts ==
  ASSUME NEW o, IsObj(o), NEW p \in 1..Len(o.video), o.pos = p
  PROVE  Frame(o) = FramesBefore(o.video, p + 1)
<1>1. Pictures(o.video) \subseteq Int
  BY FileBegins DEF Pictures, IsObj
<1>2. {i \in Pictures(o.video) : i <= o.pos} = {i \in Pictures(o.video) : i < p + 1}
  BY <1>1
<1> QED
  BY <1>2 DEF Frame, FramesBefore

-----------------------------------------------------------------------------
(* Where there is rest. *)

LEMMA RestAtFront == ASSUME NEW v PROVE AtRest(v, 1)
  BY DEF AtRest, BooksBefore

LEMMA RestBehindPicture ==
  ASSUME NEW v \in Videos, NEW p \in 1..Len(v), v[p] \in {"vq", "jpeg"}
  PROVE  AtRest(v, p + 1)
<1>1. p \in Pictures(v)
  BY FileBegins DEF Pictures
<1>2. ASSUME NEW b \in BooksBefore(v, p + 1) PROVE b <= p /\ p < p + 1
  BY DEF BooksBefore
<1> QED
  BY <1>1, <1>2 DEF AtRest

LEMMA NextBooks ==
  ASSUME NEW v \in Videos, NEW p \in 1..Len(v)
  PROVE  /\ v[p] = "book" => LatestBook(v, p + 1) = p
         /\ v[p] # "book" => BooksBefore(v, p + 1) = BooksBefore(v, p)
         /\ v[p] # "book" => LatestBook(v, p + 1) = LatestBook(v, p)
         /\ v[p] # "book" /\ AtRest(v, p) => AtRest(v, p + 1)
<1>1. ASSUME v[p] = "book" PROVE LatestBook(v, p + 1) = p
  <2>1. p \in BooksBefore(v, p + 1) /\ \A j \in BooksBefore(v, p + 1) : j \in Int /\ j <= p
    BY <1>1 DEF BooksBefore
  <2> QED
    BY <2>1 DEF LatestBook
<1>2. ASSUME v[p] # "book" PROVE BooksBefore(v, p + 1) = BooksBefore(v, p)
  BY <1>2 DEF BooksBefore
<1>3. ASSUME v[p] # "book" PROVE LatestBook(v, p + 1) = LatestBook(v, p)
  BY <1>2, <1>3 DEF LatestBook
<1>4. Pictures(v) \subseteq Int
  BY FileBegins DEF Pictures
<1>5. ASSUME v[p] # "book", AtRest(v, p) PROVE AtRest(v, p + 1)
  <2>1. ASSUME NEW b \in BooksBefore(v, p + 1) PROVE \E i \in Pictures(v) : b <= i /\ i < p + 1
    <3>1. PICK i \in Pictures(v) : b <= i /\ i < p
      BY <1>2, <1>5 DEF AtRest
    <3> QED
      BY <3>1, <1>4
  <2> QED
    BY <2>1 DEF AtRest
<1> QED
  BY <1>1, <1>2, <1>3, <1>5

\* A picture of a video that is well made is never behind a rest.
LEMMA NoRestBeforePicture ==
  ASSUME NEW v \in Videos, NEW p \in 1..Len(v), WellMade(v), v[p] = "vq"
  PROVE  ~AtRest(v, p) /\ BooksBefore(v, p) # {}
<1>1. p \in DOMAIN v
  BY FileBegins
<1>2. PICK b \in 1..p - 1 : v[b] = "book" /\ \A i \in Pictures(v) : i < p => i < b
  BY <1>1 DEF WellMade, OwnBook
<1>3. b \in BooksBefore(v, p) /\ b \in Int
  BY <1>2 DEF BooksBefore
<1>4. Pictures(v) \subseteq Int
  BY FileBegins DEF Pictures
<1> QED
  BY <1>2, <1>3, <1>4 DEF AtRest

-----------------------------------------------------------------------------
(* One chunk. *)

\* The object that a call works on when its loop goes on.
Working(o, at, tfps) ==
  /\ Good(o) /\ Inside(o, at, tfps, book) /\ o.status \in {"PLAY", "LOOPED"}
  /\ at \in {"first", "until", "again"}
  /\ at \in {"until", "again"} => o.status = "PLAY"
  /\ at \in {"first", "again"} => o.buf = 0
  /\ at = "until" => tfps # o.quads

\* The chunk in a packet is looked at as if it stood alone.
LEMMA PacketOpens ==
  ASSUME NEW o, NEW at, NEW tfps, Working(o, at, tfps), o.pos < Len(o.video)
  PROVE  Working(Unpacked(o), at, tfps) /\ Unpacked(o).pos < Len(o.video) /\ Unpacked(o).video = o.video
<1>1. CASE o.video[o.pos] # "packet"
  BY <1>1 DEF Unpacked
<1>2. CASE o.video[o.pos] = "packet"
  <2> DEFINE v == o.video  p == o.pos  d == Unpacked(o)
  <2>1. IsObj(o) /\ v \in Videos /\ p \in 1..Len(v) /\ v[p] = "packet" /\ Len(v) \in Nat
    BY <1>2, FileBegins DEF Working, Good, Placed, IsObj
  <2>2. p < Len(v) - 1 /\ v[1] # "packet" /\ p # 1
    BY <2>1, FileBegins
  <2>3. d = [o EXCEPT !.pos = p + 1]
    BY <1>2 DEF Unpacked
  <2>4. /\ IsObj(d) /\ d.pos = p + 1 /\ d.pos \in 1..Len(v) /\ d.video = v /\ d.pos < Len(v)
        /\ d.status = o.status /\ d.file = o.file /\ d.image = o.image /\ d.buf = o.buf
        /\ d.half = o.half /\ d.quads = o.quads /\ d.reset = o.reset
    BY <2>1, <2>2, <2>3 DEF IsObj
  <2>5. FramesBefore(v, p + 1) = FramesBefore(v, p) /\ LatestBook(v, p + 1) = LatestBook(v, p)
        /\ (AtRest(v, p) => AtRest(v, p + 1))
    BY <2>1, FramesCount, NextBooks
  <2>6. Placed(d)
    <3>1. Placed(o)
      BY DEF Working, Good
    <3>2. d.buf = 0 => \A i \in 1..d.pos - 1 : v[i] # "vq"
      BY <2>1, <2>4, <3>1 DEF Placed
    <3> QED
      BY <2>1, <2>2, <2>4, <2>5, <3>1, <3>2 DEF Placed
  <2>7. WellMade(v) => Drawn(d)
    BY <2>1, <2>2, <2>4, <2>5 DEF Working, Good, Drawn
  <2>8. Inside(d, at, tfps, book)
    BY <2>4, <2>5 DEF Working, Inside, Held, HasBook
  <2> QED
    BY <2>4, <2>6, <2>7, <2>8 DEF Working, Good
<1> QED
  BY <1>1, <1>2

\* What a chunk leaves, once the next header is read.
Ahead(o) == [o EXCEPT !.pos = @ + 1]
Done(o, at, tfps) ==
  /\ Ahead(Chunk(o)).video = o.video
  /\ Good(Ahead(Chunk(o))) /\ Inside(Ahead(Chunk(o)), at, tfps, BookAfter(o))

LEMMA WorkingFacts ==
  ASSUME NEW o, NEW at, NEW tfps, Working(o, at, tfps), o.pos < Len(o.video)
  PROVE  /\ IsObj(o) /\ o.video \in Videos /\ o.pos \in 1..Len(o.video) /\ o.pos + 1 \in 1..Len(o.video)
         /\ o.pos \in Int /\ Len(o.video) \in Nat
         /\ o.quads \in Int /\ -1 <= o.quads /\ o.quads <= FramesBefore(o.video, o.pos)
         /\ FramesBefore(o.video, o.pos) \in Nat
         /\ o.pos = 1 => o.quads <= 0 /\ o.video[o.pos] = "info"
         /\ o.video[o.pos] # "info" => o.image /\ o.pos >= 2
         /\ o.file = "open" /\ o.status \in {"PLAY", "LOOPED"}
<1>1. IsObj(o) /\ o.video \in Videos /\ o.pos \in 1..Len(o.video) /\ Len(o.video) \in Nat
      /\ o.video[1] = "info"
  BY FileBegins DEF Working, Good, Placed, IsObj
<1>2. FramesBefore(o.video, o.pos) \in Nat /\ FramesBefore(o.video, 1) = 0
  BY <1>1, FramesCount
<1>3. o.quads \in Int /\ -1 <= o.quads /\ o.quads <= FramesBefore(o.video, o.pos)
  BY <1>1, <1>2 DEF Working, Good, Placed, IsObj
<1>4. o.pos >= 2 => o.image
  BY DEF Working, Good, Placed
<1>5. o.file = "open" /\ o.status \in {"PLAY", "LOOPED"}
  BY DEF Working, Inside, Held
<1> QED
  BY <1>1, <1>2, <1>3, <1>4, <1>5

LEMMA OtherChunk ==
  ASSUME NEW o, NEW at, NEW tfps, Working(o, at, tfps), o.pos < Len(o.video),
         o.video[o.pos] \in {"sound", "packet", "over"}
  PROVE  Done(o, at, tfps)
<1> DEFINE v == o.video  p == o.pos  f == Ahead(Chunk(o))
<1>1. f = [o EXCEPT !.pos = p + 1] /\ BookAfter(o) = book
  BY DEF Ahead, Chunk, BookAfter
<1>2. IsObj(o) /\ v \in Videos /\ p \in Int /\ Len(v) \in Nat /\ p \in 1..Len(v) /\ p + 1 \in 1..Len(v) /\ p >= 2
  BY WorkingFacts
<1>3. IsObj(f) /\ f.pos = p + 1 /\ f.video = v /\ f.status = o.status /\ f.file = o.file
      /\ f.image = o.image /\ f.buf = o.buf /\ f.half = o.half /\ f.quads = o.quads
  <2>1. IsObj(f)
    BY <1>1, <1>2 DEF IsObj
  <2>2. f.pos = p + 1 /\ f.video = v /\ f.status = o.status /\ f.file = o.file
    BY <1>1, <1>2 DEF IsObj
  <2>3. f.image = o.image /\ f.buf = o.buf /\ f.half = o.half /\ f.quads = o.quads
    BY <1>1, <1>2 DEF IsObj
  <2> QED
    BY <2>1, <2>2, <2>3
<1>4. FramesBefore(v, p + 1) = FramesBefore(v, p) /\ LatestBook(v, p + 1) = LatestBook(v, p)
      /\ (AtRest(v, p) => AtRest(v, p + 1))
  BY <1>2, FramesCount, NextBooks
<1>5. Placed(f)
  <2>1. Placed(o)
    BY DEF Working, Good
  <2>2. f.buf = 0 => \A i \in 1..f.pos - 1 : v[i] # "vq"
    BY <1>2, <1>3, <2>1 DEF Placed
  <2> QED
    BY <1>2, <1>3, <1>4, <2>1, <2>2 DEF Placed
<1>6. WellMade(v) => Drawn(f)
  BY <1>2, <1>3, <1>4 DEF Working, Good, Drawn
<1>7. Inside(f, at, tfps, book)
  BY <1>3, <1>4 DEF Working, Inside, Held, HasBook
<1> QED
  BY <1>1, <1>3, <1>5, <1>6, <1>7 DEF Good, Done

LEMMA BookChunk ==
  ASSUME NEW o, NEW at, NEW tfps, Working(o, at, tfps), o.pos < Len(o.video),
         o.video[o.pos] = "book"
  PROVE  Done(o, at, tfps)
<1> DEFINE v == o.video  p == o.pos  f == Ahead(Chunk(o))
<1>1. f = [o EXCEPT !.pos = p + 1] /\ BookAfter(o) = <<v, p>>
  BY DEF Ahead, Chunk, BookAfter
<1>2. IsObj(o) /\ v \in Videos /\ p \in Int /\ Len(v) \in Nat /\ p \in 1..Len(v) /\ p + 1 \in 1..Len(v) /\ p >= 2
  BY WorkingFacts
<1>3. IsObj(f) /\ f.pos = p + 1 /\ f.video = v /\ f.status = o.status /\ f.file = o.file
      /\ f.image = o.image /\ f.buf = o.buf /\ f.half = o.half /\ f.quads = o.quads
  <2>1. IsObj(f)
    BY <1>1, <1>2 DEF IsObj
  <2>2. f.pos = p + 1 /\ f.video = v /\ f.status = o.status /\ f.file = o.file
    BY <1>1, <1>2 DEF IsObj
  <2>3. f.image = o.image /\ f.buf = o.buf /\ f.half = o.half /\ f.quads = o.quads
    BY <1>1, <1>2 DEF IsObj
  <2> QED
    BY <2>1, <2>2, <2>3
<1>4. FramesBefore(v, p + 1) = FramesBefore(v, p) /\ LatestBook(v, p + 1) = p
  BY <1>2, FramesCount, NextBooks
<1>5. Placed(f)
  <2>1. Placed(o)
    BY DEF Working, Good
  <2>2. f.buf = 0 => \A i \in 1..f.pos - 1 : v[i] # "vq"
    BY <1>2, <1>3, <2>1 DEF Placed
  <2> QED
    BY <1>2, <1>3, <1>4, <2>1, <2>2 DEF Placed
<1>6. WellMade(v) => Drawn(f)
  BY <1>2, <1>3, <1>4 DEF Working, Good, Drawn
<1>7. Inside(f, at, tfps, <<v, p>>)
  BY <1>3, <1>4 DEF Working, Inside, Held, HasBook
<1> QED
  BY <1>1, <1>3, <1>5, <1>6, <1>7 DEF Good, Done

\* A chunk that cannot be is the end; there was a picture before it.
LEMMA BadChunk ==
  ASSUME NEW o, NEW at, NEW tfps, Working(o, at, tfps), o.pos < Len(o.video),
         o.video[o.pos] = "bad"
  PROVE  Done(o, at, tfps)
<1> DEFINE v == o.video  p == o.pos  f == Ahead(Chunk(o))
<1>1. f = [o EXCEPT !.status = "EOF", !.pos = p + 1] /\ BookAfter(o) = book
  BY DEF Ahead, Chunk, BookAfter
<1>2. IsObj(o) /\ v \in Videos /\ p \in Int /\ Len(v) \in Nat /\ p \in 1..Len(v) /\ p + 1 \in 1..Len(v) /\ p >= 2
  BY WorkingFacts
<1>3. IsObj(f) /\ f.pos = p + 1 /\ f.video = v /\ f.status = "EOF" /\ f.file = o.file
      /\ f.image = o.image /\ f.buf = o.buf /\ f.half = o.half /\ f.quads = o.quads
  <2>1. IsObj(f)
    BY <1>1, <1>2 DEF IsObj
  <2>2. f.pos = p + 1 /\ f.video = v /\ f.status = "EOF" /\ f.file = o.file
    BY <1>1, <1>2 DEF IsObj
  <2>3. f.image = o.image /\ f.buf = o.buf /\ f.half = o.half /\ f.quads = o.quads
    BY <1>1, <1>2 DEF IsObj
  <2> QED
    BY <2>1, <2>2, <2>3
<1>4. FramesBefore(v, p + 1) = FramesBefore(v, p) /\ LatestBook(v, p + 1) = LatestBook(v, p)
      /\ (AtRest(v, p) => AtRest(v, p + 1))
  BY <1>2, FramesCount, NextBooks
<1>5. Placed(o)
  BY DEF Working, Good
<1>6. o.buf # 0
  <2>1. PICK j \in 2..p : v[j] = "vq"
    BY <1>2, FileBegins
  <2>2. j \in 1..p - 1
    BY <1>2, <2>1
  <2> QED
    BY <1>5, <2>1, <2>2 DEF Placed
<1>7. Placed(f)
  BY <1>2, <1>3, <1>4, <1>5, <1>6 DEF Placed
<1>8. WellMade(v) => Drawn(f)
  BY <1>2, <1>3, <1>4 DEF Working, Good, Drawn
<1>9. Inside(f, at, tfps, book)
  BY <1>3, <1>4, <1>6 DEF Working, Inside, Held, HasBook
<1> QED
  BY <1>1, <1>3, <1>7, <1>8, <1>9 DEF Good, Done

LEMMA InfoChunk ==
  ASSUME NEW o, NEW at, NEW tfps, Working(o, at, tfps), o.pos < Len(o.video),
         o.video[o.pos] = "info"
  PROVE  Done(o, at, tfps)
<1> DEFINE v == o.video  p == o.pos  f == Ahead(Chunk(o))  q == IF o.quads = 1 THEN 1 ELSE 0
<1>1. f = [o EXCEPT !.image = TRUE, !.quads = q, !.pos = p + 1] /\ BookAfter(o) = book
  BY DEF Ahead, Chunk, QuadInfo, BookAfter
<1>2. /\ IsObj(o) /\ v \in Videos /\ p \in Int /\ Len(v) \in Nat /\ p \in 1..Len(v) /\ p + 1 \in 1..Len(v) /\ o.file = "open"
      /\ o.quads \in Int /\ o.quads <= FramesBefore(v, p)
      /\ FramesBefore(v, p) \in Nat /\ (p = 1 => o.quads <= 0)
  BY WorkingFacts
<1>3. IsObj(f) /\ f.pos = p + 1 /\ f.video = v /\ f.status = o.status /\ f.file = o.file
      /\ f.image = TRUE /\ f.buf = o.buf /\ f.half = o.half /\ f.quads = q
  <2>1. IsObj(f)
    BY <1>1, <1>2 DEF IsObj
  <2>2. f.pos = p + 1 /\ f.video = v /\ f.status = o.status /\ f.file = o.file
    BY <1>1, <1>2 DEF IsObj
  <2>3. f.image = TRUE /\ f.buf = o.buf /\ f.half = o.half /\ f.quads = q
    BY <1>1, <1>2 DEF IsObj
  <2> QED
    BY <2>1, <2>2, <2>3
<1>4. FramesBefore(v, p + 1) = FramesBefore(v, p) /\ LatestBook(v, p + 1) = LatestBook(v, p)
      /\ (AtRest(v, p) => AtRest(v, p + 1))
  BY <1>2, FramesCount, NextBooks
<1>5. Placed(o)
  BY DEF Working, Good
<1>6. Placed(f)
  <2>1. f.buf = 0 => \A i \in 1..f.pos - 1 : v[i] # "vq"
    BY <1>2, <1>3, <1>5 DEF Placed
  <2>2. q \in -1..FramesBefore(v, p + 1)
    BY <1>2, <1>4
  <2> QED
    BY <1>2, <1>3, <1>5, <2>1, <2>2 DEF Placed
<1>7. ASSUME WellMade(v) PROVE Drawn(f) /\ (p >= 2 => q = o.quads)
  <2>1. FramesBefore(v, p) <= 1
    BY <1>2, <1>7, FileBegins DEF WellMade
  <2>2. Drawn(o)
    BY <1>7 DEF Working, Good
  <2>3. p >= 2 => q = o.quads
    BY <1>2, <2>1, <2>2 DEF Drawn
  <2>4. q = FramesBefore(v, p + 1)
    <3>1. CASE p = 1
      BY <1>2, <1>4, <3>1, FramesCount
    <3>2. CASE p >= 2
      BY <1>2, <1>4, <2>2, <2>3, <3>2 DEF Drawn
    <3> QED
      BY <1>2, <3>1, <3>2
  <2>5. q >= 1 => q = o.quads
    OBVIOUS
  <2> QED
    BY <1>2, <1>3, <2>2, <2>3, <2>4, <2>5 DEF Drawn
<1>8. Inside(f, at, tfps, book)
  <2>1. p = 1 => AtRest(v, p + 1)
    BY <1>4, RestAtFront
  <2>2. WellMade(v) => HasBook(f, at, tfps, book)
    BY <1>2, <1>3, <1>4, <1>7, <2>1 DEF Working, Inside, HasBook
  <2> QED
    BY <1>3, <2>2 DEF Working, Inside, Held
<1> QED
  BY <1>1, <1>3, <1>6, <1>7, <1>8 DEF Good, Done

\* A still that comes first is in both halves.
LEMMA JpegChunk ==
  ASSUME NEW o, NEW at, NEW tfps, Working(o, at, tfps), o.pos < Len(o.video),
         o.video[o.pos] = "jpeg"
  PROVE  Done(o, at, tfps)
<1> DEFINE v == o.video  p == o.pos  f == Ahead(Chunk(o))  n == FramesBefore(v, p + 1)
<1>1. /\ o.quads # 0 => f = [o EXCEPT !.pos = p + 1]
      /\ o.quads = 0 => f = [o EXCEPT !.half = <<Frame(o), Frame(o)>>, !.quads = 1, !.pos = p + 1]
      /\ BookAfter(o) = book
  BY DEF Ahead, Chunk, JpegBlit, BookAfter
<1>2. /\ IsObj(o) /\ v \in Videos /\ p \in Int /\ Len(v) \in Nat /\ p \in 1..Len(v) /\ p + 1 \in 1..Len(v)
      /\ o.quads \in Int /\ -1 <= o.quads /\ o.quads <= FramesBefore(v, p)
      /\ FramesBefore(v, p) \in Nat /\ p >= 2
  BY WorkingFacts
<1>3. n = FramesBefore(v, p) + 1 /\ Frame(o) = n /\ n \in Nat
  BY <1>2, FramesCount, FrameCounts
<1>4. AtRest(v, p + 1)
  BY <1>2, RestBehindPicture
<1>5. /\ f.pos = p + 1 /\ f.video = v /\ f.status = o.status /\ f.file = o.file
      /\ f.image = o.image /\ f.buf = o.buf
      /\ o.quads # 0 => f.quads = o.quads
      /\ o.quads = 0 => f.quads = 1 /\ f.half = <<n, n>>
  <2>1. CASE o.quads = 0
    <3>1. f = [o EXCEPT !.half = <<n, n>>, !.quads = 1, !.pos = p + 1]
      BY <1>1, <1>3, <2>1
    <3>2. f.pos = p + 1 /\ f.half = <<n, n>> /\ f.quads = 1
      BY <1>2, <3>1 DEF IsObj
    <3>3. f.video = v /\ f.status = o.status /\ f.file = o.file /\ f.image = o.image /\ f.buf = o.buf
      BY <1>2, <3>1 DEF IsObj
    <3> QED
      BY <2>1, <3>2, <3>3
  <2>2. CASE o.quads # 0
    <3>1. f = [o EXCEPT !.pos = p + 1]
      BY <1>1, <2>2
    <3>2. f.pos = p + 1 /\ f.quads = o.quads
      BY <1>2, <3>1 DEF IsObj
    <3>3. f.video = v /\ f.status = o.status /\ f.file = o.file /\ f.image = o.image /\ f.buf = o.buf
      BY <1>2, <3>1 DEF IsObj
    <3> QED
      BY <2>2, <3>2, <3>3
  <2> QED
    BY <2>1, <2>2
<1>6. IsObj(f)
  <2>1. <<n, n>> \in [1..2 -> Int]
    BY <1>3
  <2>2. CASE o.quads = 0
    <3>1. f = [o EXCEPT !.half = <<n, n>>, !.quads = 1, !.pos = p + 1]
      BY <1>1, <1>3, <2>2
    <3>2. DOMAIN f = DOMAIN o /\ f.looping = o.looping /\ f.reset = o.reset
      BY <1>2, <3>1 DEF IsObj
    <3> QED
      BY <1>2, <1>5, <2>1, <2>2, <3>2 DEF IsObj
  <2>3. CASE o.quads # 0
    BY <1>1, <1>2, <2>3 DEF IsObj
  <2> QED
    BY <2>2, <2>3
<1>7. Placed(f)
  <2>1. Placed(o)
    BY DEF Working, Good
  <2>2. f.buf = 0 => \A i \in 1..f.pos - 1 : v[i] # "vq"
    BY <1>2, <1>5, <2>1 DEF Placed
  <2>3. f.quads \in -1..n
    BY <1>2, <1>3, <1>5
  <2> QED
    BY <1>2, <1>5, <2>1, <2>2, <2>3 DEF Placed
<1>8. ASSUME WellMade(v) PROVE Drawn(f)
  <2>1. FramesBefore(v, p) = 0
    BY <1>2, <1>8, FileBegins DEF WellMade
  <2>2. o.quads = 0
    BY <1>2, <1>8, <2>1 DEF Working, Good, Drawn
  <2>3. n = 1
    BY <1>3, <2>1
  <2> QED
    BY <1>2, <1>5, <2>2, <2>3 DEF Drawn, Halves, Garbled
<1>9. Inside(f, at, tfps, book)
  BY <1>4, <1>5 DEF Working, Inside, Held, HasBook
<1> QED
  BY <1>1, <1>5, <1>6, <1>7, <1>8, <1>9 DEF Good, Done

\* The halves hold the pictures that a frame of a well made video is built on.
LEMMA HalvesFit ==
  ASSUME NEW n \in Nat, n >= 1, NEW h, h = IF (n - 1) % 2 = 0 THEN 1 ELSE 2,
         NEW half \in [1..2 -> Int], n > 1 => half = Halves(n - 1)
  PROVE  /\ h = Side(n)
         /\ n > 1 => half = [half EXCEPT ![3 - h] = n - 1, ![h] = IF n = 2 THEN 1 ELSE n - 2]
         /\ n > 1 => [half EXCEPT ![h] = n] = Halves(n)
<1>1. CASE n = 1
  BY <1>1 DEF Side
<1>2. CASE n = 2
  <2>1. h = 2 /\ half = <<1, 1>> /\ Halves(n) = <<1, 2>> /\ Side(n) = 2
    BY <1>2 DEF Side, Halves
  <2> QED
    BY <1>2, <2>1
<1>3. CASE n > 2 /\ n % 2 = 0
  <2>1. h = 2 /\ half = <<n - 1, n - 2>> /\ Halves(n) = <<n - 1, n>> /\ Side(n) = 2
    BY <1>3 DEF Side, Halves
  <2> QED
    BY <1>3, <2>1
<1>4. CASE n > 2 /\ n % 2 # 0
  <2>1. h = 1 /\ half = <<n - 2, n - 1>> /\ Halves(n) = <<n, n - 1>> /\ Side(n) = 1
    BY <1>4 DEF Side, Halves
  <2> QED
    BY <1>4, <2>1
<1> QED
  BY <1>1, <1>2, <1>3, <1>4

LEMMA BookFits ==
  ASSUME NEW o, NEW at, NEW tfps, Working(o, at, tfps), o.pos < Len(o.video),
         o.video[o.pos] = "vq", WellMade(o.video)
  PROVE  book = BookBefore(o)
<1> DEFINE v == o.video  p == o.pos  books == {i \in 1..p : v[i] = "book"}
<1>1. v \in Videos /\ p \in Int /\ p \in 1..Len(v)
  BY WorkingFacts
<1>2. books = BooksBefore(v, p)
  BY <1>1 DEF BooksBefore
<1>3. ~AtRest(v, p) /\ books # {}
  BY <1>1, <1>2, NoRestBeforePicture
<1>4. BookBefore(o) = <<v, LatestBook(v, p)>>
  BY <1>2, <1>3 DEF BookBefore, LatestBook
<1> QED
  BY <1>3, <1>4 DEF Working, Inside, HasBook

\* A frame is decoded with its book, onto the pictures before it.
LEMMA FrameChunk ==
  ASSUME NEW o, NEW at, NEW tfps, Working(o, at, tfps), o.pos < Len(o.video),
         o.video[o.pos] = "vq"
  PROVE  Done(o, at, tfps)
<1> DEFINE v == o.video  p == o.pos  f == Ahead(Chunk(o))  n == FramesBefore(v, p + 1)
           h == IF o.quads % 2 = 0 THEN 1 ELSE 2
           picture == IF Fits(o, h) THEN Frame(o) ELSE Garbled
           new == IF o.quads = 0 THEN <<picture, picture>> ELSE [o.half EXCEPT ![h] = picture]
<1>1. f = [o EXCEPT !.buf = h, !.quads = o.quads + 1, !.half = new, !.pos = p + 1] /\ BookAfter(o) = book
  <2>1. Chunk(o) = [o EXCEPT !.buf = h, !.quads = o.quads + 1, !.half = new]
    BY DEF Chunk, DecodeVQ
  <2>2. IsObj(o)
    BY WorkingFacts
  <2> QED
    BY <2>1, <2>2 DEF Ahead, BookAfter, IsObj
<1>2. /\ IsObj(o) /\ v \in Videos /\ p \in Int /\ Len(v) \in Nat /\ p \in 1..Len(v) /\ p + 1 \in 1..Len(v)
      /\ o.quads \in Int /\ -1 <= o.quads /\ o.quads <= FramesBefore(v, p)
      /\ FramesBefore(v, p) \in Nat /\ p >= 2 /\ o.file = "open"
  BY WorkingFacts
<1>3. o.image
  BY WorkingFacts
<1>4. n = FramesBefore(v, p) + 1 /\ Frame(o) = n /\ n \in Nat /\ n >= 1
  BY <1>2, FramesCount, FrameCounts
<1>5. AtRest(v, p + 1)
  BY <1>2, RestBehindPicture
<1>6. h \in 1..2 /\ picture \in Int /\ new \in [1..2 -> Int]
  <2>1. h \in 1..2 /\ picture \in Int
    BY <1>4 DEF Garbled
  <2>2. <<picture, picture>> \in [1..2 -> Int]
    BY <2>1
  <2>3. [o.half EXCEPT ![h] = picture] \in [1..2 -> Int]
    BY <1>2, <2>1 DEF IsObj
  <2> QED
    BY <2>1, <2>2, <2>3
<1> HIDE DEF h, picture, new
<1>7. f.pos = p + 1 /\ f.buf = h /\ f.quads = o.quads + 1 /\ f.half = new
  BY <1>1, <1>2 DEF IsObj
<1>8. f.video = v /\ f.status = o.status /\ f.file = o.file /\ f.image = o.image
  BY <1>1, <1>2 DEF IsObj
<1>9. IsObj(f)
  <2>1. DOMAIN f = DOMAIN o /\ f.looping = o.looping /\ f.reset = o.reset
    BY <1>1, <1>2 DEF IsObj
  <2> QED
    BY <1>2, <1>6, <1>7, <1>8, <2>1 DEF IsObj
<1>10. Placed(f)
  <2>1. Placed(o)
    BY DEF Working, Good
  <2>2. f.buf # 0
    BY <1>6, <1>7
  <2>3. f.quads \in -1..n
    BY <1>2, <1>4, <1>7
  <2> QED
    BY <1>2, <1>3, <1>7, <1>8, <2>1, <2>2, <2>3 DEF Placed
<1>11. ASSUME WellMade(v) PROVE Drawn(f)
  <2>1. Drawn(o) /\ o.quads = n - 1
    BY <1>2, <1>4, <1>11 DEF Working, Good, Drawn
  <2>2. n > 1 => o.half = Halves(n - 1)
    BY <1>4, <2>1 DEF Drawn
  <2>3. h = IF (n - 1) % 2 = 0 THEN 1 ELSE 2
    BY <2>1 DEF h
  <2>4. o.half \in [1..2 -> Int]
    BY <1>2 DEF IsObj
  <2>5. /\ h = Side(n)
        /\ n > 1 => o.half = [o.half EXCEPT ![3 - h] = n - 1, ![h] = IF n = 2 THEN 1 ELSE n - 2]
        /\ n > 1 => [o.half EXCEPT ![h] = n] = Halves(n)
    BY <1>4, <2>2, <2>3, <2>4, HalvesFit
  <2>6. picture = n
    <3>1. book = BookBefore(o)
      BY <1>11, BookFits
    <3>2. Fits(o, h)
      BY <1>4, <2>5, <3>1 DEF Fits
    <3> QED
      BY <1>4, <3>2 DEF picture
  <2>7. new = Halves(n)
    <3>1. CASE n = 1
      BY <2>1, <2>6, <3>1 DEF new, Halves
    <3>2. CASE n > 1
      BY <1>4, <2>1, <2>5, <2>6, <3>2 DEF new
    <3> QED
      BY <1>4, <3>1, <3>2
  <2>8. new[1] # Garbled /\ new[2] # Garbled
    BY <1>4, <2>7 DEF Halves, Garbled
  <2> QED
    BY <1>4, <1>7, <1>8, <2>1, <2>5, <2>7, <2>8 DEF Drawn
<1>12. Inside(f, at, tfps, book)
  <2>1. f.buf # 0
    BY <1>6, <1>7
  <2> QED
    BY <1>5, <1>7, <1>8, <2>1 DEF Working, Inside, Held, HasBook
<1> QED
  BY <1>1, <1>8, <1>9, <1>10, <1>11, <1>12 DEF Good, Done

LEMMA ChunkIsDone ==
  ASSUME NEW o, NEW at, NEW tfps, Working(o, at, tfps), o.pos < Len(o.video)
  PROVE  Done(o, at, tfps)
<1>1. o.video[o.pos] \in Kinds
  BY WorkingFacts, FileBegins
<1> QED
  BY <1>1, OtherChunk, BookChunk, BadChunk, InfoChunk, JpegChunk, FrameChunk DEF Kinds

-----------------------------------------------------------------------------
(* One turn of a loop. *)

LEMMA ResetIsGood ==
  ASSUME NEW o, Good(o)
  PROVE  Good(RoQReset(o))
<1> DEFINE r == RoQReset(o)  v == o.video
<1>1. r = [o EXCEPT !.pos = 1, !.quads = -1, !.status = "LOOPED"] /\ IsObj(o) /\ Placed(o)
  BY DEF RoQReset, RoQ_init, Good, IsObj
<1>2. r.pos = 1 /\ r.quads = -1 /\ r.status = "LOOPED" /\ r.video = v /\ r.file = o.file
  BY <1>1 DEF IsObj
<1>3. r.image = o.image /\ r.buf = o.buf /\ r.half = o.half /\ DOMAIN r = DOMAIN o
      /\ r.looping = o.looping /\ r.reset = o.reset
  BY <1>1 DEF IsObj
<1>4. IsObj(r)
  BY <1>1, <1>2, <1>3 DEF IsObj
<1>5. FramesBefore(v, 1) = 0 /\ Len(v) \in Nat /\ Len(v) >= 3
  BY <1>1, FramesCount, FileBegins DEF IsObj, Placed
<1>6. Placed(r)
  BY <1>1, <1>2, <1>3, <1>5 DEF Placed
<1>7. WellMade(v) => Drawn(r)
  BY <1>2, <1>3 DEF Good, Drawn
<1> QED
  BY <1>2, <1>4, <1>6, <1>7 DEF Good

LEMMA ResetFields ==
  ASSUME NEW o, IsObj(o)
  PROVE  /\ RoQReset(o).pos = 1 /\ RoQReset(o).quads = -1 /\ RoQReset(o).status = "LOOPED"
         /\ RoQReset(o).video = o.video /\ RoQReset(o).file = o.file /\ RoQReset(o).buf = o.buf
         /\ RoQReset(o).looping = o.looping /\ RoQReset(o).reset = o.reset
         /\ RoQReset(o).image = o.image
<1> DEFINE r == RoQReset(o)
<1>1. r = [o EXCEPT !.pos = 1, !.quads = -1, !.status = "LOOPED"]
  BY DEF RoQReset, RoQ_init, IsObj
<1>2. r.pos = 1 /\ r.quads = -1 /\ r.status = "LOOPED" /\ r.video = o.video /\ r.file = o.file
  BY <1>1 DEF IsObj
<1>3. r.image = o.image /\ r.buf = o.buf /\ r.looping = o.looping /\ r.reset = o.reset
  BY <1>1 DEF IsObj
<1> QED
  BY <1>2, <1>3

\* A status that says nothing of the place.
LEMMA StatusIsFree ==
  ASSUME NEW o, Good(o), NEW s \in {"EOF", "IDLE", "PLAY"}
  PROVE  /\ Good([o EXCEPT !.status = s])
         /\ [o EXCEPT !.status = s].status = s
         /\ [o EXCEPT !.status = s].video = o.video /\ [o EXCEPT !.status = s].file = o.file
         /\ [o EXCEPT !.status = s].buf = o.buf /\ [o EXCEPT !.status = s].pos = o.pos
         /\ [o EXCEPT !.status = s].quads = o.quads /\ [o EXCEPT !.status = s].reset = o.reset
         /\ [o EXCEPT !.status = s].looping = o.looping /\ [o EXCEPT !.status = s].image = o.image
<1>1. PICK r : r = [o EXCEPT !.status = s]
  OBVIOUS
<1>2. IsObj(o) /\ Placed(o)
  BY DEF Good
<1>3. r.status = s /\ r.video = o.video /\ r.file = o.file /\ r.buf = o.buf /\ r.pos = o.pos
  BY <1>1, <1>2 DEF IsObj
<1>4. r.image = o.image /\ r.quads = o.quads /\ r.half = o.half
  BY <1>1, <1>2 DEF IsObj
<1>5. r.looping = o.looping /\ r.reset = o.reset /\ DOMAIN r = DOMAIN o
  BY <1>1, <1>2 DEF IsObj
<1>6. IsObj(r)
  BY <1>2, <1>3, <1>4, <1>5 DEF IsObj
<1>7. Placed(r)
  BY <1>2, <1>3, <1>4 DEF Placed
<1>8. WellMade(o.video) => Drawn(r)
  BY <1>3, <1>4 DEF Good, Drawn
<1>9. Good(r)
  BY <1>3, <1>6, <1>7, <1>8 DEF Good
<1> QED
  BY <1>1, <1>3, <1>4, <1>5, <1>9

LEMMA EndIsGood ==
  ASSUME NEW o, NEW at, NEW tfps, NEW bk, Good(o), Inside(o, at, tfps, bk), o.buf # 0,
         at \in {"first", "until", "again"}
  PROVE  Good(AtEnd(o)) /\ Inside(AtEnd(o), at, tfps, bk)
<1>1. IsObj(o)
  BY DEF Good
<1>2. CASE o.looping
  <2>1. AtEnd(o) = RoQReset(o)
    BY <1>2 DEF AtEnd
  <2>2. AtRest(o.video, 1)
    BY RestAtFront
  <2> QED
    BY <1>1, <2>1, <2>2, ResetIsGood, ResetFields DEF Inside, Held, HasBook
<1>3. CASE ~o.looping
  <2>1. PICK r : r = [o EXCEPT !.status = "EOF"]
    OBVIOUS
  <2>2. /\ Good(r) /\ r.status = "EOF" /\ r.video = o.video /\ r.file = o.file /\ r.buf = o.buf
        /\ r.pos = o.pos /\ r.quads = o.quads /\ r.image = o.image
    BY <2>1, StatusIsFree
  <2>3. Inside(r, at, tfps, bk)
    BY <2>2 DEF Inside, Held, HasBook
  <2> QED
    BY <1>3, <2>1, <2>2, <2>3 DEF AtEnd
<1> QED
  BY <1>2, <1>3

LEMMA InterruptIsGood ==
  ASSUME NEW o, NEW at, NEW tfps, Working(o, at, tfps)
  PROVE  Good(Interrupt(o)) /\ Inside(Interrupt(o), at, tfps, BookInterrupt(o))
<1>1. IsObj(o) /\ o.video \in Videos /\ o.pos \in 1..Len(o.video) /\ Len(o.video) \in Nat /\ Placed(o)
  BY FileBegins DEF Working, Good, IsObj, Placed
<1>2. CASE o.pos >= Len(o.video)
  <2>1. Interrupt(o) = AtEnd(o) /\ BookInterrupt(o) = book
    BY <1>2 DEF Interrupt, BookInterrupt
  <2>2. PICK i \in 2..Len(o.video) - 1 : o.video[i] = "vq"
    BY <1>1, FileBegins
  <2>3. o.buf # 0
    BY <1>1, <1>2, <2>2 DEF Placed
  <2> QED
    BY <2>1, <2>3, EndIsGood DEF Working
<1>3. CASE o.pos < Len(o.video)
  <2> DEFINE d == Unpacked(o)  f == Ahead(Chunk(d))  bk == BookAfter(d)
  <2>1. Working(d, at, tfps) /\ d.pos < Len(d.video)
    BY <1>3, PacketOpens
  <2>2. Good(f) /\ Inside(f, at, tfps, bk) /\ f.video = d.video
    BY <2>1, ChunkIsDone DEF Done
  <2>3. /\ Interrupt(o) = IF f.video[f.pos] = "over" THEN AtEnd(f) ELSE f
        /\ BookInterrupt(o) = bk
    BY <1>1, <1>3 DEF Interrupt, BookInterrupt, NextHeader, Ahead
  <2>4. ASSUME f.video[f.pos] = "over" PROVE f.buf # 0
    <3>1. f.video \in Videos /\ f.pos \in 1..Len(f.video) /\ Len(f.video) \in Nat /\ Placed(f)
      BY <2>2, FileBegins DEF Good, IsObj, Placed
    <3>2. PICK j \in 2..f.pos : f.video[j] = "vq"
      BY <2>4, <3>1, FileBegins
    <3>3. j \in 1..f.pos - 1
      BY <2>4, <3>1, <3>2
    <3> QED
      BY <3>1, <3>2, <3>3 DEF Placed
  <2>5. at \in {"first", "until", "again"}
    BY DEF Working
  <2> HIDE DEF f, bk
  <2>6. f.video[f.pos] = "over" => Good(AtEnd(f)) /\ Inside(AtEnd(f), at, tfps, bk)
    BY <2>2, <2>4, <2>5, EndIsGood
  <2> QED
    BY <2>2, <2>3, <2>6
<1> QED
  BY <1>1, <1>2, <1>3

-----------------------------------------------------------------------------
(* The calls. *)

\* One object is worked on at a time; the others rest, whatever the code book is.
LEMMA OneChanges ==
  ASSUME CinInv, NEW c \in Cins, NEW n, Set(c, n), Good(n), call' \in Calls, leaked' = FALSE,
         \A d \in Cins : d # c => (d \in skipped' <=> d \in skipped),
         call.at = "none" \/ call.who = c, call'.at = "none" \/ call'.who = c,
         call'.at = "none" => Outside(n, c, skipped'),
         call'.at # "none" => Inside(n, call'.at, call'.tfps, book')
  PROVE  CinInv'
<1>1. DOMAIN cin' = Cins /\ cin'[c] = n /\ \A d \in Cins : d # c => cin'[d] = cin[d]
  BY DEF Set, CinInv
<1>2. ASSUME NEW d \in Cins
      PROVE  /\ Good(cin'[d])
             /\ IF call'.at # "none" /\ call'.who = d
                THEN Inside(cin'[d], call'.at, call'.tfps, book') ELSE Outside(cin'[d], d, skipped')
  <2>1. CASE d = c
    BY <1>1, <2>1
  <2>2. CASE d # c
    <3>1. cin'[d] = cin[d] /\ (d \in skipped' <=> d \in skipped) /\ Good(cin[d])
          /\ Outside(cin[d], d, skipped)
      BY <1>1, <2>2 DEF CinInv
    <3>2. Outside(cin[d], d, skipped')
      BY <3>1 DEF Outside
    <3> QED
      BY <1>1, <2>2, <3>1, <3>2
  <2> QED
    BY <2>1, <2>2
<1> QED
  BY <1>1, <1>2 DEF CinInv

LEMMA ReturnedIsCall == Returned \in Calls /\ Returned.at = "none"
<1>1. (CHOOSE c \in Cins : TRUE) \in Cins
  BY CinAssumption
<1> QED
  BY <1>1 DEF Returned, Calls

LEMMA FreshIsGood ==
  ASSUME NEW o, Fresh(o)
  PROVE  Good(o) /\ AtRest(o.video, o.pos)
<1>1. <<0, 0>> \in [1..2 -> Int]
  OBVIOUS
<1>2. IsObj(o)
  <2>1. o.half \in [1..2 -> Int] /\ o.quads \in Int /\ o.pos \in Int /\ o.buf \in 0..2
    BY <1>1 DEF Fresh
  <2>2. o.image \in BOOLEAN
    BY DEF Fresh
  <2> QED
    BY <2>1, <2>2 DEF IsObj, Fresh
<1>3. Len(o.video) \in Nat /\ Len(o.video) >= 3
  BY FileBegins DEF Fresh
<1>4. FramesBefore(o.video, 1) = 0
  BY <1>3, FramesCount DEF Fresh
<1>5. Placed(o)
  BY <1>3, <1>4 DEF Placed, Fresh
<1>6. Drawn(o)
  BY DEF Drawn, Garbled, Fresh
<1>7. AtRest(o.video, o.pos)
  BY RestAtFront DEF Fresh
<1> QED
  BY <1>2, <1>5, <1>6, <1>7 DEF Good

LEMMA NewIsFresh == Fresh(New)
<1>1. (CHOOSE v \in Videos : TRUE) \in Videos
  BY CinAssumption
<1>2. New.video \in Videos
  BY <1>1 DEF New
<1>3. New.image = FALSE /\ New.looping \in BOOLEAN /\ New.reset \in BOOLEAN
  BY DEF New
<1>4. New.file = "none" /\ New.status = "EOF" /\ New.half = <<0, 0>>
  BY DEF New
<1>5. New.buf = 0 /\ New.quads = 0 /\ New.pos = 1
  BY DEF New
<1>6. DOMAIN New = {"status", "video", "file", "image", "buf", "half", "quads", "pos", "looping", "reset"}
  BY DEF New
<1> QED
  BY <1>2, <1>3, <1>4, <1>5, <1>6 DEF Fresh

\* Close leaves nothing open that was played.
LEMMA ClosedIsFresh ==
  ASSUME NEW o, NEW c, NEW sk, Good(o), Outside(o, c, sk)
  PROVE  /\ Fresh(Closed(o)) /\ Closed(o).status = "IDLE"
         /\ Closed(o).file = "open" => c \in sk /\ ~o.looping /\ ~Closed(o).looping
<1> DEFINE s == IF o.image THEN [o EXCEPT !.status = "EOF"] ELSE o  d == RoQShutdown(s)
<1>1. IsObj(o) /\ Placed(o)
  BY DEF Good
<1>2. /\ IsObj(s) /\ s.file = o.file /\ (o.image => s.status = "EOF") /\ (~o.image => s = o)
  <2>1. CASE o.image
    <3>1. s = [o EXCEPT !.status = "EOF"]
      BY <2>1
    <3>2. IsObj(s) /\ s.file = o.file /\ s.status = "EOF"
      BY <3>1, <1>1, StatusIsFree DEF Good
    <3> QED
      BY <2>1, <3>2
  <2>2. CASE ~o.image
    BY <1>1, <2>2
  <2> QED
    BY <2>1, <2>2
<1>3. Closed(o) = IF d.file = "open" THEN [d EXCEPT !.image = FALSE, !.buf = 0]
                  ELSE [New EXCEPT !.status = d.status, !.file = d.file]
  BY DEF Closed
<1> HIDE DEF s
<1>4. CASE s.status = "IDLE" /\ o.file = "open"
  <2>1. d = s /\ ~o.image /\ d = o
    BY <1>2, <1>4 DEF RoQShutdown
  <2>2. o.buf = 0
    BY <1>1, <2>1 DEF Placed
  <2>3. Fresh(o) /\ c \in sk /\ ~o.looping /\ o.status = "IDLE"
    BY <1>4, <2>1, <2>2 DEF Outside
  <2>4. PICK e : e = [o EXCEPT !.image = FALSE, !.buf = 0]
    OBVIOUS
  <2>5. DOMAIN e = DOMAIN o /\ e.image = FALSE /\ e.buf = 0 /\ e.status = o.status
    BY <1>1, <2>4 DEF IsObj
  <2>6. e.file = o.file /\ e.video = o.video /\ e.half = o.half /\ e.quads = o.quads
    BY <1>1, <2>4 DEF IsObj
  <2>7. e.pos = o.pos /\ e.looping = o.looping /\ e.reset = o.reset
    BY <1>1, <2>4 DEF IsObj
  <2>8. Fresh(e)
    BY <2>3, <2>5, <2>6, <2>7 DEF Fresh
  <2>9. Closed(o) = e
    BY <1>3, <1>4, <2>1, <2>4
  <2> QED
    BY <2>3, <2>5, <2>7, <2>8, <2>9
<1>5. CASE ~(s.status = "IDLE" /\ o.file = "open")
  <2>1. d.status = "IDLE" /\ d.file \in {"none", "refused"}
    <3>1. CASE s.status = "IDLE"
      <4>1. d = s /\ s.file # "open"
        BY <1>2, <1>5, <3>1 DEF RoQShutdown
      <4> QED
        BY <1>2, <3>1, <4>1 DEF IsObj
    <3>2. CASE s.status # "IDLE"
      <4>1. d = [s EXCEPT !.status = "IDLE", !.file = "none"]
        BY <3>2 DEF RoQShutdown
      <4> QED
        BY <1>2, <4>1 DEF IsObj
    <3> QED
      BY <3>1, <3>2
  <2> HIDE DEF d
  <2>2. PICK e : e = New
    OBVIOUS
  <2>3. Fresh(e)
    BY <2>2, NewIsFresh
  <2>4. PICK n : n = [e EXCEPT !.status = d.status, !.file = d.file]
    OBVIOUS
  <2>5. DOMAIN n = DOMAIN e /\ n.status = d.status /\ n.file = d.file /\ n.video = e.video
    BY <2>3, <2>4 DEF Fresh
  <2>6. n.image = e.image /\ n.looping = e.looping /\ n.reset = e.reset
    BY <2>3, <2>4 DEF Fresh
  <2>7. n.buf = e.buf /\ n.half = e.half /\ n.quads = e.quads /\ n.pos = e.pos
    BY <2>3, <2>4 DEF Fresh
  <2>8. Fresh(n)
    BY <2>1, <2>3, <2>5, <2>6, <2>7 DEF Fresh
  <2>9. Closed(o) = n
    BY <1>3, <2>1, <2>2, <2>4
  <2> QED
    BY <2>1, <2>5, <2>8, <2>9
<1> QED
  BY <1>4, <1>5

LEMMA CinInitOK == CinInit => CinInv
<1> SUFFICES ASSUME CinInit PROVE CinInv
  OBVIOUS
<1>1. Good(New)
  BY NewIsFresh, FreshIsGood
<1>2. ASSUME NEW c \in Cins PROVE Outside(New, c, skipped)
  BY DEF New, Outside
<1> QED
  BY <1>1, <1>2, ReturnedIsCall DEF CinInit, CinInv

LEMMA CloseOK ==
  ASSUME CinInv, NEW c \in Cins, CinClose(c)
  PROVE  CinInv'
<1> DEFINE o == cin[c]  n == Closed(o)
<1>1. Good(o) /\ Outside(o, c, skipped) /\ call.at = "none" /\ call' = call /\ call \in Calls
      /\ leaked' = FALSE /\ skipped' = IF n.file = "open" THEN skipped ELSE skipped \ {c}
  BY DEF CinInv, CinClose, Idle
<1>2. Good(n) /\ Fresh(n) /\ AtRest(n.video, n.pos) /\ (n.file = "open" => c \in skipped /\ ~n.looping)
  BY <1>1, ClosedIsFresh, FreshIsGood
<1> HIDE DEF n
<1>3. Outside(n, c, skipped')
  BY <1>1, <1>2 DEF Outside
<1> QED
  BY <1>1, <1>2, <1>3, OneChanges DEF CinClose, n

LEMMA InitRefusedOK ==
  ASSUME CinInv, NEW c \in Cins, InitRefused(c)
  PROVE  CinInv'
<1> DEFINE o == cin[c]  d == [Closed(o) EXCEPT !.file = "refused"]  n == RoQShutdown(d)
<1>1. Good(o) /\ Outside(o, c, skipped) /\ call.at = "none" /\ call' = call /\ call \in Calls
      /\ leaked = FALSE /\ skipped' = skipped \ {c}
  BY DEF CinInv, InitRefused, Idle
<1>2. Fresh(Closed(o)) /\ Closed(o).status = "IDLE" /\ (Closed(o).file = "open" => c \in skipped)
  BY <1>1, ClosedIsFresh
<1>7. leaked' = FALSE
  BY <1>1, <1>2 DEF InitRefused, Reopens
<1>3. Fresh(d) /\ d.file = "refused" /\ d.status = "IDLE"
  <2>1. PICK e : e = Closed(o)
    OBVIOUS
  <2>2. PICK f : f = [e EXCEPT !.file = "refused"]
    OBVIOUS
  <2>3. DOMAIN f = DOMAIN e /\ f.status = e.status /\ f.file = "refused" /\ f.video = e.video
    BY <1>2, <2>1, <2>2 DEF Fresh
  <2>4. f.image = e.image /\ f.looping = e.looping /\ f.reset = e.reset
    BY <1>2, <2>1, <2>2 DEF Fresh
  <2>5. f.buf = e.buf /\ f.half = e.half /\ f.quads = e.quads /\ f.pos = e.pos
    BY <1>2, <2>1, <2>2 DEF Fresh
  <2>6. Fresh(f)
    BY <1>2, <2>1, <2>3, <2>4, <2>5 DEF Fresh
  <2> QED
    BY <1>2, <2>1, <2>2, <2>3, <2>6
<1>4. Good(d) /\ AtRest(d.video, d.pos)
  BY <1>3, FreshIsGood
<1> HIDE DEF d
<1>5. n = d
  BY <1>3 DEF RoQShutdown
<1>6. Outside(n, c, skipped')
  BY <1>3, <1>4, <1>5 DEF Outside
<1> QED
  BY <1>1, <1>4, <1>5, <1>6, <1>7, OneChanges DEF InitRefused, d

LEMMA InitFromFileOK ==
  ASSUME CinInv, NEW c \in Cins, NEW v \in Videos, NEW l \in BOOLEAN, NEW sk \in BOOLEAN,
         InitFromFile(c, v, l, sk)
  PROVE  CinInv'
<1> DEFINE o == cin[c]
           n == [RoQ_init(Closed(o)) EXCEPT !.file = "open", !.video = v, !.looping = l,
                   !.buf = 0, !.reset = FALSE, !.status = "PLAY"]
<1>1. Good(o) /\ Outside(o, c, skipped) /\ call.at = "none" /\ call \in Calls /\ leaked = FALSE
  BY DEF CinInv, InitFromFile, Idle
<1>2. PICK e : e = Closed(o)
  OBVIOUS
<1>3. Fresh(e) /\ (e.file = "open" => c \in skipped)
  BY <1>1, <1>2, ClosedIsFresh
<1>4. PICK d : d = RoQ_init(e)
  OBVIOUS
<1>5. DOMAIN d = DOMAIN e /\ d.pos = 1 /\ d.quads = -1 /\ d.half = e.half /\ d.image = e.image
  BY <1>3, <1>4 DEF Fresh, RoQ_init
<1>6. n = [d EXCEPT !.file = "open", !.video = v, !.looping = l, !.buf = 0, !.reset = FALSE, !.status = "PLAY"]
  BY <1>2, <1>4
<1>7. /\ sk => /\ Set(c, [n EXCEPT !.status = IF l THEN "PLAY" ELSE "IDLE"])
              /\ call' = call /\ skipped' = skipped \cup {c}
      /\ ~sk => /\ Set(c, n) /\ call' = [at |-> "first", who |-> c, tfps |-> 0, init |-> TRUE]
               /\ skipped' = skipped \ {c}
  BY DEF InitFromFile
<1>8. leaked' = FALSE
  BY <1>1, <1>2, <1>3 DEF InitFromFile, Reopens
<1> HIDE DEF n
<1>9. Fresh(n) /\ n.file = "open" /\ n.status = "PLAY" /\ n.looping = l
  <2>1. DOMAIN n = DOMAIN d /\ n.file = "open" /\ n.video = v /\ n.status = "PLAY" /\ n.buf = 0
    BY <1>3, <1>5, <1>6 DEF Fresh
  <2>2. n.looping = l /\ n.reset \in BOOLEAN
    BY <1>3, <1>5, <1>6 DEF Fresh
  <2>3. n.pos = 1 /\ n.quads = -1 /\ n.half = e.half /\ n.image = e.image
    BY <1>3, <1>5, <1>6 DEF Fresh
  <2> QED
    BY <1>3, <1>5, <2>1, <2>2, <2>3 DEF Fresh
<1>10. CASE ~sk
  <2>4. call' = [at |-> "first", who |-> c, tfps |-> 0, init |-> TRUE]
    BY <1>7, <1>10
  <2>1. call' \in Calls /\ call'.at = "first" /\ call'.who = c
    BY <2>4 DEF Calls
  <2>2. Good(n) /\ AtRest(n.video, n.pos)
    BY <1>9, FreshIsGood
  <2>3. Inside(n, "first", call'.tfps, book')
    BY <1>9, <2>2 DEF Inside, Held, HasBook
  <2> QED
    BY <1>1, <1>7, <1>8, <1>10, <2>1, <2>2, <2>3, OneChanges
<1>11. CASE sk
  <2>1. PICK m : m = [n EXCEPT !.status = IF l THEN "PLAY" ELSE "IDLE"]
    OBVIOUS
  <2>2. DOMAIN m = DOMAIN n /\ m.file = n.file /\ m.video = n.video /\ m.buf = n.buf
        /\ m.status = IF l THEN "PLAY" ELSE "IDLE"
    BY <1>9, <2>1 DEF Fresh
  <2>3. m.looping = n.looping /\ m.reset = n.reset /\ m.pos = n.pos
    BY <1>9, <2>1 DEF Fresh
  <2>4. m.quads = n.quads /\ m.half = n.half /\ m.image = n.image
    BY <1>9, <2>1 DEF Fresh
  <2>5. Fresh(m)
    BY <1>9, <2>2, <2>3, <2>4 DEF Fresh
  <2>6. Good(m) /\ AtRest(m.video, m.pos)
    BY <2>5, FreshIsGood
  <2>7. Outside(m, c, skipped')
    BY <1>7, <1>9, <1>11, <2>2, <2>3, <2>5, <2>6 DEF Outside
  <2>8. Set(c, m) /\ call' = call /\ skipped' = skipped \cup {c}
    BY <1>7, <1>11, <2>1
  <2> QED
    BY <1>1, <1>8, <2>6, <2>7, <2>8, OneChanges
<1> QED
  BY <1>10, <1>11

LEMMA ResetTimeOK ==
  ASSUME CinInv, NEW c \in Cins, ResetTime(c)
  PROVE  CinInv'
<1> DEFINE o == cin[c]
<1>1. Good(o) /\ Outside(o, c, skipped) /\ call.at = "none" /\ call' = call /\ call \in Calls
      /\ leaked' = FALSE /\ skipped' = skipped
  BY DEF CinInv, ResetTime, Idle
<1>2. PICK n : n = [o EXCEPT !.reset = TRUE, !.status = "PLAY"]
  OBVIOUS
<1>3. IsObj(o) /\ Placed(o)
  BY <1>1 DEF Good
<1>4. n.reset = TRUE /\ n.status = "PLAY" /\ n.video = o.video /\ n.file = o.file /\ n.buf = o.buf
  BY <1>2, <1>3 DEF IsObj
<1>5. n.image = o.image /\ n.quads = o.quads /\ n.half = o.half /\ n.pos = o.pos
  BY <1>2, <1>3 DEF IsObj
<1>6. n.looping = o.looping /\ DOMAIN n = DOMAIN o
  BY <1>2, <1>3 DEF IsObj
<1>7. n.reset \in BOOLEAN
  BY <1>2, <1>3 DEF IsObj
<1>8. IsObj(n)
  BY <1>3, <1>4, <1>5, <1>6, <1>7 DEF IsObj
<1>9. Placed(n)
  BY <1>3, <1>4, <1>5 DEF Placed
<1>10. Good(n)
  BY <1>1, <1>4, <1>5, <1>8, <1>9 DEF Good, Drawn
<1>11. Outside(n, c, skipped')
  BY <1>1, <1>4, <1>5, <1>6, <1>7 DEF Outside, Fresh
<1> QED
  BY <1>1, <1>2, <1>10, <1>11, OneChanges DEF ResetTime

\* An object that is set back for a call, and one that is played from its beginning.
LEMMA SetBackIsGood ==
  ASSUME NEW o, Good(o), NEW n, n = [RoQReset(o) EXCEPT !.reset = FALSE]
  PROVE  Good(n) /\ n.pos = 1 /\ n.buf = o.buf /\ n.file = o.file /\ n.status = "LOOPED"
<1>1. PICK r : r = RoQReset(o)
  OBVIOUS
<1>2. Good(r) /\ IsObj(r) /\ Placed(r) /\ IsObj(o)
  BY <1>1, ResetIsGood DEF Good
<1>3. r.pos = 1 /\ r.status = "LOOPED" /\ r.file = o.file /\ r.buf = o.buf
  BY <1>1, <1>2, ResetFields
<1>4. /\ n.pos = r.pos /\ n.quads = r.quads /\ n.status = r.status /\ n.file = r.file /\ n.buf = r.buf
      /\ n.video = r.video
  BY <1>1, <1>2 DEF IsObj
<1>5. n.image = r.image /\ n.looping = r.looping /\ n.half = r.half /\ DOMAIN n = DOMAIN r
  BY <1>1, <1>2 DEF IsObj
<1>6. n.reset \in BOOLEAN
  BY <1>1, <1>2 DEF IsObj
<1>7. IsObj(n)
  BY <1>2, <1>4, <1>5, <1>6 DEF IsObj
<1>8. Placed(n)
  BY <1>2, <1>4, <1>5 DEF Placed
<1>9. Good(n)
  BY <1>2, <1>4, <1>5, <1>7, <1>8 DEF Good, Drawn
<1> QED
  BY <1>3, <1>4, <1>9

LEMMA PlayedAnewIsGood ==
  ASSUME NEW o, Good(o), NEW n, n = [RoQReset(o) EXCEPT !.buf = 0, !.status = "PLAY"]
  PROVE  /\ Good(n) /\ n.pos = 1 /\ n.buf = 0 /\ n.file = o.file /\ n.status = "PLAY"
         /\ n.image = o.image
<1>1. PICK r : r = RoQReset(o)
  OBVIOUS
<1>2. Good(r) /\ IsObj(r) /\ Placed(r) /\ IsObj(o)
  BY <1>1, ResetIsGood DEF Good
<1>3. r.pos = 1 /\ r.quads = -1 /\ r.file = o.file /\ r.image = o.image
  BY <1>1, <1>2, ResetFields
<1>4. n.pos = r.pos /\ n.quads = r.quads /\ n.status = "PLAY" /\ n.file = r.file /\ n.buf = 0
      /\ n.video = r.video
  BY <1>1, <1>2 DEF IsObj
<1>5. n.image = r.image /\ n.looping = r.looping /\ n.half = r.half /\ DOMAIN n = DOMAIN r
      /\ n.reset = r.reset
  BY <1>1, <1>2 DEF IsObj
<1>6. IsObj(n)
  BY <1>2, <1>4, <1>5 DEF IsObj
<1>7. Placed(n)
  BY <1>2, <1>3, <1>4, <1>5 DEF Placed
<1>8. Good(n)
  BY <1>2, <1>3, <1>4, <1>5, <1>6, <1>7 DEF Good, Drawn
<1> QED
  BY <1>3, <1>4, <1>5, <1>8

LEMMA ImageForTimeOK ==
  ASSUME CinInv, NEW c \in Cins, NEW t \in 0..MaxTime, NEW sk \in BOOLEAN, ImageForTime(c, t, sk)
  PROVE  CinInv'
<1> DEFINE o == cin[c]
           c1 == IF o.reset THEN [RoQReset(o) EXCEPT !.reset = FALSE] ELSE o
           c2 == IF t < c1.quads THEN [RoQReset(c1) EXCEPT !.buf = 0, !.status = "PLAY"] ELSE c1
<1>1. /\ Good(o) /\ Outside(o, c, skipped) /\ call.at = "none" /\ call \in Calls
      /\ o.status \notin {"EOF", "IDLE"} /\ book' = book /\ leaked' = FALSE
  BY DEF CinInv, ImageForTime, Skips, Idle
<1>2. CASE o.file # "open"
  <2>1. cin' = cin /\ call' = call /\ skipped' = skipped
    BY <1>2 DEF ImageForTime
  <2> QED
    BY <1>1, <2>1 DEF CinInv
<1>3. CASE o.file = "open"
  <2>1. /\ Set(c, c2)
        /\ call' = [at |-> IF c2.buf = 0 THEN "first" ELSE "until", who |-> c, tfps |-> t, init |-> FALSE]
        /\ skipped' = skipped \ {c}
    BY <1>3 DEF ImageForTime
  <2>3. /\ Good(c1) /\ c1.file = "open" /\ c1.status \notin {"EOF", "IDLE"}
        /\ WellMade(c1.video) => AtRest(c1.video, c1.pos)
    <3>1. CASE o.reset
      <4>1. PICK r : r = [RoQReset(o) EXCEPT !.reset = FALSE]
        OBVIOUS
      <4>2. Good(r) /\ r.pos = 1 /\ r.buf = o.buf /\ r.file = o.file /\ r.status = "LOOPED"
        BY <1>1, <4>1, SetBackIsGood
      <4>3. AtRest(r.video, r.pos)
        BY <4>2, RestAtFront
      <4> QED
        BY <1>3, <3>1, <4>1, <4>2, <4>3
    <3>2. CASE ~o.reset
      BY <1>1, <1>3, <3>2 DEF Outside
    <3> QED
      BY <3>1, <3>2
  <2> HIDE DEF c1
  <2>4. /\ Good(c2) /\ c2.file = "open" /\ c2.status \in {"PLAY", "LOOPED"}
        /\ WellMade(c2.video) => AtRest(c2.video, c2.pos)
    <3>3. c1.status \in {"PLAY", "LOOPED"}
      BY <2>3 DEF Good, IsObj
    <3>1. CASE t < c1.quads
      <4>1. PICK r : r = [RoQReset(c1) EXCEPT !.buf = 0, !.status = "PLAY"]
        OBVIOUS
      <4>2. Good(r) /\ r.pos = 1 /\ r.file = c1.file /\ r.status = "PLAY"
        BY <2>3, <4>1, PlayedAnewIsGood
      <4>3. AtRest(r.video, r.pos)
        BY <4>2, RestAtFront
      <4> QED
        BY <2>3, <3>1, <4>1, <4>2, <4>3
    <3>2. CASE ~(t < c1.quads)
      BY <2>3, <3>2, <3>3
    <3> QED
      BY <3>1, <3>2
  <2> HIDE DEF c2
  <2>5. /\ call' \in Calls /\ call'.who = c /\ call'.at # "none" /\ call'.tfps = t
        /\ call'.at = IF c2.buf = 0 THEN "first" ELSE "until"
    BY <2>1, CinAssumption DEF Calls
  <2>6. Inside(c2, call'.at, t, book')
    BY <2>4, <2>5 DEF Inside, Held, HasBook
  <2> QED
    BY <1>1, <2>1, <2>4, <2>5, <2>6, OneChanges
<1> QED
  BY <1>2, <1>3

-----------------------------------------------------------------------------
(* The loops, and what is behind them. *)

LEMMA InterruptOK ==
  ASSUME CinInv, RoQInterrupt
  PROVE  CinInv'
<1> DEFINE o == Me  n == Interrupt(o)
<1>1. call.at \in {"first", "until", "again"} /\ call \in Calls /\ call.who \in Cins /\ call.at # "none"
  <2>1. call \in Calls /\ call.who \in Cins
    BY DEF CinInv, Calls
  <2>2. call.at # "none"
    BY DEF RoQInterrupt, GoesOn
  <2>3. call.at # "looped"
    BY <2>1, <2>2 DEF CinInv, Inside, Held, RoQInterrupt, GoesOn, Me
  <2> QED
    BY <2>1, <2>2, <2>3 DEF Calls
<1>2. Good(o) /\ Inside(o, call.at, call.tfps, book)
  BY <1>1 DEF CinInv, Me
<1>3. Working(o, call.at, call.tfps)
  BY <1>1, <1>2 DEF Working, RoQInterrupt, GoesOn, Inside, Held
<1>4. Good(n) /\ Inside(n, call.at, call.tfps, BookInterrupt(o))
  BY <1>3, InterruptIsGood
<1>5. Set(call.who, n) /\ book' = BookInterrupt(o) /\ call' = call
      /\ skipped' = skipped /\ leaked' = FALSE
  BY DEF RoQInterrupt, CinInv
<1> HIDE DEF n, o
<1> QED
  BY <1>1, <1>4, <1>5, OneChanges

\* Behind its loops a call has a picture, and an object that plays on rests.
LEMMA BehindTheLoops ==
  ASSUME CinInv, call.at # "none", ~GoesOn
  PROVE  /\ call \in Calls /\ call.who \in Cins /\ Good(Me) /\ Me.buf # 0 /\ Me.file = "open"
         /\ Me.image /\ Inside(Me, call.at, call.tfps, book)
         /\ WellMade(Me.video) /\ Me.status \notin {"EOF", "LOOPED"} => AtRest(Me.video, Me.pos)
         /\ WellMade(Me.video) /\ call.at = "again" => AtRest(Me.video, Me.pos)
         /\ WellMade(Me.video) /\ Me.status = "LOOPED" => AtRest(Me.video, Me.pos)
<1>1. call \in Calls /\ call.who \in Cins /\ call.at \in {"first", "until", "looped", "again"}
  BY DEF CinInv, Calls
<1>2. Good(Me) /\ Inside(Me, call.at, call.tfps, book)
  BY <1>1 DEF CinInv, Me
<1>3. IsObj(Me) /\ Placed(Me)
  BY <1>2 DEF Good
<1>4. Me.buf # 0
  BY <1>1, <1>2 DEF GoesOn, Inside, Held
<1>5. Me.file = "open" /\ Me.image
  BY <1>2, <1>3, <1>4 DEF Placed, Inside, Held
<1>6. AtRest(Me.video, 1)
  BY RestAtFront
<1>7. ASSUME WellMade(Me.video), Me.status = "LOOPED" PROVE AtRest(Me.video, Me.pos)
  <2>1. call.at = "again" \/ call.at = "first" => AtRest(Me.video, Me.pos)
    BY <1>2, <1>4, <1>7 DEF Inside, HasBook
  <2> QED
    BY <1>1, <1>2, <1>7, <2>1 DEF Inside, HasBook
<1>8. ASSUME WellMade(Me.video), call.at = "again" PROVE AtRest(Me.video, Me.pos)
  BY <1>2, <1>4, <1>8 DEF Inside, HasBook
<1>9. ASSUME WellMade(Me.video), Me.status \notin {"EOF", "LOOPED"} PROVE AtRest(Me.video, Me.pos)
  <2>1. Me.status = "PLAY"
    BY <1>2, <1>3, <1>9 DEF IsObj, Inside, Held
  <2>2. CASE call.at = "looped"
    BY <1>2, <1>9, <2>2 DEF Inside, HasBook
  <2>3. CASE call.at = "until"
    BY <1>2, <1>9, <2>1, <2>3 DEF GoesOn, Inside, HasBook
  <2>4. CASE call.at \in {"first", "again"}
    BY <1>2, <1>4, <1>9, <2>4 DEF Inside, HasBook
  <2> QED
    BY <1>1, <2>2, <2>3, <2>4
<1> QED
  BY <1>1, <1>2, <1>4, <1>5, <1>7, <1>8, <1>9

LEMMA CameRoundOK ==
  ASSUME CinInv, CameRound
  PROVE  CinInv'
<1>1. call.at \in {"first", "until"} /\ ~GoesOn /\ Me.status = "LOOPED"
  BY DEF CameRound
<1>2. call \in Calls /\ call.who \in Cins /\ Good(Me) /\ Me.buf # 0 /\ Me.file = "open"
  BY <1>1, BehindTheLoops
<1>3. WellMade(Me.video) => AtRest(Me.video, Me.pos)
  BY <1>1, BehindTheLoops
<1>4. PICK n : n = [Me EXCEPT !.status = "PLAY"]
  OBVIOUS
<1>5. Good(n) /\ n.status = "PLAY" /\ n.file = Me.file /\ n.buf = Me.buf /\ n.pos = Me.pos
      /\ n.video = Me.video
  BY <1>2, <1>4, StatusIsFree
<1>7. Set(call.who, n) /\ call' = [call EXCEPT !.at = "looped"] /\ skipped' = skipped /\ leaked' = FALSE
  BY <1>4 DEF CameRound, Continue, CinInv
<1>8. call' \in Calls /\ call'.at = "looped" /\ call'.who = call.who
  BY <1>2, <1>7 DEF Calls
<1>9. Inside(n, "looped", call'.tfps, book')
  BY <1>2, <1>3, <1>5 DEF Inside, Held, HasBook
<1> QED
  BY <1>2, <1>5, <1>7, <1>8, <1>9, OneChanges

LEMMA GoesAgainOK ==
  ASSUME CinInv, GoesAgain
  PROVE  CinInv'
<1>1. call.at # "none" /\ ~GoesOn
  BY DEF GoesAgain, Behind
<1>2. call \in Calls /\ call.who \in Cins /\ Good(Me) /\ Me.buf # 0 /\ Me.file = "open" /\ Me.image
  BY <1>1, BehindTheLoops
<1>3. PICK n : n = [RoQReset(Me) EXCEPT !.buf = 0, !.status = "PLAY"]
  OBVIOUS
<1>4. /\ Good(n) /\ n.pos = 1 /\ n.buf = 0 /\ n.file = "open" /\ n.status = "PLAY"
      /\ n.image
  BY <1>2, <1>3, PlayedAnewIsGood
<1>5. AtRest(n.video, 1)
  BY RestAtFront
<1>6. Set(call.who, n) /\ call' = [call EXCEPT !.at = "again"] /\ skipped' = skipped /\ leaked' = FALSE
  BY <1>3 DEF GoesAgain, Continue, CinInv
<1>7. call' \in Calls /\ call'.at = "again" /\ call'.who = call.who
  BY <1>2, <1>6 DEF Calls
<1>8. Inside(n, "again", call'.tfps, book')
  BY <1>4, <1>5 DEF Inside, Held, HasBook
<1> QED
  BY <1>2, <1>4, <1>6, <1>7, <1>8, OneChanges

\* A call returns an object that rests, or that is at its end.
LEMMA ReturnOK ==
  ASSUME CinInv, call.at # "none", NEW o, Good(o), o.file = "open", o.buf # 0,
         WellMade(o.video) => AtRest(o.video, o.pos) \/ (o.status \in {"EOF", "IDLE"} /\ ~o.looping),
         Return(o)
  PROVE  CinInv'
<1>1. call.who \in Cins
  BY DEF CinInv, Calls
<1>2. IsObj(o)
  BY DEF Good
<1> DEFINE n == IF ~call.init THEN o ELSE [o EXCEPT !.status = IF o.looping THEN "PLAY" ELSE "IDLE"]
<1>3. Good(n) /\ Outside(n, call.who, skipped)
  <2>1. CASE ~call.init
    BY <2>1 DEF Outside
  <2>2. CASE call.init
    <3>1. CASE o.looping
      <4>1. PICK r : r = [o EXCEPT !.status = "PLAY"]
        OBVIOUS
      <4>2. Good(r) /\ r.status = "PLAY" /\ r.video = o.video /\ r.file = o.file /\ r.buf = o.buf /\ r.pos = o.pos
        BY <4>1, StatusIsFree
      <4>3. Outside(r, call.who, skipped)
        BY <3>1, <4>2 DEF Outside
      <4> QED
        BY <2>2, <3>1, <4>1, <4>2, <4>3
    <3>2. CASE ~o.looping
      <4>1. PICK r : r = [o EXCEPT !.status = "IDLE"]
        OBVIOUS
      <4>2. Good(r) /\ r.status = "IDLE" /\ r.video = o.video /\ r.file = o.file /\ r.buf = o.buf /\ r.pos = o.pos
        BY <4>1, StatusIsFree
      <4>3. Outside(r, call.who, skipped)
        BY <3>2, <4>2 DEF Outside
      <4> QED
        BY <2>2, <3>2, <4>1, <4>2, <4>3
    <3> QED
      BY <3>1, <3>2
  <2> QED
    BY <2>1, <2>2
<1>4. Set(call.who, n) /\ call' = Returned /\ skipped' = skipped /\ leaked' = FALSE
  BY DEF Return, CinInv
<1> HIDE DEF n
<1> QED
  BY <1>1, <1>3, <1>4, ReturnedIsCall, OneChanges

LEMMA EndsOK ==
  ASSUME CinInv, Ends
  PROVE  CinInv'
<1>1. call.at # "none" /\ ~GoesOn /\ ~Me.looping
  BY DEF Ends, Behind
<1>2. Good(Me) /\ Me.buf # 0 /\ Me.file = "open"
  BY <1>1, BehindTheLoops
<1>3. PICK n : n = [Me EXCEPT !.status = "IDLE"]
  OBVIOUS
<1>4. /\ Good(n) /\ n.status = "IDLE" /\ n.file = "open" /\ n.buf # 0 /\ n.looping = Me.looping
  BY <1>2, <1>3, StatusIsFree
<1>5. RoQShutdown(n) = n
  BY <1>4 DEF RoQShutdown
<1>6. Return(n)
  BY <1>3, <1>5 DEF Ends
<1> QED
  BY <1>1, <1>4, <1>6, ReturnOK

LEMMA ShowsOK ==
  ASSUME CinInv, Shows \/ AgainDone
  PROVE  CinInv'
<1>1. call.at # "none" /\ ~GoesOn /\ Return(Me)
  BY DEF Shows, AgainDone, Behind
<1>2. Good(Me) /\ Me.buf # 0 /\ Me.file = "open"
  BY <1>1, BehindTheLoops
<1>3. WellMade(Me.video) => AtRest(Me.video, Me.pos)
  <2>1. CASE AgainDone
    BY <1>1, <2>1, BehindTheLoops DEF AgainDone
  <2>2. CASE Shows
    BY <1>1, <2>2, BehindTheLoops DEF Shows
  <2> QED
    BY <2>1, <2>2
<1> HIDE DEF Me
<1> QED
  BY <1>1, <1>2, <1>3, ReturnOK

-----------------------------------------------------------------------------
(* The theorems. *)

LEMMA CinNextOK == CinInv /\ [CinNext]_cinVars => CinInv'
<1> SUFFICES ASSUME CinInv, [CinNext]_cinVars PROVE CinInv'
  OBVIOUS
<1>1. ASSUME NEW c \in Cins, CinClose(c) PROVE CinInv'
  BY <1>1, CloseOK
<1>2. ASSUME NEW c \in Cins, InitRefused(c) PROVE CinInv'
  BY <1>2, InitRefusedOK
<1>3. ASSUME NEW c \in Cins, ResetTime(c) PROVE CinInv'
  BY <1>3, ResetTimeOK
<1>4. ASSUME NEW c \in Cins, NEW v \in Videos, NEW l \in BOOLEAN, NEW s \in BOOLEAN,
             InitFromFile(c, v, l, s)
      PROVE  CinInv'
  BY <1>4, InitFromFileOK
<1>5. ASSUME NEW c \in Cins, NEW t \in 0..MaxTime, NEW s \in BOOLEAN, ImageForTime(c, t, s)
      PROVE  CinInv'
  BY <1>5, ImageForTimeOK
<1>6. CASE RoQInterrupt
  BY <1>6, InterruptOK
<1>7. CASE CameRound
  BY <1>7, CameRoundOK
<1>8. CASE GoesAgain
  BY <1>8, GoesAgainOK
<1>9. CASE Ends
  BY <1>9, EndsOK
<1>10. CASE Shows \/ AgainDone
  BY <1>10, ShowsOK
<1>11. CASE UNCHANGED cinVars
  BY <1>11 DEF cinVars, CinInv
<1> QED
  BY <1>1, <1>2, <1>3, <1>4, <1>5, <1>6, <1>7, <1>8, <1>9, <1>10, <1>11 DEF CinNext, Playing

LEMMA CinInvAlways == CinSpec => []CinInv
<1> QED
  BY CinInitOK, CinNextOK, PTL DEF CinSpec

\* Whatever is asked of the cinematics, in any order: of a well made video the
\* picture that is shown is never garbled and is the frame that was counted.
THEOREM PictureIsOfFrameAlways == CinSpec => []PictureIsOfFrame
<1>1. CinInv => PictureIsOfFrame
  <2> SUFFICES ASSUME CinInv, NEW c \in Cins, cin[c].buf # 0, WellMade(cin[c].video)
               PROVE  /\ cin[c].half[cin[c].buf] # Garbled
                      /\ cin[c].quads >= 1 => cin[c].half[cin[c].buf] = cin[c].quads
    BY DEF PictureIsOfFrame
  <2>1. IsObj(cin[c]) /\ Drawn(cin[c])
    BY DEF CinInv, Good
  <2>2. cin[c].buf \in 1..2 /\ cin[c].quads \in Int
    BY <2>1 DEF IsObj
  <2>3. cin[c].half[cin[c].buf] # Garbled
    BY <2>1, <2>2 DEF Drawn
  <2>4. CASE cin[c].quads = 1
    BY <2>1, <2>2, <2>3, <2>4 DEF Drawn, Halves
  <2>5. CASE cin[c].quads >= 2
    BY <2>1, <2>2, <2>3, <2>5 DEF Drawn, Halves, Side
  <2> QED
    BY <2>2, <2>3, <2>4, <2>5
<1> QED
  BY <1>1, CinInvAlways, PTL

\* Between calls the next Close, or InitFromFile, closes every open video but one
\* that does not loop, was opened while r_skipROQ was set and was not asked for a
\* picture since; and no other file was lost.
THEOREM CloseClosesFileAlways == CinSpec => []CloseClosesFile
<1>1. CinInv => CloseClosesFile
  <2> SUFFICES ASSUME CinInv PROVE CloseClosesFile
    OBVIOUS
  <2>1. call.at \in {"none", "first", "until", "looped", "again"}
    BY DEF CinInv, Calls
  <2>2. ASSUME NEW c \in Cins
        PROVE  LET o == cin[c] IN
               /\ o.status \in {"EOF", "IDLE", "PLAY", "LOOPED"} /\ o.video \in Videos
               /\ o.file \in {"none", "open", "refused"} /\ o.buf \in 0..2
               /\ o.pos \in 1..Len(o.video) /\ o.quads \in -1..FramesBefore(o.video, o.pos)
               /\ o.buf # 0 => o.image
               /\ o.image => o.file = "open"
    BY DEF CinInv, Good, IsObj, Placed
  <2>3. ASSUME NEW c \in Cins, call.at = "none", Closed(cin[c]).file = "open"
        PROVE  c \in skipped /\ ~cin[c].looping
    <3>1. Good(cin[c]) /\ Outside(cin[c], c, skipped)
      BY <2>3 DEF CinInv
    <3> QED
      BY <2>3, <3>1, ClosedIsFresh
  <2>4. CinTypeOK
    BY <2>1, <2>2 DEF CinTypeOK
  <2> QED
    BY <2>3, <2>4 DEF CloseClosesFile, CinInv
<1> QED
  BY <1>1, CinInvAlways, PTL

------------------------------------------------------------------------------
(* The animated model. *)

\* The counter is never before the start, and what is shown is within the range.
AnimInv ==
  /\ AnimTypeOK
  /\ startFrame <= currentFrame
  /\ shown # Null =>
       /\ mesh # Null
       /\ startFrame <= endFrame => startFrame <= shown /\ shown <= endFrame

LEMMA FirstOfPlaces ==
  ASSUME NEW S \in SUBSET Nat, S # {}
  PROVE  Min(S) \in S /\ \A x \in S : Min(S) <= x
<1>1. PICK R : R = OpToRel(<, Nat) /\ IsWellFoundedOn(R, Nat)
  BY NatLessThanWellFounded
<1>2. \A a, b \in Nat : a < b => <<a, b>> \in R
  BY <1>1 DEF OpToRel
<1>3. PICK x \in S : \A y \in S : ~(<<y, x>> \in R)
  BY <1>1, WFMin
<1>4. \A y \in S : x <= y
  <2>1. TAKE y \in S
  <2>2. x \in Nat /\ y \in Nat /\ ~(y < x)
    BY <1>2, <1>3
  <2> QED
    BY <2>2
<1> QED
  BY <1>3, <1>4 DEF Min

\* The keys around a frame are neighbours, if there is a key at it or behind it.
LEMMA KeysOf ==
  ASSUME NEW keys \in Seq(Int), NEW frame \in Int, keys # <<>>
  PROVE  /\ NextKey(keys, frame) \in 0..Len(keys)
         /\ frame <= keys[Len(keys)] => NextKey(keys, frame) # 0
         /\ NextKey(keys, frame) # 0 =>
              /\ frame <= keys[NextKey(keys, frame)]
              /\ \/ PreKey(keys, frame) = NextKey(keys, frame) /\ NextKey(keys, frame) = 1
                 \/ /\ PreKey(keys, frame) + 1 = NextKey(keys, frame)
                    /\ keys[PreKey(keys, frame)] <= frame
<1> DEFINE at == {i \in 1..Len(keys) : frame <= keys[i]}
           n  == NextKey(keys, frame)
<1>1. Len(keys) \in Nat /\ Len(keys) >= 1 /\ \A i \in 1..Len(keys) : keys[i] \in Int
  OBVIOUS
<1>2. n = IF at # {} THEN Min(at) ELSE 0
  BY DEF NextKey, SelectInSeq
<1>3. ASSUME at = {} PROVE n = 0 /\ ~(frame <= keys[Len(keys)])
  BY <1>1, <1>2, <1>3
<1>4. ASSUME at # {} PROVE n \in at /\ \A i \in at : n <= i
  <2>1. at \in SUBSET Nat /\ n = Min(at)
    BY <1>2, <1>4
  <2> QED
    BY <1>4, <2>1, FirstOfPlaces
<1>5. ASSUME at # {}, n # 1 PROVE n - 1 \in 1..Len(keys) /\ keys[n - 1] <= frame
  <2>1. n - 1 \in 1..Len(keys) /\ n - 1 \notin at
    BY <1>4, <1>5
  <2> QED
    BY <1>1, <2>1
<1>6. PreKey(keys, frame) = IF n > 2 THEN n - 1 ELSE 1
  BY DEF PreKey
<1> HIDE DEF n
<1>7. CASE at = {}
  BY <1>3, <1>7 DEF n
<1>8. CASE at # {}
  <2>1. n \in 1..Len(keys) /\ frame <= keys[n]
    BY <1>4, <1>8
  <2>2. CASE n = 1
    BY <1>1, <1>6, <2>1, <2>2 DEF n
  <2>3. CASE n # 1
    <3>1. PreKey(keys, frame) = n - 1
      BY <1>1, <1>6, <2>1, <2>3
    <3> QED
      BY <1>1, <1>5, <1>8, <2>1, <2>3, <3>1 DEF n
  <2> QED
    BY <2>2, <2>3
<1> QED
  BY <1>7, <1>8

LEMMA AnimInvShows == AnimInv => ShownInRange
<1> SUFFICES ASSUME AnimInv, shown # Null PROVE KeysAround
  BY DEF AnimInv, ShownInRange
<1>1. mesh \in Meshes /\ shown \in 0..MaxFrame /\ endFrame \in 0..MaxFrame
  BY DEF AnimInv, AnimTypeOK
<1>2. ASSUME NEW j \in DOMAIN mesh.keys, NEW keys, keys = mesh.keys[j], keys # <<>>,
             NEW n, n = NextKey(keys, shown), NEW p, p = PreKey(keys, shown)
      PROVE  /\ HasKeys => n # 0
             /\ n # 0 => /\ shown <= keys[n]
                         /\ p = n \/ (p + 1 = n /\ keys[p] <= shown)
                         /\ p = n => n = 1
  <2>1. keys \in Seq(Int) /\ shown \in Int
    BY <1>1, <1>2, MeshesAssumption, StepsAssumption
  <2>2. NextKey(keys, shown) \in 0..Len(keys)
    BY <1>2, <2>1, KeysOf
  <2>3. HasKeys => shown <= keys[Len(keys)]
    <3> SUFFICES ASSUME HasKeys PROVE shown <= keys[Len(keys)]
      OBVIOUS
    <3>1. startFrame <= endFrame /\ endFrame <= keys[Len(keys)]
      BY <1>2 DEF HasKeys, Last
    <3>2. shown <= endFrame /\ keys[Len(keys)] \in Int
      BY <1>2, <2>1, <3>1 DEF AnimInv
    <3> QED
      BY <1>1, <3>1, <3>2, StepsAssumption
  <2>4. HasKeys => n # 0
    BY <1>2, <2>1, <2>3, KeysOf
  <2>5. n # 0 => shown <= keys[n] /\ ((p = n /\ n = 1) \/ (p + 1 = n /\ keys[p] <= shown))
    BY <1>2, <2>1, KeysOf
  <2> QED
    BY <1>2, <2>2, <2>4, <2>5
<1> QED
  BY <1>2 DEF KeysAround

LEMMA AnimInitHolds == AnimInit => AnimInv
<1> SUFFICES ASSUME AnimInit PROVE AnimInv
  OBVIOUS
<1>1. 0 \in 0..MaxFrame /\ Null \notin 0..MaxFrame /\ 0 \in 0..MaxAnimCalls
  BY StepsAssumption
<1>2. animations \in [Motions -> Actions \cup {Null}]
  BY DEF AnimInit
<1>3. /\ mesh = Null /\ startFrame = 0 /\ endFrame = Null /\ currentFrame = 0 /\ isLoop = FALSE
      /\ shown = Null /\ animCalls = 0 /\ animPc = "running"
  BY DEF AnimInit
<1>4. AnimTypeOK
  BY <1>1, <1>2, <1>3 DEF AnimTypeOK
<1> QED
  BY <1>3, <1>4 DEF AnimInv

LEMMA SetFileKeeps ==
  ASSUME AnimInv, NEW m \in Meshes, SetFile(m)
  PROVE  AnimInv'
<1>1. m.numFrames \in 0..MaxFrame /\ Null \notin 0..MaxFrame
  BY MeshesAssumption, StepsAssumption
<1>2. animCalls' \in 0..MaxAnimCalls
  BY StepsAssumption DEF AnimInv, AnimTypeOK, SetFile, AnimCall
<1>3. /\ mesh' = m /\ endFrame' = m.numFrames /\ shown' = Null /\ startFrame' = startFrame
      /\ currentFrame' = currentFrame /\ isLoop' = isLoop /\ animations' = animations /\ animPc' = animPc
  BY DEF SetFile
<1> QED
  BY <1>1, <1>2, <1>3 DEF AnimInv, AnimTypeOK

LEMMA PushAnimationKeeps ==
  ASSUME AnimInv, NEW name \in Motions, NEW action \in Actions, PushAnimation(name, action)
  PROVE  AnimInv'
<1>1. animations' \in [Motions -> Actions \cup {Null}]
  BY DEF AnimInv, AnimTypeOK, PushAnimation
<1>2. animCalls' \in 0..MaxAnimCalls
  BY StepsAssumption DEF AnimInv, AnimTypeOK, PushAnimation, AnimCall
<1> QED
  BY <1>1, <1>2 DEF AnimInv, AnimTypeOK, PushAnimation

LEMMA PlayKeeps ==
  ASSUME AnimInv, NEW name \in Motions, NEW loop \in BOOLEAN, Play(name, loop)
  PROVE  AnimInv'
<1>1. animations[name] \in Actions
  BY DEF AnimInv, AnimTypeOK, Play
<1>2. /\ animations[name].startframe \in 0..MaxFrame /\ animations[name].endframe \in 0..MaxFrame
      /\ Null \notin 0..MaxFrame
  BY <1>1, ActionsAssumption, StepsAssumption
<1>3. animCalls' \in 0..MaxAnimCalls
  BY StepsAssumption DEF AnimInv, AnimTypeOK, Play, AnimCall
<1>4. /\ mesh' = mesh /\ animations' = animations /\ shown' = Null /\ animPc' = animPc
      /\ currentFrame' = animations[name].startframe /\ startFrame' = animations[name].startframe
      /\ endFrame' = animations[name].endframe /\ isLoop' = loop
  BY DEF Play
<1> QED
  BY <1>2, <1>3, <1>4 DEF AnimInv, AnimTypeOK

LEMMA AdvancedGrows ==
  ASSUME AnimInv, NEW step \in Steps
  PROVE  Advanced(step) \in 0..MaxFrame /\ currentFrame <= Advanced(step)
<1>1. currentFrame \in 0..MaxFrame /\ step \in Nat /\ MaxFrame \in Nat
  BY StepsAssumption DEF AnimInv, AnimTypeOK
<1>2. {currentFrame + step, MaxFrame} \in SUBSET Nat
  BY <1>1
<1>3. Advanced(step) \in {currentFrame + step, MaxFrame} /\ Advanced(step) <= MaxFrame
  BY <1>2, FirstOfPlaces DEF Advanced
<1> QED
  BY <1>1, <1>3

LEMMA ShowKeeps ==
  ASSUME AnimInv, Updating, NEW frame \in 0..MaxFrame, Show(frame), startFrame <= frame,
         startFrame <= endFrame => frame <= endFrame
  PROVE  AnimInv'
<1>1. /\ currentFrame' = frame /\ shown' = frame
      /\ mesh' = mesh /\ startFrame' = startFrame /\ endFrame' = endFrame /\ isLoop' = isLoop
      /\ animations' = animations /\ animCalls' = animCalls /\ animPc' = animPc
  BY DEF Show
<1> QED
  BY <1>1 DEF AnimInv, AnimTypeOK, Updating

LEMMA AnimFrameKeeps ==
  ASSUME AnimInv, AnimFrame
  PROVE  AnimInv'
<1>1. ASSUME NEW step \in Steps, Update(step) PROVE AnimInv'
  <2>1. /\ Advanced(step) \in 0..MaxFrame /\ startFrame <= Advanced(step)
        /\ Advanced(step) <= endFrame
    BY <1>1, AdvancedGrows, StepsAssumption DEF AnimInv, AnimTypeOK, Update
  <2> QED
    BY <1>1, <2>1, ShowKeeps DEF Update
<1>2. ASSUME NEW step \in Steps, UpdateLoops(step) PROVE AnimInv'
  <2>1. startFrame \in 0..MaxFrame /\ startFrame <= startFrame
    BY DEF AnimInv, AnimTypeOK
  <2> QED
    BY <1>2, <2>1, ShowKeeps DEF UpdateLoops
<1>3. ASSUME NEW step \in Steps, UpdateEnded(step) PROVE AnimInv'
  <2>1. Advanced(step) \in 0..MaxFrame /\ startFrame <= Advanced(step)
    BY AdvancedGrows, StepsAssumption DEF AnimInv, AnimTypeOK
  <2> QED
    BY <1>3, <2>1 DEF AnimInv, AnimTypeOK, UpdateEnded
<1>4. ASSUME NEW step \in Steps, UpdateCrashes(step) PROVE AnimInv'
  BY <1>4 DEF AnimInv, AnimTypeOK, UpdateCrashes
<1>5. CASE UpdateNothing
  BY <1>5 DEF AnimInv, AnimTypeOK, UpdateNothing, animVars
<1> QED
  BY <1>1, <1>2, <1>3, <1>4, <1>5 DEF AnimFrame

\* Whatever files, animations and loops are set between frames, in any order, for all
\* meshes and animations: a frame that is shown is one of the animation, put together
\* from the keys around it.
THEOREM ShownInRangeAlways == AnimSpec => []ShownInRange
<1>1. AnimInv /\ [AnimNext]_animVars => AnimInv'
  <2> SUFFICES ASSUME AnimInv, [AnimNext]_animVars PROVE AnimInv'
    OBVIOUS
  <2>1. ASSUME NEW m \in Meshes, SetFile(m) PROVE AnimInv'
    BY <2>1, SetFileKeeps
  <2>2. ASSUME NEW name \in Motions, NEW action \in Actions, PushAnimation(name, action)
        PROVE  AnimInv'
    BY <2>2, PushAnimationKeeps
  <2>3. ASSUME NEW name \in Motions, PlayUnknown(name) PROVE AnimInv'
    BY <2>3, StepsAssumption DEF AnimInv, AnimTypeOK, PlayUnknown, AnimCall
  <2>4. ASSUME NEW name \in Motions, NEW loop \in BOOLEAN, Play(name, loop) PROVE AnimInv'
    BY <2>4, PlayKeeps
  <2>5. CASE AnimFrame
    BY <2>5, AnimFrameKeeps
  <2>6. CASE UNCHANGED animVars
    BY <2>6 DEF AnimInv, AnimTypeOK, animVars
  <2> QED
    BY <2>1, <2>2, <2>3, <2>4, <2>5, <2>6 DEF AnimNext, AnimCrashed
<1> QED
  BY <1>1, AnimInitHolds, AnimInvShows, PTL DEF AnimSpec

------------------------------------------------------------------------------
(* The pose of the animated model. *)

\* What holds at 0 and goes on from one number to the next holds up to N.
LEMMA UpTo ==
  ASSUME NEW N \in Nat, NEW T,
         0 \in T, \A n \in 0 .. N : n \in T /\ n < N => n + 1 \in T
  PROVE  \A n \in 0 .. N : n \in T
<1> SUFFICES ASSUME (0 .. N) \ T # {} PROVE FALSE
  OBVIOUS
<1>1. PICK n : n = Min((0 .. N) \ T)
  OBVIOUS
<1>2. n \in (0 .. N) \ T /\ \A m \in (0 .. N) \ T : n <= m
  BY FirstOfPlaces, <1>1
<1>3. n # 0 /\ n - 1 \in 0 .. N /\ n - 1 < N
  BY <1>2
<1>4. n - 1 \in T
  BY <1>2, <1>3
<1>5. (n - 1) + 1 \in T
  BY <1>3, <1>4
<1> QED
  BY <1>2, <1>3, <1>5

\* A sequence is a function on its places.
LEMMA PlacesOf ==
  ASSUME NEW S, NEW a \in Seq(S), NEW l, l = Len(a)
  PROVE  /\ l \in Nat /\ DOMAIN a = 1 .. l /\ \A k \in 1 .. l : a[k] \in S
         /\ \A x : Append(a, x) = [i \in 1 .. l + 1 |-> IF i \in 1 .. l THEN a[i] ELSE x]
<1>1. l \in Nat /\ DOMAIN a = 1 .. l /\ \A k \in 1 .. l : a[k] \in S
  OBVIOUS
<1>2. ASSUME NEW x
      PROVE  Append(a, x) = [i \in 1 .. l + 1 |-> IF i \in 1 .. l THEN a[i] ELSE x]
  <2>1. PICK Z, b : Z = S \cup {x} /\ b = Append(a, x)
    OBVIOUS
  <2>2. a \in Seq(Z) /\ x \in Z
    <3>1. a = [k \in 1 .. l |-> a[k]] /\ l \in Nat
      BY <1>1
    <3>2. a \in [1 .. l -> Z]
      BY <1>1, <2>1, <3>1
    <3> QED
      BY <2>1, <3>1, <3>2
  <2>3. b \in Seq(Z) /\ Len(b) = l + 1 /\ (\A i \in 1 .. l : b[i] = a[i]) /\ b[l + 1] = x
    BY <2>1, <2>2, AppendProperties
  <2>4. b = [i \in 1 .. l + 1 |-> b[i]]
    BY <2>3
  <2>5. \A i \in 1 .. l + 1 : b[i] = IF i \in 1 .. l THEN a[i] ELSE x
    <3>1. \A i \in 1 .. l + 1 : i \in 1 .. l \/ (i \notin 1 .. l /\ i = l + 1)
      BY <1>1
    <3> QED
      BY <2>3, <3>1
  <2> QED
    BY <2>1, <2>4, <2>5
<1> QED
  BY <1>1, <1>2

\* A mesh whose joints come after their parents.
Ordered(m) == m.parent \in Seq(Nat) /\ \A j \in DOMAIN m.parent : m.parent[j] < j

\* The recursive function of Above.
IsPath(p, m, n) == p = [k \in 0 .. n |-> IF k = 0 THEN <<>> ELSE Append(p[m.parent[k]], k)]

LEMMA PathIsMade ==
  ASSUME NEW m, Ordered(m)
  PROVE  \E p : IsPath(p, m, Len(m.parent)) /\ \A j : Above(m, j) = p[j]
<1>1. PICK N, up : N = Len(m.parent) /\ up = m.parent
  OBVIOUS
<1>2. N \in Nat /\ \A k \in 1 .. N : up[k] \in 0 .. k - 1
  BY <1>1 DEF Ordered
<1>3. PICK T : T = {n \in 0 .. N : \E h : IsPath(h, m, n)}
  OBVIOUS
<1>4. 0 \in T
  <2>1. PICK h : h = [n \in 0 .. 0 |-> <<>>]
    OBVIOUS
  <2>2. IsPath(h, m, 0)
    BY <2>1 DEF IsPath
  <2> QED
    BY <1>2, <1>3, <2>2
<1>5. ASSUME NEW n \in 0 .. N, n \in T, n < N
      PROVE  n + 1 \in T
  <2>1. PICK h : IsPath(h, m, n)
    BY <1>3, <1>5
  <2>2. PICK g : g = [k \in 0 .. n + 1 |-> IF k \in 0 .. n THEN h[k] ELSE Append(h[up[k]], k)]
    OBVIOUS
  <2>3. \A k \in 0 .. n : g[k] = h[k]
    BY <1>2, <2>2
  <2>4. \A k \in 0 .. n + 1 : g[k] = IF k = 0 THEN <<>> ELSE Append(g[up[k]], k)
    <3> TAKE k \in 0 .. n + 1
    <3>1. CASE k \in 0 .. n
      <4>1. k = 0 \/ up[k] \in 0 .. n
        BY <1>2, <3>1
      <4> QED
        BY <1>1, <2>1, <2>3, <3>1, <4>1 DEF IsPath
    <3>2. CASE k = n + 1
      <4>1. k # 0 /\ up[k] \in 0 .. n /\ k \notin 0 .. n
        BY <1>2, <1>5, <3>2
      <4> QED
        BY <2>2, <2>3, <4>1
    <3> QED
      BY <3>1, <3>2
  <2>5. IsPath(g, m, n + 1)
    BY <1>1, <2>2, <2>4 DEF IsPath
  <2>6. n + 1 \in 0 .. N
    BY <1>2, <1>5
  <2> QED
    BY <1>3, <2>5, <2>6
<1>6. \A n \in 0 .. N : n \in T
  BY <1>2, <1>4, <1>5, UpTo
<1>7. \E h : IsPath(h, m, N)
  BY <1>2, <1>3, <1>6
<1>8. PICK p : p = CHOOSE path : path = [k \in 0 .. Len(m.parent) |->
                     IF k = 0 THEN <<>> ELSE Append(path[m.parent[k]], k)]
  OBVIOUS
<1>9. IsPath(p, m, N)
  BY <1>1, <1>7, <1>8 DEF IsPath
<1>10. \A j : Above(m, j) = p[j]
  BY <1>8 DEF Above
<1> QED
  BY <1>1, <1>9, <1>10

\* A joint is behind all those above its parent.
LEMMA AboveStep ==
  ASSUME NEW m, Ordered(m)
  PROVE  /\ Above(m, 0) = <<>>
         /\ \A k \in 1 .. Len(m.parent) :
              m.parent[k] \in 0 .. k - 1 /\ Above(m, k) = Append(Above(m, m.parent[k]), k)
<1>1. PICK p : IsPath(p, m, Len(m.parent)) /\ \A j : Above(m, j) = p[j]
  BY PathIsMade
<1>2. Len(m.parent) \in Nat /\ \A k \in 1 .. Len(m.parent) : m.parent[k] \in 0 .. k - 1
  BY DEF Ordered
<1>3. PICK N, up : N = Len(m.parent) /\ up = m.parent
  OBVIOUS
<1>4. p = [k \in 0 .. N |-> IF k = 0 THEN <<>> ELSE Append(p[up[k]], k)]
  BY <1>1, <1>3 DEF IsPath
<1>5. p[0] = <<>>
  BY <1>2, <1>3, <1>4
<1>6. ASSUME NEW k \in 1 .. N
      PROVE  p[k] = Append(p[up[k]], k)
  <2>1. k \in 0 .. N /\ k # 0
    BY <1>2, <1>3
  <2> QED
    BY <1>4, <2>1
<1> QED
  BY <1>1, <1>2, <1>3, <1>5, <1>6

\* Those above a joint are joints.
LEMMA AboveAmong ==
  ASSUME NEW m, Ordered(m), NEW j \in 0 .. Len(m.parent)
  PROVE  Above(m, j) \in Seq(1 .. Len(m.parent))
<1>1. PICK N : N = Len(m.parent)
  OBVIOUS
<1>2. N \in Nat
  BY <1>1 DEF Ordered
<1>3. PICK T : T = {n \in 0 .. N : \A k \in 0 .. n : Above(m, k) \in Seq(1 .. N)}
  OBVIOUS
<1>4. 0 \in T
  <2>1. Above(m, 0) = <<>>
    BY AboveStep
  <2>2. <<>> \in Seq(1 .. N)
    BY EmptySeq
  <2>3. \A k \in 0 .. 0 : Above(m, k) \in Seq(1 .. N)
    <3>1. \A k \in 0 .. 0 : k = 0
      OBVIOUS
    <3> QED
      BY <2>1, <2>2, <3>1
  <2> QED
    BY <1>2, <1>3, <2>3
<1>5. ASSUME NEW n \in 0 .. N, n \in T, n < N
      PROVE  n + 1 \in T
  <2>1. n + 1 \in 1 .. N
    BY <1>2, <1>5
  <2>2. m.parent[n + 1] \in 0 .. n /\ Above(m, n + 1) = Append(Above(m, m.parent[n + 1]), n + 1)
    BY <1>1, <2>1, AboveStep
  <2>3. Above(m, m.parent[n + 1]) \in Seq(1 .. N)
    BY <1>3, <1>5, <2>2
  <2>4. Above(m, n + 1) \in Seq(1 .. N)
    <3>1. PICK a, c : a = Above(m, m.parent[n + 1]) /\ c = n + 1
      OBVIOUS
    <3>2. a \in Seq(1 .. N) /\ c \in 1 .. N
      BY <2>1, <2>3, <3>1
    <3>3. Append(a, c) \in Seq(1 .. N)
      BY <3>2
    <3> QED
      BY <2>2, <3>1, <3>3
  <2>5. \A k \in 0 .. n + 1 : k \in 0 .. n \/ k = n + 1
    BY <1>5
  <2> QED
    BY <1>3, <1>5, <2>1, <2>4, <2>5
<1>6. \A n \in 0 .. N : n \in T
  BY <1>2, <1>4, <1>5, UpTo
<1> QED
  BY <1>1, <1>3, <1>6

\* The recursive function of FlattenSeq.
IsFlat(g, s, n) == g = [i \in 1 .. n |-> IF i = 1 THEN s[i] ELSE g[i - 1] \o s[i]]

LEMMA FlatIsMade ==
  ASSUME NEW s, Len(s) \in Nat, Len(s) # 0
  PROVE  \E g : IsFlat(g, s, Len(s)) /\ FlattenSeq(s) = g[Len(s)]
<1>1. PICK N : N = Len(s)
  OBVIOUS
<1>2. N \in Nat /\ N # 0
  BY <1>1
<1>3. PICK T : T = {n \in 0 .. N : \E h : IsFlat(h, s, n)}
  OBVIOUS
<1>4. 0 \in T
  <2>1. PICK h : h = [i \in 1 .. 0 |-> s[i]]
    OBVIOUS
  <2>2. IsFlat(h, s, 0)
    BY <2>1 DEF IsFlat
  <2> QED
    BY <1>2, <1>3, <2>2
<1>5. ASSUME NEW n \in 0 .. N, n \in T, n < N
      PROVE  n + 1 \in T
  <2>1. PICK h : IsFlat(h, s, n)
    BY <1>3, <1>5
  <2>2. PICK g : g = [i \in 1 .. n + 1 |-> IF i \in 1 .. n THEN h[i]
                                           ELSE IF i = 1 THEN s[i] ELSE h[i - 1] \o s[i]]
    OBVIOUS
  <2>3. \A i \in 1 .. n : g[i] = h[i]
    BY <1>2, <2>2
  <2>4. \A i \in 1 .. n + 1 : g[i] = IF i = 1 THEN s[i] ELSE g[i - 1] \o s[i]
    <3> TAKE i \in 1 .. n + 1
    <3>1. CASE i \in 1 .. n
      <4>1. i = 1 \/ i - 1 \in 1 .. n
        BY <3>1
      <4> QED
        BY <2>1, <2>3, <3>1, <4>1 DEF IsFlat
    <3>2. CASE i = n + 1
      <4>1. i \notin 1 .. n /\ (i = 1 \/ i - 1 \in 1 .. n)
        BY <3>2
      <4> QED
        BY <2>2, <2>3, <4>1
    <3> QED
      BY <3>1, <3>2
  <2>5. IsFlat(g, s, n + 1)
    BY <2>2, <2>4 DEF IsFlat
  <2>6. n + 1 \in 0 .. N
    BY <1>2, <1>5
  <2> QED
    BY <1>3, <2>5, <2>6
<1>6. \A n \in 0 .. N : n \in T
  BY <1>2, <1>4, <1>5, UpTo
<1>7. \E h : IsFlat(h, s, N)
  BY <1>2, <1>3, <1>6
<1>8. PICK g : g = CHOOSE flatten : flatten = [i \in 1 .. Len(s) |->
                     IF i = 1 THEN s[i] ELSE flatten[i - 1] \o s[i]]
  OBVIOUS
<1>9. IsFlat(g, s, N)
  BY <1>1, <1>7, <1>8 DEF IsFlat
<1>10. FlattenSeq(s) = g[N]
  BY <1>1, <1>2, <1>8 DEF FlattenSeq
<1> QED
  BY <1>1, <1>9, <1>10

\* One more sequence is joined to the end.
LEMMA FlattenMore ==
  ASSUME NEW Y, NEW s \in Seq(Y), NEW X, NEW x \in Seq(X)
  PROVE  FlattenSeq(Append(s, x)) = FlattenSeq(s) \o x
<1>1. PICK n, r : n = Len(s) /\ r = Append(s, x)
  OBVIOUS
<1>2. n \in Nat /\ Len(r) = n + 1 /\ r[n + 1] = x /\ \A i \in 1 .. n : r[i] = s[i]
  BY <1>1
<1>3. PICK h : IsFlat(h, r, n + 1) /\ FlattenSeq(r) = h[n + 1]
  BY <1>2, FlatIsMade
<1>4. CASE n = 0
  <2>1. s = <<>>
    BY <1>1, <1>4, EmptySeq
  <2>2. FlattenSeq(s) = <<>>
    BY <2>1 DEF FlattenSeq
  <2>3. h[1] = x
    BY <1>2, <1>3, <1>4 DEF IsFlat
  <2>4. <<>> \o x = x
    BY ConcatEmptySeq
  <2> QED
    BY <1>1, <1>3, <1>4, <2>2, <2>3, <2>4
<1>5. CASE n # 0
  <2>1. PICK g : IsFlat(g, s, n) /\ FlattenSeq(s) = g[n]
    BY <1>1, <1>2, <1>5, FlatIsMade
  <2>2. PICK T : T = {i \in 0 .. n : i = 0 \/ h[i] = g[i]}
    OBVIOUS
  <2>3. 0 \in T
    BY <1>2, <2>2
  <2>4. ASSUME NEW i \in 0 .. n, i \in T, i < n
        PROVE  i + 1 \in T
    <3>1. i + 1 \in 1 .. n /\ i + 1 \in 1 .. n + 1 /\ (i + 1) - 1 = i
      BY <1>2, <2>4
    <3>2. h[i + 1] = IF i + 1 = 1 THEN r[i + 1] ELSE h[i] \o r[i + 1]
      BY <1>3, <3>1 DEF IsFlat
    <3>3. g[i + 1] = IF i + 1 = 1 THEN s[i + 1] ELSE g[i] \o s[i + 1]
      BY <2>1, <3>1 DEF IsFlat
    <3>4. r[i + 1] = s[i + 1]
      BY <1>2, <3>1
    <3>5. i = 0 \/ h[i] = g[i]
      BY <2>2, <2>4
    <3>6. h[i + 1] = g[i + 1]
      BY <3>2, <3>3, <3>4, <3>5
    <3> QED
      BY <2>2, <3>1, <3>6
  <2>5. \A i \in 0 .. n : i \in T
    BY <1>2, <2>3, <2>4, UpTo
  <2>6. h[n] = g[n]
    BY <1>2, <1>5, <2>2, <2>5
  <2>7. h[n + 1] = h[n] \o r[n + 1]
    <3>1. n + 1 \in 1 .. n + 1 /\ n + 1 # 1 /\ (n + 1) - 1 = n
      BY <1>2, <1>5
    <3> QED
      BY <1>3, <3>1 DEF IsFlat
  <2> QED
    BY <1>1, <1>2, <1>3, <2>1, <2>6, <2>7
<1> QED
  BY <1>4, <1>5

------------------------------------------------------------------------------
\* The local matrices of joints along the path to one of them.
Along(m, j, local) == FlattenSeq([k \in DOMAIN Above(m, j) |-> local[Above(m, j)[k]]])

\* Local matrices of joints, out of some factors.
Locals(m, X, local) == \A j \in 1 .. Len(m.parent) : local[j] \in Seq(X)

\* A joint's own comes behind those of its parent.
LEMMA AlongStep ==
  ASSUME NEW m, Ordered(m), NEW X, NEW local, Locals(m, X, local)
  PROVE  /\ Along(m, 0, local) = <<>>
         /\ \A j \in 1 .. Len(m.parent) :
              Along(m, j, local) = Along(m, m.parent[j], local) \o local[j]
<1>1. Along(m, 0, local) = <<>>
  <2>1. PICK s : s = [k \in DOMAIN Above(m, 0) |-> local[Above(m, 0)[k]]]
    OBVIOUS
  <2>2. Above(m, 0) = <<>>
    BY AboveStep
  <2>3. s = <<>>
    BY <2>1, <2>2
  <2> QED
    BY <2>1, <2>3 DEF Along, FlattenSeq
<1>2. ASSUME NEW j \in 1 .. Len(m.parent)
      PROVE  Along(m, j, local) = Along(m, m.parent[j], local) \o local[j]
  <2>1. PICK N, a, b : N = Len(m.parent) /\ a = Above(m, m.parent[j]) /\ b = Above(m, j)
    OBVIOUS
  <2>2. N \in Nat
    BY <2>1 DEF Ordered
  <2>3. b = Append(a, j) /\ m.parent[j] \in 0 .. N
    BY <2>1, <2>2, AboveStep
  <2>4. a \in Seq(1 .. N)
    BY <2>1, <2>3, AboveAmong
  <2>5. PICK s, r : s = [k \in DOMAIN a |-> local[a[k]]] /\ r = [k \in DOMAIN b |-> local[b[k]]]
    OBVIOUS
  <2>6. PICK Y : Y = {local[k] : k \in 1 .. N}
    OBVIOUS
  <2>7. s \in Seq(Y) /\ Len(s) = Len(a) /\ Len(a) \in Nat
    <3>1. PICK n : n = Len(a)
      OBVIOUS
    <3>2. n \in Nat /\ DOMAIN a = 1 .. n /\ \A k \in 1 .. n : a[k] \in 1 .. N
      BY <2>4, <3>1, PlacesOf
    <3>3. s \in [1 .. n -> Y]
      BY <2>5, <2>6, <3>2
    <3> QED
      BY <3>1, <3>2, <3>3
  <2>8. r = Append(s, local[j])
    <3>1. PICK n : n = Len(a)
      OBVIOUS
    <3>2. n \in Nat /\ DOMAIN a = 1 .. n /\ DOMAIN b = 1 .. n + 1 /\ b[n + 1] = j
          /\ \A k \in 1 .. n : b[k] = a[k]
      BY <2>3, <2>4, <3>1
    <3>3. r = [k \in 1 .. n + 1 |-> IF k \in 1 .. n THEN s[k] ELSE local[j]]
      BY <2>5, <3>2
    <3>4. Append(s, local[j]) = [k \in 1 .. n + 1 |-> IF k \in 1 .. n THEN s[k] ELSE local[j]]
      BY <2>7, <3>1, <3>2
    <3> QED
      BY <3>3, <3>4
  <2>9. local[j] \in Seq(X)
    BY DEF Locals
  <2>10. FlattenSeq(Append(s, local[j])) = FlattenSeq(s) \o local[j]
    BY <2>7, <2>9, FlattenMore
  <2>11. Along(m, j, local) = FlattenSeq(r) /\ Along(m, m.parent[j], local) = FlattenSeq(s)
    BY <2>1, <2>5 DEF Along
  <2> QED
    BY <2>8, <2>10, <2>11
<1> QED
  BY <1>1, <1>2

\* What was written: one factor for each joint above.
LEMMA WrittenAlong ==
  ASSUME NEW m, Ordered(m), NEW j \in 0 .. Len(m.parent)
  PROVE  Along(m, j, Written(m)) = [k \in DOMAIN Above(m, j) |-> <<Above(m, j)[k], Bind>>]
<1>1. PICK N, W : N = Len(m.parent) /\ W = Written(m)
  OBVIOUS
<1>2. N \in Nat /\ DOMAIN m.parent = 1 .. N
  BY <1>1 DEF Ordered
<1> DEFINE Factors(k) == [i \in DOMAIN Above(m, k) |-> <<Above(m, k)[i], Bind>>]
           X == (1 .. N) \X {Bind}
<1>3. \A k \in 1 .. N : W[k] = <<<<k, Bind>>>>
  BY <1>1, <1>2 DEF Written
<1>4. Locals(m, X, W)
  <2>1. ASSUME NEW k \in 1 .. N
        PROVE  W[k] \in Seq(X)
    <3>1. <<k, Bind>> \in X
      OBVIOUS
    <3>2. <<<<k, Bind>>>> \in Seq(X)
      BY <3>1
    <3> QED
      BY <1>3, <3>2
  <2> QED
    BY <1>1, <2>1 DEF Locals
<1>5. PICK T : T = {n \in 0 .. N : \A k \in 0 .. n : Along(m, k, W) = Factors(k)}
  OBVIOUS
<1>6. 0 \in T
  <2>1. Along(m, 0, W) = <<>>
    BY <1>4, AlongStep
  <2>2. Factors(0) = <<>>
    <3>1. Above(m, 0) = <<>>
      BY AboveStep
    <3> QED
      BY <3>1
  <2>3. \A k \in 0 .. 0 : Along(m, k, W) = Factors(k)
    <3>1. \A k \in 0 .. 0 : k = 0
      OBVIOUS
    <3> HIDE DEF Factors
    <3> QED
      BY <2>1, <2>2, <3>1
  <2> QED
    BY <1>2, <1>5, <2>3
<1>7. ASSUME NEW n \in 0 .. N, n \in T, n < N
      PROVE  n + 1 \in T
  <2>1. PICK c, u : c = n + 1 /\ u = m.parent[n + 1]
    OBVIOUS
  <2>2. c \in 1 .. N /\ u \in 0 .. n /\ u \in 0 .. N
    <3>1. c \in 1 .. N
      BY <1>2, <1>7, <2>1
    <3>2. u \in 0 .. c - 1
      BY <1>1, <2>1, <3>1, AboveStep
    <3> QED
      BY <1>2, <1>7, <2>1, <3>1, <3>2
  <2>3. PICK a, b : a = Above(m, u) /\ b = Above(m, c)
    OBVIOUS
  <2>4. b = Append(a, c)
    BY <1>1, <2>1, <2>2, <2>3, AboveStep
  <2>5. a \in Seq(1 .. N)
    BY <1>1, <2>2, <2>3, AboveAmong
  <2>6. Along(m, c, W) = Along(m, u, W) \o <<<<c, Bind>>>>
    BY <1>1, <1>3, <1>4, <2>1, <2>2, AlongStep
  <2>7. Along(m, u, W) = Factors(u)
    BY <1>5, <1>7, <2>2
  <2>8. PICK s, x : s = [i \in DOMAIN a |-> <<a[i], Bind>>] /\ x = <<c, Bind>>
    OBVIOUS
  <2>9. s \in Seq(X) /\ Len(s) = Len(a)
    <3>1. PICK l : l = Len(a)
      OBVIOUS
    <3>2. l \in Nat /\ DOMAIN a = 1 .. l /\ \A i \in 1 .. l : a[i] \in 1 .. N
      BY <2>5, <3>1, PlacesOf
    <3>3. s \in [1 .. l -> X]
      BY <2>8, <3>2
    <3> QED
      BY <3>1, <3>2, <3>3
  <2>10. s \o <<x>> = Append(s, x)
    <3>1. x \in X
      BY <2>2, <2>8
    <3> QED
      BY <2>9, <3>1, AppendIsConcat
  <2>11. [i \in DOMAIN b |-> <<b[i], Bind>>] = Append(s, x)
    <3>1. PICK l : l = Len(a)
      OBVIOUS
    <3>2. l \in Nat /\ DOMAIN a = 1 .. l /\ DOMAIN b = 1 .. l + 1 /\ b[l + 1] = c
          /\ \A i \in 1 .. l : b[i] = a[i]
      BY <2>4, <2>5, <3>1
    <3>3. [i \in DOMAIN b |-> <<b[i], Bind>>] = [i \in 1 .. l + 1 |-> IF i \in 1 .. l THEN s[i] ELSE x]
      BY <2>8, <3>2
    <3>4. Append(s, x) = [i \in 1 .. l + 1 |-> IF i \in 1 .. l THEN s[i] ELSE x]
      BY <2>9, <3>1, PlacesOf
    <3> QED
      BY <3>3, <3>4
  <2>12. Along(m, c, W) = Factors(c)
    BY <2>3, <2>6, <2>7, <2>8, <2>10, <2>11
  <2> HIDE DEF Factors
  <2>13. \A k \in 0 .. n + 1 : Along(m, k, W) = Factors(k)
    <3>1. \A k \in 0 .. n + 1 : k \in 0 .. n \/ k = c
      BY <1>7, <2>1
    <3> QED
      BY <1>5, <1>7, <2>12, <3>1
  <2>14. n + 1 \in 0 .. N
    BY <1>2, <1>7
  <2> QED
    BY <1>5, <2>13, <2>14
<1> HIDE DEF Factors
<1>8. \A n \in 0 .. N : n \in T
  BY <1>2, <1>6, <1>7, UpTo
<1>9. Along(m, j, W) = Factors(j)
  BY <1>1, <1>2, <1>5, <1>8
<1> QED
  BY <1>1, <1>9 DEF Factors

------------------------------------------------------------------------------
\* The recursive function of PoseJoints.
IsPosed(g, m, local, old, n) ==
  g = [j \in 0 .. n |-> IF j = 0 THEN old ELSE PoseJoint(m, j, local, g[j - 1])]

LEMMA PosedIsMade ==
  ASSUME NEW m, Len(m.parent) \in Nat, NEW local, NEW old
  PROVE  \E g : /\ IsPosed(g, m, local, old, Len(m.parent))
                /\ PoseJoints(m, local, old) = g[Len(m.parent)]
<1>1. PICK N : N = Len(m.parent)
  OBVIOUS
<1>2. N \in Nat
  BY <1>1
<1>3. PICK T : T = {n \in 0 .. N : \E h : IsPosed(h, m, local, old, n)}
  OBVIOUS
<1>4. 0 \in T
  <2>1. PICK h : h = [j \in 0 .. 0 |-> old]
    OBVIOUS
  <2>2. IsPosed(h, m, local, old, 0)
    BY <2>1 DEF IsPosed
  <2> QED
    BY <1>2, <1>3, <2>2
<1>5. ASSUME NEW n \in 0 .. N, n \in T, n < N
      PROVE  n + 1 \in T
  <2>1. PICK h : IsPosed(h, m, local, old, n)
    BY <1>3, <1>5
  <2>2. PICK g : g = [j \in 0 .. n + 1 |-> IF j \in 0 .. n THEN h[j]
                                           ELSE PoseJoint(m, j, local, h[j - 1])]
    OBVIOUS
  <2>3. \A j \in 0 .. n : g[j] = h[j]
    BY <1>2, <2>2
  <2>4. \A j \in 0 .. n + 1 : g[j] = IF j = 0 THEN old ELSE PoseJoint(m, j, local, g[j - 1])
    <3> TAKE j \in 0 .. n + 1
    <3>1. CASE j \in 0 .. n
      <4>1. j = 0 \/ j - 1 \in 0 .. n
        BY <3>1
      <4> QED
        BY <2>1, <2>3, <3>1, <4>1 DEF IsPosed
    <3>2. CASE j = n + 1
      <4>1. j # 0 /\ j - 1 \in 0 .. n /\ j \notin 0 .. n
        BY <3>2
      <4> QED
        BY <2>2, <2>3, <4>1
    <3> QED
      BY <3>1, <3>2
  <2>5. IsPosed(g, m, local, old, n + 1)
    BY <2>2, <2>4 DEF IsPosed
  <2>6. n + 1 \in 0 .. N
    BY <1>2, <1>5
  <2> QED
    BY <1>3, <2>5, <2>6
<1>6. \A n \in 0 .. N : n \in T
  BY <1>2, <1>4, <1>5, UpTo
<1>7. \E h : IsPosed(h, m, local, old, N)
  BY <1>2, <1>3, <1>6
<1>8. PICK g : g = CHOOSE posed : posed = [j \in 0 .. Len(m.parent) |->
                     IF j = 0 THEN old ELSE PoseJoint(m, j, local, posed[j - 1])]
  OBVIOUS
<1>9. IsPosed(g, m, local, old, N)
  BY <1>1, <1>7, <1>8 DEF IsPosed
<1>10. PoseJoints(m, local, old) = g[N]
  BY <1>1, <1>8 DEF PoseJoints
<1> QED
  BY <1>1, <1>9, <1>10

\* The last of the first n joints that has a say in a vertex; 0 if none has.
IsLast(m, v, j, n) ==
  /\ j \in 0 .. n /\ (j # 0 => Influences(m, j, v) # {})
  /\ \A i \in j + 1 .. n : Influences(m, i, v) = {}

\* There is one such joint.
LEMMA OneIsLast ==
  ASSUME NEW m, NEW v, NEW n \in Nat, NEW i, IsLast(m, v, i, n), NEW j, IsLast(m, v, j, n)
  PROVE  i = j
<1>1. i \in 0 .. n /\ j \in 0 .. n
  BY DEF IsLast
<1>2. ~(i < j)
  <2> SUFFICES ASSUME i < j PROVE FALSE
    OBVIOUS
  <2>1. j \in i + 1 .. n /\ j # 0
    BY <1>1
  <2> QED
    BY <2>1 DEF IsLast
<1>3. ~(j < i)
  <2> SUFFICES ASSUME j < i PROVE FALSE
    OBVIOUS
  <2>1. i \in j + 1 .. n /\ i # 0
    BY <1>1
  <2> QED
    BY <2>1 DEF IsLast
<1> QED
  BY <1>1, <1>2, <1>3

\* What a joint makes of a vertex.
Applied(m, v, j, local) ==
  [by |-> <<j, Max(Influences(m, j, v))>>, matrix |-> Along(m, j, local)]

\* What the first n joints make of a pose.
PoseShows(m, n, local, old, acc) ==
  /\ acc = [global |-> acc.global, verts |-> acc.verts]
  /\ acc.global = [j \in 1 .. Len(m.parent) |-> acc.global[j]]
  /\ \A j \in 1 .. n : acc.global[j] = Along(m, j, local)
  /\ acc.verts = [v \in Vertices |-> acc.verts[v]]
  /\ \A v \in Vertices : \E j :
       IsLast(m, v, j, n) /\ acc.verts[v] = IF j = 0 THEN old.verts[v] ELSE Applied(m, v, j, local)

\* One more joint.
LEMMA PoseGoesOn ==
  ASSUME NEW m, Ordered(m), NEW X, NEW local, Locals(m, X, local), NEW old,
         NEW n \in 0 .. Len(m.parent) - 1, NEW acc, PoseShows(m, n, local, old, acc),
         NEW next, next = PoseJoint(m, n + 1, local, acc)
  PROVE  PoseShows(m, n + 1, local, old, next)
<1>1. PICK N, c, u, matrix : /\ N = Len(m.parent) /\ c = n + 1 /\ u = m.parent[c]
                             /\ matrix = ParentMatrix(m, c, acc.global) \o local[c]
  OBVIOUS
<1>2. N \in Nat /\ n \in Nat /\ c \in 1 .. N
  BY <1>1 DEF Ordered
<1>3. u \in 0 .. n
  <2>1. u \in 0 .. c - 1
    BY <1>1, <1>2, AboveStep
  <2> QED
    BY <1>1, <1>2, <2>1
<1>4. matrix = Along(m, c, local)
  <2>1. Along(m, c, local) = Along(m, u, local) \o local[c] /\ Along(m, 0, local) = <<>>
    BY <1>1, <1>2, AlongStep
  <2>2. ParentMatrix(m, c, acc.global) = Along(m, u, local)
    <3>1. CASE u = 0
      BY <1>1, <2>1, <3>1 DEF ParentMatrix
    <3>2. CASE u # 0
      <4>1. u \in 1 .. n
        BY <1>2, <1>3, <3>2
      <4>2. acc.global[u] = Along(m, u, local)
        BY <4>1 DEF PoseShows
      <4> QED
        BY <1>1, <3>2, <4>2 DEF ParentMatrix
    <3> QED
      BY <3>1, <3>2
  <2> QED
    BY <1>1, <2>1, <2>2
<1>5. PICK glob, vs : glob = acc.global /\ vs = acc.verts
  OBVIOUS
<1>6. next = [global |-> [glob EXCEPT ![c] = matrix], verts |-> Apply(m, c, matrix, vs)]
  BY <1>1, <1>5 DEF PoseJoint
<1>7. /\ glob = [j \in 1 .. N |-> glob[j]] /\ \A j \in 1 .. n : glob[j] = Along(m, j, local)
      /\ \A v \in Vertices : \E j :
           IsLast(m, v, j, n) /\ vs[v] = IF j = 0 THEN old.verts[v] ELSE Applied(m, v, j, local)
  BY <1>1, <1>5 DEF PoseShows
<1>8. next.global = [j \in 1 .. N |-> IF j = c THEN matrix ELSE glob[j]]
  <2>1. next.global = [glob EXCEPT ![c] = matrix]
    <3>1. PICK G, V : G = [glob EXCEPT ![c] = matrix] /\ V = Apply(m, c, matrix, vs)
      OBVIOUS
    <3>2. next = [global |-> G, verts |-> V]
      BY <1>6, <3>1
    <3>3. next.global = G
      BY <3>2
    <3> QED
      BY <3>1, <3>3
  <2>2. DOMAIN glob = 1 .. N
    BY <1>7
  <2> QED
    BY <2>1, <2>2
<1>9. \A j \in 1 .. n + 1 : next.global[j] = Along(m, j, local)
  <2> TAKE j \in 1 .. n + 1
  <2>1. CASE j = c
    BY <1>2, <1>4, <1>8, <2>1
  <2>2. CASE j # c
    <3>1. j \in 1 .. n /\ j \in 1 .. N
      BY <1>1, <1>2, <2>2
    <3> QED
      BY <1>7, <1>8, <2>2, <3>1
  <2> QED
    BY <2>1, <2>2
<1>10. next.verts = [v \in Vertices |->
         IF Influences(m, c, v) = {} THEN vs[v] ELSE Applied(m, v, c, local)]
  BY <1>4, <1>6 DEF Apply, Applied
<1>11. ASSUME NEW v \in Vertices
       PROVE  \E j : /\ IsLast(m, v, j, n + 1)
                     /\ next.verts[v] = IF j = 0 THEN old.verts[v] ELSE Applied(m, v, j, local)
  <2>1. CASE Influences(m, c, v) = {}
    <3>1. PICK j : IsLast(m, v, j, n) /\ vs[v] = IF j = 0 THEN old.verts[v] ELSE Applied(m, v, j, local)
      BY <1>7
    <3>2. next.verts[v] = vs[v]
      BY <1>10, <2>1
    <3>3. IsLast(m, v, j, n + 1)
      <4>1. j \in 0 .. n + 1 /\ \A i \in j + 1 .. n + 1 : i \in j + 1 .. n \/ i = c
        BY <1>1, <1>2, <3>1 DEF IsLast
      <4> QED
        BY <2>1, <3>1, <4>1 DEF IsLast
    <3> QED
      BY <3>1, <3>2, <3>3
  <2>2. CASE Influences(m, c, v) # {}
    <3>1. next.verts[v] = Applied(m, v, c, local)
      BY <1>10, <2>2
    <3>2. IsLast(m, v, c, n + 1)
      <4>1. c \in 0 .. n + 1 /\ \A i \in c + 1 .. n + 1 : FALSE
        BY <1>1, <1>2
      <4> QED
        BY <2>2, <4>1 DEF IsLast
    <3> QED
      BY <1>2, <3>1, <3>2
  <2> QED
    BY <2>1, <2>2
<1>12. next = [global |-> next.global, verts |-> next.verts]
  BY <1>6
<1>13. /\ next.global = [j \in 1 .. N |-> next.global[j]]
       /\ next.verts = [v \in Vertices |-> next.verts[v]]
  BY <1>8, <1>10
<1> QED
  BY <1>1, <1>9, <1>11, <1>12, <1>13 DEF PoseShows

\* A whole pass over the joints.
LEMMA PoseIsShown ==
  ASSUME NEW m, Ordered(m), NEW X, NEW local, Locals(m, X, local), NEW old,
         old = [global |-> old.global, verts |-> old.verts],
         old.global = [j \in 1 .. Len(m.parent) |-> old.global[j]],
         old.verts = [v \in Vertices |-> old.verts[v]]
  PROVE  PoseShows(m, Len(m.parent), local, old, PoseJoints(m, local, old))
<1>1. PICK N : N = Len(m.parent)
  OBVIOUS
<1>2. N \in Nat
  BY <1>1 DEF Ordered
<1>3. PICK g : IsPosed(g, m, local, old, N) /\ PoseJoints(m, local, old) = g[N]
  BY <1>1, <1>2, PosedIsMade
<1>4. PICK T : T = {n \in 0 .. N : PoseShows(m, n, local, old, g[n])}
  OBVIOUS
<1>5. 0 \in T
  <2>1. g[0] = old
    BY <1>2, <1>3 DEF IsPosed
  <2>2. \A v \in Vertices : IsLast(m, v, 0, 0)
    BY DEF IsLast
  <2>3. PoseShows(m, 0, local, old, old)
    BY <2>2 DEF PoseShows
  <2> QED
    BY <1>2, <1>4, <2>1, <2>3
<1>6. ASSUME NEW n \in 0 .. N, n \in T, n < N
      PROVE  n + 1 \in T
  <2>1. n + 1 \in 0 .. N /\ n + 1 # 0 /\ (n + 1) - 1 = n /\ n \in 0 .. N - 1
    BY <1>2, <1>6
  <2>2. g[n + 1] = PoseJoint(m, n + 1, local, g[n])
    BY <1>3, <2>1 DEF IsPosed
  <2>3. PoseShows(m, n, local, old, g[n])
    BY <1>4, <1>6
  <2>4. PoseShows(m, n + 1, local, old, g[n + 1])
    BY <1>1, <2>1, <2>2, <2>3, PoseGoesOn
  <2> QED
    BY <1>4, <2>1, <2>4
<1>7. \A n \in 0 .. N : n \in T
  BY <1>2, <1>5, <1>6, UpTo
<1> QED
  BY <1>1, <1>2, <1>3, <1>4, <1>7

\* A vertex as the last joint that has a say in it leaves it.
PosedAt(m, v, x, local) ==
  \E j \in 0 .. Len(m.parent) :
    IsLast(m, v, j, Len(m.parent)) /\ x = IF j = 0 THEN Unposed ELSE Applied(m, v, j, local)

\* The base pose and the one shown have gone over the same joints; a vertex that no
\* joint has a say in is as it was.
PoseInv ==
  /\ base = [v \in Vertices |-> base[v]] /\ verts = [v \in Vertices |-> verts[v]]
  /\ shown # Null => mesh # Null
  /\ mesh # Null =>
       /\ mesh \in Meshes
       /\ global = [j \in 1 .. Len(mesh.parent) |-> global[j]]
       /\ \A v \in Vertices : PosedAt(mesh, v, base[v], Written(mesh))
       /\ \A v \in Vertices : IsLast(mesh, v, 0, Len(mesh.parent)) => verts[v] = Unposed
       /\ shown # Null =>
            \A v \in Vertices : PosedAt(mesh, v, verts[v], LocalMatrices(mesh, shown))

LEMMA MeshesAreOrdered ==
  ASSUME NEW m \in Meshes
  PROVE  Ordered(m) /\ Len(m.parent) \in Nat /\ DOMAIN m.parent = 1 .. Len(m.parent) /\ m # Null
<1>1. Ordered(m) /\ m # Null
  BY MeshesAssumption DEF Ordered
<1> QED
  BY <1>1 DEF Ordered

\* What a pass finds, and leaves behind.
Unsaid(m, glob, vs) ==
  /\ glob = [j \in 1 .. Len(m.parent) |-> glob[j]] /\ vs = [v \in Vertices |-> vs[v]]
  /\ \A v \in Vertices : IsLast(m, v, 0, Len(m.parent)) => vs[v] = Unposed
AllPosed(m, vs, local) == \A v \in Vertices : PosedAt(m, v, vs[v], local)

\* A pass leaves every vertex to the last joint that has a say in it.
LEMMA PassPoses ==
  ASSUME NEW m \in Meshes, NEW X, NEW local, Locals(m, X, local),
         NEW glob, NEW vs, Unsaid(m, glob, vs),
         NEW new, new = PoseJoints(m, local, [global |-> glob, verts |-> vs])
  PROVE  Unsaid(m, new.global, new.verts) /\ AllPosed(m, new.verts, local)
<1>1. PICK N, old : N = Len(m.parent) /\ old = [global |-> glob, verts |-> vs]
  OBVIOUS
<1>2. N \in Nat /\ Ordered(m)
  BY <1>1, MeshesAreOrdered
<1>3. old.global = glob /\ old.verts = vs /\ old = [global |-> old.global, verts |-> old.verts]
  BY <1>1
<1>4. PoseShows(m, N, local, old, new)
  <2>1. glob = [j \in 1 .. Len(m.parent) |-> glob[j]] /\ vs = [v \in Vertices |-> vs[v]]
    BY DEF Unsaid
  <2>2. old.global = [j \in 1 .. Len(m.parent) |-> old.global[j]]
        /\ old.verts = [v \in Vertices |-> old.verts[v]]
    BY <1>3, <2>1
  <2>3. new = PoseJoints(m, local, old)
    BY <1>1
  <2> QED
    BY <1>1, <1>2, <1>3, <2>2, <2>3, PoseIsShown
<1>5. ASSUME NEW v \in Vertices
      PROVE  \E j \in 0 .. N : IsLast(m, v, j, N)
                               /\ new.verts[v] = IF j = 0 THEN Unposed ELSE Applied(m, v, j, local)
  <2>1. PICK j : /\ IsLast(m, v, j, N)
                 /\ new.verts[v] = IF j = 0 THEN old.verts[v] ELSE Applied(m, v, j, local)
    BY <1>4 DEF PoseShows
  <2>2. j \in 0 .. N
    BY <2>1 DEF IsLast
  <2>3. j = 0 => old.verts[v] = Unposed
    BY <1>1, <1>3, <2>1 DEF Unsaid
  <2> QED
    BY <2>1, <2>2, <2>3
<1>6. ASSUME NEW v \in Vertices, IsLast(m, v, 0, N)
      PROVE  new.verts[v] = Unposed
  <2>1. PICK j \in 0 .. N : IsLast(m, v, j, N)
                 /\ new.verts[v] = IF j = 0 THEN Unposed ELSE Applied(m, v, j, local)
    BY <1>5
  <2>2. j = 0
    BY <1>2, <1>6, <2>1, OneIsLast
  <2> QED
    BY <2>1, <2>2
<1>7. \A v \in Vertices : PosedAt(m, v, new.verts[v], local)
  BY <1>1, <1>5 DEF PosedAt
<1>8. new.global = [j \in 1 .. N |-> new.global[j]] /\ new.verts = [v \in Vertices |-> new.verts[v]]
  BY <1>1, <1>4 DEF PoseShows
<1> QED
  BY <1>1, <1>6, <1>7, <1>8 DEF Unsaid, AllPosed

\* The matrices of a frame, and those that were written.
LEMMA FrameIsLocal ==
  ASSUME NEW m \in Meshes, NEW frame
  PROVE  Locals(m, Nat \X {frame, Garbage}, LocalMatrices(m, frame))
<1>1. PICK N, X : N = Len(m.parent) /\ X = Nat \X {frame, Garbage}
  OBVIOUS
<1>2. N \in Nat /\ DOMAIN m.parent = 1 .. N
  BY <1>1, MeshesAreOrdered
<1>3. ASSUME NEW j \in 1 .. N
      PROVE  LocalMatrix(m, j, frame) \in Seq(X)
  <2>1. <<>> \in Seq(X)
    BY EmptySeq
  <2>2. <<j, frame>> \in X /\ <<j, Garbage>> \in X
    BY <1>1, <1>2
  <2>3. <<<<j, frame>>>> \in Seq(X) /\ <<<<j, Garbage>>>> \in Seq(X)
    BY <2>2
  <2> QED
    BY <2>1, <2>3 DEF LocalMatrix
<1>4. \A j \in 1 .. N : LocalMatrices(m, frame)[j] = LocalMatrix(m, j, frame)
  BY <1>2 DEF LocalMatrices
<1> QED
  BY <1>1, <1>3, <1>4 DEF Locals

LEMMA WrittenIsLocal ==
  ASSUME NEW m \in Meshes
  PROVE  Locals(m, Nat \X {Bind}, Written(m))
<1>1. PICK N, X : N = Len(m.parent) /\ X = Nat \X {Bind}
  OBVIOUS
<1>2. N \in Nat /\ DOMAIN m.parent = 1 .. N
  BY <1>1, MeshesAreOrdered
<1>3. ASSUME NEW j \in 1 .. N
      PROVE  Written(m)[j] \in Seq(X)
  <2>1. <<j, Bind>> \in X
    BY <1>1, <1>2
  <2>2. <<<<j, Bind>>>> \in Seq(X)
    BY <2>1
  <2>3. Written(m)[j] = <<<<j, Bind>>>>
    BY <1>2 DEF Written
  <2> QED
    BY <2>2, <2>3
<1> QED
  BY <1>1, <1>3 DEF Locals

LEMMA PoseMatrixIsAlong ==
  ASSUME NEW m \in Meshes, NEW frame, NEW j \in 0 .. Len(m.parent)
  PROVE  PoseMatrix(m, j, frame) = Along(m, j, LocalMatrices(m, frame))
<1>1. PICK N, a : N = Len(m.parent) /\ a = Above(m, j)
  OBVIOUS
<1>2. N \in Nat /\ DOMAIN m.parent = 1 .. N /\ Ordered(m)
  BY <1>1, MeshesAreOrdered
<1>3. a \in Seq(1 .. N)
  BY <1>1, <1>2, AboveAmong
<1>4. \A k \in DOMAIN a : a[k] \in 1 .. N
  <2>1. PICK l : l = Len(a)
    OBVIOUS
  <2> QED
    BY <1>3, <2>1, PlacesOf
<1>5. \A k \in DOMAIN a : LocalMatrices(m, frame)[a[k]] = LocalMatrix(m, a[k], frame)
  BY <1>2, <1>4 DEF LocalMatrices
<1>6. [k \in DOMAIN a |-> LocalMatrices(m, frame)[a[k]]] = [k \in DOMAIN a |-> LocalMatrix(m, a[k], frame)]
  BY <1>5
<1> QED
  BY <1>1, <1>6 DEF Along, PoseMatrix

\* What is known of a vertex that is posed.
LEMMA PosedFacts ==
  ASSUME NEW m \in Meshes, NEW X, NEW local, Locals(m, X, local), NEW v, NEW x,
         PosedAt(m, v, x, local)
  PROVE  \E j \in 0 .. Len(m.parent) :
           /\ IsLast(m, v, j, Len(m.parent)) /\ x.by[1] = j /\ x.matrix = Along(m, j, local)
           /\ x.by = IF j = 0 THEN <<0, 0>> ELSE <<j, Max(Influences(m, j, v))>>
<1>1. PICK j \in 0 .. Len(m.parent) :
        IsLast(m, v, j, Len(m.parent)) /\ x = IF j = 0 THEN Unposed ELSE Applied(m, v, j, local)
  BY DEF PosedAt
<1>2. Ordered(m)
  BY MeshesAreOrdered
<1>3. CASE j = 0
  <2>1. x = [by |-> <<0, 0>>, matrix |-> <<>>]
    BY <1>1, <1>3 DEF Unposed
  <2>2. x.by = <<0, 0>> /\ x.matrix = <<>>
    BY <2>1
  <2>3. Along(m, 0, local) = <<>>
    BY <1>2, AlongStep
  <2> QED
    BY <1>1, <1>3, <2>2, <2>3
<1>4. CASE j # 0
  <2>1. PICK k, a : k = Max(Influences(m, j, v)) /\ a = Along(m, j, local)
    OBVIOUS
  <2>2. x = [by |-> <<j, k>>, matrix |-> a]
    BY <1>1, <1>4, <2>1 DEF Applied
  <2>3. x.by = <<j, k>> /\ x.matrix = a
    BY <2>2
  <2> QED
    BY <1>1, <1>4, <2>1, <2>3
<1> QED
  BY <1>3, <1>4

LEMMA PoseInvShows == PoseInv => PoseOfFrame
<1> SUFFICES ASSUME PoseInv PROVE PoseOfFrame
  OBVIOUS
<1>1. DOMAIN base = Vertices /\ DOMAIN verts = Vertices
  BY DEF PoseInv
<1>2. ASSUME mesh # Null
      PROVE  DOMAIN global = DOMAIN mesh.parent
  <2>1. DOMAIN mesh.parent = 1 .. Len(mesh.parent)
    BY <1>2, MeshesAreOrdered DEF PoseInv
  <2>2. DOMAIN global = 1 .. Len(mesh.parent)
    BY <1>2 DEF PoseInv
  <2> QED
    BY <2>1, <2>2
<1>3. ASSUME shown # Null, NEW v \in Vertices
      PROVE  /\ verts[v].matrix = PoseMatrix(mesh, verts[v].by[1], shown)
             /\ verts[v].by = base[v].by
             /\ base[v].matrix = [k \in DOMAIN Above(mesh, verts[v].by[1]) |->
                                   <<Above(mesh, verts[v].by[1])[k], Bind>>]
  <2>1. PICK N : N = Len(mesh.parent)
    OBVIOUS
  <2>2. mesh \in Meshes /\ N \in Nat /\ Ordered(mesh)
    BY <1>3, <2>1, MeshesAreOrdered DEF PoseInv
  <2>3. PosedAt(mesh, v, base[v], Written(mesh)) /\ PosedAt(mesh, v, verts[v], LocalMatrices(mesh, shown))
    BY <1>3 DEF PoseInv
  <2>4. PICK i \in 0 .. N :
          /\ IsLast(mesh, v, i, N) /\ base[v].by[1] = i /\ base[v].matrix = Along(mesh, i, Written(mesh))
          /\ base[v].by = IF i = 0 THEN <<0, 0>> ELSE <<i, Max(Influences(mesh, i, v))>>
    <3>1. PICK local, X : local = Written(mesh) /\ X = Nat \X {Bind}
      OBVIOUS
    <3>2. Locals(mesh, X, local) /\ PosedAt(mesh, v, base[v], local)
      BY <2>2, <2>3, <3>1, WrittenIsLocal
    <3>3. \E i \in 0 .. N :
            /\ IsLast(mesh, v, i, N) /\ base[v].by[1] = i /\ base[v].matrix = Along(mesh, i, local)
            /\ base[v].by = IF i = 0 THEN <<0, 0>> ELSE <<i, Max(Influences(mesh, i, v))>>
      BY <2>1, <2>2, <3>2, PosedFacts
    <3> QED
      BY <3>1, <3>3
  <2>5. PICK j \in 0 .. N :
          /\ IsLast(mesh, v, j, N) /\ verts[v].by[1] = j
          /\ verts[v].matrix = Along(mesh, j, LocalMatrices(mesh, shown))
          /\ verts[v].by = IF j = 0 THEN <<0, 0>> ELSE <<j, Max(Influences(mesh, j, v))>>
    <3>1. PICK local, X : local = LocalMatrices(mesh, shown) /\ X = Nat \X {shown, Garbage}
      OBVIOUS
    <3>2. Locals(mesh, X, local) /\ PosedAt(mesh, v, verts[v], local)
      BY <2>2, <2>3, <3>1, FrameIsLocal
    <3>3. \E j \in 0 .. N :
            /\ IsLast(mesh, v, j, N) /\ verts[v].by[1] = j /\ verts[v].matrix = Along(mesh, j, local)
            /\ verts[v].by = IF j = 0 THEN <<0, 0>> ELSE <<j, Max(Influences(mesh, j, v))>>
      BY <2>1, <2>2, <3>2, PosedFacts
    <3> QED
      BY <3>1, <3>3
  <2>6. i = j
    BY <2>2, <2>4, <2>5, OneIsLast
  <2>7. PoseMatrix(mesh, j, shown) = Along(mesh, j, LocalMatrices(mesh, shown))
    BY <2>1, <2>2, PoseMatrixIsAlong
  <2>8. Along(mesh, j, Written(mesh)) = [k \in DOMAIN Above(mesh, j) |-> <<Above(mesh, j)[k], Bind>>]
    BY <2>1, <2>2, WrittenAlong
  <2> QED
    BY <2>4, <2>5, <2>6, <2>7, <2>8
<1> QED
  BY <1>1, <1>2, <1>3 DEF PoseOfFrame

LEMMA PoseInitHolds == AnimInit => PoseInv
  BY DEF AnimInit, PoseInv

LEMMA SetFilePoses ==
  ASSUME PoseInv, NEW m \in Meshes, SetFile(m)
  PROVE  PoseInv'
<1>1. PICK local, X, glob, vs, new :
        /\ local = Written(m) /\ X = Nat \X {Bind} /\ new = InitPoses(m)
        /\ glob = [j \in DOMAIN m.parent |-> <<>>] /\ vs = [v \in Vertices |-> Unposed]
  OBVIOUS
<1>2. DOMAIN m.parent = 1 .. Len(m.parent) /\ m # Null
  BY MeshesAreOrdered
<1>3. Locals(m, X, local)
  BY <1>1, WrittenIsLocal
<1>4. Unsaid(m, glob, vs)
  BY <1>1, <1>2 DEF Unsaid
<1>5. new = PoseJoints(m, local, [global |-> glob, verts |-> vs])
  BY <1>1 DEF InitPoses
<1>6. Unsaid(m, new.global, new.verts) /\ AllPosed(m, new.verts, local)
  BY <1>3, <1>4, <1>5, PassPoses
<1>7. mesh' = m /\ base' = new.verts /\ global' = new.global /\ verts' = vs /\ shown' = Null
  BY <1>1 DEF SetFile
<1>8. base' = [v \in Vertices |-> base'[v]] /\ global' = [j \in 1 .. Len(m.parent) |-> global'[j]]
  BY <1>6, <1>7 DEF Unsaid
<1>9. \A v \in Vertices : PosedAt(m, v, base'[v], Written(m))
  BY <1>1, <1>6, <1>7 DEF AllPosed
<1>10. verts' = [v \in Vertices |-> verts'[v]] /\ \A v \in Vertices : verts'[v] = Unposed
  BY <1>1, <1>7
<1> QED
  BY <1>7, <1>8, <1>9, <1>10 DEF PoseInv, PosedAt

LEMMA ShowPoses ==
  ASSUME PoseInv, Updating, NEW frame, Show(frame)
  PROVE  PoseInv'
<1>1. PICK local, X, glob, vs, new :
        /\ local = LocalMatrices(mesh, frame) /\ X = Nat \X {frame, Garbage}
        /\ glob = global /\ vs = verts /\ new = UpdateJointPoses(mesh, frame)
  OBVIOUS
<1>2. mesh \in Meshes /\ mesh # Null
  BY DEF Updating, PoseInv
<1>3. Locals(mesh, X, local)
  BY <1>1, <1>2, FrameIsLocal
<1>4. Unsaid(mesh, glob, vs)
  BY <1>1, <1>2 DEF PoseInv, Unsaid
<1>5. new = PoseJoints(mesh, local, [global |-> glob, verts |-> vs])
  BY <1>1 DEF UpdateJointPoses
<1>6. Unsaid(mesh, new.global, new.verts) /\ AllPosed(mesh, new.verts, local)
  BY <1>2, <1>3, <1>4, <1>5, PassPoses
<1>7. mesh' = mesh /\ base' = base /\ global' = new.global /\ verts' = new.verts /\ shown' = frame
  BY <1>1 DEF Show
<1>8. /\ global' = [j \in 1 .. Len(mesh.parent) |-> global'[j]]
      /\ verts' = [v \in Vertices |-> verts'[v]]
      /\ \A v \in Vertices : IsLast(mesh, v, 0, Len(mesh.parent)) => verts'[v] = Unposed
  BY <1>6, <1>7 DEF Unsaid
<1>9. \A v \in Vertices : PosedAt(mesh, v, verts'[v], LocalMatrices(mesh, frame))
  BY <1>1, <1>6, <1>7 DEF AllPosed
<1> QED
  BY <1>2, <1>7, <1>8, <1>9 DEF PoseInv, PosedAt

\* The pose is that of the frame shown, however many frames went before.
THEOREM PoseOfFrameAlways == AnimSpec => []PoseOfFrame
<1>1. PoseInv /\ [AnimNext]_animVars => PoseInv'
  <2> SUFFICES ASSUME PoseInv, [AnimNext]_animVars PROVE PoseInv'
    OBVIOUS
  <2>1. ASSUME NEW m \in Meshes, SetFile(m) PROVE PoseInv'
    BY <2>1, SetFilePoses
  <2>2. ASSUME NEW name \in Motions, NEW action \in Actions, PushAnimation(name, action)
        PROVE  PoseInv'
    <3>1. UNCHANGED <<mesh, pose, shown>>
      BY <2>2 DEF PushAnimation
    <3> QED
      BY <3>1 DEF PoseInv, PosedAt, pose
  <2>3. ASSUME NEW name \in Motions, PlayUnknown(name) PROVE PoseInv'
    <3>1. UNCHANGED <<mesh, pose, shown>>
      BY <2>3 DEF PlayUnknown
    <3> QED
      BY <3>1 DEF PoseInv, PosedAt, pose
  <2>4. ASSUME NEW name \in Motions, NEW loop \in BOOLEAN, Play(name, loop) PROVE PoseInv'
    <3>1. UNCHANGED <<mesh, pose>> /\ shown' = Null
      BY <2>4 DEF Play
    <3> QED
      BY <3>1 DEF PoseInv, PosedAt, pose
  <2>5. ASSUME AnimFrame PROVE PoseInv'
    <3>1. ASSUME NEW step \in Steps, Update(step) PROVE PoseInv'
      BY <3>1, ShowPoses DEF Update
    <3>2. ASSUME NEW step \in Steps, UpdateLoops(step) PROVE PoseInv'
      BY <3>2, ShowPoses DEF UpdateLoops
    <3>3. ASSUME NEW step \in Steps, UpdateEnded(step) PROVE PoseInv'
      <4>1. UNCHANGED <<mesh, pose, shown>>
        BY <3>3 DEF UpdateEnded
      <4> QED
        BY <4>1 DEF PoseInv, PosedAt, pose
    <3>4. ASSUME NEW step \in Steps, UpdateCrashes(step) PROVE PoseInv'
      <4>1. UNCHANGED <<mesh, pose, shown>>
        BY <3>4 DEF UpdateCrashes
      <4> QED
        BY <4>1 DEF PoseInv, PosedAt, pose
    <3>5. ASSUME UNCHANGED animVars PROVE PoseInv'
      BY <3>5 DEF PoseInv, PosedAt, animVars
    <3>6. UpdateNothing => UNCHANGED animVars
      BY DEF UpdateNothing
    <3> QED
      BY <2>5, <3>1, <3>2, <3>3, <3>4, <3>5, <3>6 DEF AnimFrame
  <2>6. CASE UNCHANGED animVars
    BY <2>6 DEF PoseInv, PosedAt, animVars
  <2>7. AnimCrashed => UNCHANGED animVars
    BY DEF AnimCrashed
  <2> QED
    BY <2>1, <2>2, <2>3, <2>4, <2>5, <2>6, <2>7 DEF AnimNext
<1> QED
  BY <1>1, PoseInitHolds, PoseInvShows, PTL DEF AnimSpec
==============================================================================
