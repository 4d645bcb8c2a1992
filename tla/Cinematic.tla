----------------------------- MODULE Cinematic -----------------------------
(***************************************************************************)
(* idCinematicLocal: RoQ videos that are played by asking for the image of *)
(* a time (Cinematic.cpp).  Several cinematics decode through the code     *)
(* book that all of them share.                                            *)
(*                                                                         *)
(* A video is the sequence of its chunks.  A picture is the number of its  *)
(* frame; it is Garbled when it was built on another picture or decoded    *)
(* with another code book than the one it was made for.  Of the time that  *)
(* is asked for only tfps is left, the frames since startTime: callers ask *)
(* for any time, so that it is any number, and 0 where startTime is set.   *)
(***************************************************************************)
EXTENDS Integers, Sequences, FiniteSets

CONSTANTS Cins,          \* the cinematics
          Videos,        \* sequences of chunks
          MaxTime        \* bound of tfps

Kinds == {"info", "vq", "book", "sound", "packet", "jpeg", "bad", "over"}
Pictures(v) == {i \in DOMAIN v : v[i] \in {"vq", "jpeg"}}
FramesBefore(v, p) == Cardinality({i \in Pictures(v) : i < p})

\* Videos begin with their size, as the files do; the last chunk is never
\* looked at, so that there must be a frame before it; and a packet has its
\* chunk in it.
ASSUME CinAssumption ==
  /\ MaxTime \in Nat /\ Cins # {} /\ Videos # {}
  /\ \A v \in Videos :
       /\ v \in Seq(Kinds) /\ v[1] = "info" /\ \E i \in 2..Len(v) - 1 : v[i] = "vq"
       /\ \A i \in DOMAIN v : v[i] = "packet" => i < Len(v) - 1 /\ v[i + 1] \in {"vq", "book", "sound"}
       /\ \A i \in DOMAIN v : v[i] \in {"bad", "over"} => \E j \in 2..i : v[j] = "vq"

VARIABLES cin,           \* the objects
          book,          \* vq2, vq4 and vq8: whose code book is in them
          call,          \* the ImageForTime under way
          skipped,       \* history: the objects whose video was opened while r_skipROQ was
                         \* set, and that were not asked for a picture of it since
          leaked,        \* history: a file is open that was played and that no object refers to
          gone           \* a null pointer was followed

cinVars == <<cin, book, call, skipped, leaked, gone>>

Garbled == -1
NoBook == <<>>
Returned == [at |-> "none", who |-> CHOOSE c \in Cins : TRUE, tfps |-> 0, init |-> FALSE]

New == [status |-> "EOF", video |-> CHOOSE v \in Videos : TRUE, file |-> "none", image |-> FALSE,
        buf |-> 0, half |-> <<0, 0>>, quads |-> 0, pos |-> 1, looping |-> FALSE, reset |-> FALSE]

CinInit == /\ cin = [c \in Cins |-> New] /\ book = NoBook /\ call = Returned
           /\ skipped = {} /\ leaked = FALSE /\ gone = FALSE

-----------------------------------------------------------------------------
(* One chunk.  Each operator takes an object and returns it changed. *)

RoQ_init(c) == [c EXCEPT !.pos = 1, !.quads = -1]
RoQReset(c) == [RoQ_init(c) EXCEPT !.status = "LOOPED"]
\* A slip: a video that does not loop is left at its end as it was.
AtEndAsItWas(c) == IF c.looping THEN RoQReset(c) ELSE c
AtEnd(c) == IF c.looping THEN RoQReset(c) ELSE [c EXCEPT !.status = "EOF"]

Frame(c) == Cardinality({i \in Pictures(c.video) : i <= c.pos})
BookBefore(c) == LET books == {i \in 1..c.pos : c.video[i] = "book"}
                 IN IF books = {} THEN NoBook
                    ELSE <<c.video, CHOOSE i \in books : \A j \in books : j <= i>>

\* Motion is taken from the other half, which holds the frame before, and a
\* block that is skipped keeps what this half has, from the frame before that.
Fits(c, h) == LET n == Frame(c)
              IN /\ book = BookBefore(c)
                 /\ n > 1 => c.half = [c.half EXCEPT ![3 - h] = n - 1, ![h] = IF n = 2 THEN 1 ELSE n - 2]

\* A slip: the first frame is not copied to the other half.
DecodeVQOneHalf(c) ==
  LET h == IF c.quads % 2 = 0 THEN 1 ELSE 2
  IN [c EXCEPT !.buf = h, !.quads = @ + 1, !.half[h] = IF Fits(c, h) THEN Frame(c) ELSE Garbled]

\* The first frame stands alone, and is copied to both.
DecodeVQ(c) ==
  LET h == IF c.quads % 2 = 0 THEN 1 ELSE 2
      picture == IF Fits(c, h) THEN Frame(c) ELSE Garbled
  IN [c EXCEPT !.buf = h, !.quads = @ + 1,
               !.half = IF c.quads = 0 THEN <<picture, picture>> ELSE [@ EXCEPT ![h] = picture]]

QuadInfo(c) == [c EXCEPT !.image = TRUE, !.quads = IF @ = 1 THEN 1 ELSE 0]

JpegBlit(c) == IF c.quads # 0 THEN c
               ELSE [c EXCEPT !.half = <<Frame(c), Frame(c)>>, !.quads = 1]

Chunk(c) == CASE c.video[c.pos] = "vq" -> DecodeVQ(c)
              [] c.video[c.pos] = "info" -> QuadInfo(c)
              [] c.video[c.pos] = "jpeg" -> JpegBlit(c)
              [] c.video[c.pos] = "bad" -> [c EXCEPT !.status = "EOF"]
              [] OTHER -> c
BookAfter(c) == IF c.video[c.pos] = "book" THEN <<c.video, c.pos>> ELSE book

\* The header of the next chunk; one that cannot be is the end.
NextHeader(c) == LET d == [c EXCEPT !.pos = @ + 1]
                 IN IF d.video[d.pos] = "over" THEN AtEnd(d) ELSE d

\* A packet is followed at once by the chunk in it.
Unpacked(c) == IF c.video[c.pos] = "packet" THEN [c EXCEPT !.pos = @ + 1] ELSE c

\* RoQPlayed counts the header of the file twice and not the first chunk, which
\* is as long as one: it reaches ROQSize with the header of the last chunk.
Interrupt(c) == IF c.pos >= Len(c.video) THEN AtEnd(c) ELSE NextHeader(Chunk(Unpacked(c)))
BookInterrupt(c) == IF c.pos >= Len(c.video) THEN book ELSE BookAfter(Unpacked(c))

-----------------------------------------------------------------------------
(* The calls. *)

Idle == call.at = "none" /\ ~gone
Set(c, new) == cin' = [cin EXCEPT ![c] = new]

\* A slip: what is at its end is taken for shut down.
RoQShutdownNotAtEnd(c) == IF c.status \in {"IDLE", "EOF"} THEN c
                          ELSE [c EXCEPT !.status = "IDLE", !.file = "none"]
RoQShutdown(c) == IF c.status = "IDLE" THEN c ELSE [c EXCEPT !.status = "IDLE", !.file = "none"]
\* What Close leaves in the other fields is set again before it is read, unless
\* it leaves the video open.
Closed(c) == LET d == RoQShutdown(IF c.image THEN [c EXCEPT !.status = "EOF"] ELSE c)
             IN IF d.file = "open" THEN [d EXCEPT !.image = FALSE, !.buf = 0]
                ELSE [New EXCEPT !.status = d.status, !.file = d.file]

CinClose(c) == /\ Idle /\ Set(c, Closed(cin[c]))
               /\ skipped' = IF Closed(cin[c]).file = "open" THEN skipped ELSE skipped \ {c}
               /\ UNCHANGED <<book, call, leaked, gone>>

\* The lfFile that Close left there is lost.
Reopens(c) == leaked' = (leaked \/ (Closed(cin[c]).file = "open" /\ c \notin skipped))

\* A cvar says at every call of ImageForTime whether it does anything.  The one
\* that InitFromFile makes is skipped like any other.
InitFromFile(c, v, amilooping, r_skipROQ) ==
  LET opened == [RoQ_init(Closed(cin[c])) EXCEPT !.file = "open", !.video = v, !.looping = amilooping,
                   !.buf = 0, !.reset = FALSE, !.status = "PLAY"]
  IN /\ Idle /\ Reopens(c)
     /\ IF r_skipROQ
        THEN /\ Set(c, [opened EXCEPT !.status = IF amilooping THEN "PLAY" ELSE "IDLE"])
             /\ UNCHANGED call
        ELSE Set(c, opened) /\ call' = [at |-> "first", who |-> c, tfps |-> 0, init |-> TRUE]
     /\ skipped' = IF r_skipROQ THEN skipped \cup {c} ELSE skipped \ {c}
     /\ UNCHANGED <<book, gone>>

\* The file is none of RoQ's.  RoQShutdown finds the status that Close has left
\* and does not delete it.  (One that cannot be opened is read all the same.)
InitRefused(c) ==
  /\ Idle /\ Reopens(c)
  /\ Set(c, RoQShutdown([Closed(cin[c]) EXCEPT !.file = "refused"]))
  /\ skipped' = skipped \ {c}
  /\ UNCHANGED <<book, call, gone>>

ResetTime(c) == /\ Idle /\ Set(c, [cin[c] EXCEPT !.reset = TRUE, !.status = "PLAY"])
                /\ UNCHANGED <<book, call, skipped, leaked, gone>>

\* ImageForTime that returns with nothing: the step stutters.
Skips(c, r_skipROQ) == r_skipROQ \/ cin[c].status \in {"EOF", "IDLE"}

\* ImageForTime up to its first loop.  Without a file to seek in, or with one
\* that is not a video, there is nothing to hold on to.
ImageForTime(c, tfps, r_skipROQ) ==
  /\ Idle /\ ~Skips(c, r_skipROQ)
  /\ cin[c].buf = 0 \/ cin[c].reset => tfps = 0
  /\ IF cin[c].file # "open"
     THEN gone' = TRUE /\ UNCHANGED <<cin, call, skipped>>
     ELSE LET c1 == IF cin[c].reset THEN [RoQReset(cin[c]) EXCEPT !.reset = FALSE] ELSE cin[c]
              c2 == IF tfps < c1.quads THEN [RoQReset(c1) EXCEPT !.buf = 0, !.status = "PLAY"] ELSE c1
          IN /\ Set(c, c2) /\ skipped' = skipped \ {c}
             /\ call' = [at |-> IF c2.buf = 0 THEN "first" ELSE "until", who |-> c, tfps |-> tfps,
                         init |-> FALSE]
             /\ UNCHANGED gone
  /\ UNCHANGED <<book, leaked>>

Me == cin[call.who]
GoesOn == CASE call.at = "first" -> Me.buf = 0
            [] call.at = "until" -> call.tfps # Me.quads /\ Me.status = "PLAY"
            [] call.at \in {"looped", "again"} -> Me.buf = 0 /\ Me.status = "PLAY"
            [] OTHER -> FALSE

RoQInterrupt == /\ GoesOn
                /\ Set(call.who, Interrupt(Me)) /\ book' = BookInterrupt(Me)
                /\ UNCHANGED <<call, skipped, leaked, gone>>

\* InitFromFile sets the status once more.
Return(c) == /\ Set(call.who, IF ~call.init THEN c
                              ELSE [c EXCEPT !.status = IF c.looping THEN "PLAY" ELSE "IDLE"])
             /\ call' = Returned
             /\ UNCHANGED <<book, skipped, leaked, gone>>
Continue(c, at) == /\ Set(call.who, c) /\ call' = [call EXCEPT !.at = at]
                   /\ UNCHANGED <<book, skipped, leaked, gone>>

\* Behind the first loops: the video came round, which takes another loop, ...
CameRound == /\ call.at \in {"first", "until"} /\ ~GoesOn /\ Me.status = "LOOPED"
             /\ Continue([Me EXCEPT !.status = "PLAY"], "looped")

\* ... and then it is over, or goes on.
Behind == \/ call.at \in {"first", "until"} /\ ~GoesOn /\ Me.status # "LOOPED"
          \/ call.at = "looped" /\ ~GoesOn

GoesAgain == /\ Behind /\ Me.status = "EOF" /\ Me.looping
             /\ Continue([RoQReset(Me) EXCEPT !.buf = 0, !.status = "PLAY"], "again")
AgainDone == /\ call.at = "again" /\ ~GoesOn /\ Return(Me)
\* RoQShutdown is called, with the status that makes it do nothing.
Ends == /\ Behind /\ Me.status = "EOF" /\ ~Me.looping
        /\ Return(RoQShutdown([Me EXCEPT !.status = "IDLE"]))
Shows == /\ Behind /\ Me.status # "EOF" /\ Return(Me)

Playing == RoQInterrupt \/ CameRound \/ GoesAgain \/ AgainDone \/ Ends \/ Shows

CinNext == \/ Playing
           \/ \E c \in Cins :
                \/ CinClose(c) \/ InitRefused(c) \/ ResetTime(c)
                \/ \E v \in Videos, l, s \in BOOLEAN : InitFromFile(c, v, l, s)
                \/ \E t \in 0..MaxTime, s \in BOOLEAN : ImageForTime(c, t, s)

CinSpec == CinInit /\ [][CinNext]_cinVars /\ WF_cinVars(Playing)

-----------------------------------------------------------------------------
\* The fields of an object go together: it has pictures only with an image, and
\* plays nothing that it does not have open.
CinTypeOK ==
  /\ \A c \in Cins : LET o == cin[c] IN
       /\ o.status \in {"EOF", "IDLE", "PLAY", "LOOPED"} /\ o.video \in Videos
       /\ o.file \in {"none", "open", "refused"} /\ o.buf \in 0..2
       /\ o.pos \in 1..Len(o.video) /\ o.quads \in -1..FramesBefore(o.video, o.pos)
       /\ o.buf # 0 => o.image
       /\ o.image => o.file = "open"
  /\ call.at \in {"none", "first", "until", "looped", "again"}

\* Every frame brings its own code book, between the picture before it and
\* itself; a still is the first picture, and the size is not said again once
\* there are two.
OwnBook(v, j) == \E b \in 1..j - 1 : /\ v[b] = "book"
                                    /\ \A i \in Pictures(v) : i < j => i < b
WellMade(v) == \A j \in DOMAIN v :
                 /\ v[j] = "vq" => OwnBook(v, j)
                 /\ v[j] = "jpeg" => FramesBefore(v, j) = 0
                 /\ v[j] = "info" => FramesBefore(v, j) <= 1

\* Whatever times are asked for, with videos that end, come round, are reset and
\* seek backwards, and however cinematics take turns over the one code book:
\* the picture in buf is never garbled, and once a frame was counted it is the
\* frame that numQuads counts (Cinematic.cpp, ImageForTime, RoQInterrupt).
\* A video that uses a code book for two frames has no such promise, for another
\* cinematic may have been played between them; nor has one whose size or still
\* comes later, which count the frames anew or not at all.
PictureIsOfFrame ==
  \A c \in Cins : LET o == cin[c] IN
    o.buf # 0 /\ WellMade(o.video) =>
      /\ o.half[o.buf] # Garbled
      /\ o.quads >= 1 => o.half[o.buf] = o.quads

\* Between calls, Close (and the one in a second InitFromFile) finds the file of
\* every video that was asked for a picture, although the end of a video does not
\* close it.  What stays open is a file that InitFromFile refused, and one that it
\* opened while r_skipROQ was set for a video that does not loop: ImageForTime
\* made no image then, and the status is what Close takes for shut down
\* (Cinematic.cpp, ImageForTime, RoQShutdown).
CloseClosesFile ==
  /\ CinTypeOK
  /\ call.at = "none" =>
       \A c \in Cins : Closed(cin[c]).file = "open" => c \in skipped /\ ~cin[c].looping
  /\ ~leaked

\* Every call comes back, through the end and the loop of each video that shows
\* anything.
CinCallsReturn == (call.at # "none") ~> (call.at = "none")
=============================================================================
