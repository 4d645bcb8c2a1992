------------------------------ MODULE LwoReader ------------------------------
(***************************************************************************)
(* lwGetObject down to the fields of clips, envelopes, surfaces, textures  *)
(* and shaders.  Every function that reads subchunks has the same loop     *)
(* around a switch: it reads, compares what was read (flen) with the       *)
(* subchunk's size, skips the rest, and stops where its own chunk ends.    *)
(* flen is one static variable: a function that is called from a switch    *)
(* starts it anew, and has to leave in it what its caller then compares.   *)
(* What is in points and polygons is LwoGeometry's, and read whole here.   *)
(*                                                                         *)
(* lfFile::Read always says that all was read.  Behind the end of the file *)
(* it leaves what it reads into as it was, and only Seek goes on: a loop   *)
(* that reads sizes of 0 there never ends.                                 *)
(***************************************************************************)
EXTENDS LwoFile, FiniteSets, FiniteSetsExt, TLC

CONSTANTS
  LwoFiles,      \* [tree |-> the chunks, cells |-> what is there of them, whole |-> is it all]
  LwoGarbage     \* what a read behind the end of the file may leave

VARIABLES
  lwo,       \* the file
  lpc,       \* "idle", "open", "item" (before a header), "after" (behind a switch),
             \* "loaded", "null", "crashed", or "hangs"
  lpos,      \* fp->Tell()
  flen,
  frames     \* the functions that read, innermost last

lwoVars == <<lwo, lpc, lpos, flen, frames>>

FLEN_ERROR == -9999

\* What a function makes: the last values of each field, and its lists.
\* (the values in front of its subchunks are of no field)
Opening == <<"", "">>
Empty == [fields |-> <<>>, lists |-> <<>>, cur |-> 0]
ListOf(node, name) == IF name \in DOMAIN node.lists THEN node.lists[name] ELSE <<>>

\* size is what the function was told, start where it began, and sz is the padded size of
\* the subchunk that it is at.
Frame(kind, start, size, node) ==
  [kind |-> kind, start |-> start, size |-> size, sz |-> 0, node |-> node]

LwoInit ==
  lwo \in LwoFiles /\ lpc = "open" /\ lpos = 0 /\ flen = 0 /\ frames = <<>>
LwoIdle ==
  /\ lwo = [tree |-> <<>>, cells |-> <<>>, whole |-> FALSE]
  /\ lpc = "idle" /\ lpos = 0 /\ flen = 0 /\ frames = <<>>

------------------------------------------------------------------------------
(* Reading. *)

LwoSize == Len(lwo.cells)
CellAt(p, g) == IF p < LwoSize THEN lwo.cells[p + 1] ELSE g
Number(p, w, g) == IF p + w <= LwoSize THEN lwo.cells[p + 1] ELSE g
Adv(p, n) == IF p >= LwoSize THEN p ELSE IF p + n < LwoSize THEN p + n ELSE LwoSize
Even(n) == n + (n % 2)

\* The length of the string at p without its NUL.
StringLen(p) ==
  CHOOSE n \in 0 .. LwoSize : CellAt(p + n, 0) = 0 /\ \A m \in 0 .. n - 1 : CellAt(p + m, 0) # 0
Chars(p, n) == [i \in 1 .. n |-> CellAt(p + i - 1, 0)]

\* One field more: its value, the position behind it, and flen.
ReadOne(acc, t, sz, g) ==
  LET p == acc.at
      n == StringLen(p)
      number(value, w) == [vals |-> Append(acc.vals, value), at |-> Adv(p, w), len |-> acc.len + w]
  IN  CASE acc.len = FLEN_ERROR -> acc
        [] t = "U1" -> number(CellAt(p, 0), 1)
        [] t = "U2" -> number(Number(p, 2, g), 2)
        [] t \in {"U4", "F4"} -> number(Number(p, 4, g), 4)
        [] t = "VX" -> IF CellAt(p, 0) = 255 THEN number(CellAt(p + 1, 0), 4) ELSE number(CellAt(p, 0), 2)
        [] t = "S0" -> IF n = 0 THEN [vals |-> Append(acc.vals, <<>>), at |-> p + 2, len |-> acc.len + 2]
                       ELSE number(Chars(p, n), Even(n + 1))
        [] t = "room" -> IF acc.len <= sz - 2 THEN number(Number(p, 2, g), 2) ELSE acc
        [] t = "rest" -> IF sz <= acc.len THEN [acc EXCEPT !.len = FLEN_ERROR]
                         ELSE number(Chars(p, sz - acc.len), sz - acc.len)
\* (next is bound in a set because TLC evaluates it once then.)
RECURSIVE ReadRest(_, _, _, _)
ReadRest(acc, types, sz, g) ==
  IF types = <<>> THEN acc
  ELSE CHOOSE r \in {ReadRest(next, Tail(types), sz, g) : next \in {ReadOne(acc, Head(types), sz, g)}} : TRUE
ReadAll(types, p, sz, g) == ReadRest([vals |-> <<>>, at |-> p, len |-> 0], types, sz, g)

\* strcmp, and lwListInsert: in front of the first one that is greater.
Before(a, b) ==
  \E n \in 0 .. Len(a) :
    /\ n <= Len(b) /\ SubSeq(a, 1, n) = SubSeq(b, 1, n)
    /\ n < Len(b) /\ (n = Len(a) \/ a[n + 1] < b[n + 1])
PlaceIn(list, x) ==
  LET greater == {i \in DOMAIN list : Before(x.ord, list[i].ord)}
  IN  IF greater = {} THEN Len(list) + 1 ELSE CHOOSE i \in greater : \A j \in greater : i <= j
lwListInsert(node, name, x) ==
  [node EXCEPT !.lists = name :> InsertAt(ListOf(node, name), PlaceIn(ListOf(node, name), x), x) @@ @]
lwListAdd(node, name, x) ==
  [node EXCEPT !.lists = name :> Append(ListOf(node, name), x) @@ @]

------------------------------------------------------------------------------
(* The loops. *)

Top == Last(frames)
AtItem == lpc = "item"
Wide == Top.kind \in {"FORM", "FORM5"}
\* The header: an identifier, and a size of four bytes in FORM and of two below.
ItemId(g) == NameOf(Number(lpos, 4, g))
ItemSize(g) ==
  IF Wide THEN Even(Number(lpos + 4, 4, g)) ELSE Even(Number(lpos + 4, 2, g)) % 65536
ItemBody == Adv(lpos, IF Wide THEN 8 ELSE 6)

\* Four functions are called from a switch with a chunk, and read something first.
Opens(kind, id) ==
  \/ kind = "FORM" /\ id \in {"CLIP", "ENVL", "SURF"}
  \/ kind = "FORM5" /\ id = "SURF"
  \/ kind = "SURF" /\ id = "BLOK"
  \/ kind \in {"IMAP", "PROC", "GRAD"} /\ id = "TMAP"

WithSize(fs, sz) == [fs EXCEPT ![Len(fs)].sz = sz]

\* lwGetObject up to its loop: is this an LWO2 file?  For an LWOB file, lwGetObject5 opens
\* and reads it again.
OpenLwo(g) ==
  /\ lpc = "open"
  /\ flen' = 12
  /\ lpos' = Adv(0, 12)
  /\ IF CellAt(0, g) = Id("FORM") /\ CellAt(8, g) \in {Id("LWO2"), Id("LWOB")}
       THEN /\ lpc' = "item"
            /\ frames' = <<Frame(IF CellAt(8, g) = Id("LWO2") THEN "FORM" ELSE "FORM5",
                                8, CellAt(4, g), Empty)>>
       ELSE lpc' = "null" /\ UNCHANGED frames
  /\ UNCHANGED lwo
OpenLwoFails ==
  /\ lpc = "open" /\ lpc' = "null"
  /\ UNCHANGED <<lwo, lpos, flen, frames>>

\* The key that a SPAN is about is the one read last, wherever it was put in.
SpanOf(vals) ==
  CASE NameOf(vals[1]) = "TCB" -> SubSeq(vals, 1, 4)
    [] NameOf(vals[1]) \in {"BEZI", "HERM", "BEZ2"} -> vals
    [] OTHER -> <<vals[1]>>
WithSpan(node, vals) ==
  [node EXCEPT !.lists = "KEY" :> [node.lists["KEY"] EXCEPT ![node.cur].span = SpanOf(vals)] @@ @]
WithKey(node, vals) ==
  LET key == [ord |-> <<vals[1]>>, value |-> vals[2], span |-> <<>>]
  IN  [lwListInsert(node, "KEY", key) EXCEPT !.cur = PlaceIn(ListOf(node, "KEY"), key)]

\* What a switch does with the values.
Stored(kind, id, node, vals) ==
  CASE kind = "FORM" /\ id = "LAYR" -> lwListAdd(node, id, vals)
    [] kind = "FORM" /\ id = "BBOX" ->
         lwListAdd(node, id, [layer |-> Max({1, Len(ListOf(node, "LAYR"))}), box |-> vals])
    [] kind = "CLIP" /\ id \in {"IFLT", "PFLT"} -> lwListAdd(node, id, vals)
    [] kind = "ENVL" /\ id = "CHAN" -> lwListAdd(node, id, vals)
    [] kind = "ENVL" /\ id = "KEY" -> WithKey(node, vals)
    [] kind = "ENVL" /\ id = "SPAN" -> WithSpan(node, vals)
    [] OTHER -> [node EXCEPT !.fields = <<kind, id>> :> vals @@ @]

\* A subchunk that is read in the switch itself.
ReadItem(g) ==
  LET id == ItemId(g)  sz == ItemSize(g)  kind == Top.kind
      types == Fields(kind, id, sz)
      r == ReadAll(types, ItemBody, sz, g)
  IN
  /\ AtItem /\ kind # "SURF5" /\ ~Opens(kind, id)
  /\ ~(kind = "ENVL" /\ id = "SPAN" /\ Top.node.cur = 0)
  /\ lpos' = r.at /\ flen' = r.len
  /\ frames' = IF types = <<>> \/ r.len = FLEN_ERROR THEN WithSize(frames, sz)
               ELSE Append(Front(frames),
                      [Top EXCEPT !.sz = sz, !.node = Stored(kind, id, @, r.vals)])
  /\ lpc' = "after"
  /\ UNCHANGED lwo

------------------------------------------------------------------------------
(* lwGetSurface5: what has a subchunk of its own in LWO2 are the texts,     *)
(* flags and numbers of one surface here, and clips and envelopes are made *)
(* of them.  Cells stand for words: 900 to 904 for the five kinds of image *)
(* map, 910 for "(sequence)".                                              *)

ImageMaps == 900 .. 904
SEQUENCE == 910
UpToNul(s) == LET ends == {i \in DOMAIN s : s[i] = 0}
           IN  IF ends = {} THEN s ELSE SubSeq(s, 1, Min(ends) - 1)

\* add_clip.  *nclips++ counts nothing and then reads what is behind nclips: nsurfs.
add_clip(s, nsurfs) ==
  LET at == {i \in DOMAIN s : s[i] = SEQUENCE}
  IN  [fields |-> Opening :> <<nsurfs>> @@
         (IF at = {} THEN <<"SOURCE", "STIL">> :> <<s>>
          ELSE <<"SOURCE", "ISEQ">> :> <<SubSeq(s, 1, Min(at) - 2)>>),
       lists |-> <<>>]
\* add_tvel: in one second the texture moves thirty times its velocity.
add_tvel(pos, vel, nenvs) ==
  [i \in 1 .. 3 |->
    [fields |-> Opening :> <<nenvs + i>> @@ <<"ENVL", "TYPE">> :> <<i>>,
     lists |-> "KEY" :> <<[time |-> 0, value |-> pos[i]], [time |-> 1, value |-> pos[i] + 30 * vel[i]]>>]]
get_texture(s) ==
  LET maps == {i \in DOMAIN UpToNul(s) : UpToNul(s)[i] \in ImageMaps}
  IN  IF maps = {} THEN [type |-> "PROC", said |-> UpToNul(s), fields |-> <<>>]
      ELSE [type |-> "IMAP", said |-> <<UpToNul(s)[Min(maps)] - 900>>, fields |-> <<>>]

\* The bits of a number that are set, each with what it sets.
HasBit(n, b) == (n \div b) % 2 = 1
FlagsSet(n, table) == [f \in {t[2] : t \in {u \in table : HasBit(n, u[1])}} |->
                     (CHOOSE t \in table : t[2] = f)[3]]
SurfaceFlags == {<<4, "SMAN", <<89>>>>, <<8, "CLRH", <<1>>>>, <<16, "CLRF", <<1>>>>,
                 <<128, "SHRP", <<1, 2>>>>, <<256, "SIDE", <<3>>>>, <<512, "ADTR", <<1>>>>}
TextureFlags == {<<8, "CSYS", <<1>>>>, <<16, "NEGA", <<1>>>>, <<32, "PIXB", <<1>>>>, <<64, "AAST", <<1>>>>}
\* Without an axis, it is what a variable was left as.
AxisOf(n, g) == IF HasBit(n, 4) THEN 2 ELSE IF HasBit(n, 2) THEN 1 ELSE IF HasBit(n, 1) THEN 0 ELSE g

\* The fields of a surface, and of its last texture, that a subchunk sets.
SurfaceSets(id, vals, nsurfs) ==
  CASE id = "FLAG" -> FlagsSet(vals[1], SurfaceFlags)
    [] id \in {"LUMI", "DIFF", "SPEC", "REFL", "TRAN"} -> id :> <<vals[1], 256>>
    [] id = "VLUM" -> "LUMI" :> vals
    [] id = "VDIF" -> "DIFF" :> vals
    [] id = "VSPC" -> "SPEC" :> vals
    [] id = "RFLT" -> "RFOP" :> vals
    [] id = "RIMG" -> "RIMG" :> <<nsurfs>> @@ "RFOP" :> <<3>>
    [] id \in {"COLR", "GLOS", "SMAN", "RSAN", "RIND"} -> id :> vals
OfSurface5(sets) == [key \in {"SURF5"} \X DOMAIN sets |-> sets[key[2]]]
TextureSets(id, vals, nsurfs, nenvs, g) ==
  CASE id = "TFLG" -> "AXIS" :> <<AxisOf(vals[1], g)>> @@ FlagsSet(vals[1], TextureFlags)
    [] id = "TCLR" -> [v \in {"VAL0", "VAL1", "VAL2"} |->
                        <<vals[CASE v = "VAL0" -> 1 [] v = "VAL1" -> 2 [] v = "VAL2" -> 3], 255>>]
    [] id = "TVAL" -> "VAL0" :> <<vals[1], 256>>
    [] id = "TAAS" -> "AAST" :> vals
    [] id = "TIMG" -> id :> <<nsurfs>>
    [] id = "TVEL" -> id :> <<nenvs + 1>>
    [] OTHER -> id :> vals

\* The texture that was begun last; none is, while cur is 0.
Texture5 == IF Top.node.cur = 0 THEN [type |-> "none", said |-> <<>>, fields |-> <<>>]
            ELSE Last(ListOf(Top.node, "TEX"))
Center5 == IF "TCTR" \in DOMAIN Texture5.fields THEN Texture5.fields["TCTR"] ELSE <<0, 0, 0>>
Surfaces5 == Len(ListOf(frames[1].node, "SURF"))
Envelopes5 == Len(ListOf(frames[1].node, "ENVL"))
ChangeLast(node, list, x) ==
  [node EXCEPT !.lists = list :> Append(Front(ListOf(node, list)), x) @@ @]

\* All textures are kept in one list, each with the channel whose list it is put in.
Stored5(id, vals, g) ==
  LET node == Top.node IN
  CASE id \in TextureLists5 ->
         [lwListAdd(node, "TEX", [list |-> id] @@ get_texture(vals[1])) EXCEPT !.cur = 1]
    [] id = "SHDR" -> lwListAdd(node, id, <<vals[1]>>)
    [] id = "SDAT" -> ChangeLast(node, "SHDR", <<Last(ListOf(node, "SHDR"))[1], vals[1]>>)
    [] id \in OfTexture5 ->
         ChangeLast(node, "TEX",
           [Texture5 EXCEPT !.fields = TextureSets(id, vals, Surfaces5, Envelopes5, g) @@ @])
    [] OTHER -> [node EXCEPT !.fields = OfSurface5(SurfaceSets(id, vals, Surfaces5)) @@ @]
ObjectWith5(id, vals) ==
  LET object == frames[1].node IN
  CASE id \in {"RIMG", "TIMG"} -> lwListAdd(object, "CLIP", add_clip(vals[1], Surfaces5))
    [] id = "TVEL" -> [object EXCEPT !.lists =
         "ENVL" :> ListOf(object, "ENVL") \o add_tvel(Center5, vals, Envelopes5) @@ @]
    [] OTHER -> object

\* A subchunk of a texture or of a shader's data before there is one, a texture without
\* a text, and an image without a name or with "(sequence)" and no name in front of it.
Astray(id, r) ==
  \/ id \in OfTexture5 /\ Top.node.cur = 0
  \/ id = "SDAT" /\ ListOf(Top.node, "SHDR") = <<>>
  \/ id \in TextureLists5 /\ r.len = FLEN_ERROR
  \/ id \in {"RIMG", "TIMG"} /\ (r.vals[1] # <<>> => r.vals[1][1] = SEQUENCE)

Read5(g) ==
  LET sz == ItemSize(g) IN ReadAll(Surface5Fields(ItemId(g), Texture5.type), ItemBody, sz, g)
ReadItem5(g) ==
  LET id == ItemId(g)  sz == ItemSize(g)  r == Read5(g) IN
  /\ AtItem /\ Top.kind = "SURF5" /\ ~Astray(id, r)
  /\ lpos' = r.at /\ flen' = r.len
  /\ frames' = IF r.vals = <<>> \/ r.len = FLEN_ERROR THEN WithSize(frames, sz)
               ELSE <<[frames[1] EXCEPT !.node = ObjectWith5(id, r.vals)],
                      [Top EXCEPT !.sz = sz, !.node = Stored5(id, r.vals, g)]>>
  /\ lpc' = "after"
  /\ UNCHANGED lwo
FollowsNothing5(g) ==
  /\ AtItem /\ Top.kind = "SURF5" /\ Astray(ItemId(g), Read5(g))
  /\ lpc' = "crashed"
  /\ UNCHANGED <<lwo, lpos, flen, frames>>

------------------------------------------------------------------------------
\* A SPAN before any KEY follows a pointer that was never set.
SpanWithoutKey(g) ==
  /\ AtItem /\ Top.kind = "ENVL" /\ ItemId(g) = "SPAN" /\ Top.node.cur = 0
  /\ lpc' = "crashed"
  /\ UNCHANGED <<lwo, lpos, flen, frames>>

\* lwGetClip, lwGetEnvelope, lwGetSurface and lwGetSurface5 up to their loops.
ReadOpening(g) ==
  LET id == ItemId(g)  sz == ItemSize(g)
      r == ReadAll(CASE id = "CLIP" -> <<"U4">> [] id = "ENVL" -> <<"VX">>
                     [] id = "SURF" -> IF Top.kind = "FORM" THEN <<"S0", "S0">> ELSE <<"S0">>,
                   ItemBody, sz, g)
      node == [Empty EXCEPT !.fields = Opening :> r.vals]
  IN
  /\ AtItem /\ Wide /\ Opens(Top.kind, id)
  /\ lpos' = r.at /\ flen' = r.len
  /\ frames' = Append(WithSize(frames, sz),
                 Frame(CASE id = "CLIP" -> "SOURCE" [] Top.kind = "FORM5" -> "SURF5" [] OTHER -> id,
                       ItemBody, sz, node))
  /\ UNCHANGED <<lwo, lpc>>

\* lwGetTMap writes into the texture around it, and does not start flen anew.
ReadTMap(g) ==
  /\ AtItem /\ Top.kind \in {"IMAP", "PROC", "GRAD"} /\ ItemId(g) = "TMAP"
  /\ lpos' = ItemBody /\ flen' = 0
  /\ frames' = Append(WithSize(frames, ItemSize(g)), Frame("TMAP", ItemBody, ItemSize(g), Top.node))
  /\ UNCHANGED <<lwo, lpc>>

BlokType(g) == NameOf(Number(ItemBody, 4, g))
AtBlok(g) == AtItem /\ Top.kind = "SURF" /\ ItemId(g) = "BLOK"

\* lwGetTexture, and in it lwGetTHeader up to its loop.
ReadTexture(g) ==
  LET p == Adv(ItemBody, 4)  start == Adv(p, 2)
      r == ReadAll(<<"S0">>, start, 0, g)
      node == [Empty EXCEPT !.fields = Opening :> r.vals]
  IN
  /\ AtBlok(g) /\ BlokType(g) \in {"IMAP", "PROC", "GRAD"}
  /\ lpos' = r.at /\ flen' = r.len
  /\ frames' = Append(WithSize(frames, ItemSize(g)),
                 Frame("HEAD", start, Number(p, 2, g), [node EXCEPT !.cur = BlokType(g)]))
  /\ UNCHANGED <<lwo, lpc>>

\* The loop over a shader's header ends with ENAB, or when its size is used up by
\* sizes without their headers; then the header that it read last is lost.
RECURSIVE BehindHeader(_, _, _)
BehindHeader(hsz, p, g) ==
  LET sz == Even(Number(p + 4, 2, g)) % 65536
      q == Adv(p, 6)
  IN  CASE hsz <= 0 -> [at |-> q, flags |-> <<>>, ends |-> TRUE]
        [] hsz > 0 /\ Number(p, 4, g) = Id("ENAB") ->
             [at |-> Adv(q, 2), flags |-> <<Number(q, 2, g)>>, ends |-> TRUE]
        [] hsz > 0 /\ Number(p, 4, g) # Id("ENAB") /\ sz = 0 /\ p >= LwoSize ->
             [at |-> p, flags |-> <<>>, ends |-> FALSE]
        [] OTHER -> CHOOSE r \in {BehindHeader(hsz - n, m, g) : n \in {sz}, m \in {q + sz}} : TRUE

ReadShader(g) ==
  LET start == Adv(ItemBody, 4)
      r == ReadAll(<<"U2", "S0">>, start, 0, g)
      h == BehindHeader(r.vals[1], r.at, g)
  IN
  /\ AtBlok(g) /\ BlokType(g) = "SHDR"
  /\ IF h.ends
       THEN /\ lpos' = h.at /\ flen' = r.len + 14
            /\ frames' = Append(WithSize(frames, ItemSize(g)),
                 Frame("SHDR", start, ItemSize(g) - 4,
                       [Empty EXCEPT !.fields = Opening :> <<r.vals[2], h.flags>>]))
            /\ UNCHANGED lpc
       ELSE lpc' = "hangs" /\ UNCHANGED <<lpos, flen, frames>>
  /\ UNCHANGED lwo

ReadOtherBlok(g) ==
  /\ AtBlok(g) /\ BlokType(g) \notin {"IMAP", "PROC", "GRAD", "SHDR"}
  /\ lpos' = Adv(ItemBody, 4) /\ flen' = 4
  /\ frames' = WithSize(frames, ItemSize(g))
  /\ lpc' = "after"
  /\ UNCHANGED lwo

------------------------------------------------------------------------------
(* Behind a switch. *)

Fits == flen >= 0 /\ flen <= Top.sz
Skipped == lpos + Top.sz - flen
Used == Skipped - Top.start
\* Clips and envelopes insist on ending where they should.
Exact == Top.kind \in {"SOURCE", "CLIP", "ENVL"}
Ended == IF Exact THEN Used = Top.size ELSE Top.size <= Used
Sound == lpc = "after" /\ Fits /\ (Exact => Used <= Top.size)

\* Something was read wrongly: the whole object is given up.
Fail ==
  /\ lpc = "after" /\ (~Fits \/ (Exact /\ Top.size < Used))
  /\ lpc' = "null"
  /\ UNCHANGED <<lwo, lpos, flen, frames>>

NextItem ==
  /\ Sound /\ ~Ended
  /\ lpos' = Skipped /\ lpc' = "item"
  /\ frames' = [frames EXCEPT ![Len(frames)].kind = IF @ = "SOURCE" THEN "CLIP" ELSE @]
  /\ UNCHANGED <<lwo, flen>>

\* The function ends and hands what it made to the one around it, which goes on behind
\* its switch with flen as it is left.
Return(node, left) ==
  /\ lpos' = Skipped /\ flen' = left
  /\ frames' = LET around == Front(frames) IN [around EXCEPT ![Len(around)].node = node]
  /\ UNCHANGED <<lwo, lpc>>

Around == frames[Len(frames) - 1]

EndForm == /\ Sound /\ Ended /\ Wide
           /\ lpc' = "loaded" /\ lpos' = Skipped
           /\ UNCHANGED <<lwo, flen, frames>>

\* lwGetObject does not look at flen behind these.
ListFor(kind) == CASE kind = "SOURCE" -> "CLIP" [] kind = "SURF5" -> "SURF" [] OTHER -> kind
EndChunk == /\ Sound /\ Ended /\ Top.kind \in {"SOURCE", "CLIP", "ENVL", "SURF", "SURF5"}
            /\ Return(lwListAdd(Around.node, ListFor(Top.kind), Top.node), Around.sz)

\* Behind the header comes what is particular to the type of texture.
EndHeader == /\ Sound /\ Ended /\ Top.kind = "HEAD"
             /\ lpos' = Skipped /\ flen' = Used /\ lpc' = "item"
             /\ frames' = Append(Front(frames),
                  Frame(Top.node.cur, Skipped, (Around.sz - 4 - Top.size - 6) % 65536, Top.node))
             /\ UNCHANGED lwo

\* A slip: lwGetTMap leaves in flen what it read last.
EndTMapOfLast == Sound /\ Ended /\ Top.kind = "TMAP" /\ Return(Top.node, flen)
EndTMap == Sound /\ Ended /\ Top.kind = "TMAP" /\ Return(Top.node, Used)

\* add_texture: a texture without a channel is freed.
ChannelOf(node) ==
  LET chan == IF <<"HEAD", "CHAN">> \in DOMAIN node.fields THEN NameOf(node.fields[<<"HEAD", "CHAN">>][1])
              ELSE "NOTE"
  IN  IF chan \in Channels THEN chan ELSE "none"
Listed(node, what) == [ord |-> node.fields[Opening][what], type |-> node.cur, fields |-> node.fields]

\* Without an ordinal, a texture can only be alone in its list.
Comparable(list, x) == list = <<>> \/ (x.ord # <<>> /\ \A i \in DOMAIN list : list[i].ord # <<>>)

EndTexture ==
  LET x == Listed(Top.node, 1)  chan == ChannelOf(Top.node) IN
  /\ Sound /\ Ended /\ Top.kind \in {"IMAP", "PROC", "GRAD"}
  /\ chan # "none" => Comparable(ListOf(Around.node, chan), x)
  /\ Return(IF chan = "none" THEN Around.node ELSE lwListInsert(Around.node, chan, x), Around.sz)

EndShader ==
  LET x == Listed(Top.node, 1) IN
  /\ Sound /\ Ended /\ Top.kind = "SHDR" /\ Comparable(ListOf(Around.node, "SHDR"), x)
  /\ Return(lwListInsert(Around.node, "SHDR", x), 4 + Used)

\* strcmp of a null pointer.
Incomparable ==
  LET x == Listed(Top.node, 1)
      list == IF Top.kind = "SHDR" THEN "SHDR" ELSE ChannelOf(Top.node)
  IN
  /\ Sound /\ Ended /\ Top.kind \in {"IMAP", "PROC", "GRAD", "SHDR"}
  /\ list # "none" /\ ~Comparable(ListOf(Around.node, list), x)
  /\ lpc' = "crashed"
  /\ UNCHANGED <<lwo, lpos, flen, frames>>

LwoStep(g) ==
  \/ OpenLwo(g) \/ ReadItem(g) \/ ReadItem5(g) \/ FollowsNothing5(g) \/ SpanWithoutKey(g) \/ ReadOpening(g) \/ ReadTMap(g)
  \/ ReadTexture(g) \/ ReadShader(g) \/ ReadOtherBlok(g)
LwoReads ==
  \/ \E g \in LwoGarbage : LwoStep(g)
  \/ Fail \/ NextItem \/ EndForm \/ EndChunk \/ EndHeader \/ EndTMap
  \/ EndTexture \/ EndShader \/ Incomparable
LwoNext == OpenLwoFails \/ LwoReads
==============================================================================
