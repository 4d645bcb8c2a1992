------------------------------ MODULE LwoMeaning ------------------------------
(***************************************************************************)
(* What an LWO2 file says, taken from its tree of chunks: the last value   *)
(* of every subchunk that is known, and lists that are in the order of the *)
(* file or in that of ordinals and times.                                  *)
(*                                                                         *)
(* A chunk is [tag, data, kids], where data is a sequence of items         *)
(* [t |-> a type of LwoFile, or "VX4", or "bytes", v |-> the value].  The  *)
(* first kid of a BLOK is its header, whose tag is the type of the BLOK.   *)
(***************************************************************************)
EXTENDS LwoReader

\* The cells of an item and of a chunk.  Sizes have two bytes below FORM; bodies are
\* padded to an even length.
CellsOf(item) ==
  CASE item.t = "U1" -> <<item.v>>
    [] item.t = "U2" -> <<item.v, 0>>
    [] item.t \in {"U4", "F4"} -> <<item.v, 0, 0, 0>>
    [] item.t = "VX" -> <<item.v, 0>>
    [] item.t = "VX4" -> <<255, item.v, 0, 0>>
    [] item.t = "S0" -> item.v \o [n \in 1 .. 2 - (Len(item.v) % 2) |-> 0]
    [] item.t = "bytes" -> item.v
Body(data) == FlattenSeq([n \in DOMAIN data |-> CellsOf(data[n])])
RECURSIVE EncodeLwo(_, _)
EncodeLwo(c, kind) ==
  LET body == Body(c.data) \o FlattenSeq([k \in DOMAIN c.kids |-> EncodeLwo(c.kids[k], c.tag)])
      sizeCells == IF kind = "FORM" \/ c.tag = "FORM" THEN <<Len(body), 0, 0, 0>> ELSE <<Len(body), 0>>
  IN  <<Id(c.tag), 0, 0, 0>> \o sizeCells \o body
        \o (IF Len(body) % 2 = 1 THEN <<0>> ELSE <<>>)
SizeOf(c, kind) == Len(EncodeLwo(c, kind)) - (IF kind = "FORM" THEN 8 ELSE 6)

------------------------------------------------------------------------------
\* Those fields of a chunk that its reader knows.
KnownFields(kind, c) == Fields(kind, c.tag, SizeOf(c, kind))
Values(kind, c) ==
  [n \in 1 .. Min({Len(KnownFields(kind, c)), Len(c.data)}) |-> c.data[n].v]
IsKnown(kind, c) == KnownFields(kind, c) # <<>>

\* The last one of every kind counts.
LastOnes(kind, kids) ==
  LET tags == {kids[k].tag : k \in {n \in DOMAIN kids : IsKnown(kind, kids[n])}}
  IN  [key \in {kind} \X tags |->
        Values(kind, kids[CHOOSE k \in DOMAIN kids :
          /\ kids[k].tag = key[2]
          /\ \A n \in DOMAIN kids : kids[n].tag = key[2] => n <= k])]
Without(tags, kids) == SelectSeq(kids, LAMBDA k : k.tag \notin tags)
Only(tags, kids) == SelectSeq(kids, LAMBDA k : k.tag \in tags)

\* In the order of ord; what has the same stays in the order of the file.
InOrder(list) ==
  LET placed == [n \in DOMAIN list |-> [x |-> list[n], n |-> n]]
      less(a, b) == Before(a.x.ord, b.x.ord) \/ (a.x.ord = b.x.ord /\ a.n < b.n)
      sorted == SortSeq(placed, less)
  IN  [n \in DOMAIN list |-> sorted[n].x]
NonEmpty(lists) == [name \in {n \in DOMAIN lists : lists[n] # <<>>} |-> lists[name]]

ClipMeant(c) ==
  LET rest == Tail(c.kids) IN
  [fields |-> Opening :> <<c.data[1].v>>
                @@ LastOnes("SOURCE", <<c.kids[1]>>)
                @@ LastOnes("CLIP", Without({"IFLT", "PFLT"}, rest)),
   lists |-> NonEmpty([t \in {"IFLT", "PFLT"} |->
               LET l == Only({t}, rest) IN [n \in DOMAIN l |-> Values("CLIP", l[n])]])]

\* A SPAN says how to come to the key in front of it.
KeysMeant(kids) ==
  LET l == Only({"KEY", "SPAN"}, kids)
      at == SelectSeq([n \in DOMAIN l |-> n], LAMBDA n : l[n].tag = "KEY")
      span(n) == IF n < Len(l) /\ l[n + 1].tag = "SPAN" THEN Values("ENVL", l[n + 1]) ELSE <<>>
  IN  InOrder([k \in DOMAIN at |->
        [ord |-> <<l[at[k]].data[1].v>>, value |-> l[at[k]].data[2].v, span |-> span(at[k])]])
EnvelopeMeant(c) ==
  LET filters == Only({"CHAN"}, c.kids) IN
  [fields |-> Opening :> <<c.data[1].v>> @@ LastOnes("ENVL", Without({"KEY", "SPAN", "CHAN"}, c.kids)),
   lists |-> NonEmpty("KEY" :> KeysMeant(c.kids)
               @@ "CHAN" :> [n \in DOMAIN filters |-> Values("ENVL", filters[n])])]

\* A texture is its header, its mapping and what is particular to its type.
TextureMeant(b) ==
  LET h == b.kids[1]  rest == Tail(b.kids)
      maps == Only({"TMAP"}, rest)
  IN  [ord |-> h.data[1].v, type |-> h.tag,
       fields |-> Opening :> <<h.data[1].v>> @@ LastOnes("HEAD", h.kids) @@ LastOnes(h.tag, rest)
                    @@ LastOnes("TMAP", FlattenSeq([n \in DOMAIN maps |-> maps[n].kids]))]
ShaderMeant(b) ==
  LET h == b.kids[1] IN
  [ord |-> h.data[1].v, type |-> 0,
   fields |-> Opening :> <<h.data[1].v, <<Last(Only({"ENAB"}, h.kids)).data[1].v>> >>
                @@ LastOnes("SHDR", Tail(b.kids))]
SurfaceMeant(c) ==
  LET bloks == Only({"BLOK"}, c.kids)
      shaders == SelectSeq(bloks, LAMBDA b : b.kids[1].tag = "SHDR")
      textures(chan) ==
        LET l == SelectSeq(bloks, LAMBDA b :
                   b.kids[1].tag \in {"IMAP", "PROC", "GRAD"} /\ ChannelOf(TextureMeant(b)) = chan)
        IN  InOrder([n \in DOMAIN l |-> TextureMeant(l[n])])
  IN  [fields |-> Opening :> <<c.data[1].v, c.data[2].v>> @@ LastOnes("SURF", Without({"BLOK"}, c.kids)),
       lists |-> NonEmpty([chan \in Channels |-> textures(chan)]
                   @@ "SHDR" :> InOrder([n \in DOMAIN shaders |-> ShaderMeant(shaders[n])]))]

------------------------------------------------------------------------------
\* In an LWOB file a surface says what later files have clips and envelopes for.  Every
\* value is from the last subchunk that sets it; a texture ends where the next begins.
LastSets(kids, Sets(_)) ==
  LET made == [k \in DOMAIN kids |-> Sets(kids[k])]
      names == UNION {DOMAIN made[k] : k \in DOMAIN kids}
  IN  [n \in names |-> made[CHOOSE k \in DOMAIN kids :
        n \in DOMAIN made[k] /\ \A j \in DOMAIN kids : n \in DOMAIN made[j] => j <= k][n]]
Data5(k, type) ==
  [n \in 1 .. Min({Len(k.data), Len(Surface5Fields(k.tag, type))}) |-> k.data[n].v]
NumberOf(tags, kids) == Len(Only(tags, kids))
Texts5 == {"RIMG", "TIMG"}

\* Where the textures of a surface begin, and the subchunks up to the next.
Begins(kids) == SelectSeq([k \in DOMAIN kids |-> k], LAMBDA k : kids[k].tag \in TextureLists5)
Part5(kids, t) ==
  Only(OfTexture5, SubSeq(kids, Begins(kids)[t] + 1,
                          IF t = Len(Begins(kids)) THEN Len(kids) ELSE Begins(kids)[t + 1] - 1))
\* What the reader makes of a text is not said again here.
Texture5Meant(kids, t, nsurfs, nenvs) ==
  LET begun == kids[Begins(kids)[t]]
      tex == get_texture(begun.data[1].v)
      before == SubSeq(kids, 1, Begins(kids)[t])
      part == Part5(kids, t)
      velocities == Only({"TVEL"}, before \o part)
      sets(k) == IF Surface5Fields(k.tag, tex.type) = <<>> THEN <<>>
                 ELSE TextureSets(k.tag, Data5(k, tex.type), nsurfs, nenvs + 3 * (Len(velocities) - 1), 0)
  IN  [list |-> begun.tag] @@ [tex EXCEPT !.fields = LastSets(part, sets)]
Shaders5Meant(kids) ==
  LET l == Only({"SHDR", "SDAT"}, kids)
      at == SelectSeq([n \in DOMAIN l |-> n], LAMBDA n : l[n].tag = "SHDR")
  IN  [k \in DOMAIN at |->
        IF at[k] < Len(l) /\ l[at[k] + 1].tag = "SDAT" THEN <<l[at[k]].data[1].v, l[at[k] + 1].data[1].v>>
        ELSE <<l[at[k]].data[1].v>>]
Surface5Meant(c, nsurfs, nenvs) ==
  LET sets(k) == IF Surface5Fields(k.tag, "none") = <<>> \/ k.tag \in OfTexture5 \cup TextureLists5 \cup {"SHDR", "SDAT"}
                 THEN <<>> ELSE SurfaceSets(k.tag, Data5(k, "none"), nsurfs)
  IN  [fields |-> Opening :> <<c.data[1].v>> @@ OfSurface5(LastSets(c.kids, sets)),
       lists |-> NonEmpty("SHDR" :> Shaders5Meant(c.kids)
         @@ "TEX" :> [t \in DOMAIN Begins(c.kids) |-> Texture5Meant(c.kids, t, nsurfs, nenvs)])]

\* A velocity is that of the center as it has been given in front of it.
Envelopes5Meant(kids) ==
  LET starts == SelectSeq([k \in DOMAIN kids |-> k], LAMBDA k : kids[k].tag = "TVEL")
      begin(k) == Max({b \in ToSet(Begins(kids)) : b < k})
      center(k) == LET c == Only({"TCTR"}, SubSeq(kids, begin(k), k))
                   IN  IF c = <<>> THEN <<0, 0, 0>> ELSE Data5(Last(c), "none")
  IN  [n \in DOMAIN starts |-> <<center(starts[n]), Data5(kids[starts[n]], "none")>>]
Object5Meant(tree) ==
  LET s == Only({"SURF"}, tree.kids)
      before(n) == FlattenSeq([m \in 1 .. n - 1 |-> s[m].kids])
      clips(n) == LET l == Only(Texts5, s[n].kids)
                  IN  [k \in DOMAIN l |-> add_clip(l[k].data[1].v, n - 1)]
      moves == FlattenSeq([n \in DOMAIN s |-> Envelopes5Meant(s[n].kids)])
  IN  [CLIP |-> FlattenSeq([n \in DOMAIN s |-> clips(n)]),
       ENVL |-> FlattenSeq([k \in DOMAIN moves |-> add_tvel(moves[k][1], moves[k][2], 3 * (k - 1))]),
       SURF |-> [n \in DOMAIN s |-> Surface5Meant(s[n], n - 1, 3 * NumberOf({"TVEL"}, before(n)))],
       LAYR |-> <<>>]

ObjectMeant(tree) ==
  LET all(tag) == Only({tag}, tree.kids) IN
  [CLIP |-> [n \in DOMAIN all("CLIP") |-> ClipMeant(all("CLIP")[n])],
   ENVL |-> [n \in DOMAIN all("ENVL") |-> EnvelopeMeant(all("ENVL")[n])],
   SURF |-> [n \in DOMAIN all("SURF") |-> SurfaceMeant(all("SURF")[n])],
   LAYR |-> [n \in DOMAIN all("LAYR") |-> Values("FORM", all("LAYR")[n])]]

------------------------------------------------------------------------------
\* What has been made, without what only the reader needs.
Made(node) == [fields |-> node.fields, lists |-> node.lists]
ObjectMade ==
  LET list(name) == ListOf(frames[1].node, name)
  IN  [CLIP |-> [n \in DOMAIN list("CLIP") |-> Made(list("CLIP")[n])],
       ENVL |-> [n \in DOMAIN list("ENVL") |-> Made(list("ENVL")[n])],
       SURF |-> [n \in DOMAIN list("SURF") |-> Made(list("SURF")[n])],
       LAYR |-> list("LAYR")]

\* getbytes of nothing is refused, and so is a file with a plug-in that has no data.
RECURSIVE NoData(_)
NoData(c) ==
  \/ c.data # <<>> /\ Last(c.data).t = "bytes" /\ Last(c.data).v = <<>>
  \/ \E k \in DOMAIN c.kids : NoData(c.kids[k])

\* The object is what the chunks of the file say, down to the fields of textures,
\* whatever unknown chunks and longer versions of known ones lie between them; and such
\* a file is only given up if a plug-in in it has no data at all (all loops of lwGetObject agree with the file and with each
\* other on what has been read, although they count in one static flen).
LwoAsWritten ==
  lwo.whole =>
    /\ lpc \notin {"crashed", "hangs"}
    /\ lpc = "null" => lpos = 0 \/ NoData(lwo.tree)
    /\ lpc = "loaded" =>
         /\ ~NoData(lwo.tree)
         /\ ObjectMade = IF Top.kind = "FORM5" THEN Object5Meant(lwo.tree) ELSE ObjectMeant(lwo.tree)
==============================================================================
