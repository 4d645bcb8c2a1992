--------------------------- MODULE MCResourceFiles ---------------------------
EXTENDS ResourceFiles

------------------------------------------------------------------------------
(* .b3d files *)

Zeros(n) == [k \in 1 .. n |-> 0]
Leaf(tag, data) == [tag |-> tag, data |-> data, kids |-> <<>>]
Node(name, kids) == [tag |-> NODE, data |-> <<name>> \o Zeros(10), kids |-> kids]

Vrts(which, sets, setSize, n) ==
  Leaf(VRTS, <<which, sets, setSize>> \o Zeros(n * VertexWords(which, sets, setSize)))
Mesh(vrts) ==
  [tag |-> MESH, data |-> <<0>>,
   kids |-> <<vrts, Leaf(TRIS, <<7, 0, 1, 2>>), Leaf(TRIS, <<7, 2, 1, 0, 0, 2, 1>>)>>]
Keys(which, times) ==
  Leaf(KEYS, <<which>> \o
    FlattenSeq([k \in DOMAIN times |-> <<times[k]>> \o Zeros(KeyWords(which) - 1)]))
Bone == Leaf(BONE, <<0, 9, 2, 9>>)
Anim(n) == Leaf(ANIM, <<0, n, 9>>)
Texs == Leaf(TEXS, Zeros(16))
Brus == Leaf(BRUS, <<1>> \o Zeros(9))
Unknown(n) == Leaf(2000, Zeros(n))

Parts ==
  {Mesh(Vrts(1, 1, 2, 3)), Mesh(Vrts(2, 0, 0, 3)), Mesh(Vrts(0, 1, 3, 3)),
   Mesh(Vrts(0, 3, 2, 3)), Bone, Keys(3, <<1, 5>>), Keys(6, <<2>>), Anim(6),
   Node(12, <<Bone, Keys(4, <<3, 4>>), Node(13, <<Keys(2, <<8>>)>>)>>),
   Unknown(2), Unknown(3)}
\* Those that come in threes, each once.
InThrees == Parts \ {Mesh(Vrts(2, 0, 0, 3)), Mesh(Vrts(0, 1, 3, 3)), Unknown(2)}
TreesB3D ==
  {[tag |-> BB3D, data |-> <<1>>, kids |-> <<Texs, Brus, Node(11, kids)>>] :
     kids \in UNION {[1 .. n -> Parts] : n \in 0 .. 2}
              \cup {k \in [1 .. 3 -> InThrees] : IsInjective(k)}}
WholeB3D == {[tree |-> t, words |-> Encode(t), whole |-> TRUE] : t \in TreesB3D}

SampleB3D ==
  [tag |-> BB3D, data |-> <<1>>,
   kids |-> <<Texs, Brus,
     Node(11, <<Mesh(Vrts(3, 2, 2, 3)), Anim(6),
                Node(12, <<Bone, Keys(5, <<1, 2>>), Node(13, <<Bone>>)>>),
                Node(14, <<Keys(7, <<1>>), Unknown(4)>>)>>)>>]
BrokenB3D ==
  {[tree |-> SampleB3D, words |-> SubSeq(Encode(SampleB3D), 1, n),
    whole |-> n = Len(Encode(SampleB3D))] : n \in 3 .. Len(Encode(SampleB3D))}

MCB3DFiles == WholeB3D \cup BrokenB3D

------------------------------------------------------------------------------
(* .3ds files *)

Branch(tag, data, kids) == [tag |-> tag, data |-> data, kids |-> kids]
Vertices3(n, base) == Leaf(VERTEX_DATA_3DS, <<n>> \o FlattenSeq([i \in 1 .. n |-> <<base + i, 0, 0, 0, 0, 0>>]))
TexMap3(n, base) == Leaf(TEXMAP_DATA_3DS, <<n>> \o FlattenSeq([i \in 1 .. n |-> <<base + i, 0, 0, 0>>]))
Faces3(a, kids) == Branch(INDEX_DATA_3DS, <<Len(a)>> \o FlattenSeq([i \in DOMAIN a |-> <<a[i], 1, 2, 7>>]), kids)
Smooth == Leaf(16720, <<0, 0>>)
Unknown3 == Branch(45055, <<1>>, <<Leaf(40960, <<3>>), Leaf(VERTEX_DATA_3DS + 1, <<>>)>>)
Object3(kids) == Branch(OBJNAME_3DS, <<65, 66, 0>>, <<Branch(MESH_DATA_3DS, <<>>, kids)>>)
Parts3(b) == {Vertices3(3, b), TexMap3(3, b + 10), Faces3(<<0, 2>>, <<Smooth>>), Faces3(<<1>>, <<>>), Unknown3}
Objects3(b) == {Object3(k) : k \in UNION {{f \in [1 .. n -> Parts3(b)] : \A i, j \in 1 .. n : f[i] = f[j] => i = j} : n \in 0 .. 3}}
Odd3 == {Object3(<<Vertices3(2, 50), TexMap3(2, 60)>>), Object3(<<Vertices3(4, 50)>>), Object3(<<TexMap3(4, 50)>>)}
Trees3 == {Branch(MAINCHUNK_3DS, <<>>, <<Leaf(2, <<3, 0>>), Branch(MASHDATA_3DS, <<>>, <<Unknown3, o, p>>)>>) :
  o \in Objects3(100), p \in {Object3(<<Vertices3(3, 200), Faces3(<<2>>, <<>>)>>), Object3(<<Faces3(<<1,0>>, <<>>), TexMap3(3, 300)>>), Object3(<<>>)} \cup Odd3}
Sample3 == CHOOSE t \in Trees3 : Len(Encode3DS(t)) > 100
Whole3 == {[tree |-> t, units |-> Encode3DS(t), whole |-> TRUE] : t \in Trees3}
Broken3 == {[tree |-> Sample3, units |-> SubSeq(Encode3DS(Sample3), 1, n), whole |-> FALSE] : n \in 1..Len(Encode3DS(Sample3))}
MC3DSFiles == Whole3 \cup Broken3

------------------------------------------------------------------------------
(* .lwo files: clips, envelopes and surfaces *)

U1(v) == [t |-> "U1", v |-> v]
U2(v) == [t |-> "U2", v |-> v]
U4(v) == [t |-> "U4", v |-> v]
F4(v) == [t |-> "F4", v |-> v]
VX(v) == [t |-> "VX", v |-> v]
VX4(v) == [t |-> "VX4", v |-> v]
S0(v) == [t |-> "S0", v |-> v]
Bytes(v) == [t |-> "bytes", v |-> v]
Item(tag, data, kids) == [tag |-> tag, data |-> data, kids |-> kids]
Sub(tag, data) == Item(tag, data, <<>>)
Note(n) == Sub("NOTE", <<Bytes([i \in 1 .. n |-> 9])>>)
UpTo2(S) == UNION {{f \in [1 .. n -> S] : \A i, j \in 1 .. n : f[i] = f[j] => i = j} : n \in 1 .. 2}
UpTo3(S) == UNION {{f \in [1 .. n -> S] : \A i, j \in 1 .. n : f[i] = f[j] => i = j} : n \in 1 .. 3}

LayerItem(n, name, parent) ==
  Sub("LAYR", <<U2(n), U2(0), F4(1), F4(2), F4(3), S0(name)>> \o parent)
BoxItem == Sub("BBOX", [i \in 1 .. 6 |-> F4(i)])

Source == {Sub("STIL", <<S0(<<65, 66>>)>>),
           Sub("ISEQ", <<U1(1), U1(0), U2(2), U2(3), U2(4), S0(<<65>>), S0(<<>>)>>),
           Sub("ANIM", <<S0(<<65>>), S0(<<66, 67>>), Bytes(<<5, 6>>)>>),
           Sub("XREF", <<U4(3), S0(<<65>>)>>),
           Sub("STCC", <<U2(3), U2(4), S0(<<65>>)>>), Note(3)}
ClipParts == {Sub("TIME", <<F4(1), F4(2), F4(3)>>), Sub("CONT", <<F4(4), VX4(5)>>), Sub("CONT", <<F4(6), VX(7)>>),
  Sub("NEGA", <<U2(1)>>), Sub("IFLT", <<S0(<<65>>), U2(1), Bytes(<<8, 9>>)>>), Sub("PFLT", <<S0(<<66>>), U2(2), Bytes(<<>>)>>), Note(1)}
Clips == {Item("CLIP", <<U4(1)>>, <<s>> \o f) : s \in Source, f \in UpTo2(ClipParts) \cup {<<>>}}

EnvParts == {Sub("TYPE", <<U2(1)>>), Sub("NAME", <<S0(<<65>>)>>), Sub("PRE", <<U2(2), U2(9)>>), 
  Sub("CHAN", <<S0(<<66>>), U2(1), Bytes(<<4, 4>>)>>), Note(1)}
KeyItem(t, v) == Sub("KEY", <<F4(t), F4(v)>>)
Span(shape, n) == Sub("SPAN", <<U4(Id(shape))>> \o [i \in 1 .. n |-> F4(10 + i)])
KeyParts == {<<KeyItem(2, 1)>>, <<KeyItem(1, 2), Span("TCB", 3)>>, <<KeyItem(1, 3), Span("BEZ2", 4)>>, <<KeyItem(3, 4), Span("HERM", 2)>>}
Envelopes == {Item("ENVL", <<VX(1)>>, <<e>> \o FlattenSeq(k)) : e \in EnvParts, k \in UpTo3(KeyParts)}

TMap == Item("TMAP", <<>>, <<Sub("SIZE", <<F4(1), F4(2), F4(3), VX(4)>>), Note(1), Sub("CSYS", <<U2(1)>>)>>)
TMap2 == Item("TMAP", <<>>, <<Sub("CSYS", <<U2(2), U2(3)>>)>>)
TexHead(tag, ord, kids) == Item(tag, <<S0(ord)>>, kids)
Chan(id) == Sub("CHAN", <<U4(Id(id))>>)
Enab == Sub("ENAB", <<U2(1)>>)
Image(ord, chan, kids) == Item("BLOK", <<>>, <<TexHead("IMAP", ord, <<chan, Enab>>)>> \o kids)
Images == {Image(<<o>>, Chan(c), k) : o \in {66, 67}, c \in {"COLR", "RFOP"},
   k \in {<<TMap, Sub("IMAG", <<VX(5)>>)>>, <<Sub("WRAP", <<U2(1), U2(2)>>), TMap2, TMap>>, <<Sub("VMAP", <<S0(<<65>>)>>)>>}}
Procedurals == {Item("BLOK", <<>>, <<TexHead("PROC", <<66>>, <<Enab, Chan("COLR")>>), TMap, Sub("VALU", [i \in 1 .. n |-> F4(i)]),
      Sub("FUNC", <<S0(<<65>>), Bytes(<<1, 2>>)>>)>>) : n \in {1, 3}}
Gradients == {Item("BLOK", <<>>, <<TexHead("GRAD", <<67, 66>>, <<Chan("DIFF"), Note(2)>>), TMap2, Sub("PNAM", <<S0(<<>>)>>), 
      Sub("GRST", <<F4(1)>>), Sub("FKEY", [i \in 1 .. 10 |-> F4(i)]), Sub("IKEY", <<U2(1), U2(2)>>)>>)}
Shaders == {Item("BLOK", <<>>, <<TexHead("SHDR", <<o>>, <<Enab, Note(2)>>), Sub("FUNC", <<S0(<<65>>), Bytes(<<1, 2>>)>>)>>) : o \in {66, 67}}
Bloks == Images \cup Procedurals \cup Gradients \cup Shaders
Paired == Procedurals \cup Gradients \cup Shaders
  \cup {i \in Images : i.kids[1].kids[1] = Chan("COLR")}
SurfaceItem(kids) == Item("SURF", <<S0(<<65>>), S0(<<>>)>>, kids)
SurfParts == {Sub("COLR", <<F4(1), F4(2), F4(3), VX(4)>>), Sub("LINE", <<U2(1)>>), Sub("LINE", <<U2(1), F4(2), VX(1)>>), Sub("SMAN", <<F4(1)>>), 
  Sub("SIDE", <<U2(1), U2(3)>>), Note(3)}
SurfaceItems ==
  {SurfaceItem(<<p, b>>) : p \in SurfParts, b \in Bloks}
    \cup {SurfaceItem(b) : b \in {f \in [1 .. 2 -> Paired] : f[1] # f[2]}}

Form(kids) == Item("FORM", <<U4(Id("LWO2"))>>, kids)
\* every kid of FORM
TreesLwo == {Form(<<LayerItem(1, <<65>>, <<>>), c>>) : c \in Clips}
  \cup {Form(<<LayerItem(1, <<65>>, <<>>), c, BoxItem>>) : c \in Envelopes}
  \cup {Form(<<c, LayerItem(2, <<>>, <<U2(1)>>)>>) : c \in SurfaceItems}
\* The older form.
Form5(kids) == Item("FORM", <<U4(Id("LWOB"))>>, kids)
Surf5(name, kids) == Item("SURF", <<S0(name)>>, kids)
C3(t) == Sub(t, <<F4(1), F4(2), F4(3)>>)
Picture(tag, n) == Sub(tag, <<Bytes(<<n, 0>>)>>)
Solid(tag) == Sub(tag, <<Bytes(<<65, 0>>)>>)
Own5 == {Sub("FLAG", <<U2(4 + 128)>>), Sub("FLAG", <<U2(8 + 16 + 256 + 512)>>), Sub("SMAN", <<F4(3)>>), Sub("LUMI", <<U2(4)>>),
  Sub("VLUM", <<F4(5)>>), Sub("VDIF", <<F4(5), F4(6)>>), Sub("SPEC", <<U2(5)>>), Sub("VSPC", <<F4(7)>>), Sub("RFLT", <<U2(1)>>), Sub("RIMG", <<S0(<<65>>)>>), Sub("COLR", <<U1(1), U1(2), U1(3), U1(4)>>),
  Sub("GLOS", <<U2(9)>>), Note(3)}
Of5 == {Sub("TFLG", <<U2(4 + 8 + 16)>>), Sub("TFLG", <<U2(1 + 32 + 64)>>), C3("TSIZ"), C3("TCTR"), C3("TVEL"), Sub("TIMG", <<S0(<<65, 66, 910>>)>>),
  Sub("TCLR", <<U1(1), U1(2), U1(3), Bytes(<<0>>)>>), Sub("TVAL", <<U2(4)>>), Sub("TAMP", <<F4(1)>>), Sub("TAAS", <<F4(2)>>), Sub("TREF", <<Bytes(<<65, 0>>)>>)}
Begun5 == {Picture("CTEX", 901), Solid("CTEX"), Picture("BTEX", 904), Solid("TTEX")}
Plug5 == <<Sub("SHDR", <<Bytes(<<65, 0>>)>>), Sub("SDAT", <<Bytes(<<7, 8>>)>>), Sub("SHDR", <<Bytes(<<66, 0>>)>>)>>
OneSurf5 == {<<Surf5(<<65>>, f)>> : f \in UpTo2(Own5 \ {Note(3), Sub("COLR", <<U1(1), U1(2), U1(3), U1(4)>>)})}
  \cup {<<Surf5(<<65>>, <<b>> \o f)>> : b \in {Picture("CTEX", 901), Solid("TTEX")}, f \in UpTo2(Of5)}
  \cup {<<Surf5(<<65>>, <<b, a, c, d>>)>> : b, c \in Begun5, a, d \in {C3("TCTR"), C3("TVEL")}}
TwoSurf5 == {<<Surf5(<<65>>, Plug5 \o <<C3("RFLT"), a>>), Note(4), Surf5(<<66, 67>>, <<b, C3("TVEL"), c, Sub("RIMG", <<S0(<<66>>)>>)>>)>> :
  a \in {Sub("RIMG", <<S0(<<65>>)>>), Sub("COLR", <<U1(1), U1(2), U1(3), U1(4)>>)}, b \in {Picture("BTEX", 904), Solid("CTEX")}, c \in Of5}
TreesLwo5 == {Form5(s) : s \in OneSurf5 \cup TwoSurf5}
FileLwo(t) == [tree |-> t, cells |-> EncodeLwo(t, "FORM"), whole |-> TRUE]
\* Files that are not as they should be: broken off, or with what the reader does not expect.
SampleLwo ==
  Form(<<Item("CLIP", <<U4(1)>>, <<Sub("STIL", <<S0(<<65>>)>>), Sub("NEGA", <<U2(1)>>)>>),
         Item("ENVL", <<VX(1)>>, <<KeyItem(1, 2), Span("TCB", 3)>>),
         SurfaceItem(<<Sub("SMAN", <<F4(1)>>),
                   Item("BLOK", <<>>, <<TexHead("SHDR", <<66>>, <<Enab>>), Sub("FUNC", <<S0(<<65>>), Bytes(<<1, 2>>)>>)>>),
                   Image(<<66>>, Chan("COLR"), <<TMap2, Sub("IMAG", <<VX(5)>>)>>)>>)>>)
OddLwo ==
  {Form(<<Item("ENVL", <<VX(1)>>, <<Span("TCB", 3), KeyItem(1, 2)>>)>>),
   Form(<<Item("ENVL", <<VX(1)>>, <<Sub("TYPE", <<>>)>>)>>),
   Form(<<Item("CLIP", <<U4(1)>>, <<Sub("STIL", <<S0(<<65>>)>>), Sub("IFLT", <<S0(<<65>>)>>)>>)>>),
   Form(<<Item("SURF", <<S0(<<>>), S0(<<>>)>>, <<Sub("COLR", <<F4(1)>>)>>)>>),
   Form(<<SurfaceItem(<<Image(<<>>, Chan("COLR"), <<TMap>>), Image(<<66>>, Chan("COLR"), <<TMap>>)>>)>>),
   Form(<<SurfaceItem(<<Item("BLOK", <<>>, <<TexHead("SHDR", <<66>>, <<Note(2)>>), Sub("FUNC", <<S0(<<65>>)>>)>>)>>)>>),
   Form(<<SurfaceItem(<<Item("BLOK", <<>>, <<TexHead("NOTE", <<66>>, <<>>)>>)>>)>>),
   Form5(<<Surf5(<<65>>, <<C3("TSIZ")>>)>>), Form5(<<Surf5(<<65>>, <<Sub("SDAT", <<Bytes(<<7, 8>>)>>)>>)>>),
   Form5(<<Surf5(<<65>>, <<Sub("CTEX", <<>>)>>)>>), Form5(<<Surf5(<<65>>, <<Sub("RIMG", <<S0(<<>>)>>)>>)>>),
   Form5(<<Surf5(<<65>>, <<Solid("CTEX"), Sub("TFLG", <<U2(8)>>)>>)>>)}
Sample5 == Form5(<<Surf5(<<65>>, Plug5 \o <<Solid("CTEX"), C3("TCTR"), C3("TVEL")>>)>>)
Wrong(t, n) == [tree |-> t, cells |-> SubSeq(EncodeLwo(t, "FORM"), 1, n), whole |-> FALSE]
BrokenLwo ==
  {Wrong(SampleLwo, n) : n \in 1 .. Len(EncodeLwo(SampleLwo, "FORM"))}
    \cup {Wrong(Sample5, n) : n \in 9 .. Len(EncodeLwo(Sample5, "FORM"))}
    \cup {Wrong(t, Len(EncodeLwo(t, "FORM"))) : t \in OddLwo}
MCLwoFiles == {FileLwo(t) : t \in TreesLwo \cup TreesLwo5} \cup BrokenLwo

------------------------------------------------------------------------------
(* .lwo files: layers *)

Layr == [id |-> "LAYR"]
Pnts(p) == [id |-> "PNTS", pts |-> p]
Pols(p) == [id |-> "POLS", pols |-> p, form5 |-> FALSE]
Pols5(p, s) == [id |-> "POLS", pols |-> p, surfs |-> s, form5 |-> TRUE]
TagNames(n) == [id |-> "TAGS", names |-> n]
Surf(n, s) == [id |-> "SURF", name |-> n, smooth |-> s]
Ptag(t, r) == [id |-> "PTAG", type |-> t, recs |-> r]
Tagged(p, t) == [p |-> p, tag |-> t]
Vmap(t, r) == [id |-> "VMAP", type |-> t, recs |-> r]
Vmad(t, r) == [id |-> "VMAD", type |-> t, recs |-> r]
AtPoint(v, x) == [v |-> v, p |-> -1, val |-> x]
AtCorner(v, p, x) == [v |-> v, p |-> p, val |-> x]
BBox == [id |-> "BBOX", box |-> [lo |-> -1, hi |-> 9]]
None2(S) == UNION {{f \in [1 .. n -> S] : \A i, j \in 1 .. n : f[i] = f[j] => i = j} : n \in 0 .. 2}

FourPoints == Pnts(<<1, 2, 3, 5>>)
Two == Pols(<<<<0, 1, 2>>, <<0, 2, 3>>>>)
Other == Pols(<<<<3, 2>>, <<2, 1, 0>>, <<0, 1, 2, 3>>>>)
Marks == {Ptag("surf", <<Tagged(0, 1), Tagged(1, 2)>>), Ptag("surf", <<Tagged(1, 1), Tagged(1, 0)>>), Ptag("smoothgrp", <<Tagged(1, 4)>>),
  Ptag("part", <<Tagged(0, 7)>>), Vmap("TXUV", <<AtPoint(0, 10), AtPoint(2, 11)>>), Vmap("TXUV", <<AtPoint(2, 12)>>), Vmap("RGBA", <<AtPoint(0, 13)>>), Vmap("WGHT", <<AtPoint(1, 14)>>)}
Dents == {<<>>, <<Vmad("TXUV", <<AtCorner(2, 1, 15), AtCorner(0, 0, 16)>>)>>, <<Vmad("RGBA", <<AtCorner(2, 1, 17)>>), BBox>>}
Bodies == {<<FourPoints, Two>> \o m \o d : m \in None2(Marks), d \in Dents}
  \cup {<<FourPoints, Two, m, Other, n>> : m \in Marks, n \in Marks}
SurfaceLists == {<<>>, <<Surf("A", 1)>>, <<Surf("B", 3), Surf("A", 0)>>, <<Surf("C", 1), Surf("C", 3)>>}
ABC == TagNames(<<"A", "B", "C">>)
Simple == <<FourPoints, Pols(<<<<0, 1, 2>>>>), Ptag("surf", <<Tagged(0, 2)>>)>>
Good == {<<ABC>> \o s \o b : s \in SurfaceLists, b \in Bodies}
  \cup {<<ABC, Layr>> \o b \o <<Layr>> \o Simple \o s : s \in SurfaceLists, b \in {c \in Bodies : Len(c) < 4}}
Good5 == {<<ABC>> \o s \o <<FourPoints, Pols5(<<<<0, 1, 2>>, <<0, 2, 3>>>>, t), Pols5(<<>>, <<>>), Pols5(<<<<3, 2, 1>>>>, <<2>>)>> :
  s \in SurfaceLists, t \in {<<1, 2>>, <<-3, 1>>, <<1, -1>>}}
Bad == {<<ABC, Pnts(<<>>)>>, <<ABC, FourPoints, Pols(<<<<>>>>)>>, <<ABC, FourPoints, Pols5(<<<<0, 1, 2>>>>, <<0>>)>>,
  <<TagNames(<<>>), FourPoints, Pols5(<<<<0, 1, 2>>>>, <<1>>)>>, <<FourPoints, Two>>, <<ABC, FourPoints, Pols(<<>>)>>, <<ABC, FourPoints, Two, Ptag("surf", <<Tagged(2, 0)>>)>>,
  <<ABC, FourPoints, Two, Ptag("surf", <<Tagged(1, 3)>>)>>, <<ABC, FourPoints, Two, Ptag("surf", <<Tagged(1, 4)>>)>>,
  <<ABC, FourPoints, Pols(<<<<0, 1, 4>>>>)>>, <<ABC, FourPoints, Two, Surf("", 0)>>, <<ABC, FourPoints, FourPoints, Two, Surf("A", 0)>>,
  <<ABC, Surf("A", 0)>>, <<TagNames(<<"A">>), FourPoints, Two, TagNames(<<"B">>), Ptag("surf", <<Tagged(0, 0)>>)>>, <<ABC>>}
MCObjects == Good \cup Good5 \cup Bad
MCAngle(a, b) == IF a = b THEN 0 ELSE 2

------------------------------------------------------------------------------
(* .mtr files *)

Joins(b) == \A i \in 1 .. Len(b) - 1 : IsWord(b[i]) => b[i + 1] \in Braces \cup {Sep}
MCShort(word) == {b \in BoundedSeq({word, "{", "}"}, 2) : Joins(b)} \cup {<<word, Sep>>, <<Sep, word>>}
MCLong ==
  {<<"vPosition", Sep, "{", "vColor", Sep, "}", "vPosition", Sep>>,
   <<"WVP", Sep, "{", "{", "texture1", Sep, "}", "modelView", Sep, "}">>,
   <<"vColor", Sep, "vNormal", Sep, "vColor", Sep, "vTexCoord", Sep, "vNormal", Sep>>,
   <<"{", "COLOR", Sep, "7", Sep, Zero, "}">>,
   <<Zero, "invModelView", "}", "{">>,
   <<"vPosition", Sep, "vert", "{", "}", "frag", "}">>}
\* Short bodies are written in every way, the long ones and the shortest as an
\* author does who takes care.
MCSections ==
  [kw : {"vert"}, gap : {FALSE}, body : MCShort("vColor") \cup MCLong, closed : {TRUE}]
  \cup [kw : {"frag"}, gap : {FALSE}, body : MCShort("COLOR") \cup MCLong, closed : {TRUE}]
  \cup [kw : {"vert", "frag"}, gap : BOOLEAN, body : {<<>>, <<"7">>, <<"{", "}">>},
        closed : BOOLEAN]

------------------------------------------------------------------------------
(* Pictures: files of every kind, with rows that do and do not end at a    *)
(* multiple of four, whole and broken off, and crosses in several formats.  *)

Raster(kind, form, w, h, breaks) ==
  [kind |-> kind, form |-> form, width |-> w, height |-> h, bytes |-> 1, breaks |-> breaks,
   size |-> 20, fromTop |-> FALSE, packed |-> FALSE]
Dds(forms, widths, depths, levels, faces, marks) ==
  [kind : {"dds"}, form : forms, width : widths, height : {4}, depth : depths, levels : levels,
   cube : {faces # {0}}, faces : faces, marked : marks, breaks : {"no"}]

MCImageFiles ==
  {Raster("png", form, 4, 3, "no") : form \in {"L", "LA", "RGB", "RGBA"}}
  \cup {Raster("png", "RGBA", 2, 2, breaks) : breaks \in {"missing", "signature", "header", "rows", "end"}}
  \cup {Raster("png", "RGB", 3, 2, "no"), [Raster("png", "RGB", 4, 2, "no") EXCEPT !.bytes = 2],
        Raster("png", "RGB", 6, 8, "no"), Raster("jpg", "RGB", 3, 4, "no"), Raster("png", "LA", 9, 12, "no"),
        Raster("jpg", "RGB", 4, 2, "no"), Raster("jpg", "RGB", 4, 2, "missing"),
        Raster("jpg", "RGB", 4, 2, "header"), Raster("jpg", "RGB", 4, 2, "rows"),
        Raster("jpg", "RGB", 12, 2, "no"), Raster("jpg", "CMYK", 9, 2, "no"),
        Raster("jpg", "CMYK", 3, 4, "no"), [Raster("jpg", "CMYK", 4, 2, "no") EXCEPT !.size = 30],
        Raster("bmp", "BGR", 4, 2, "no"), Raster("bmp", "BGR", 2, 2, "signature"),
        [Raster("tga", "BGR", 4, 2, "no") EXCEPT !.packed = TRUE], Raster("tga", "BGR", 4, 2, "missing")}
  \cup {[Raster("tga", form, 4, 2, "no") EXCEPT !.fromTop = top] : form \in {"L", "BGR", "BGRA"}, top \in BOOLEAN}
  \cup Dds({"DXT1", "DXT5", "R8G8B8", "A8", "D16"}, {3, 4, 5}, {0, 2}, {1, 3}, {0}, {FALSE})
  \cup Dds({"DXT3", "A8R8G8B8"}, {4, 5}, {0}, {1, 2}, {1, 6}, {FALSE})
  \cup Dds({"A8"}, {4}, {0}, {1}, {0}, {TRUE})

\* Bytes that are all different for as long as there are few.
Bitmap(w, h, d) ==
  [w |-> w, h |-> h, d |-> d,
   data |-> [b \in 0 .. 4 * w * h * d - 1 |-> (b * 37 + b * b * 11 + 5) % 256]]
MCPictures ==
  {Bitmap(4, 4, 1), Bitmap(4, 2, 1), Bitmap(1, 4, 1), Bitmap(4, 1, 1), Bitmap(3, 2, 1),
   Bitmap(3, 3, 1), Bitmap(2, 2, 2), Bitmap(4, 4, 4)}
==============================================================================
