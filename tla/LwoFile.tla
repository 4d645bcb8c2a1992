------------------------------- MODULE LwoFile -------------------------------
(***************************************************************************)
(* LWO2 files below the geometry: a FORM of chunks, of which the clips,    *)
(* envelopes and surfaces have subchunks, and the subchunks of a surface's *)
(* textures have subchunks again; and LWOB files, the older form, of which *)
(* only surfaces have subchunks ("FORM5" and "SURF5").  What a subchunk consists of is a table, *)
(* with the C functions that read the types: getU1, getU2 and getI2, getU4 *)
(* and getI4, getF4, getVX, getS0, and getbytes for what is left.          *)
(*                                                                         *)
(* A file is a sequence of cells, one per byte.  A number is as many cells *)
(* as it has bytes, of which the first stands for it.                      *)
(***************************************************************************)
EXTENDS Integers, Sequences, SequencesExt

\* The identifiers.
Names2 ==
  <<"FORM", "LWO2", "LAYR", "BBOX", "CLIP", "ENVL", "SURF", "DESC",
    "STIL", "ISEQ", "ANIM", "XREF", "STCC", "TIME", "CONT", "BRIT", "SATR", "HUE", "GAMM",
    "NEGA", "IFLT", "PFLT", "TYPE", "NAME", "PRE", "POST", "KEY", "SPAN", "CHAN", "TCB",
    "COLR", "LUMI", "DIFF", "SPEC", "GLOS", "REFL", "RFOP", "RIMG", "RSAN", "TRAN", "TROP",
    "TIMG", "RIND", "TRNL", "BUMP", "SMAN", "SIDE", "CLRH", "CLRF", "ADTR", "SHRP", "GVAL",
    "LINE", "ALPH", "AVAL", "BLOK", "IMAP", "PROC", "GRAD", "SHDR", "OPAC", "ENAB", "AXIS",
    "SIZE", "CNTR", "ROTA", "FALL", "OREF", "CSYS", "TMAP", "PROJ", "VMAP", "IMAG", "WRAP",
    "WRPW", "WRPH", "AAST", "PIXB", "STCK", "TAMP", "VALU", "FUNC", "PNAM", "INAM", "GRST",
    "GREN", "GRPT", "FKEY", "IKEY", "BEZI", "HERM", "BEZ2", "NOTE">>
\* Those specific to LWOB.
Names5 ==
  <<"LWOB", "FLAG", "VLUM", "VDIF", "VSPC", "RFLT", "BTEX", "CTEX", "DTEX", "LTEX", "RTEX",
    "STEX", "TTEX", "TFLG", "TSIZ", "TCTR", "TFAL", "TVEL", "TCLR", "TVAL", "TAAS", "TREF",
    "TOPC", "SDAT", "TFP0", "TFP1">>
\* As numbers that no other cell has.
Names == Names2 \o Names5
Id(name) == 1000 + CHOOSE n \in DOMAIN Names : Names[n] = name
NameOf(cell) == IF cell - 1000 \in DOMAIN Names THEN Names[cell - 1000] ELSE "NOTE"

\* A value with its envelope.
Param == <<"F4", "VX">>
Times(n, t) == [i \in 1 .. n |-> t]

\* What the handler of a chunk in FORM reads ("room": two more bytes, if there are).
FormFields(id) ==
  CASE id = "LAYR" -> <<"U2", "U2", "F4", "F4", "F4", "S0", "room">>
    [] id = "BBOX" -> Times(6, "F4")
    [] OTHER -> <<>>

\* lwGetClip: the source, which comes first, and the subchunks behind it.
SourceFields(id) ==
  CASE id = "STIL" -> <<"S0">>
    [] id = "ISEQ" -> <<"U1", "U1", "U2", "U2", "U2", "S0", "S0">>
    [] id = "ANIM" -> <<"S0", "S0", "rest">>
    [] id = "XREF" -> <<"U4", "S0">>
    [] id = "STCC" -> <<"U2", "U2", "S0">>
    [] OTHER -> <<>>
ClipFields(id) ==
  CASE id = "TIME" -> <<"F4", "F4", "F4">>
    [] id \in {"CONT", "BRIT", "SATR", "HUE", "GAMM"} -> Param
    [] id = "NEGA" -> <<"U2">>
    [] id \in {"IFLT", "PFLT"} -> <<"S0", "U2", "rest">>
    [] OTHER -> <<>>

\* lwGetEnvelope.
EnvelopeFields(id, sz) ==
  CASE id \in {"TYPE", "PRE", "POST"} -> <<"U2">>
    [] id = "NAME" -> <<"S0">>
    [] id = "KEY" -> <<"F4", "F4">>
    [] id = "SPAN" -> LET n == IF sz < 4 THEN 0 ELSE (sz - 4) \div 4
                      IN  <<"U4">> \o Times(IF n > 4 THEN 4 ELSE n, "F4")
    [] id = "CHAN" -> <<"S0", "U2", "rest">>
    [] OTHER -> <<>>

\* lwGetSurface.
Channels == {"COLR", "LUMI", "DIFF", "SPEC", "GLOS", "REFL", "TRAN", "RIND", "TRNL", "BUMP"}
SurfaceFields(id, sz) ==
  CASE id = "COLR" -> <<"F4", "F4", "F4", "VX">>
    [] id \in (Channels \ {"COLR"}) \cup {"CLRH", "CLRF", "ADTR", "SHRP", "GVAL"} -> Param
    [] id \in {"RFOP", "TROP", "SIDE"} -> <<"U2">>
    [] id \in {"RIMG", "TIMG"} -> <<"VX">>
    [] id \in {"RSAN", "SMAN", "AVAL"} -> <<"F4">>
    [] id = "LINE" -> (IF sz >= 2 THEN <<"U2">> ELSE <<>>)
                        \o (IF sz >= 6 THEN <<"F4">> ELSE <<>>)
                        \o (IF sz >= 8 THEN <<"VX">> ELSE <<>>)
    [] id = "ALPH" -> <<"U2", "F4">>
    [] OTHER -> <<>>

\* lwGetTHeader, and lwGetTMap.
HeaderFields(id) ==
  CASE id = "CHAN" -> <<"U4">>
    [] id = "OPAC" -> <<"U2", "F4", "VX">>
    [] id \in {"ENAB", "NEGA", "AXIS"} -> <<"U2">>
    [] OTHER -> <<>>
TMapFields(id) ==
  CASE id \in {"SIZE", "CNTR", "ROTA"} -> <<"F4", "F4", "F4", "VX">>
    [] id = "FALL" -> <<"U2", "F4", "F4", "F4", "VX">>
    [] id = "OREF" -> <<"S0">>
    [] id = "CSYS" -> <<"U2">>
    [] OTHER -> <<>>

\* lwGetImageMap, lwGetProcedural, lwGetGradient, and the FUNC of lwGetShader.
ImageMapFields(id) ==
  CASE id \in {"PROJ", "AXIS", "PIXB"} -> <<"U2">>
    [] id = "VMAP" -> <<"S0">>
    [] id = "IMAG" -> <<"VX">>
    [] id = "WRAP" -> <<"U2", "U2">>
    [] id \in {"WRPW", "WRPH", "STCK", "TAMP"} -> Param
    [] id = "AAST" -> <<"U2", "F4">>
    [] OTHER -> <<>>
ProceduralFields(id, sz) ==
  CASE id = "AXIS" -> <<"U2">>
    [] id = "VALU" -> Times(IF sz >= 12 THEN 3 ELSE IF sz >= 8 THEN 2 ELSE 1, "F4")
    [] id = "FUNC" -> <<"S0", "rest">>
    [] OTHER -> <<>>
GradientFields(id, sz) ==
  CASE id \in {"PNAM", "INAM"} -> <<"S0">>
    [] id \in {"GRST", "GREN"} -> <<"F4">>
    [] id = "GRPT" -> <<"U2">>
    [] id = "FKEY" -> Times(5 * (sz \div 20), "F4")
    [] id = "IKEY" -> Times(sz \div 2, "U2")
    [] OTHER -> <<>>
ShaderFields(id) == IF id = "FUNC" THEN <<"S0", "rest">> ELSE <<>>

\* lwGetSurface5, with the type of the texture that was begun last.
TextureLists5 == {"BTEX", "CTEX", "DTEX", "LTEX", "RTEX", "STEX", "TTEX"}
TextureFields5(id, type) ==
  CASE id \in {"TFLG", "TVAL"} -> <<"U2">>
    [] id \in {"TSIZ", "TCTR", "TFAL", "TVEL"} -> <<"F4", "F4", "F4">>
    [] id \in {"TAAS", "TOPC"} -> <<"F4">>
    [] id = "TREF" -> <<"rest">>
    [] id = "TIMG" -> <<"S0">>
    [] id = "TCLR" -> IF type = "PROC" THEN <<"U1", "U1", "U1">> ELSE <<>>
    [] id \in {"TAMP", "TFP0", "TFP1"} -> IF type = "IMAP" THEN <<"F4">> ELSE <<>>
OfTexture5 ==
  {"TFLG", "TVAL", "TSIZ", "TCTR", "TFAL", "TVEL", "TAAS", "TOPC", "TREF", "TIMG", "TCLR",
   "TAMP", "TFP0", "TFP1"}
Surface5Fields(id, type) ==
  CASE id = "COLR" -> <<"U1", "U1", "U1">>
    [] id \in {"FLAG", "GLOS", "RFLT", "LUMI", "DIFF", "SPEC", "REFL", "TRAN"} -> <<"U2">>
    [] id \in {"VLUM", "VDIF", "VSPC", "SMAN", "RSAN", "RIND"} -> <<"F4">>
    [] id = "RIMG" -> <<"S0">>
    [] id \in TextureLists5 \cup {"SHDR", "SDAT"} -> <<"rest">>
    [] id \in OfTexture5 -> TextureFields5(id, type)
    [] OTHER -> <<>>

\* What is read of a subchunk with this identifier and this (padded) size, by kind of
\* what it lies in.
Fields(kind, id, sz) ==
  CASE kind = "FORM" -> FormFields(id)
    [] kind = "FORM5" -> <<>>
    [] kind = "SOURCE" -> SourceFields(id)
    [] kind = "CLIP" -> ClipFields(id)
    [] kind = "ENVL" -> EnvelopeFields(id, sz)
    [] kind = "SURF" -> SurfaceFields(id, sz)
    [] kind = "HEAD" -> HeaderFields(id)
    [] kind = "TMAP" -> TMapFields(id)
    [] kind = "IMAP" -> ImageMapFields(id)
    [] kind = "PROC" -> ProceduralFields(id, sz)
    [] kind = "GRAD" -> GradientFields(id, sz)
    [] kind = "SHDR" -> ShaderFields(id)
==============================================================================
