----------------------------- MODULE LwoGeometry -----------------------------
(***************************************************************************)
(* lwGetObject's layers: what the handlers of LAYR, PNTS, POLS, VMAP, VMAD *)
(* PTAG, TAGS, BBOX and SURF do with the records of their chunks (and in   *)
(* lwGetObject5 those of PNTS, POLS, SRFS and SURF), and how               *)
(* points, polygons, surfaces and vertex maps are joined afterwards.       *)
(*                                                                         *)
(* Points, polygons, tags and records are counted from 0, as in the file,  *)
(* and kept in sequences that begin with 1.  A position is a number, and a *)
(* normal is named by the three positions that it is calculated from.      *)
(***************************************************************************)
EXTENDS Integers, Sequences, SequencesExt, FiniteSets

CONSTANTS
  Objects,        \* the files: sequences of chunks
  Angle(_, _)     \* vecangle of two normals

VARIABLES
  chunks,     \* the chunks of the file
  gpc,        \* "idle", "read", "resolve", "convert", "done", "null", or "crashed"
  at,         \* the chunk, layer or surface that is next
  layers,     \* object->layer
  nlayers,    \* object->nlayers
  taglist,    \* [tag |-> the tags, offset |-> where the last TAGS began]
  surfs       \* object->surf: [name, smooth]

geometry == <<layers, nlayers, taglist, surfs>>

EmptyLayer ==
  [points |-> <<>>, ptOffset |-> 0, pols |-> <<>>, polOffset |-> 0, vmaps |-> <<>>,
   box |-> [lo |-> 0, hi |-> 0]]

GeoInit ==
  /\ chunks \in Objects /\ gpc = "read" /\ at = 1
  /\ layers = <<EmptyLayer>> /\ nlayers = 0
  /\ taglist = [tag |-> <<>>, offset |-> 0] /\ surfs = <<>>
GeoIdle ==
  /\ chunks = <<>> /\ gpc = "idle" /\ at = 1
  /\ layers = <<EmptyLayer>> /\ nlayers = 0
  /\ taglist = [tag |-> <<>>, offset |-> 0] /\ surfs = <<>>

------------------------------------------------------------------------------
(* The chunks.  layer is the one that was made last. *)

Chunk(id) == gpc = "read" /\ at <= Len(chunks) /\ chunks[at].id = id
Now == chunks[at]
Layer == Last(layers)
WithLayer(layer) == layers' = Append(Front(layers), layer)
Read1 == at' = at + 1 /\ UNCHANGED <<chunks, gpc>>

\* The first LAYR is about the layer that is there from the start.
GetLayer ==
  /\ Chunk("LAYR") /\ Read1
  /\ layers' = IF nlayers > 0 THEN Append(layers, EmptyLayer) ELSE layers
  /\ nlayers' = nlayers + 1
  /\ UNCHANGED <<taglist, surfs>>

\* lwGetPoints makes room behind the points that are there, and writes the new ones
\* from the first on.
GetPoints ==
  LET old == Layer.points  n == Len(Now.pts)
      room == old \o [i \in 1 .. n |-> [pos |-> 0, pols |-> <<>>, vm |-> <<>>]]
  IN
  /\ Chunk("PNTS") /\ n > 0 /\ Read1
  /\ WithLayer([Layer EXCEPT
       !.ptOffset = Len(old),
       !.points = [i \in DOMAIN room |->
                    IF i <= n THEN [room[i] EXCEPT !.pos = Now.pts[i]] ELSE room[i]]])
  /\ UNCHANGED <<nlayers, taglist, surfs>>

\* lwGetPolygons and lwGetPolygons5, where a polygon has a surface of its own, from 1 on:
\* the number is negative if detail polygons follow, which are read like all others.
AnyVertex == {<<>>} # ToSet(Now.pols) \/ \E p \in ToSet(Layer.pols) : p.v # <<>>
NewPolygon(p, surf) ==
  [v |-> [k \in DOMAIN p |-> [index |-> p[k] + Layer.ptOffset, vm |-> <<>>, norms |-> <<>>]],
   norm |-> <<>>, surf |-> surf, part |-> 0, smoothgrp |-> 0]
OwnSurface(chunk, n) == IF ~chunk.form5 THEN 0
                        ELSE IF chunk.surfs[n] < 0 THEN -chunk.surfs[n] - 1 ELSE chunk.surfs[n] - 1
GetPolygons ==
  /\ Chunk("POLS") /\ Now.pols # <<>> /\ AnyVertex /\ Read1
  /\ WithLayer([Layer EXCEPT
       !.polOffset = Len(Layer.pols),
       !.pols = @ \o [n \in DOMAIN Now.pols |-> NewPolygon(Now.pols[n], OwnSurface(Now, n))]])
  /\ UNCHANGED <<nlayers, taglist, surfs>>
\* In lwGetPolygons5 and lwGetTags an empty chunk is nothing; anywhere else it makes
\* getbytes or mem_alloc return a null pointer, for which the object is given up.
SkipNothing ==
  /\ Chunk("POLS") /\ Now.form5 /\ Now.pols = <<>> /\ Read1
  /\ UNCHANGED geometry
GetNothing ==
  /\ \/ Chunk("PNTS") /\ Now.pts = <<>>
     \/ Chunk("POLS") /\ Now.pols = <<>> /\ ~Now.form5
     \/ Chunk("POLS") /\ Now.pols # <<>> /\ ~AnyVertex
  /\ gpc' = "null"
  /\ UNCHANGED <<chunks, at, geometry>>

\* lwGetVMap: records [v, p, val], of which VMAP has no p.
GetVMap ==
  /\ Chunk("VMAP") \/ Chunk("VMAD")
  /\ Read1
  /\ WithLayer([Layer EXCEPT !.vmaps =
       Append(@, [type |-> Now.type, perpoly |-> Now.id = "VMAD", recs |-> Now.recs])])
  /\ UNCHANGED <<nlayers, taglist, surfs>>

\* A slip: the polygons of a PTAG are counted from the layer's first.
GetPolygonTagsFromFirst ==
  LET field == Now.type
      said(n) == {k \in DOMAIN Now.recs : Now.recs[k].p + 1 = n}
  IN
  /\ Chunk("PTAG") /\ Read1
  /\ WithLayer([Layer EXCEPT !.pols = [n \in DOMAIN @ |->
       IF said(n) = {} THEN @[n]
       ELSE [@[n] EXCEPT ![field] =
              Now.recs[CHOOSE k \in said(n) : \A m \in said(n) : m <= k].tag + taglist.offset]]])
  /\ UNCHANGED <<nlayers, taglist, surfs>>

\* lwGetPolygonTags: of the polygons from the last POLS on; the last record counts.
InPols == \A k \in DOMAIN Now.recs : Now.recs[k].p + Layer.polOffset < Len(Layer.pols)
GetPolygonTags ==
  LET field == Now.type
      said(n) == {k \in DOMAIN Now.recs : Now.recs[k].p + Layer.polOffset + 1 = n}
  IN
  /\ Chunk("PTAG") /\ InPols /\ Read1
  /\ WithLayer([Layer EXCEPT !.pols = [n \in DOMAIN @ |->
       IF said(n) = {} THEN @[n]
       ELSE [@[n] EXCEPT ![field] =
              Now.recs[CHOOSE k \in said(n) : \A m \in said(n) : m <= k].tag + taglist.offset]]])
  /\ UNCHANGED <<nlayers, taglist, surfs>>

\* The polygons of a PTAG are not checked.
WritesOutside ==
  /\ Chunk("PTAG") /\ ~InPols
  /\ gpc' = "crashed"
  /\ UNCHANGED <<chunks, at, geometry>>

GetTags ==
  /\ Chunk("TAGS") /\ Read1
  /\ taglist' = IF Now.names = <<>> THEN taglist
                ELSE [tag |-> taglist.tag \o Now.names, offset |-> Len(taglist.tag)]
  /\ UNCHANGED <<layers, nlayers, surfs>>

GetBBox ==
  /\ Chunk("BBOX") /\ Read1
  /\ WithLayer([Layer EXCEPT !.box = Now.box])
  /\ UNCHANGED <<nlayers, taglist, surfs>>

\* lwGetSurface, of which LwoReader has the rest.
GetSurface ==
  /\ Chunk("SURF") /\ Read1
  /\ surfs' = Append(surfs, [name |-> Now.name, smooth |-> Now.smooth])
  /\ UNCHANGED <<layers, nlayers, taglist>>

EndOfChunks ==
  /\ gpc = "read" /\ at > Len(chunks)
  /\ gpc' = "resolve" /\ at' = 1
  /\ nlayers' = IF nlayers = 0 THEN 1 ELSE nlayers
  /\ UNCHANGED <<chunks, layers, taglist, surfs>>

------------------------------------------------------------------------------
(* The layers, one after the other. *)

lwGetBoundingBox(layer) ==
  LET all == {layer.points[i].pos : i \in DOMAIN layer.points} IN
  IF all = {} \/ layer.box # [lo |-> 0, hi |-> 0] THEN layer
  ELSE [layer EXCEPT !.box =
         [lo |-> CHOOSE p \in all : \A q \in all : p <= q, hi |-> CHOOSE p \in all : \A q \in all : q <= p]]

\* The normal of a polygon with fewer than three vertices stays zero.
lwGetPolyNormals(layer) ==
  LET pos(v) == layer.points[v.index + 1].pos
      norm(v) == IF Len(v) < 3 THEN <<>> ELSE <<pos(v[1]), pos(v[2]), pos(Last(v))>>
  IN  [layer EXCEPT !.pols = [n \in DOMAIN @ |-> [@[n] EXCEPT !.norm = norm(layer.pols[n].v)]]]

\* The polygons that have a point, as often as they have it.
lwGetPointPolygons(layer) ==
  LET of(i) == FlattenSeq([n \in DOMAIN layer.pols |->
                 FlattenSeq([k \in DOMAIN layer.pols[n].v |->
                   IF layer.pols[n].v[k].index = i - 1 THEN <<n>> ELSE <<>>])])
  IN  [layer EXCEPT !.points = [i \in DOMAIN @ |-> [@[i] EXCEPT !.pols = of(i)]]]

\* The first surface with the name of a tag, or 0.
SurfaceOf(i) ==
  LET named == {k \in DOMAIN surfs : surfs[k].name = taglist.tag[i + 1]}
  IN  IF named = {} THEN 0 ELSE CHOOSE k \in named : \A m \in named : k <= m
TagsUsed(layer) == {layer.pols[n].surf : n \in DOMAIN layer.pols}
\* The tags without a surface, in the order in which polygons need one.
Missing(layer) ==
  LET first(t) == CHOOSE n \in DOMAIN layer.pols :
                    layer.pols[n].surf = t /\ \A m \in 1 .. n - 1 : layer.pols[m].surf # t
  IN  SetToSortSeq({t \in TagsUsed(layer) : SurfaceOf(t) = 0}, LAMBDA t, u : first(t) < first(u))
\* A default surface is made for each.
lwResolvePolySurfaces(layer) ==
  LET missing == Missing(layer)
      surface(t) == IF SurfaceOf(t) # 0 THEN SurfaceOf(t)
                    ELSE Len(surfs) + CHOOSE k \in DOMAIN missing : missing[k] = t
  IN  [layer EXCEPT !.pols = [n \in DOMAIN @ |-> [@[n] EXCEPT !.surf = surface(@)]]]
Defaults(layer) ==
  [k \in DOMAIN Missing(layer) |-> [name |-> taglist.tag[Missing(layer)[k] + 1], smooth |-> 0]]

\* The polygons whose normals the normal of a vertex is the sum of.
lwGetVertNormals(layer, all) ==
  LET norms(n, v) ==
        LET near == IF all[layer.pols[n].surf].smooth <= 0 THEN <<>>
                    ELSE SelectSeq(layer.points[v.index + 1].pols, LAMBDA h :
                           /\ h # n
                           /\ layer.pols[n].smoothgrp = layer.pols[h].smoothgrp
                           /\ Angle(layer.pols[n].norm, layer.pols[h].norm) <= all[layer.pols[n].surf].smooth)
        IN  <<n>> \o near
  IN  [layer EXCEPT !.pols = [n \in DOMAIN @ |->
        [@[n] EXCEPT !.v = [k \in DOMAIN @ |-> [@[k] EXCEPT !.norms = norms(n, layer.pols[n].v[k])]]]]]

\* The records of maps with or without polygons that satisfy a condition, as references.
Refs(layer, perpoly, Is(_)) ==
  FlattenSeq([m \in DOMAIN layer.vmaps |->
    IF layer.vmaps[m].perpoly # perpoly THEN <<>>
    ELSE FlattenSeq([i \in DOMAIN layer.vmaps[m].recs |->
           IF Is(layer.vmaps[m].recs[i]) THEN <<[vmap |-> m, index |-> i]>> ELSE <<>>])])

lwGetPointVMaps(layer) ==
  [layer EXCEPT !.points = [i \in DOMAIN @ |->
    [@[i] EXCEPT !.vm = Refs(layer, FALSE, LAMBDA r : r.v = i - 1)]]]

\* The first vertex of the polygon that is at the point gets the record.
lwGetPolyVMaps(layer) ==
  LET first(p, k) == \A j \in 1 .. k - 1 : p.v[j].index # p.v[k].index
      of(n, k) == IF first(layer.pols[n], k)
                  THEN Refs(layer, TRUE, LAMBDA r : r.p = n - 1 /\ r.v = layer.pols[n].v[k].index)
                  ELSE <<>>
  IN  [layer EXCEPT !.pols = [n \in DOMAIN @ |->
        [@[n] EXCEPT !.v = [k \in DOMAIN @ |-> [@[k] EXCEPT !.vm = of(n, k)]]]]]

\* What nobody checks: all indices are of something that is there.
IndicesInRange(layer) ==
  /\ \A n \in DOMAIN layer.pols : \A k \in DOMAIN layer.pols[n].v :
       layer.pols[n].v[k].index < Len(layer.points)
  /\ \A m \in DOMAIN layer.vmaps : \A i \in DOMAIN layer.vmaps[m].recs :
       LET r == layer.vmaps[m].recs[i]
       IN  IF layer.vmaps[m].perpoly THEN r.p < Len(layer.pols) ELSE r.v < Len(layer.points)
\* Neither of two strings that are compared is a null pointer, for "".
NamesThere ==
  \/ surfs = <<>>
  \/ /\ \A i \in DOMAIN taglist.tag : taglist.tag[i] # ""
     /\ \A k \in DOMAIN surfs : surfs[k].name # ""
\* A tag behind the last one is refused, but not the one next to it; and without any
\* tag no polygon has a surface to be smoothed by.
TagsThere(layer) == TagsUsed(layer) \subseteq 0 .. Len(taglist.tag) - 1
Refused(layer) ==
  /\ taglist.tag # <<>>
  /\ \E n \in DOMAIN layer.pols :
       /\ layer.pols[n].surf \notin 0 .. Len(taglist.tag)
       /\ \A m \in 1 .. n - 1 : layer.pols[m].surf # Len(taglist.tag)

Resolving == gpc = "resolve" /\ at <= Len(layers)
ResolveLayer ==
  LET layer == layers[at]
      all == surfs \o Defaults(layer)
      normals == lwGetVertNormals(
        lwResolvePolySurfaces(lwGetPointPolygons(lwGetPolyNormals(lwGetBoundingBox(layer)))), all)
  IN
  /\ Resolving /\ IndicesInRange(layer) /\ NamesThere /\ TagsThere(layer)
  /\ layers' = [layers EXCEPT ![at] = lwGetPolyVMaps(lwGetPointVMaps(normals))]
  /\ surfs' = all
  /\ at' = at + 1
  /\ UNCHANGED <<chunks, gpc, nlayers, taglist>>
ResolveFails ==
  LET layer == layers[at] IN
  /\ Resolving
  /\ ~(IndicesInRange(layer) /\ NamesThere /\ TagsThere(layer))
  /\ gpc' = IF IndicesInRange(layer) /\ NamesThere /\ Refused(layer) THEN "null" ELSE "crashed"
  /\ UNCHANGED <<chunks, at, geometry>>
LayersEnd ==
  /\ gpc = "resolve" /\ at > Len(layers)
  /\ gpc' = "convert" /\ at' = 1
  /\ UNCHANGED <<chunks, geometry>>

GeoReads ==
  \/ GetLayer \/ GetPoints \/ GetPolygons \/ SkipNothing \/ GetNothing \/ GetVMap \/ GetPolygonTags \/ WritesOutside
  \/ GetTags \/ GetBBox \/ GetSurface \/ EndOfChunks
  \/ ResolveLayer \/ ResolveFails \/ LayersEnd
==============================================================================
