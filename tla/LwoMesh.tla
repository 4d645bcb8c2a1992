------------------------------- MODULE LwoMesh -------------------------------
(***************************************************************************)
(* Mesh::ConvertLWOToModelSurfaces, which makes a triangle surface of every*)
(* surface of an object from what lwGetObject has put together, and what   *)
(* both of them should make of a file.                                     *)
(***************************************************************************)
EXTENDS LwoGeometry, FiniteSetsExt

VARIABLE
  tris    \* Mesh::_geometries: [verts, indices]

meshVars == <<chunks, gpc, at, layers, nlayers, taglist, surfs, tris>>

LwoMeshInit == GeoInit /\ tris = <<>>
LwoMeshIdle == GeoIdle /\ tris = <<>>

\* Only the first layer is ever used.
First == layers[1]
IsTexture(m) == First.vmaps[m].type = "TXUV"
IsColor(m) == First.vmaps[m].type = "RGBA"
TextureMaps == SelectSeq([m \in DOMAIN First.vmaps |-> m], IsTexture)
Coordinates(m) == [i \in DOMAIN First.vmaps[m].recs |-> First.vmaps[m].recs[i].val]

\* tvList, or one of zero; and where the coordinates of a map begin in it.
tvList ==
  LET all == FlattenSeq([k \in DOMAIN TextureMaps |-> Coordinates(TextureMaps[k])])
  IN  IF all = <<>> THEN <<0>> ELSE all
Offset(m) ==
  Len(FlattenSeq([k \in 1 .. m - 1 |-> IF IsTexture(k) THEN Coordinates(k) ELSE <<>>]))

\* The last reference of a kind, first to the point's and then to the polygon's maps.
LastRef(v, Is(_)) ==
  LET refs == First.points[v.index + 1].vm \o v.vm
      ones == SelectSeq(refs, LAMBDA r : Is(r.vmap))
  IN  IF ones = <<>> THEN <<>> ELSE <<Last(ones)>>

\* A normal, named by those that it is the sum of.
NormalOf(norms) ==
  [x \in {First.pols[n].norm : n \in ToSet(norms)} |->
    Cardinality({k \in DOMAIN norms : First.pols[norms[k]].norm = x})]

\* A slip: what the polygon says of a vertex is overridden by what its point says.
CornerOfPoint(v, s) ==
  LET backwards == [v EXCEPT !.vm = <<>>]
      texture == LastRef(backwards, IsTexture)
      color == LastRef(v, IsColor)
  IN  [v |-> v.index,
       tv |-> IF texture = <<>> THEN 0 ELSE texture[1].index - 1 + Offset(texture[1].vmap),
       color |-> IF color = <<>> THEN <<0, s>> ELSE <<1, First.vmaps[color[1].vmap].recs[color[1].index].val>>,
       normal |-> NormalOf(v.norms)]

Corner(v, s) ==
  LET texture == LastRef(v, IsTexture)
      color == LastRef(v, IsColor)
  IN  [v |-> v.index,
       tv |-> IF texture = <<>> THEN 0 ELSE texture[1].index - 1 + Offset(texture[1].vmap),
       color |-> IF color = <<>> THEN <<0, s>> ELSE <<1, First.vmaps[color[1].vmap].recs[color[1].index].val>>,
       normal |-> NormalOf(v.norms)]

\* Of the polygons only triangles are taken.
Corners(s) ==
  FlattenSeq([n \in DOMAIN First.pols |->
    IF First.pols[n].surf = s /\ Len(First.pols[n].v) = 3
    THEN [k \in 1 .. 3 |-> Corner(First.pols[n].v[k], s)] ELSE <<>>])

\* A corner is found again if the dot product of its normal with itself is above one.
\* above: the normals for which that is what rounding makes of it.
Matches(c, above) ==
  [i \in DOMAIN c |-> {j \in 1 .. i - 1 : c[j] = c[i] /\ c[i].normal \in above}]
TriOf(c, above) ==
  LET found == Matches(c, above)
      kept == SelectSeq([i \in DOMAIN c |-> i], LAMBDA i : found[i] = {})
      first(i) == IF found[i] = {} THEN i ELSE CHOOSE j \in found[i] : \A k \in found[i] : j <= k
      place(i) == CHOOSE k \in DOMAIN kept : kept[k] = first(i)
  IN  [verts |-> [k \in DOMAIN kept |->
         LET m == c[kept[k]]
         IN  [xyz |-> First.points[m.v + 1].pos, st |-> tvList[m.tv + 1], color |-> m.color, normal |-> m.normal]],
       indices |-> [i \in DOMAIN c |-> place(i) - 1]]

\* Without a surface, or without a point in the first layer, there is nothing to convert.
ConvertNothing ==
  /\ gpc = "null" \/ (gpc = "convert" /\ (surfs = <<>> \/ First.points = <<>>))
  /\ gpc' = "done"
  /\ UNCHANGED <<chunks, at, geometry, tris>>

ConvertSurface ==
  LET c == Corners(at) IN
  /\ gpc = "convert" /\ surfs # <<>> /\ First.points # <<>> /\ at <= Len(surfs)
  /\ \E above \in SUBSET {c[i].normal : i \in DOMAIN c} : tris' = Append(tris, TriOf(c, above))
  /\ at' = at + 1
  /\ UNCHANGED <<chunks, gpc, geometry>>
ConvertEnds ==
  /\ gpc = "convert" /\ surfs # <<>> /\ First.points # <<>> /\ at > Len(surfs)
  /\ gpc' = "done"
  /\ UNCHANGED <<chunks, at, geometry, tris>>

LwoMeshNext ==
  \/ GeoReads /\ UNCHANGED tris
  \/ ConvertNothing \/ ConvertSurface \/ ConvertEnds

------------------------------------------------------------------------------
(* What the chunks say. *)

\* The chunks of layer l: those behind its LAYR and before the next.
LayerChunks(l) ==
  LET number(c) == Cardinality({b \in 1 .. c : chunks[b].id = "LAYR"})
      of(c) == number(c) = l \/ (number(c) = 0 /\ l = 1)
  IN  SelectSeq([c \in DOMAIN chunks |-> c], of)
Of(l, id) == SelectSeq(LayerChunks(l), LAMBDA c : chunks[c].id = id)
SaidLayers == 1 .. Max({1, Cardinality({c \in DOMAIN chunks : chunks[c].id = "LAYR"})})

SaidPoints(l) == FlattenSeq([k \in DOMAIN Of(l, "PNTS") |-> chunks[Of(l, "PNTS")[k]].pts])
\* The polygons, each with the chunk that it comes from and its place there.
SaidPolygons(l) ==
  FlattenSeq([k \in DOMAIN Of(l, "POLS") |->
    LET c == Of(l, "POLS")[k]
    IN  [n \in DOMAIN chunks[c].pols |->
          [from |-> c, place |-> n - 1, points |-> chunks[c].pols[n], own |-> OwnSurface(chunks[c], n)]]])
SaidTags == chunks[CHOOSE c \in DOMAIN chunks : chunks[c].id = "TAGS"].names
SaidSurfaces == SelectSeq([c \in DOMAIN chunks |-> c], LAMBDA c : chunks[c].id = "SURF")

\* A PTAG is about the polygons of the last POLS before it; the last word counts.
SaidOf(l, field, polygon) ==
  LET about == {c \in ToSet(Of(l, "PTAG")) :
        /\ chunks[c].type = field /\ polygon.from < c
        /\ \A d \in ToSet(Of(l, "POLS")) : ~(polygon.from < d /\ d < c)}
      said == {<<c, k>> \in about \X (1 .. 9) :
                k \in DOMAIN chunks[c].recs /\ chunks[c].recs[k].p = polygon.place}
      last == CHOOSE x \in said : \A y \in said : y[1] < x[1] \/ (y[1] = x[1] /\ y[2] <= x[2])
  IN  IF said = {} THEN 0 ELSE chunks[last[1]].recs[last[2]].tag
SaidName(l, polygon) ==
  SaidTags[1 + IF chunks[polygon.from].form5 THEN polygon.own ELSE SaidOf(l, "surf", polygon)]
SaidSmooth(name) ==
  LET named == {c \in ToSet(SaidSurfaces) : chunks[c].name = name}
  IN  IF named = {} THEN 0 ELSE chunks[CHOOSE c \in named : \A d \in named : c <= d].smooth

\* The records of the layer's maps with an identifier, [type, v, p, val], in order.
SaidRecords(l, id) ==
  FlattenSeq([k \in DOMAIN Of(l, id) |->
    LET c == chunks[Of(l, id)[k]]
    IN  [i \in DOMAIN c.recs |-> [type |-> c.type, rec |-> c.recs[i]]]])

\* The objects that the loader is made for: one TAGS in front of what refers to it; in
\* a layer one PNTS, then polygons with tags, and a VMAD where there is one POLS; names;
\* and no index of something that is not there.
LayerSupported(l) ==
  LET before(c, id) == {d \in ToSet(Of(l, id)) : d < c} IN
  /\ Len(Of(l, "PNTS")) <= 1
  /\ \A c \in ToSet(LayerChunks(l)) :
       LET chunk == chunks[c] IN
       CASE chunk.id = "POLS" ->
              /\ before(c, "PNTS") # {} /\ (chunk.form5 \/ chunk.pols # <<>>)
              /\ \A n \in DOMAIN chunk.pols :
                   chunk.pols[n] # <<>> /\ OwnSurface(chunk, n) \in 0 .. Len(SaidTags) - 1
              /\ \A n \in DOMAIN chunk.pols : \A k \in DOMAIN chunk.pols[n] : chunk.pols[n][k] < Len(SaidPoints(l))
         [] chunk.id = "PTAG" ->
              /\ before(c, "POLS") # {} /\ \E t \in 1 .. c : chunks[t].id = "TAGS"
              /\ LET d == CHOOSE d \in before(c, "POLS") : \A e \in before(c, "POLS") : e <= d
                 IN  \A k \in DOMAIN chunk.recs : chunk.recs[k].p < Len(chunks[d].pols)
              /\ chunk.type = "surf" => \A k \in DOMAIN chunk.recs : chunk.recs[k].tag < Len(SaidTags)
         [] chunk.id = "VMAP" -> \A i \in DOMAIN chunk.recs : chunk.recs[i].v < Len(SaidPoints(l))
         [] chunk.id = "VMAD" ->
              /\ Len(Of(l, "POLS")) = 1
              /\ \A i \in DOMAIN chunk.recs : chunk.recs[i].p < Len(SaidPolygons(l))
         [] OTHER -> TRUE
LwoSupported ==
  /\ Cardinality({c \in DOMAIN chunks : chunks[c].id = "TAGS"}) = 1
  /\ IsInjective(SaidTags) /\ "" \notin ToSet(SaidTags) /\ SaidTags # <<>>
  /\ \A c \in ToSet(SaidSurfaces) : chunks[c].name # ""
  /\ \A c \in DOMAIN chunks : chunks[c].id = "PNTS" => chunks[c].pts # <<>>
  /\ \A l \in SaidLayers : LayerSupported(l)

------------------------------------------------------------------------------
(* What is made is what the chunks say. *)

Joined(l) ==
  LET layer == layers[l]  said == SaidPolygons(l) IN
  /\ [i \in DOMAIN layer.points |-> layer.points[i].pos] = SaidPoints(l)
  /\ [n \in DOMAIN layer.pols |-> [k \in DOMAIN layer.pols[n].v |-> layer.pols[n].v[k].index]]
       = [n \in DOMAIN said |-> said[n].points]
  /\ \A n \in DOMAIN said : surfs[layer.pols[n].surf].name = SaidName(l, said[n])
  /\ \A i \in DOMAIN layer.points : \A n \in DOMAIN said :
       Cardinality({j \in DOMAIN layer.points[i].pols : layer.points[i].pols[j] = n})
         = Cardinality({k \in DOMAIN said[n].points : said[n].points[k] = i - 1})
  /\ \A n \in DOMAIN said : \A k \in DOMAIN said[n].points :
       LET smooth == SaidSmooth(SaidName(l, said[n])) IN
       ToSet(layer.pols[n].v[k].norms) =
         {n} \cup {h \in DOMAIN said :
           /\ smooth > 0 /\ said[n].points[k] \in ToSet(said[h].points)
           /\ SaidOf(l, "smoothgrp", said[h]) = SaidOf(l, "smoothgrp", said[n])
           /\ Angle(layer.pols[n].norm, layer.pols[h].norm) <= smooth}

\* Every point knows the polygons around it and every polygon the surface that its tag
\* names; every vertex normal is of the polygons within the smoothing angle, of the same
\* group; and a default surface is made once for each name that no SURF has, whichever
\* layer asks for it first (lwGetPoints, lwGetPolygons, lwGetPolygonTags and the seven
\* functions behind lwGetObject's loop, each of which trusts the indices of the others).
GeometryAsWritten ==
  LwoSupported =>
    /\ gpc \notin {"crashed", "null"}
    /\ gpc \in {"convert", "done"} =>
         /\ \A l \in SaidLayers : Joined(l)
         /\ LET written == [k \in DOMAIN SaidSurfaces |-> chunks[SaidSurfaces[k]].name]
                made == [k \in DOMAIN surfs |-> surfs[k].name]
                defaults == SubSeq(made, Len(written) + 1, Len(made))
            IN  /\ SubSeq(made, 1, Len(written)) = written
                /\ IsInjective(defaults) /\ ToSet(defaults) \cap ToSet(written) = {}

\* What the records say of a vertex, or what is left if none does.
LastSaid(type, v, n, other) ==
  LET points == SelectSeq(SaidRecords(1, "VMAP"), LAMBDA r : r.type = type /\ r.rec.v = v)
      polygons == SelectSeq(SaidRecords(1, "VMAD"), LAMBDA r : r.type = type /\ r.rec.v = v /\ r.rec.p = n - 1)
      all == points \o polygons
  IN  IF all = <<>> THEN other ELSE Last(all).rec.val
\* A vertex that no record is about has the first coordinates of all.
FirstCoordinates ==
  LET maps == SelectSeq(LayerChunks(1), LAMBDA c :
                chunks[c].id \in {"VMAP", "VMAD"} /\ chunks[c].type = "TXUV" /\ chunks[c].recs # <<>>)
  IN  IF maps = <<>> THEN 0 ELSE chunks[maps[1]].recs[1].val

\* The n-th polygon has no point twice.
IsSimple(p) == IsInjective(p.points)

\* Every triangle of the first layer is drawn with its surface, at its points, with the
\* texture coordinates and colours that the maps give its corners, where those of the
\* polygon go before those of the point; no index is outside the vertices that were made
\* (Mesh::ConvertLWOToModelSurfaces, which renumbers them all).
ConvertedAsWritten ==
  gpc = "done" /\ LwoSupported /\ SaidPoints(1) # <<>> /\ surfs # <<>> =>
    \A s \in DOMAIN surfs :
      LET named == \A t \in 1 .. s - 1 : surfs[t].name # surfs[s].name
          ours == SelectSeq([n \in DOMAIN SaidPolygons(1) |-> n], LAMBDA n :
                    /\ named /\ Len(SaidPolygons(1)[n].points) = 3
                    /\ SaidName(1, SaidPolygons(1)[n]) = surfs[s].name)
      IN  /\ Len(tris[s].indices) = 3 * Len(ours)
          /\ \A i \in DOMAIN tris[s].indices : tris[s].indices[i] \in 0 .. Len(tris[s].verts) - 1
          /\ \A i \in DOMAIN tris[s].indices :
               LET n == ours[((i - 1) \div 3) + 1]
                   p == SaidPolygons(1)[n]
                   v == p.points[((i - 1) % 3) + 1]
                   vert == tris[s].verts[tris[s].indices[i] + 1]
               IN  /\ vert.xyz = SaidPoints(1)[v + 1]
                   /\ IsSimple(p) =>
                        /\ vert.st = LastSaid("TXUV", v, n, FirstCoordinates)
                        /\ vert.color = (IF LastSaid("RGBA", v, n, -1) = -1 THEN <<0, s>>
                                         ELSE <<1, LastSaid("RGBA", v, n, -1)>>)

\* "find all the unique combinations": no two vertices of a surface are the same
\* (ConvertLWOToModelSurfaces, which looks for a match before it makes a vertex).
UniqueCombinations ==
  \A s \in DOMAIN tris : IsInjective(tris[s].verts)
==============================================================================
