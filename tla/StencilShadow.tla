---------------------------- MODULE StencilShadow ----------------------------
(***************************************************************************)
(* The shadow volumes of tr_stencilshadow.cpp: the triangles that cast a   *)
(* shadow are clipped to each frustum of the light and make the front cap, *)
(* their projection to the far plane of the frustum makes the rear cap,    *)
(* and quads are put on the silhouette and, where the light asks for it,   *)
(* on the edges that clipping made.                                        *)
(*                                                                         *)
(* Geometry is exact.  A point is <<x, y, z, w>> without common factors    *)
(* and with w > 0, a plane <<a, b, c, d>>, and what lies within the code's *)
(* LIGHT_CLIP_EPSILON of a plane lies on it.  A vertex index is kept as in *)
(* the code: 2*k is the k-th vertex and 2*k+1 its projection.              *)
(***************************************************************************)
EXTENDS ShadowVolume

CONSTANTS
  Casters,          \* the surfaces: sequences of triangles over PosOf
  Spots,            \* where a surface is put
  LightParms,       \* what a light may be told to be
  MaxVolumeIndexes, \* MAX_SHADOW_INDEXES
  MaxVolumeVerts,   \* MAX_SHADOW_VERTS
  MaxClipSilEdges   \* MAX_CLIP_SIL_EDGES

VARIABLES
  light,   \* [parms, frustums, num]: the light and its shadowFrustums
  caster,  \* the surface and the light's place in its coordinates
  turn,    \* the frustum that is next, or 0: no call is under way
  volume,  \* static: shadowVerts, shadowIndexes, clipSilEdges, indexRef and overflowed
  newTri   \* what the last call returned, Nothing for NULL

stencilVars == <<light, caster, turn, volume, newTri>>

------------------------------------------------------------------------------
Abs(n) == IF n < 0 THEN -n ELSE n

\* Without common factors.
Reduced(t) ==
  LET sizes == {Abs(t[i]) : i \in DOMAIN t} \ {0}
      common == {d \in 1 .. Min(sizes) : \A i \in DOMAIN t : t[i] % d = 0}
  IN  IF sizes = {} THEN t ELSE [i \in DOMAIN t |-> t[i] \div Max(common)]

PointAt(pos) == Append(pos, 1)
Positive(p) == Reduced(IF p[4] < 0 THEN [i \in 1 .. 4 |-> -p[i]] ELSE p)

\* The distance of a point from a plane, but for a factor that is positive.
Distance(plane, p) == plane[1] * p[1] + plane[2] * p[2] + plane[3] * p[3] + plane[4] * p[4]

\* Where the line from p to q, at other sides of a plane, goes through it.
SplitPoint(plane, p, q) ==
  LET dp == Abs(Distance(plane, p)) dq == Abs(Distance(plane, q))
  IN  Reduced([i \in 1 .. 4 |-> dq * p[i] + dp * q[i]])

FromPoints(p1, p2, p3) ==
  LET normal == Cross(Minus(p1, p2), Minus(p3, p2))
  IN  Reduced(Append(normal, -Dot(normal, p2)))

\* idBounds::PlaneDistance of the bounds of some positions.
PlaneDistance(positions, plane) ==
  LET of(x) == {p[x] : p \in positions}
      corners == {<<a, b, c, 1>> : a \in {Min(of(1)), Max(of(1))},
                                   b \in {Min(of(2)), Max(of(2))}, c \in {Min(of(3)), Max(of(3))}}
      distances == {Distance(plane, p) : p \in corners}
  IN  IF Min(distances) > 0 THEN Min(distances)
      ELSE IF Max(distances) < 0 THEN Max(distances) ELSE 0

\* PointsOrdered on the coordinates of two points.
PointOrder(p, q) ==
  LET hash(r) == r[1] + 127 * r[2] + 1023 * r[3]
  IN  hash(p) * q[4] < hash(q) * p[4]

------------------------------------------------------------------------------
(* The frustums of a light.                                                *)

\* shadowVerts and their projections, shadowIndexes, clipSilEdges with whether some did
\* not fit, indexRef, overflowed, capPlaneBits, and whether common->Error was called.
NoVolume == [verts |-> <<>>, projected |-> <<>>, indexes |-> <<>>, clip |-> <<>>,
             dropped |-> FALSE, refs |-> <<>>, overflowed |-> FALSE, capPlanes |-> {},
             error |-> FALSE]

NoFrustum == [planes |-> <<>>, makeClippedPlanes |-> FALSE]
LightOrigin(parms) == [x \in 1 .. 3 |-> parms.origin[x] + parms.center[x]]

faceCorners ==
  <<<<7, 5, 1, 3>>, <<4, 6, 2, 0>>, <<6, 7, 3, 2>>, <<5, 4, 0, 1>>, <<6, 4, 5, 7>>, <<3, 1, 0, 2>>>>
faceEdgeAdjacent ==
  <<<<4, 4, 2, 2>>, <<7, 7, 1, 1>>, <<5, 5, 0, 0>>, <<6, 6, 3, 3>>, <<0, 0, 3, 3>>, <<5, 5, 6, 6>>>>

BoxCorner(parms, i) ==
  [x \in 1 .. 3 |-> parms.origin[x]
     + IF (i \div 2 ^ (x - 1)) % 2 = 1 THEN parms.radius[x] ELSE -parms.radius[x]]
FaceCorner(parms, side, n) == BoxCorner(parms, faceCorners[side][n])

CenterOutside(parms) == \E x \in 1 .. 3 : Abs(parms.center[x]) > parms.radius[x]
BackPlane(parms, side) ==
  FromPoints(FaceCorner(parms, side, 1), FaceCorner(parms, side, 2), FaceCorner(parms, side, 3))

\* The plane at an edge of a side: through the center of projection, or that of the
\* neighbouring side when the center lies behind it.
EdgePlane(parms, side, edge) ==
  LET p1 == FaceCorner(parms, side, edge)
      p2 == FaceCorner(parms, side, (edge % 4) + 1)
      beside == FromPoints(p2, p1, BoxCorner(parms, faceEdgeAdjacent[side][edge]))
  IN  IF CenterOutside(parms) /\ Distance(beside, PointAt(LightOrigin(parms))) < 0
        THEN beside
        ELSE FromPoints(p2, p1, LightOrigin(parms))

\* The sides of the box that the center of projection is on the right side of.
SidesOf(parms) ==
  SelectSeq(<<1, 2, 3, 4, 5, 6>>,
            LAMBDA side : Distance(BackPlane(parms, side), PointAt(LightOrigin(parms))) >= 0)

\* R_MakeShadowFrustums for a point light: makeClippedPlanes is set where the center
\* is outside, and stays what it was where it is not.
PointFrustums(parms, old) ==
  [n \in 1 .. 6 |->
    IF n > Len(SidesOf(parms)) THEN old[n]
    ELSE LET side == SidesOf(parms)[n] IN
         [planes |-> [edge \in 1 .. 4 |-> EdgePlane(parms, side, edge)]
                     \o <<BackPlane(parms, side), BackPlane(parms, side)>>,
          makeClippedPlanes |-> CenterOutside(parms) \/ old[n].makeClippedPlanes]]

\* And for a projected one: its own planes, turned inward.
ProjectedFrustums(parms, old) ==
  [old EXCEPT ![1] =
    [planes |-> [j \in 1 .. 6 |-> [x \in 1 .. 4 |-> -parms.planes[j][x]]],
     makeClippedPlanes |-> TRUE]]

\* A light is told what it is, and told again, before the first surface is lit.
R_MakeShadowFrustums(parms) ==
  /\ turn = 0 /\ volume = NoVolume
  /\ light' = IF parms.pointLight
       THEN [parms |-> parms, frustums |-> PointFrustums(parms, light.frustums),
             num |-> Len(SidesOf(parms))]
       ELSE [parms |-> parms, frustums |-> ProjectedFrustums(parms, light.frustums), num |-> 1]
  /\ UNCHANGED <<caster, turn, volume, newTri>>

------------------------------------------------------------------------------
(* Clipping.                                                               *)

\* A slip: an edge that was made by an earlier plane is forgotten by a later one.
ChopForgets(winding, plane) ==
  LET n == Len(winding)
      next(i) == (i % n) + 1
      side(i) == Distance(plane, winding[i].at)
      kept(i) == IF side(i) < 0 THEN <<>>
                 ELSE <<[at |-> winding[i].at,
                         made |-> side(i) = 0 /\ side(next(i)) < 0]>>
      split(i) == IF side(i) * side(next(i)) >= 0 THEN <<>>
                  ELSE <<[at |-> SplitPoint(plane, winding[i].at, winding[next(i)].at),
                          made |-> side(next(i)) < 0]>>
  IN  IF \A i \in 1 .. n : side(i) <= 0 THEN <<>>
      ELSE IF \A i \in 1 .. n : side(i) >= 0 THEN winding
      ELSE FlattenSeq([i \in 1 .. n |-> kept(i) \o split(i)])

\* R_ChopWinding: a winding is a sequence of corners, each with the flag of the edge
\* that begins there: made by clipping or not.
R_ChopWinding(winding, plane) ==
  LET n == Len(winding)
      next(i) == (i % n) + 1
      side(i) == Distance(plane, winding[i].at)
      kept(i) == IF side(i) < 0 THEN <<>>
                 ELSE <<[at |-> winding[i].at,
                         made |-> winding[i].made \/ (side(i) = 0 /\ side(next(i)) < 0)]>>
      split(i) == IF side(i) * side(next(i)) >= 0 THEN <<>>
                  ELSE <<[at |-> SplitPoint(plane, winding[i].at, winding[next(i)].at),
                          made |-> winding[i].made \/ side(next(i)) < 0]>>
  IN  IF \A i \in 1 .. n : side(i) <= 0 THEN <<>>
      ELSE IF \A i \in 1 .. n : side(i) >= 0 THEN winding
      ELSE FlattenSeq([i \in 1 .. n |-> kept(i) \o split(i)])

NumVerts(acc) == 2 * Len(acc.verts)

\* R_ClipTriangleToLight: the fan of what is left, and the edges that clipping made.
\* acc.cast says what it returns.
R_ClipTriangleToLight(acc, tri, planeBits, frustum) ==
  LET left == FoldLeftDomain(
                LAMBDA winding, j : IF j \in planeBits /\ winding # <<>>
                                      THEN R_ChopWinding(winding, frustum[j]) ELSE winding,
                [c \in 1 .. 3 |-> [at |-> tri[c], made |-> FALSE]], frustum)
      n == Len(left)
      base == NumVerts(acc)
      fan == FlattenSeq([i \in 1 .. n - 2 |-> <<base + 2 * (i + 1), base + 2 * i, base>>])
      made == SelectSeq([i \in 1 .. n |-> <<base + 2 * (i - 1), base + 2 * (i % n), left[i].made>>],
                        LAMBDA edge : edge[3])
      room == MaxClipSilEdges - Len(acc.clip)
      withVerts == [acc EXCEPT !.verts = @ \o [i \in 1 .. n |-> left[i].at]]
  IN  IF n < 1 THEN [acc EXCEPT !.cast = FALSE]
      ELSE IF base + 2 * n > MaxVolumeVerts
        THEN [acc EXCEPT !.cast = FALSE, !.overflowed = TRUE]
      ELSE IF Len(acc.indexes) + 3 * (n - 2) > MaxVolumeIndexes
        THEN [withVerts EXCEPT !.cast = FALSE, !.overflowed = TRUE]
      ELSE [withVerts EXCEPT
              !.cast = TRUE,
              !.indexes = @ \o fan,
              !.clip = @ \o SubSeq(made, 1, Min({room, Len(made)})),
              !.dropped = @ \/ Len(made) > room]

\* R_ClipLineToLight: the part of a line within a frustum, or <<>>.
R_ClipLineToLight(a, b, frustum) ==
  FoldLeft(LAMBDA line, plane :
             IF line = <<>> THEN line
             ELSE LET d1 == Distance(plane, line[1]) d2 == Distance(plane, line[2]) IN
                  IF d1 >= 0 /\ d2 >= 0 THEN line
                  ELSE IF d1 <= 0 /\ d2 <= 0 THEN <<>>
                  ELSE IF d1 < 0 THEN <<SplitPoint(plane, line[1], line[2]), line[2]>>
                  ELSE <<line[1], SplitPoint(plane, line[1], line[2])>>,
           <<a, b>>, frustum)

------------------------------------------------------------------------------
(* The volume in one frustum.                                              *)

\* R_CalcPointCull: the planes that the point of each vertex is on or outside of, and
\* those that it is on or inside of.
R_CalcPointCull(frustum) ==
  LET front == {j \in 1 .. 6 : PlaneDistance(Range(PosOf), frustum[j]) > 0}
      at(v, j) == Distance(frustum[j], PointAt(PosOf[v]))
  IN  [v \in DOMAIN PosOf |->
        [out |-> {j \in (1 .. 6) \ front : at(v, j) <= 0},
         in |-> front \cup {j \in (1 .. 6) \ front : at(v, j) >= 0}]]

\* A slip: an edge on a plane counts as culled, as the comment at R_CreateShadowVolume has it.
EdgeOnPlaneCulled(cull, e) == \E j \in 1 .. 6 : j \in cull[e.v1].out /\ j \in cull[e.v2].out

TRIANGLE_CULLED(cull, tri) == \E j \in 1 .. 6 : \A c \in 1 .. 3 : j \in cull[tri[c]].out
TRIANGLE_CLIPPED(cull, tri) == \E c \in 1 .. 3 : cull[tri[c]].in # 1 .. 6
EDGE_CULLED(cull, e) == \E j \in 1 .. 6 : j \notin cull[e.v1].in /\ j \notin cull[e.v2].in
EDGE_CLIPPED(cull, e) == cull[e.v1].in # 1 .. 6 \/ cull[e.v2].in # 1 .. 6
POINT_CULLED(cull, v) == cull[v].in # 1 .. 6

\* A vertex of a triangle gets its place among the vertices of the volume.
CopyVert(acc, cull, v) ==
  IF POINT_CULLED(cull, v) \/ acc.remap[v] # -1 THEN acc
  ELSE [acc EXCEPT !.remap[v] = NumVerts(acc), !.verts = Append(@, PointAt(PosOf[v]))]

\* The body of the loop over the triangles: one that casts a shadow is added to the
\* front cap, whole or clipped.
CastTriangle(acc, cull, t, frustum) ==
  LET tri == caster.tris[t]
      copied == FoldLeft(LAMBDA a, v : CopyVert(a, cull, v), acc, tri)
      planeBits == UNION {(1 .. 6) \ cull[tri[c]].in : c \in 1 .. 3}
      clipped == R_ClipTriangleToLight(copied, [c \in 1 .. 3 |-> PointAt(PosOf[tri[c]])],
                                       planeBits, frustum)
  IN  IF acc.stop \/ caster.facing[t] \/ TRIANGLE_CULLED(cull, tri) THEN acc
      ELSE IF NumVerts(acc) + 6 > MaxVolumeVerts
        THEN [acc EXCEPT !.overflowed = TRUE, !.stop = TRUE]
      ELSE IF TRIANGLE_CLIPPED(cull, tri)
        THEN [clipped EXCEPT !.casts = IF clipped.cast THEN @ \cup {t} ELSE @]
      ELSE IF Len(acc.indexes) + 3 > MaxVolumeIndexes
        THEN [copied EXCEPT !.overflowed = TRUE, !.stop = TRUE]
      ELSE [copied EXCEPT !.casts = @ \cup {t},
                          !.error = @ \/ \E c \in 1 .. 3 : copied.remap[tri[c]] = -1,
                          !.indexes = @ \o [c \in 1 .. 3 |-> copied.remap[tri[4 - c]]]]

FrontCap(cull, frustum) ==
  FoldLeftDomain(
    LAMBDA acc, t : CastTriangle(acc, cull, t, frustum),
    [volume EXCEPT !.clip = <<>>]
      @@ [remap |-> [v \in DOMAIN PosOf |-> -1], casts |-> {}, cast |-> FALSE, stop |-> FALSE],
    caster.tris)

\* R_AddClipSilEdges: all of them or none.
R_AddClipSilEdges(acc) ==
  LET quad(e) == Quad(e[1], e[2], FALSE,
                      PointOrder(acc.verts[e[1] \div 2 + 1], acc.verts[e[2] \div 2 + 1]))
  IN  IF Len(acc.indexes) + 6 * Len(acc.clip) > MaxVolumeIndexes
        THEN [acc EXCEPT !.overflowed = TRUE]
        ELSE [acc EXCEPT !.indexes = @ \o FlattenSeq([i \in DOMAIN acc.clip |-> quad(acc.clip[i])])]

\* The body of R_AddSilEdges' loop: the near ends of the edge are those of the
\* triangle, or new ones where the edge is clipped.
AddVolumeSilEdge(acc, cull, e, frustum) ==
  LET line == R_ClipLineToLight(PointAt(PosOf[e.v1]), PointAt(PosOf[e.v2]), frustum)
      clips == EDGE_CLIPPED(cull, e)
      v1 == IF clips THEN NumVerts(acc) ELSE acc.remap[e.v1]
      v2 == IF clips THEN NumVerts(acc) + 2 ELSE acc.remap[e.v2]
      ends == IF clips THEN [acc EXCEPT !.verts = @ \o line] ELSE acc
      point(w) == ends.verts[w \div 2 + 1]
  IN  IF acc.stop \/ acc.error \/ (e.p1 \in acc.casts <=> e.p2 \in acc.casts) THEN acc
      ELSE IF EDGE_CULLED(cull, e) THEN acc
      ELSE IF clips /\ NumVerts(acc) + 4 > MaxVolumeVerts
        THEN [acc EXCEPT !.overflowed = TRUE, !.stop = TRUE]
      ELSE IF clips /\ line = <<>> THEN acc
      ELSE IF v1 < 0 \/ v2 < 0 THEN [acc EXCEPT !.error = TRUE]
      ELSE IF Len(acc.indexes) + 6 > MaxVolumeIndexes
        THEN [ends EXCEPT !.overflowed = TRUE, !.stop = TRUE]
      ELSE [ends EXCEPT !.indexes =
              @ \o Quad(v1, v2, e.p2 \in acc.casts, PointOrder(point(v1), point(v2)))]

AddSides(acc, cull, frustum, makeClippedPlanes) ==
  FoldLeft(LAMBDA a, e : AddVolumeSilEdge(a, cull, e, frustum),
           IF makeClippedPlanes THEN R_AddClipSilEdges(acc) ELSE acc,
           caster.edges)

\* R_ProjectPointsToFarPlane: away from the light onto the far plane.
ProjectPoint(p, farPlane, lightAt) ==
  LET lg == Distance(farPlane, PointAt(lightAt))
      rear == Distance(farPlane, p)
      w == lg * p[4] - rear
  IN  IF w = 0 THEN p
      ELSE Positive([x \in 1 .. 4 |-> IF x = 4 THEN w ELSE lg * p[x] - rear * lightAt[x]])

\* The rear cap is the front cap's projection, turned around.
WithRearCap(cap, first) ==
  [cap EXCEPT !.indexes = @ \o [n \in 1 .. Len(cap.indexes) - first |->
                                 cap.indexes[first + n + 2 - 2 * ((n - 1) % 3)] + 1]]
WithFarEnds(all, farPlane) ==
  [all EXCEPT !.projected = [n \in DOMAIN all.verts |->
    IF n <= Len(volume.verts) THEN volume.projected[n]
    ELSE ProjectPoint(all.verts[n], farPlane, caster.lightAt)]]
WithRefs(all, first, numCap) ==
  [all EXCEPT !.refs = Append(@, [frontCap |-> first, rearCap |-> first + numCap,
                                  sil |-> first + 2 * numCap, end |-> Len(all.indexes)])]
Closed(cap, cull, frustum, makeClippedPlanes) ==
  LET first == Len(volume.indexes)
      numCap == Len(cap.indexes) - first
  IN  IF cap.stop THEN cap
      ELSE IF numCap = 0
        THEN [cap EXCEPT !.projected = [n \in DOMAIN cap.verts |->
                IF n \in DOMAIN volume.projected THEN volume.projected[n] ELSE Nothing]]
      ELSE IF first + 2 * numCap > MaxVolumeIndexes THEN [cap EXCEPT !.overflowed = TRUE]
      ELSE WithRefs(WithFarEnds(AddSides(WithRearCap(cap, first), cull, frustum, makeClippedPlanes),
                                frustum[6]),
                    first, numCap)

\* R_CreateShadowVolumeInFrustum, but for the optimizer of dmap.
R_CreateShadowVolumeInFrustum(frustum, makeClippedPlanes) ==
  LET cull == R_CalcPointCull(frustum)
  IN  Closed(FrontCap(cull, frustum), cull, frustum, makeClippedPlanes)

------------------------------------------------------------------------------
(* The whole volume.                                                       *)

EdgesOfCaster == [tris \in Casters |-> SilEdgesOf(SilIndices(tris, PosOf))]

\* The planes of a frustum in the coordinates of the surface.
LocalPlanes(n) ==
  [j \in 1 .. 6 |-> LET plane == light.frustums[n].planes[j]
                    IN  [plane EXCEPT ![4] = @ + Dot(plane, caster.at)]]

\* R_CreateShadowVolume finds nothing that could cast a shadow.
NothingCasts(tris, at) ==
  LET lightAt == Minus(LightOrigin(light.parms), at) IN
  EdgesOfCaster[tris] = <<>> \/ \A t \in DOMAIN tris : Facing(tris, lightAt)[t]

ReturnsNull(tris, at) ==
  /\ turn = 0 /\ light.num > 0
  /\ NothingCasts(tris, at)
  /\ newTri' = Nothing
  /\ UNCHANGED <<light, caster, turn, volume>>

\* R_CreateShadowVolume up to its loop over the frustums: the statics are reset.
R_CreateShadowVolume(tris, at) ==
  LET lightAt == Minus(LightOrigin(light.parms), at) IN
  /\ turn = 0 /\ light.num > 0
  /\ ~NothingCasts(tris, at)
  /\ caster' = [tris |-> SilIndices(tris, PosOf), edges |-> EdgesOfCaster[tris],
                facing |-> Facing(tris, lightAt), lightAt |-> lightAt, at |-> at]
  /\ volume' = NoVolume
  /\ turn' = 1
  /\ newTri' = Nothing
  /\ UNCHANGED light

Outside(n) == \E j \in 1 .. 6 : PlaneDistance(Range(PosOf), LocalPlanes(n)[j]) < 0

FrustumIsMissed ==
  /\ turn \in 1 .. light.num /\ Outside(turn)
  /\ turn' = turn + 1
  /\ UNCHANGED <<light, caster, volume, newTri>>

Static(acc) == [field \in DOMAIN NoVolume |-> acc[field]]

\* One turn of the loop.  "if we couldn't make a complete shadow volume, it is better to
\* not draw one at all".
ShadowInFrustum ==
  /\ turn \in 1 .. light.num /\ ~Outside(turn)
  /\ \E made \in {Static(R_CreateShadowVolumeInFrustum(LocalPlanes(turn),
                                                       light.frustums[turn].makeClippedPlanes))} :
       IF made.overflowed
         THEN turn' = 0 /\ volume' = made
         ELSE /\ turn' = turn + 1
              /\ volume' = IF Len(made.refs) = Len(volume.refs) THEN made
                           ELSE [made EXCEPT !.capPlanes = @ \cup {turn}]
  /\ UNCHANGED <<light, caster, newTri>>

\* The end of R_CreateShadowVolume: the sides of all frustums, then the rear caps, then
\* the front caps.
PutTogether ==
  LET parts(from, to) ==
        FlattenSeq([i \in DOMAIN volume.refs |->
                     SubSeq(volume.indexes, from[i] + 1, to[i])])
      at(field) == [i \in DOMAIN volume.refs |-> volume.refs[i][field]]
      sides == parts(at("sil"), at("end"))
      rear == parts(at("rearCap"), at("sil"))
      front == parts(at("frontCap"), at("rearCap"))
  IN  [verts |-> volume.verts, projected |-> volume.projected,
       indexes |-> sides \o rear \o front,
       numShadowIndexesNoCaps |-> Len(sides),
       numShadowIndexesNoFrontCaps |-> Len(sides \o rear),
       shadowCapPlaneBits |-> volume.capPlanes]

VolumeIsMade ==
  /\ light.num > 0 /\ turn = light.num + 1
  /\ turn' = 0
  /\ newTri' = IF volume.indexes = <<>> THEN Nothing ELSE PutTogether
  /\ UNCHANGED <<light, caster, volume>>

StencilIdle ==
  /\ light = [parms |-> Nothing, frustums |-> [n \in 1 .. 6 |-> NoFrustum], num |-> 0]
  /\ caster = Nothing /\ turn = 0 /\ volume = NoVolume /\ newTri = Nothing

StencilNext ==
  \/ \E parms \in LightParms : R_MakeShadowFrustums(parms)
  \/ \E tris \in Casters, at \in Spots : ReturnsNull(tris, at) \/ R_CreateShadowVolume(tris, at)
  \/ FrustumIsMissed \/ ShadowInFrustum \/ VolumeIsMade

StencilSpec == StencilIdle /\ [][StencilNext]_stencilVars

------------------------------------------------------------------------------
\* Every frustum of a light makes quads on its clipped edges, or none does: not so for
\* a point light that was something else before (R_MakeShadowFrustums leaves
\* makeClippedPlanes as it finds it).
AllAlike ==
  \A n \in 1 .. light.num : light.frustums[n].makeClippedPlanes <=>
    ~light.parms.pointLight \/ CenterOutside(light.parms)

\* The center of projection lies on a side of the box, for R_MakeShadowFrustums neither
\* outside nor on the wrong side: that side's frustum is flat.
CenterOnSide ==
  light.parms.pointLight /\ \E x \in 1 .. 3 : Abs(light.parms.center[x]) = light.parms.radius[x]

\* The edges of the triangles of a volume, from point to point.
DirectedEdges(tri) ==
  LET spot(w) == IF w % 2 = 0 THEN tri.verts[w \div 2 + 1] ELSE tri.projected[w \div 2 + 1]
      after(n) == IF n % 3 = 0 THEN n - 2 ELSE n + 1
  IN  [n \in DOMAIN tri.indexes |-> <<spot(tri.indexes[n]), spot(tri.indexes[after(n)])>>]

\* "It is crucial that the shadow volumes be completely enclosed": over all frustums
\* together, each edge of a volume runs as often one way as the other, wherever the
\* surface lies to the frustums and whether it is closed itself or not; and no index is
\* ever asked of remap that it does not have.  Nothing is said where clipSilEdges was
\* full, from which edges are left out without a word, nor of a light with frustums of
\* both kinds or with a flat one.
VolumeEnclosed ==
  /\ ~volume.error
  /\ newTri # Nothing /\ ~volume.dropped /\ AllAlike /\ ~CenterOnSide =>
       LET edges == DirectedEdges(newTri)
           times(a, b) == Cardinality({n \in DOMAIN edges : edges[n] = <<a, b>>})
       IN  \A n \in DOMAIN edges : times(edges[n][1], edges[n][2]) = times(edges[n][2], edges[n][1])
==============================================================================
