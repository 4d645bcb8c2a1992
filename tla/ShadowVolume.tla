---------------------------- MODULE ShadowVolume -----------------------------
(***************************************************************************)
(* The shadow volumes of Interaction.cpp: CreateInteraction collects the   *)
(* triangles of a surface that face the light into a cap, adds a quad from *)
(* every silhouette edge to its projection, and copies the result into the *)
(* shadowTris of the interaction.  It collects into file-scope statics,    *)
(* some of which live on from one call to the next.                        *)
(*                                                                         *)
(* The silhouette edges of a surface (tr_trisurf.cpp) come first: every    *)
(* edge of every triangle is entered once, and an edge that comes back in  *)
(* the other direction is joined to it.  Edges are found by scanning all   *)
(* edges entered so far.                                                   *)
(*                                                                         *)
(* A surface is a sequence of triangles, a triangle a triple of vertices.  *)
(* Triangles (the planes of the code) are numbered from 1, and the number  *)
(* behind the last one stands for no triangle on the other side.           *)
(*                                                                         *)
(* A vertex index of a volume is kept as in the code: 2*k is the k-th      *)
(* vertex collected and 2*k+1 its projection away from the light.  Where a *)
(* face lies and which way it faces is computed on integer coordinates.    *)
(***************************************************************************)
EXTENDS Integers, Sequences, FiniteSets, SequencesExt

CONSTANTS
  MaxSilEdges,      \* MAX_SIL_EDGES
  Surfaces, Interactions,
  Scenes,           \* the surfaces there may be and what they look like: sequences
                    \* of triangles
  PosOf,            \* the coordinates of each vertex
  Lights,           \* the positions of the light, in the coordinates of a surface
  MaxShadowIndexes, \* MAX_SHADOW_INDEXES
  MaxShadowVerts,   \* MAX_SHADOW_VERTS
  Nothing           \* not computed yet

ASSUME MaxSilEdgesAssumption == MaxSilEdges \in Nat
ASSUME PosOfAssumption == PosOf \in Seq([1 .. 3 -> Int])
ASSUME ScenesAssumption ==
  \A scene \in Scenes :
    /\ scene = [s \in DOMAIN scene |-> scene[s]]
    /\ DOMAIN scene \subseteq Surfaces
    /\ \A s \in DOMAIN scene : scene[s] \in Seq([1 .. 3 -> DOMAIN PosOf])

-----------------------------------------------------------------------------
(* Silhouette edges.                                                       *)

Corner(c) == (c % 3) + 1

\* The edges of a surface in the order in which they are entered.
EdgesOf(tris) ==
  [n \in 1 .. 3 * Len(tris) |->
    LET t == (n + 2) \div 3
        c == ((n - 1) % 3) + 1
    IN  [v1 |-> tris[t][c], v2 |-> tris[t][Corner(c)], plane |-> t]]

Reversed(e, f) == e.v1 = f.v2 /\ e.v2 = f.v1

\* A slip to test the properties with: an edge that has its other side is joined
\* once more.
DefineEdgeThrice(edges, e, noPlane) ==
  LET matching == {i \in DOMAIN edges : Reversed(edges[i], e)}
  IN  IF e.v1 = e.v2 THEN edges
      ELSE IF matching # {} THEN [edges EXCEPT ![Min(matching)].p2 = e.plane]
      ELSE IF Len(edges) = MaxSilEdges THEN edges
      ELSE Append(edges, [v1 |-> e.v1, v2 |-> e.v2, p1 |-> e.plane, p2 |-> noPlane])

\* R_DefineEdge: an edge without extent is dropped, an edge that runs back along
\* one whose other side is open becomes that other side, and any other edge is
\* entered, as long as there is room.
DefineEdge(edges, e, noPlane) ==
  LET matching == {i \in DOMAIN edges : Reversed(edges[i], e) /\ edges[i].p2 = noPlane}
  IN  IF e.v1 = e.v2 THEN edges
      ELSE IF matching # {} THEN [edges EXCEPT ![Min(matching)].p2 = e.plane]
      ELSE IF Len(edges) = MaxSilEdges THEN edges
      ELSE Append(edges, [v1 |-> e.v1, v2 |-> e.v2, p1 |-> e.plane, p2 |-> noPlane])

\* SilEdgeSort
SilEdgeSort(e, f) == e.p1 < f.p1 \/ (e.p1 = f.p1 /\ e.p2 < f.p2)

NoPlane(tris) == Len(tris) + 1

\* The loop of R_IdentifySilEdges over all edges.
Entered(tris) ==
  LET edges == EdgesOf(tris)
      entered[n \in 0 .. Len(edges)] ==
        IF n = 0 THEN <<>> ELSE DefineEdge(entered[n - 1], edges[n], NoPlane(tris))
  IN  entered[Len(edges)]

\* qsort with SilEdgeSort: the place of an edge is how many come before it.
Sorted(edges) ==
  LET before(i, j) == \/ SilEdgeSort(edges[i], edges[j])
                      \/ ~SilEdgeSort(edges[j], edges[i]) /\ i < j
      place == [i \in DOMAIN edges |-> Cardinality({j \in DOMAIN edges : before(j, i)}) + 1]
  IN  [k \in DOMAIN edges |-> edges[CHOOSE i \in DOMAIN edges : place[i] = k]]

\* R_IdentifySilEdges
SilEdgesOf(tris) == Sorted(Entered(tris))

PerfectHull(tris, edges) == \A i \in DOMAIN edges : edges[i].p2 # NoPlane(tris)

\* R_CreateSilIndice: a vertex is replaced by the first one at the same place.
SilIndices(tris, posOf) ==
  LET first(v) == Min({w \in DOMAIN posOf : posOf[w] = posOf[v]})
  IN  [t \in DOMAIN tris |-> [c \in 1 .. 3 |-> first(tris[t][c])]]

-----------------------------------------------------------------------------
(* Volumes.                                                                *)

VARIABLES
  indices,       \* per surface: its triangles
  silIndices,    \* per surface: its triangles after R_CreateSilIndice
  silEdges,      \* per surface: its edges after R_IdentifySilEdges
  perfectHull,   \* per surface
  calcShadow,    \* per surface: a volume was made of it
  shadowIndices, \* static: shadowIndices up to numShadowIndices
  cSils,         \* static: c_sils
  overflowed,    \* static
  shadowTris,    \* per interaction: its volume
  madeFrom       \* history: per interaction, how its volume came about

vars == <<indices, silIndices, silEdges, perfectHull, calcShadow, shadowIndices,
          cSils, overflowed, shadowTris, madeFrom>>

EmptyVolume == [numVerts |-> 0, indices |-> <<>>, numCap |-> 0, numSil |-> 0]

Init ==
  /\ indices \in Scenes
  /\ silIndices = [s \in Surfaces |-> Nothing]
  /\ silEdges = [s \in Surfaces |-> Nothing]
  /\ perfectHull = [s \in Surfaces |-> FALSE]
  /\ calcShadow = [s \in Surfaces |-> FALSE]
  /\ shadowIndices = <<>>
  /\ cSils = 0
  /\ overflowed = FALSE
  /\ shadowTris = [i \in Interactions |-> EmptyVolume]
  /\ madeFrom = [i \in Interactions |-> Nothing]

------------------------------------------------------------------------------
Minus(a, b) == [x \in 1 .. 3 |-> a[x] - b[x]]
Dot(a, b) == a[1] * b[1] + a[2] * b[2] + a[3] * b[3]
Cross(a, b) ==
  <<a[2] * b[3] - a[3] * b[2], a[3] * b[1] - a[1] * b[3], a[1] * b[2] - a[2] * b[1]>>

\* A slip: an edge without a triangle on its other side counts as facing there.
FacingOpenDark(tris, light) ==
  [t \in 1 .. Len(tris) + 1 |->
    IF t > Len(tris) THEN FALSE
    ELSE LET a == PosOf[tris[t][1]]
             normal == Cross(Minus(PosOf[tris[t][3]], a), Minus(PosOf[tris[t][2]], a))
         IN  Dot(normal, Minus(light, a)) > 0]

\* facing[]: which side of the plane of R_DeriveFacePlanes the light is on; "for
\* dangling edges to reference", the number behind the last triangle is set.
Facing(tris, light) ==
  [t \in 1 .. Len(tris) + 1 |->
    t > Len(tris)
    \/ LET a == PosOf[tris[t][1]]
           normal == Cross(Minus(PosOf[tris[t][3]], a), Minus(PosOf[tris[t][2]], a))
       IN  Dot(normal, Minus(light, a)) > 0]

\* remap[v]: the index of vertex v in the volume.
Remap(verts, v) == 2 * ((CHOOSE k \in DOMAIN verts : verts[k] = v) - 1)

\* The vertices collected so far, with those of a triangle that are new.
With(verts, v) == IF v \in ToSet(verts) THEN verts ELSE Append(verts, v)
Collect(verts, tri) == With(With(With(verts, tri[1]), tri[2]), tri[3])

\* The loop over the triangles: those turned to the light, back to front.  Its
\* two overflow checks end the call.
CapStep(acc, tri, facing) ==
  IF acc.stop \/ facing THEN acc
  ELSE IF 2 * Len(acc.verts) + 6 > MaxShadowVerts THEN [acc EXCEPT !.stop = TRUE]
  ELSE LET verts == Collect(acc.verts, tri) IN
       IF Len(acc.indices) + 3 > MaxShadowIndexes
         THEN [acc EXCEPT !.verts = verts, !.stop = TRUE]
         ELSE [verts |-> verts, stop |-> FALSE,
               indices |-> acc.indices \o
                 [c \in 1 .. 3 |-> Remap(verts, tri[4 - c])]]

Cap(silTris, facing) ==
  LET cap[t \in 0 .. Len(silTris)] ==
        IF t = 0 THEN [verts |-> <<>>, indices |-> shadowIndices, stop |-> FALSE]
        ELSE CapStep(cap[t - 1], silTris[t], facing[t])
  IN  cap[Len(silTris)]

\* PointsOrdered on the positions of two vertices.
PointHash(v) == PosOf[v][1] + 127 * PosOf[v][2] + 1023 * PosOf[v][3]
PointsOrdered(v, w) == PointHash(v) < PointHash(w)

\* The two triangles of the quad over an edge, near vertices v1 and v2.
Quad(v1, v2, outward, ordered) ==
  IF outward
    THEN IF ordered THEN <<v1, v1 + 1, v2, v2, v1 + 1, v2 + 1>>
                    ELSE <<v1, v2 + 1, v2, v1, v1 + 1, v2 + 1>>
    ELSE IF ordered THEN <<v1, v2, v1 + 1, v2, v2 + 1, v1 + 1>>
                    ELSE <<v1, v2, v2 + 1, v1, v2 + 1, v1 + 1>>

\* The body of R_AddSilEdges' loop.  Its overflow check leaves the rest out.
AddSilEdge(acc, e, verts, facing) ==
  IF acc.stop \/ facing[e.p1] = facing[e.p2] THEN acc
  ELSE IF Len(acc.indices) + 6 > MaxShadowIndexes THEN [acc EXCEPT !.stop = TRUE]
  ELSE IF {e.v1, e.v2} \subseteq ToSet(verts)
    THEN [acc EXCEPT !.indices = @ \o
            Quad(Remap(verts, e.v1), Remap(verts, e.v2), facing[e.p2],
                 PointsOrdered(e.v1, e.v2))]
    ELSE acc

R_AddSilEdges(edges, cap, facing) ==
  LET added[n \in 0 .. Len(edges)] ==
        IF n = 0 THEN [indices |-> cap.indices, stop |-> FALSE]
        ELSE AddSilEdge(added[n - 1], edges[n], cap.verts, facing)
  IN  added[Len(edges)]

------------------------------------------------------------------------------
R_CreateSilIndice(s) ==
  /\ silIndices' = [silIndices EXCEPT ![s] = SilIndices(indices[s], PosOf)]
  /\ UNCHANGED <<indices, silEdges, perfectHull, calcShadow, shadowIndices, cSils,
                 overflowed, shadowTris, madeFrom>>

R_IdentifySilEdges(s) ==
  /\ silIndices[s] # Nothing
  /\ silEdges' = [silEdges EXCEPT ![s] = SilEdgesOf(silIndices[s])]
  /\ perfectHull' =
       [perfectHull EXCEPT ![s] = PerfectHull(silIndices[s], silEdges'[s])]
  /\ UNCHANGED <<indices, silIndices, calcShadow, shadowIndices, cSils,
                 overflowed, shadowTris, madeFrom>>

\* CreateInteraction comes back at once for a surface that has a volume.
HasShadow(s) ==
  /\ calcShadow[s]
  /\ UNCHANGED vars

\* CreateInteraction when the cap overflows: it returns with what it has collected
\* still in the statics.
CapOverflows(s, light) ==
  LET cap == Cap(silIndices[s], Facing(indices[s], light)) IN
  /\ ~calcShadow[s] /\ silEdges[s] # Nothing
  /\ cap.stop
  /\ shadowIndices' = cap.indices
  /\ overflowed' = TRUE
  /\ UNCHANGED <<indices, silIndices, silEdges, perfectHull, calcShadow, cSils,
                 shadowTris, madeFrom>>

CreateInteraction(i, s, light) ==
  LET facing == Facing(indices[s], light)
      cap == Cap(silIndices[s], facing)
      all == R_AddSilEdges(silEdges[s], cap, facing)
  IN
  /\ ~calcShadow[s] /\ silEdges[s] # Nothing
  /\ ~cap.stop
  /\ shadowIndices' = all.indices
  /\ overflowed' = (overflowed \/ all.stop)
  /\ cSils' = cSils + Len(all.indices) - Len(cap.indices)
  /\ shadowTris' = [shadowTris EXCEPT ![i] =
       [numVerts |-> 2 * Len(cap.verts), indices |-> all.indices,
        numCap |-> Len(cap.indices), numSil |-> cSils']]
  /\ calcShadow' = [calcShadow EXCEPT ![s] = TRUE]
  /\ madeFrom' = [madeFrom EXCEPT ![i] =
       [surface |-> s, verts |-> cap.verts, lit |-> {t \in DOMAIN indices[s] : ~facing[t]},
        carried |-> Len(shadowIndices), cut |-> all.stop,
        full |-> Len(silEdges[s]) >= MaxSilEdges]]
  /\ UNCHANGED <<indices, silIndices, silEdges, perfectHull>>

Next ==
  \/ \E s \in DOMAIN indices : R_CreateSilIndice(s) \/ R_IdentifySilEdges(s) \/ HasShadow(s)
  \/ \E s \in DOMAIN indices, light \in Lights :
       \/ CapOverflows(s, light)
       \/ \E i \in Interactions : CreateInteraction(i, s, light)

Spec == Init /\ [][Next]_vars

------------------------------------------------------------------------------
Volumes == {i \in Interactions : madeFrom[i] # Nothing}

\* The shape of the state, and the room in the static arrays: no index is ever
\* written behind the end of shadowIndices (the overflow checks of CreateInteraction
\* and R_AddSilEdges).
TypeOK ==
  /\ \A s \in Surfaces : perfectHull[s] \in BOOLEAN /\ calcShadow[s] \in BOOLEAN
  /\ \A s \in Surfaces : silEdges[s] # Nothing => silIndices[s] # Nothing
  /\ Len(shadowIndices) <= MaxShadowIndexes
  /\ \A n \in DOMAIN shadowIndices : shadowIndices[n] \in 0 .. MaxShadowVerts - 1
  /\ cSils \in Nat /\ overflowed \in BOOLEAN
  /\ \A i \in Interactions : shadowTris[i].numVerts \in 0 .. MaxShadowVerts

\* R_IdentifySilEdges calls a surface a perfect hull exactly when every edge runs as
\* often one way as the other, in whatever order the triangles come and however
\* often an edge is doubled or tripled (the greedy joining of R_DefineEdge), unless the
\* array of edges is full, from which edges are left out.
HullIffEdgesMatch ==
  \A s \in Surfaces : silEdges[s] # Nothing /\ Len(silEdges[s]) < MaxSilEdges =>
    LET edges == EdgesOf(silIndices[s])
        count(v, w) == Cardinality({n \in DOMAIN edges : edges[n].v1 = v /\ edges[n].v2 = w})
    IN  perfectHull[s] <=> \A v, w \in DOMAIN PosOf : count(v, w) = count(w, v)

\* The part of a volume that its own call made.
OwnIndices(i) ==
  SubSeq(shadowTris[i].indices, madeFrom[i].carried + 1, Len(shadowTris[i].indices))

\* The two ends of the n-th edge of some triangles.
Ends(own, n) == {own[n], own[IF n % 3 = 0 THEN n - 2 ELSE n + 1]}

\* How often some triangles have an edge between a and b.
EdgeUses(own, a, b) == Cardinality({n \in DOMAIN own : Ends(own, n) = {a, b}})

\* The diagonals of a volume's quads, from the near vertex to the far one, and the edges
\* from a vertex to its own projection.
Diagonals(i) ==
  LET own == OwnIndices(i)
      vertAt(x) == madeFrom[i].verts[(x \div 2) + 1]
  IN  UNION {{<<vertAt(x), vertAt(y)>> : x \in {z \in Ends(own, n) : z % 2 = 0},
                                         y \in {z \in Ends(own, n) : z % 2 = 1}} :
             n \in DOMAIN own}

\* "when the same two points are passed in (in either order), they will always
\* specify the same one as leading": two quads over the same two points are cut
\* along the same diagonal, in whatever surfaces and directions the edges are, as
\* long as PointsOrdered tells the points apart.
SameDiagonal ==
  \A i, j \in Volumes : \A d \in Diagonals(i), e \in Diagonals(j) :
    d[1] # d[2] /\ PointHash(d[1]) # PointHash(d[2]) =>
      ~(PosOf[d[1]] = PosOf[e[2]] /\ PosOf[d[2]] = PosOf[e[1]])

\* The sides of a volume close its cap: every edge that has an end on the surface is
\* shared by an even number of the volume's triangles, for hulls, for surfaces with
\* holes, and for edges with three triangles (R_DefineEdge's joining, facing[] of a
\* dangling edge, and the quads of R_AddSilEdges have to fit together).  And they
\* refer to the vertices of their own call, also where the sides were cut short or the
\* array of edges was full.  Sides of two volumes that coincide are cut alike.
SidesCloseCap ==
  /\ \A i \in Volumes :
       /\ \A n \in DOMAIN OwnIndices(i) : OwnIndices(i)[n] < shadowTris[i].numVerts
       /\ ~madeFrom[i].cut /\ ~madeFrom[i].full =>
            \A a, b \in 0 .. shadowTris[i].numVerts - 1 :
              a # b /\ a % 2 = 0 => EdgeUses(OwnIndices(i), a, b) % 2 = 0
  /\ SameDiagonal

\* "instead of overflowing or drawing a streamer shadow, don't draw a shadow at
\* all": no volume is handed out that lacks some of its sides (CreateInteraction
\* returns on an overflow of the cap, but R_AddSilEdges returns to it and goes on).
OverflowDrawsNothing == \A i \in Volumes : ~madeFrom[i].cut

\* "Interactions with no lightTris and no shadowTris are still valid, because they
\* show that a given entityDef / lightDef do not interact": a surface none of whose
\* triangles is turned to the light gives an interaction without shadowTris.
NoInteractionNoTris ==
  \A i \in Volumes : madeFrom[i].lit = {} => shadowTris[i].indices = <<>>
==============================================================================
