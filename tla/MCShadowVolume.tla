--------------------------- MODULE MCShadowVolume ----------------------------
(***************************************************************************)
(* Surfaces on the corners of a tetrahedron, whose top is two vertices at  *)
(* the same place (4 and 5), the way a texture seam leaves them.           *)
(***************************************************************************)
EXTENDS StencilShadow

CONSTANTS s1, s2,
          Parts   \* whose volumes: those of "interaction" or of "stencil"

MCPosOf == <<<<0, 0, 0>>, <<2, 0, 0>>, <<0, 2, 0>>, <<0, 0, 2>>, <<0, 0, 2>>>>

Outward == {<<1, 3, 2>>, <<1, 2, 4>>, <<2, 3, 5>>, <<3, 1, 4>>}
Inward == {<<2, 3, 1>>, <<4, 2, 1>>, <<5, 3, 2>>, <<4, 1, 3>>}
Seam == <<2, 5, 4>>

\* Up to four triangles of any orientation in any order, and of up to three the same one again:
\* closed hulls, holes, edges with three triangles and triangles without extent.
Triangles == Outward \cup Inward \cup {Seam}
AllMeshes == UNION {[1 .. n -> Triangles] : n \in 0 .. 3} \cup {m \in [1 .. 4 -> Triangles] : IsInjective(m)}

\* A hull, the hull without its bottom, a single triangle and its back.
FewMeshes == {<<<<1, 3, 2>>, <<1, 2, 4>>, <<2, 3, 5>>, <<3, 1, 4>>>>,
              <<<<3, 1, 4>>, <<2, 3, 5>>, <<1, 2, 4>>>>,
              <<<<1, 2, 4>>>>, <<<<4, 2, 1>>>>}

\* One and the same triangle, whose sides alone nearly fill the arrays.
Crowd == [n \in 1 .. 3 |-> <<4, 2, 1>>]

\* One surface of any kind; or two, where the second call finds what the first
\* has left in the statics.
FewScenes == [{s1, s2} -> FewMeshes]
MCScenes == [{s1} -> AllMeshes] \cup [{s1, s2} -> FewMeshes \cup {Crowd}]

MCLights == {<<5, 5, 5>>, <<1, 1, -4>>, <<0, -3, 1>>}
FewLights == {<<5, 5, 5>>, <<0, -3, 1>>}

-----------------------------------------------------------------------------
(* The volumes of tr_stencilshadow.cpp: the same tetrahedron with and      *)
(* without its bottom, single and doubled triangles and two with a seam,   *)
(* put inside the frustums of a light, across their planes and corners,    *)
(* along a plane, around the light, and half and wholly outside; in the    *)
(* light of a point light, whose center is in the middle of its box, off   *)
(* it, outside and on a side, and of a projected one.                      *)

Hull == <<<<1, 3, 2>>, <<1, 2, 4>>, <<2, 3, 5>>, <<3, 1, 4>>>>
MCCasters == {Hull, Tail(Hull), <<<<1, 2, 4>>>>, <<<<4, 2, 1>>>>, <<<<4, 2, 1>>, <<4, 2, 1>>>>,
              <<<<2, 3, 5>>, <<3, 1, 4>>, Seam>>, <<>>}
MCSpots == {<<1, 1, 1>>, <<2, -1, -1>>, <<3, -1, -1>>, <<-1, -1, -1>>, <<0, 0, 1>>,
            <<-3, 1, -2>>, <<2, 0, 0>>}

PointLight(center) ==
  [pointLight |-> TRUE, origin |-> <<0, 0, 0>>, radius |-> <<4, 4, 4>>, center |-> center,
   planes |-> <<>>]
Projected ==
  [pointLight |-> FALSE, origin |-> <<0, 0, 0>>, radius |-> <<4, 4, 4>>, center |-> <<0, 0, 0>>,
   planes |-> <<<<-1, -1, 0, 0>>, <<-1, 1, 0, 0>>, <<-1, 0, -1, 0>>, <<-1, 0, 1, 0>>,
                <<-1, 0, 0, 1>>, <<1, 0, 0, -4>>>>]
MCLightParms ==
  {PointLight(c) : c \in {<<0, 0, 0>>, <<1, 0, -1>>, <<5, 0, 0>>, <<5, -6, 0>>, <<4, 0, 0>>}}
  \cup {Projected}

VARIABLE part
shadowVars == <<vars, stencilVars, part>>

ShadowInit ==
  /\ part \in Parts
  /\ Init /\ StencilIdle
  /\ part = "stencil" => indices = [s \in {s1} |-> <<>>]
ShadowNext ==
  /\ UNCHANGED part
  /\ \/ part = "interaction" /\ Next /\ UNCHANGED stencilVars
     \/ part = "stencil" /\ StencilNext /\ UNCHANGED vars
ShadowSpec == ShadowInit /\ [][ShadowNext]_shadowVars
==============================================================================
