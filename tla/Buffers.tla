------------------------------- MODULE Buffers -------------------------------
(***************************************************************************)
(* The GL buffers of surfaces: who generates them, who deletes them, and   *)
(* whether what is drawn from them is what the surface is.                 *)
(*                                                                         *)
(* A surface is a srfTriangles_t.  Its vertices and indices are known by   *)
(* the number of times they were written, and a buffer by what was last    *)
(* uploaded to it.  GL gives names of buffers out again.                   *)
(***************************************************************************)
EXTENDS Naturals, FiniteSets

CONSTANTS
  Planes,      \* surfaces of the class Plane, whose buffers come late
  Others,      \* those of sprites, boxes, models, animated models and shadows
  BufferNames,       \* the names of buffers that GL gives out
  Free,        \* what a name stands for that is not in use
  MaxBufferCalls \* bound: how many calls are made

Surfaces == Planes \cup Others
Content == [kind : {"verts", "indices"}, of : Surfaces, version : Nat]

ASSUME BufferNamesAssumption == 0 \notin BufferNames
ASSUME FreeAssumption == Free \notin Content
ASSUME KindsAssumption == Planes \cap Others = {}

VARIABLES
  geometry,    \* per surface: how often it was written, 0 before it is made
  vbo0, vbo1,  \* vbo[0] and vbo[1] of each surface
  buffers,     \* GL: what each name stands for
  surfaces,    \* _surfaces, the surfaces that are drawn
  unset,       \* history: planes written since their buffers were filled
  generated,   \* history: calls of R_GenerateGeometryVbo
  bufferCalls  \* calls so far

bufferVars == <<geometry, vbo0, vbo1, buffers, surfaces, unset, generated, bufferCalls>>

\* R_AllocStaticTriSurf clears the whole of a surface.
BufferInit ==
  /\ geometry = [s \in Surfaces |-> 0]
  /\ vbo0 = [s \in Surfaces |-> 0]
  /\ vbo1 = [s \in Surfaces |-> 0]
  /\ buffers = [n \in BufferNames |-> Free]
  /\ surfaces = {} /\ unset = {} /\ generated = 0 /\ bufferCalls = 0

------------------------------------------------------------------------------
\* A slip to test the properties with: nothing is deleted.
DeletedNone(s) == {}

\* What R_GenerateGeometryVbo deletes: vbo[0], once for vbo[0] and once more for
\* vbo[1].  GL passes over a name that is not in use.
Deleted(s) ==
  (IF vbo0[s] # 0 THEN {vbo0[s]} ELSE {}) \cup (IF vbo1[s] # 0 THEN {vbo0[s]} ELSE {})

\* What a surface's two buffers are filled with.
Verts(s, version) == [kind |-> "verts", of |-> s, version |-> version]
Indices(s, version) == [kind |-> "indices", of |-> s, version |-> version]

\* The buffers when names a and b were generated for a surface and filled.
Upload(s, version, a, b) ==
  [n \in BufferNames |->
    IF n = a THEN Verts(s, version)
    ELSE IF n = b THEN Indices(s, version)
    ELSE IF n \in Deleted(s) THEN Free ELSE buffers[n]]

\* R_GenerateGeometryVbo, with glGenBuffers giving out any two names not in use.
R_GenerateGeometryVbo(s, version) ==
  \E a, b \in {n \in BufferNames : buffers[n] = Free \/ n \in Deleted(s)} :
    /\ a # b
    /\ buffers' = Upload(s, version, a, b)
    /\ vbo0' = [vbo0 EXCEPT ![s] = a]
    /\ vbo1' = [vbo1 EXCEPT ![s] = b]
    /\ unset' = unset \ {s}
    /\ generated' = generated + 1

Call == bufferCalls < MaxBufferCalls /\ bufferCalls' = bufferCalls + 1
Exists(s) == geometry[s] # 0

\* A slip: buffers are filled only when there are none yet.
SetupVBOOnce(s) ==
  /\ Call
  /\ s \in Others
  /\ geometry' = [geometry EXCEPT ![s] = @ + 1]
  /\ IF vbo0[s] = 0 THEN R_GenerateGeometryVbo(s, geometry[s] + 1)
     ELSE UNCHANGED <<vbo0, vbo1, buffers, unset, generated>>
  /\ UNCHANGED surfaces

\* A surface is made or written, and its buffers are filled in the same call: a sprite
\* (BufferInit, UpdateVertex), a box, a model or an animated one (SetFile), a frame of an
\* animation, a shadow.
SetupVBO(s) ==
  /\ Call
  /\ s \in Others
  /\ geometry' = [geometry EXCEPT ![s] = @ + 1]
  /\ R_GenerateGeometryVbo(s, geometry[s] + 1)
  /\ UNCHANGED surfaces

\* Plane's constructor only writes the vertices.
NewPlane(s) ==
  /\ Call
  /\ s \in Planes /\ ~Exists(s)
  /\ geometry' = [geometry EXCEPT ![s] = 1]
  /\ UNCHANGED <<vbo0, vbo1, buffers, surfaces, unset, generated>>

\* SetTextureUV writes the coordinates into the vertices, and does not upload them.
SetTextureUV(s) ==
  /\ Call
  /\ s \in Planes /\ Exists(s)
  /\ geometry' = [geometry EXCEPT ![s] = @ + 1]
  /\ unset' = IF vbo0[s] = 0 THEN unset ELSE unset \cup {s}
  /\ UNCHANGED <<vbo0, vbo1, buffers, surfaces, generated>>

\* Render::UpdateVbo
UpdateVbo(s) ==
  /\ Call
  /\ Exists(s)
  /\ R_GenerateGeometryVbo(s, geometry[s])
  /\ UNCHANGED <<geometry, surfaces>>

\* AddDrawSur: a surface that has no buffers yet gets them, and one with a material
\* and a camera is drawn from then on.
AddDrawSur(s) ==
  /\ Call
  /\ Exists(s)
  /\ IF vbo0[s] = 0 THEN R_GenerateGeometryVbo(s, geometry[s])
     ELSE UNCHANGED <<vbo0, vbo1, buffers, unset, generated>>
  /\ \E hasAll \in BOOLEAN : surfaces' = IF hasAll THEN surfaces \cup {s} ELSE surfaces
  /\ UNCHANGED geometry

\* FrameUpdate draws, and changes nothing here.
FrameUpdate == UNCHANGED bufferVars

BufferNext ==
  \/ \E s \in Surfaces :
       \/ SetupVBO(s) \/ NewPlane(s) \/ SetTextureUV(s) \/ UpdateVbo(s) \/ AddDrawSur(s)
  \/ FrameUpdate

BufferSpec == BufferInit /\ [][BufferNext]_bufferVars

------------------------------------------------------------------------------
\* The shape of the state.
BufferTypeOK ==
  /\ geometry \in [Surfaces -> Nat]
  /\ vbo0 \in [Surfaces -> BufferNames \cup {0}]
  /\ vbo1 \in [Surfaces -> BufferNames \cup {0}]
  /\ buffers \in [BufferNames -> Content \cup {Free}]
  /\ surfaces \subseteq Surfaces /\ unset \subseteq Planes
  /\ generated \in Nat /\ bufferCalls \in Nat

\* Each surface that has buffers has two of its own, filled in the same call: the
\* deletions of vbo[0] never take a buffer from it or from another surface that got
\* the deleted name since.
OwnBuffers ==
  \A s \in Surfaces :
    /\ vbo0[s] = 0 <=> vbo1[s] = 0
    /\ vbo0[s] # 0 =>
         \E version \in 1 .. geometry[s] :
           /\ buffers[vbo0[s]] = Verts(s, version)
           /\ buffers[vbo1[s]] = Indices(s, version)

\* A surface that is drawn is drawn as it was last written, from both buffers; only
\* a plane whose texture coordinates were set after AddDrawSur waits for UpdateVbo.
DrawnIsCurrent ==
  \A s \in surfaces :
    /\ vbo0[s] # 0
    /\ s \notin unset =>
         /\ buffers[vbo0[s]] = Verts(s, geometry[s])
         /\ buffers[vbo1[s]] = Indices(s, geometry[s])

\* Every call of R_GenerateGeometryVbo for a surface that has buffers leaves its old
\* vbo[1] behind, in use and nobody's, and nothing else is ever left behind.
LeakIsExact ==
  LET inUse == {n \in BufferNames : buffers[n] # Free}
      owners == {s \in Surfaces : vbo0[s] # 0}
  IN  Cardinality(inUse) = Cardinality(owners) + generated
==============================================================================
