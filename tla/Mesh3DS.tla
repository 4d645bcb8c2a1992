------------------------------- MODULE Mesh3DS -------------------------------
(***************************************************************************)
(* LoadMesh3DS: one pass over the chunks of a .3ds file.  The chunks that  *)
(* hold others are entered, those that it does not know are passed over    *)
(* by their length, and one surface takes what all meshes of the file have.*)
(*                                                                         *)
(* Everything is counted in units of two bytes: a chunk is its identifier, *)
(* its length in two units, its own data and the chunks in it.  A vector   *)
(* is six units, of which the first stands for it.                         *)
(***************************************************************************)
EXTENDS Integers, Sequences, SequencesExt, FiniteSets, FiniteSetsExt

CONSTANTS
  Files3DS,    \* the files: [tree |-> the chunks, units |-> what is there of them,
               \*             whole |-> whether that is all]
  Garbage3DS   \* what a read behind the end of the file may leave

MAINCHUNK_3DS == 19789    MASHDATA_3DS == 15677     OBJNAME_3DS == 16384
MESH_DATA_3DS == 16640    VERTEX_DATA_3DS == 16656  INDEX_DATA_3DS == 16672
TEXMAP_DATA_3DS == 16704
Containers == {MAINCHUNK_3DS, MASHDATA_3DS, MESH_DATA_3DS}
Known == Containers \cup {OBJNAME_3DS, VERTEX_DATA_3DS, INDEX_DATA_3DS, TEXMAP_DATA_3DS}

\* The units of a tree of chunks.
RECURSIVE Encode3DS(_)
Encode3DS(c) ==
  LET body == c.data \o FlattenSeq([k \in DOMAIN c.kids |-> Encode3DS(c.kids[k])])
  IN  <<c.tag, Len(body) + 3, 0>> \o body

VARIABLES
  file3,    \* the file
  pc3,      \* "idle", "open", "reading", "loaded", "null", or "crashed" (or without end)
  pos3,     \* file->Tell()
  geo       \* the surface: numVerts, the verts' xyz and st, and indices

vars3 == <<file3, pc3, pos3, geo>>

NoGeo == [numVerts |-> 0, xyz |-> <<>>, st |-> <<>>, indices |-> <<>>]

Init3DS == file3 \in Files3DS /\ pc3 = "open" /\ pos3 = 0 /\ geo = NoGeo
Idle3DS ==
  /\ file3 = [tree |-> <<>>, units |-> <<>>, whole |-> FALSE] /\ pc3 = "idle" /\ pos3 = 0 /\ geo = NoGeo

------------------------------------------------------------------------------
\* The n-th unit from the position, and the position after n units.
Unit(n, g) == IF pos3 + n <= Len(file3.units) THEN file3.units[pos3 + n] ELSE g
Behind(n) == Min({pos3 + n, Len(file3.units)})

Open3DS ==
  /\ pc3 = "open" /\ pc3' = "reading"
  /\ UNCHANGED <<file3, pos3, geo>>
Open3DSFails ==
  /\ pc3 = "open" /\ pc3' = "null"
  /\ UNCHANGED <<file3, pos3, geo>>

Chunk3DS(g) == pc3 = "reading" /\ pos3 < Len(file3.units) /\ Unit(1, g) \in Known

Enter(g) ==
  /\ Chunk3DS(g) /\ Unit(1, g) \in Containers
  /\ pos3' = Behind(3)
  /\ UNCHANGED <<file3, pc3, geo>>

\* ReadString ends with a NUL (its other condition compares a char with '/0', two
\* characters); behind the end of the file it may never meet one.
NameEnds == {n \in 4 .. Len(file3.units) - pos3 : file3.units[pos3 + n] = 0}
ReadName3DS(g) ==
  /\ Chunk3DS(g) /\ Unit(1, g) = OBJNAME_3DS
  /\ IF NameEnds # {} THEN pos3' = pos3 + Min(NameEnds) /\ UNCHANGED pc3
     ELSE IF g = 0 THEN pos3' = Len(file3.units) /\ UNCHANGED pc3
     ELSE pc3' = "crashed" /\ UNCHANGED pos3
  /\ UNCHANGED <<file3, geo>>

\* Room is made for vertices once, for the first mesh that has any.
Room(n) == IF geo.numVerts = 0 THEN n ELSE geo.numVerts
StAfterRoom == IF geo.numVerts = 0 THEN <<>> ELSE geo.st
XyzAfterRoom == IF geo.numVerts = 0 THEN <<>> ELSE geo.xyz

ReadVertices(g) ==
  LET n == Room(Unit(4, g)) IN
  /\ Chunk3DS(g) /\ Unit(1, g) = VERTEX_DATA_3DS
  /\ geo' = [geo EXCEPT !.numVerts = n, !.st = StAfterRoom,
                        !.xyz = [i \in 1 .. n |-> Unit(6 * i - 1, g)]]
  /\ pos3' = Behind(4 + 6 * n)
  /\ UNCHANGED <<file3, pc3>>

\* A slip: a face is three indices.
ReadFacesNoFlag(g) ==
  LET n == Unit(4, g) IN
  /\ Chunk3DS(g) /\ Unit(1, g) = INDEX_DATA_3DS
  /\ geo' = [geo EXCEPT !.indices = [i \in 1 .. 3 * n |-> Unit(4 + i, g)]]
  /\ pos3' = Behind(4 + 3 * n)
  /\ UNCHANGED <<file3, pc3>>

\* A face is three indices and a flag that is not kept.
ReadFaces(g) ==
  LET n == Unit(4, g) IN
  /\ Chunk3DS(g) /\ Unit(1, g) = INDEX_DATA_3DS
  /\ geo' = [geo EXCEPT !.indices =
       [i \in 1 .. 3 * n |-> Unit(5 + 4 * ((i - 1) \div 3) + ((i - 1) % 3), g)]]
  /\ pos3' = Behind(4 + 4 * n)
  /\ UNCHANGED <<file3, pc3>>

\* As many texture coordinates are written as the chunk has, whatever the room.
ReadTexMap(g) ==
  LET n == Unit(4, g) IN
  /\ Chunk3DS(g) /\ Unit(1, g) = TEXMAP_DATA_3DS
  /\ IF n <= Room(n)
       THEN /\ geo' = [geo EXCEPT !.numVerts = Room(n), !.xyz = XyzAfterRoom,
                                  !.st = [i \in 1 .. n |-> Unit(4 * i + 1, g)]]
            /\ pos3' = Behind(4 + 4 * n)
            /\ UNCHANGED pc3
       ELSE pc3' = "crashed" /\ UNCHANGED <<pos3, geo>>
  /\ UNCHANGED file3

\* An unknown chunk is passed over: the file may be left behind its end.
SkipChunk3DS(g) ==
  /\ pc3 = "reading" /\ pos3 < Len(file3.units) /\ Unit(1, g) \notin Known
  /\ pos3' = Behind(3) - 3 + Unit(2, g)
  /\ UNCHANGED <<file3, pc3, geo>>

Load3DSEnds ==
  /\ pc3 = "reading" /\ pos3 >= Len(file3.units)
  /\ pc3' = "loaded"
  /\ UNCHANGED <<file3, pos3, geo>>

Read3DS(g) ==
  Enter(g) \/ ReadName3DS(g) \/ ReadVertices(g) \/ ReadFaces(g) \/ ReadTexMap(g) \/ SkipChunk3DS(g)
Next3DS == Open3DS \/ Open3DSFails \/ Load3DSEnds \/ \E g \in Garbage3DS : Read3DS(g)

------------------------------------------------------------------------------
\* All chunks with a tag, in the order of the file.
RECURSIVE Chunks3DS(_, _)
Chunks3DS(tag, c) ==
  (IF c.tag = tag THEN <<c>> ELSE <<>>)
    \o FlattenSeq([k \in DOMAIN c.kids |-> Chunks3DS(tag, c.kids[k])])

\* The files that the loader is made for: all chunks are there, and every mesh has as
\* many vertices as the others, each with its texture coordinates.
SameCounts(tree) ==
  LET chunks == ToSet(Chunks3DS(VERTEX_DATA_3DS, tree) \o Chunks3DS(TEXMAP_DATA_3DS, tree))
  IN  Cardinality({c.data[1] : c \in chunks}) <= 1
Supported3DS ==
  file3.whole /\ SameCounts(file3.tree) /\ Chunks3DS(VERTEX_DATA_3DS, file3.tree) # <<>>

\* The first k units of every record of the last chunk with a tag.
Written3DS(tag, width, k) ==
  LET chunks == Chunks3DS(tag, file3.tree) IN
  IF chunks = <<>> THEN <<>>
  ELSE LET d == Last(chunks).data
       IN  FlattenSeq([i \in 1 .. d[1] |-> SubSeq(d, 2 + width * (i - 1), 1 + width * (i - 1) + k)])

\* The surface is the last mesh of the file, whatever chunks lie around and between
\* its own and in whatever order: all its vertices, texture coordinates and faces; and
\* nothing is written where there is no room (LoadMesh3DS, which enters some chunks,
\* passes over others, and makes room for vertices once).
Mesh3DSAsWritten ==
  Supported3DS =>
    /\ pc3 # "crashed"
    /\ pc3 = "loaded" =>
         /\ geo.numVerts = Len(geo.xyz)
         /\ geo.xyz = Written3DS(VERTEX_DATA_3DS, 6, 1)
         /\ geo.st = Written3DS(TEXMAP_DATA_3DS, 4, 1)
         /\ geo.indices = Written3DS(INDEX_DATA_3DS, 4, 3)
==============================================================================
