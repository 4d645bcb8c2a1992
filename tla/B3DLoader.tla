------------------------------ MODULE B3DLoader ------------------------------
(***************************************************************************)
(* MeshLoaderB3D: the chunks of a file are read in one pass, with a stack  *)
(* of their ends.  A chunk is left where its handler stopped reading, not  *)
(* at its end, so all handlers have to agree with the file on every word.  *)
(*                                                                         *)
(* A read behind the end of the file leaves the variable it reads into as  *)
(* it was (lfFile::Read ignores what fread returns) and does not move on.  *)
(***************************************************************************)
EXTENDS Integers, Sequences, SequencesExt, FiniteSets

CONSTANTS
  Files,      \* the files: [tree |-> the chunks, words |-> what is there of them,
              \*             whole |-> whether that is all]
  Garbage,    \* what a read behind the end of the file may leave
  Undefined   \* a member that no constructor sets

VARIABLES
  file,       \* the file that is loaded
  pc,         \* "idle", "open", "loading", "loaded", or "crashed" (or without end)
  pos,        \* _file->Tell()
  stack,      \* _stack: the ends of the chunks that pos is in
  calls,      \* who reads: 0 for Load, a joint for its ReadNode, -1 for ReadMesh
  geos,       \* Mesh::_geometries: room for vertices and vertices written
  indices,    \* _indices
  joints,     \* the joints made so far
  root,       \* Mesh::_root
  numFrames   \* Mesh::_numFrames

vars == <<file, pc, pos, stack, calls, geos, indices, joints, root, numFrames>>
made == <<geos, indices, joints, root, numFrames>>

Nothing ==
  /\ pos = 0 /\ stack = <<>> /\ calls = <<>>
  /\ geos = <<>> /\ indices = <<>> /\ joints = <<>>
  /\ root = Undefined /\ numFrames = Undefined
InitB3D == file \in Files /\ pc = "open" /\ Nothing
IdleB3D == file = [tree |-> <<>>, words |-> <<>>, whole |-> FALSE] /\ pc = "idle" /\ Nothing

------------------------------------------------------------------------------
(* A B3D model file as a tree of chunks, the words it is written as, and   *)
(* what a loader should make of it.  A chunk is                            *)
(*    [tag |-> its tag, data |-> its own words, kids |-> the chunks in it] *)
(* and is written as its tag, the size of the rest, its data and its kids. *)
(* Everything is counted in words of four bytes, and a string is one word. *)

BB3D == 1001  TEXS == 1002  BRUS == 1003  NODE == 1004  MESH == 1005
VRTS == 1006  TRIS == 1007  ANIM == 1008  KEYS == 1009  BONE == 1010
Tags == 1001 .. 1010

RECURSIVE Encode(_)
Encode(c) ==
  LET body == c.data \o FlattenSeq([k \in DOMAIN c.kids |-> Encode(c.kids[k])])
  IN  <<c.tag, Len(body)>> \o body

\* The fields of a vertex and of a key frame that are there.
Bit(flags, b) == (flags \div b) % 2
VertexWords(flags, sets, setSize) ==
  3 + 3 * Bit(flags, 1) + 4 * Bit(flags, 2) + sets * setSize
KeyWords(flags) == 1 + 3 * Bit(flags, 1) + 3 * Bit(flags, 2) + 4 * Bit(flags, 4)

\* The first words of the records of width w that the words consist of.
Firsts(words, w) == [n \in 1 .. Len(words) \div w |-> words[w * (n - 1) + 1]]
Frames(keys, b) ==
  IF Bit(keys.data[1], b) = 1 THEN Firsts(Tail(keys.data), KeyWords(keys.data[1])) ELSE <<>>

\* All chunks with a tag, in the order of the file.
RECURSIVE ChunksOf(_, _)
ChunksOf(tag, c) ==
  (IF c.tag = tag THEN <<c>> ELSE <<>>)
    \o FlattenSeq([k \in DOMAIN c.kids |-> ChunksOf(tag, c.kids[k])])
KidsOf(tag, c) == SelectSeq(c.kids, LAMBDA k : k.tag = tag)

\* The joint that a NODE chunk stands for: the vertices of its bone, the frames of
\* its position, scale and rotation keys, and its children.
RECURSIVE JointOf(_)
JointOf(c) ==
  LET all(tag, Words(_)) ==
        FlattenSeq([k \in DOMAIN KidsOf(tag, c) |-> Words(KidsOf(tag, c)[k])])
      frames(b) == all(KEYS, LAMBDA k : Frames(k, b))
  IN  [name |-> c.data[1],
       bone |-> all(BONE, LAMBDA k : Firsts(k.data, 2)),
       keys |-> [position |-> frames(1), scale |-> frames(2), rotation |-> frames(4)],
       children |-> [k \in DOMAIN KidsOf(NODE, c) |-> JointOf(KidsOf(NODE, c)[k])]]

TrianglesOf(c) ==
  FlattenSeq([k \in DOMAIN ChunksOf(TRIS, c) |-> Tail(ChunksOf(TRIS, c)[k].data)])

VertexCountsOf(c) ==
  [k \in DOMAIN ChunksOf(VRTS, c) |->
    LET d == ChunksOf(VRTS, c)[k].data
    IN  (Len(d) - 3) \div VertexWords(d[1], d[2], d[3])]

------------------------------------------------------------------------------
\* The n-th word from pos, and the position after n words, or at the end of the file.
Word(n, g) == IF pos + n <= Len(file.words) THEN file.words[pos + n] ELSE g
After(n) == Min({pos + n, Len(file.words)})
Words(m, n, g) == [k \in 1 .. n - m + 1 |-> Word(m + k - 1, g)]

\* A slip: a chunk still has something to read at its end.
CheckSizeAtEnd == pos <= Last(stack)

\* CheckSize
CheckSize == pos < Last(stack)
\* The end that ReadChunk pushes.
ChunkEnd(g) == pos + 2 + Word(2, g)

Reader == Last(calls)
Handled ==
  IF Reader = 0 THEN {TEXS, BRUS, NODE}
  ELSE IF Reader = -1 THEN {VRTS, TRIS}
  ELSE {MESH, BONE, ANIM, KEYS, NODE}

\* The reader finds a chunk with this tag (ReadChunk).
ReadChunk(tag, g) ==
  /\ pc = "loading" /\ CheckSize
  /\ tag = Word(1, g) /\ tag \in Handled

\* How many records of width w the loop over a chunk reads, from the word behind
\* the first n on, and whether that loop ends: at the end of the file it stands still.
Records(n, w, g) ==
  IF pos + n >= ChunkEnd(g) THEN 0
  ELSE (ChunkEnd(g) - pos - n + w - 1) \div w
LoopEnds(g) == ChunkEnd(g) <= Len(file.words)

Load ==
  /\ pc = "open"
  /\ pc' = "loading"
  /\ stack' = <<2 + file.words[2]>>
  /\ pos' = 3
  /\ calls' = <<0>>
  /\ UNCHANGED <<file, made>>

\* A file that is not there: Load returns before it sets _mesh, and AddMesh returns
\* _mesh all the same.
OpenFails ==
  /\ pc = "open"
  /\ pc' = "crashed"
  /\ UNCHANGED <<file, pos, stack, calls, made>>

\* ReadTexs and ReadBrus: what they read is not kept.
ReadTexs(g) ==
  /\ ReadChunk(TEXS, g) /\ LoopEnds(g)
  /\ pos' = After(2 + 8 * Records(2, 8, g))
  /\ UNCHANGED <<file, pc, stack, calls, made>>
ReadBrus(g) ==
  LET w == 8 + Word(3, g) IN
  /\ ReadChunk(BRUS, g) /\ LoopEnds(g)
  /\ pos' = After(3 + w * Records(3, w, g))
  /\ UNCHANGED <<file, pc, stack, calls, made>>

\* ReadNode up to its loop.
ReadNode(g) ==
  /\ ReadChunk(NODE, g)
  /\ joints' = Append(joints, [name |-> Word(3, g), bone |-> <<>>, children |-> <<>>,
       keys |-> [position |-> <<>>, scale |-> <<>>, rotation |-> <<>>]])
  /\ calls' = Append(calls, Len(joints) + 1)
  /\ stack' = Append(stack, ChunkEnd(g))
  /\ pos' = After(13)
  /\ UNCHANGED <<file, pc, geos, indices, root, numFrames>>

\* A slip: a joint is handed to Load, whoever reads the chunk around it.
NodeEndsRoot ==
  /\ pc = "loading" /\ Reader > 0 /\ ~CheckSize
  /\ stack' = Front(stack) /\ calls' = Front(calls)
  /\ root' = Reader
  /\ UNCHANGED <<file, pc, pos, geos, indices, joints, numFrames>>

\* ReadNode comes back, to Load or to the ReadNode around it.
NodeEnds ==
  LET caller == Last(Front(calls)) IN
  /\ pc = "loading" /\ Reader > 0 /\ ~CheckSize
  /\ stack' = Front(stack) /\ calls' = Front(calls)
  /\ IF caller = 0
       THEN root' = Reader /\ UNCHANGED joints
       ELSE joints' = [joints EXCEPT ![caller].children = Append(@, Reader)]
            /\ UNCHANGED root
  /\ UNCHANGED <<file, pc, pos, geos, indices, numFrames>>

ReadMesh(g) ==
  /\ ReadChunk(MESH, g)
  /\ calls' = Append(calls, -1)
  /\ stack' = Append(stack, ChunkEnd(g))
  /\ pos' = After(3)
  /\ UNCHANGED <<file, pc, made>>

MeshEnds ==
  /\ pc = "loading" /\ Reader = -1 /\ ~CheckSize
  /\ stack' = Front(stack) /\ calls' = Front(calls)
  /\ UNCHANGED <<file, pc, pos, made>>

\* ReadVrts takes no vertices with more than two sets of texture coordinates or with
\* sets of four.
TooManyTexCoords(g) == Word(4, g) >= 3 \/ Word(5, g) >= 4

\* It makes room for vertices of the width the file says, and reads two coordinates
\* from every set.
ReadVrts(g) ==
  LET w == VertexWords(Word(3, g), Word(4, g), 2) IN
  /\ ReadChunk(VRTS, g) /\ LoopEnds(g)
  /\ ~TooManyTexCoords(g)
  /\ geos' = Append(geos,
       [numVerts |-> (ChunkEnd(g) - pos - 5)
                       \div VertexWords(Word(3, g), Word(4, g), Word(5, g)),
        written |-> Records(5, w, g)])
  /\ pos' = After(5 + w * Records(5, w, g))
  /\ UNCHANGED <<file, pc, stack, calls, indices, joints, root, numFrames>>
ReadVrtsRefuses(g) ==
  /\ ReadChunk(VRTS, g)
  /\ TooManyTexCoords(g)
  /\ pos' = After(5)
  /\ UNCHANGED <<file, pc, stack, calls, made>>

\* ReadTris: whole triangles behind the material, their indices kept in 16 bits.
ReadTris(g) ==
  LET n == 3 * (Max({0, ChunkEnd(g) - pos - 3}) \div 3) IN
  /\ ReadChunk(TRIS, g)
  /\ indices' = indices \o [k \in 1 .. n |-> Words(4, n + 3, g)[k] % 65536]
  /\ pos' = After(3 + n)
  /\ UNCHANGED <<file, pc, stack, calls, geos, joints, root, numFrames>>

ReadAnim(g) ==
  /\ ReadChunk(ANIM, g)
  /\ numFrames' = Word(4, g)
  /\ pos' = After(5)
  /\ UNCHANGED <<file, pc, stack, calls, geos, indices, joints, root>>

ReadBone(g) ==
  LET n == 2 * Records(2, 2, g) IN
  /\ ReadChunk(BONE, g) /\ LoopEnds(g)
  /\ joints' = [joints EXCEPT ![Reader].bone = @ \o Firsts(Words(3, n + 2, g), 2)]
  /\ pos' = After(2 + n)
  /\ UNCHANGED <<file, pc, stack, calls, geos, indices, root, numFrames>>

ReadKey(g) ==
  LET flags == Word(3, g)
      w == KeyWords(flags)
      n == w * Records(3, w, g)
      read(b) == IF Bit(flags, b) = 1 THEN Firsts(Words(4, n + 3, g), w) ELSE <<>>
  IN
  /\ ReadChunk(KEYS, g) /\ LoopEnds(g)
  /\ joints' = [joints EXCEPT
       ![Reader].keys.position = @ \o read(1),
       ![Reader].keys.scale = @ \o read(2),
       ![Reader].keys.rotation = @ \o read(4)]
  /\ pos' = After(3 + n)
  /\ UNCHANGED <<file, pc, stack, calls, geos, indices, root, numFrames>>

\* A chunk that nobody handles is left at once (ExitChunk does not seek): the next
\* chunk is looked for in what was to be skipped.
SkipChunk(g) ==
  /\ pc = "loading" /\ CheckSize
  /\ Word(1, g) \notin Handled
  /\ pos' = After(2)
  /\ UNCHANGED <<file, pc, stack, calls, made>>

\* A loop over a chunk that goes on behind the end of the file never ends: it
\* appends to an array, or writes behind one, until the process dies.
RunsOff(g) ==
  /\ pc = "loading" /\ CheckSize
  /\ Word(1, g) \in Handled \cap {TEXS, BRUS, BONE, KEYS, VRTS}
  /\ Word(1, g) = VRTS => ~TooManyTexCoords(g)
  /\ ~LoopEnds(g)
  /\ pc' = "crashed"
  /\ UNCHANGED <<file, pos, stack, calls, made>>

\* The rest of Load: geometry 0 gets all indices, whether there is one or not.
LoadEnds ==
  /\ pc = "loading" /\ Reader = 0 /\ ~CheckSize
  /\ pc' = IF geos = <<>> THEN "crashed" ELSE "loaded"
  /\ UNCHANGED <<file, pos, stack, calls, made>>

Read(g) ==
  \/ ReadTexs(g) \/ ReadBrus(g) \/ ReadNode(g) \/ ReadMesh(g)
  \/ ReadVrts(g) \/ ReadVrtsRefuses(g) \/ ReadTris(g)
  \/ ReadAnim(g) \/ ReadBone(g) \/ ReadKey(g)
  \/ SkipChunk(g) \/ RunsOff(g)

Loading == Load \/ (\E g \in Garbage : Read(g)) \/ NodeEnds \/ MeshEnds \/ LoadEnds

NextB3D == Loading \/ OpenFails

------------------------------------------------------------------------------
\* The files that the loader is made for: all words are there, vertices have up to
\* two sets of two texture coordinates, and a chunk that the loader does not know
\* can be read as empty chunks that it does not know either.
TexCoordsTaken ==
  \A n \in DOMAIN ChunksOf(VRTS, file.tree) :
    LET d == ChunksOf(VRTS, file.tree)[n].data IN d[2] <= 2 /\ (d[2] = 0 \/ d[3] = 2)
RECURSIVE Skippable(_)
Skippable(c) ==
  IF c.tag \in Tags THEN \A k \in DOMAIN c.kids : Skippable(c.kids[k])
  ELSE Len(c.data) % 2 = 0 /\ \A n \in DOMAIN c.data : c.data[n] \notin Tags
Supported == file.whole /\ TexCoordsTaken /\ Skippable(file.tree)

\* The shape of the state.
TypeOK ==
  /\ pc \in {"idle", "open", "loading", "loaded", "crashed"}
  /\ pos \in 0 .. Len(file.words)
  /\ Len(calls) = Len(stack)
  /\ \A n \in DOMAIN calls : calls[n] \in -1 .. Len(joints)
  /\ pc = "loading" => Head(calls) = 0 /\ \A n \in 2 .. Len(calls) : calls[n] # 0
  /\ \A n \in DOMAIN indices : indices[n] \in 0 .. 65535
  /\ root \in DOMAIN joints \cup {Undefined}

\* The loader and the file agree on where chunks end: a handler never reads past the
\* end of the chunk it is in, nor past that of a chunk around it (CheckSize is the
\* only thing that stops it, and it looks at the innermost end only).
ChunksNest ==
  \A m, n \in DOMAIN stack : m <= n => pos <= stack[n] /\ stack[n] <= stack[m]

\* The joint with its children, as JointOf gives it.
RECURSIVE Tree(_)
Tree(j) ==
  [name |-> joints[j].name, bone |-> joints[j].bone, keys |-> joints[j].keys,
   children |-> [k \in DOMAIN joints[j].children |-> Tree(joints[j].children[k])]]

\* ReadVrts writes as many vertices as it made room for: two computations of the
\* width of a vertex, one from the file and one from what is read, agree.
VertsFit == \A n \in DOMAIN geos : geos[n].written = geos[n].numVerts

\* "A mesh only has one VRTS chunk, but potentially many TRIS chunks": when the file
\* has one mesh, the indices of geometry 0 stay within its vertices; and no vertex
\* is written where there is no room for it.
InRange ==
  /\ VertsFit
  /\ pc = "loaded" /\ Len(ChunksOf(VRTS, file.tree)) = 1 =>
       \A n \in DOMAIN indices : indices[n] < geos[1].numVerts

\* What is loaded is what the tree of chunks says: joints with their bones, keys and
\* children, all triangles in order, the last ANIM's frames; and nothing but a file
\* that is not there or has no vertices makes Load or its caller crash.  On the way,
\* reader and file agree on where each chunk ends, and vertices and indices fit.
LoadedAsWritten ==
  /\ TypeOK
  /\ Supported =>
       /\ ChunksNest
       /\ InRange
       /\ pc = "loaded" =>
            /\ LET nodes == KidsOf(NODE, file.tree)
               IN  IF nodes = <<>> THEN root = Undefined ELSE Tree(root) = JointOf(Last(nodes))
            /\ indices = TrianglesOf(file.tree)
            /\ [n \in DOMAIN geos |-> geos[n].written] = VertexCountsOf(file.tree)
            /\ LET anims == ChunksOf(ANIM, file.tree)
               IN  numFrames = IF anims = <<>> THEN Undefined ELSE Last(anims).data[2]
       /\ pc = "crashed" /\ pos > 0 => ChunksOf(VRTS, file.tree) = <<>>
==============================================================================
