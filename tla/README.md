# LightWorld in TLA+

Specifications of LightWorld, a small Windows/OpenGL engine in C++ with a sampler
that shows a model, a plane, labels and a stencil shadow volume. The modules model
the engine's own code under `src/` (paths below are relative to the repository, which
keeps its engine in `src/src/` and the sampler in `src/example/example01/`); TLC checks
them on small instances, and TLAPS proves the most important results for every value of
the constants.

Contents: [the system](#the-system) · [modules](#the-modules) · [how state and actions
correspond](#how-state-and-actions-correspond-to-the-code) · [runs](#the-runs-and-their-bounds) ·
[what the properties say](#what-the-properties-say) · [fairness](#fairness) · [proofs](#the-proofs) ·
[only model-checked](#only-model-checked) · [disagreements](#where-code-and-comments-disagree) ·
[not modelled](#not-modelled) · [plan](#plan)

To check a module: `tlc -config MCX.cfg MCX.tla`, to check proofs: `tlapm XProofs.tla`.

## The system

One thread does everything. `main` pumps the window's messages (`Sys_PumpEvents`), whose
window procedure puts input into a ring of events; `ShadowSampler::Frame` drains the ring
and has `RenderSystem` draw the surfaces. Resources are loaded in `Init` by
`ResourceSystem`, which keeps textures in a hash table. There are no threads and no locks,
so what is hard here is not preemption but reentrancy (a drag runs a message loop inside
the pump), statics that survive a call, names that GL hands out again, chains and counters
whose legality depends on a long history of calls, and files whose parts must fit together.
Part of the repository is not in the Windows build of the sampler (`win_net.cpp`, `Cinematic.cpp`,
`HashIndex.cpp`, `tr_stencilshadow.cpp`); it is the engine's own code all the same, and what it
does is modelled in the same way.

| Component | State | Operations | Talks to | Hard because | Correct when |
|---|---|---|---|---|---|
| Event queue `sys/win32/win_shared.cpp` | ring `eventQue`, `eventHead`, `eventTail` | `Sys_QueEvent`, `Sys_GetEvent`, `Sys_ClearEvents` | window procedure puts, frame takes | overflow drops the oldest while the newest is written to its slot | it is a FIFO that loses only the oldest, and only when full |
| Main loop and window procedure `win_main.cpp`, `sampler.cpp`, `win_wndproc.cpp` | the system's message queue, where the thread is, `movingWindow` | pump, dispatch, drag, drain, render, quit | queue, renderer | a drag dispatches input without draining; pump and drain could starve each other | input is handled in order, loss is exactly the overflow, frames go on |
| String hash table `common/HashTable.cpp` | nodes with key, value, link | `Put`, `Get`, `NewKey`, `GetFreePos` | caches of resources, animations | chains of different homes coalesce; no resize | it is a map in which the first put of a key wins |
| Index hash `common/HashIndex.h`, `.cpp` | `hash`, `indexChain`, their sizes and masks | `Add`, `Remove`, `InsertIndex`, `RemoveIndex`, `Clear`, copy | an array it is parallel to | renumbering while allocation, growth and an unallocated state alternate | it keeps the lists of an array's places |
| Strings `common/String.cpp`, `.h` | a buffer, its size and length | every call that changes it, file names, comparisons, filters | everywhere | the buffer is inside the object or outside; calls write in place | a call does to the buffer what it means for the text |
| Textures and labels `ResourceSystem.cpp`, `Texture.cpp`, `Sprite.cpp`, `renderer/RenderSystem.cpp` | cache, texture objects, GL names | `FindTexture`, `AddText`, `SetLabel`, `AddSprite`, `SetTexture` | GL, hash table | `SetLabel` deletes by name what others may share; names come back | every surface shows what it was told to show, no name leaks |
| GL buffers `r_public.cpp`, `Shape.cpp`, `Sprite.cpp`, `Model.cpp`, `renderer/RenderSystem.cpp` | `vbo[0]`, `vbo[1]` of each surface, GL names | `R_GenerateGeometryVbo`, `AddDrawSur`, `UpdateVbo`, `SetTextureUV` | GL | double deletion of a name that comes back; lazily filled buffers | each surface draws from its own buffers what was last written |
| Silhouette edges `tr_trisurf.cpp`, `r_public.cpp` | the static edge list, `silEdges`, `perfectHull` | `R_CreateSilIndice`, `R_IdentifySilEdges` | shadow volumes | greedy joining of doubled and tripled edges | a hull is called one exactly when it is one |
| Shadow volumes `Interaction.cpp` | static index and vertex arrays, counters, `calcShadow` | `CreateInteraction` | silhouette edges, GL buffers | counters that are not reset, two overflow checks, shared diagonals | the volume is closed, inside its arrays, and the surface's own |
| Stencil shadows `tr_stencilshadow.cpp` | static arrays, the light's frustums | `R_MakeShadowFrustums`, `R_CreateShadowVolume` and what they call | silhouette edges | clipping to several frustums, each closed by itself; three limits | the volume is enclosed over all frustums together |
| Model files `MeshLoaderB3D.cpp`, `MeshLoader3DS.cpp`, `MeshLoaderLwo.cpp`, `Mesh.cpp` | place in the file, chunk ends, what was made so far | a handler per chunk | files, meshes, joints | handlers must read exactly their words, counts and indices of chunks refer to each other | what is loaded is what the chunks say |
| Materials and lexer `Material.cpp`, `common/Lexer.cpp` | place in the text, depth of braces, programs, attributes, flags | `LoadMemory`, `ParseVertProgram`, `ParseFragProgram`, `Lex` | shaders | words swallow the character behind them, a brace or the end of the text too | a tidy text is read as it was meant |
| Animation `Model.cpp`, `common/Joint.cpp` | frame counter, range, loop, matrices, base poses | `SetFile`, `PushAnimation`, `Play`, `Update` | meshes, joints, GL buffers | ranges and meshes change between frames; order of the joint walk | each frame is the pose of that frame, loops come round |
| Cinematics `Cinematic.cpp` | per object the file, status, frame counts, two halves of an image; one code book for all | `InitFromFile`, `ImageForTime`, `ResetTime`, `Close` | files, the picture decoder, the cvar `r_skipROQ` | one code book under several videos; halves are swapped and built on each other; what closes a file goes by the status | the picture shown is that of the frame counted |
| Network `win_net.cpp` | sockets, delayed packets, interfaces, buffers of texts, the SOCKS relay | `idPort`, `idTCP`, `Sys_InitNetworking`, `Sys_IsLANAddress`, `Sys_NetAdrToString`, `NET_OpenSocks` | winsock | delayed packets wait under port numbers; failures in the middle of a call | packets stay in order, what is lost or leaked is exact |
| Arrays `common/Array.h` | a block of memory with its size and what of it counts | construction, assignment, `resize`, `push_back`, `insert`, `remove`, `pointer`, `set` | `new[]`, `delete[]` | every call may move the block; who owns it changes with `pointer` | each array has the elements that the calls gave it, in a block of its own, and none is lost |
| Images `Image.cpp`, `image_load_*.cpp` | the bytes of a picture, its sizes, levels and faces | five loaders, `ConvertCrossToCubemap`, `FlipSurface`, `GetLevel`, what `Texture::Init` takes | files, GL | rows of one file format go up and of another down, GL wants them aligned | what GL is given is the picture of the file (for many formats it is not) |
| Image processing `renderer/Image_process.cpp` | pixels of four bytes | resampling, mip maps, borders, blends, flips | | strides and orders of rows, columns, slices | the pixels are those that the call means |
| Shaders, renderer, mathematics, camera, scripts, console, window, examples | see `PROJECT.json` | | | | not modelled, see [below](#not-modelled) |

`PROJECT.json` lists every component with its sources, and under `hazards` the places in
the code that are hard to test, each with the properties that are about it.

## The modules

| Module | Models | Composition |
|---|---|---|
| `LossyFifo` | what the event queue promises: a bounded FIFO that drops its oldest | abstract |
| `EventQueue` | the ring and its two counters | implements `LossyFifo` (`ImplementsFifo`) |
| `MainLoop` | pump, drag, frame, quit | EXTENDS `EventQueue`, whose actions it calls |
| `FirstPutMap` | what the hash table promises | abstract |
| `HashTable` | the nodes, one action per step of a walk | implements `FirstPutMap` (`ImplementsMap`) |
| `KeyedLists` | what an index hash promises: lists of an array's places | abstract |
| `HashIndex` | `hash`, `indexChain` and the masks | implements `KeyedLists` (`ImplementsLists`) |
| `LfStr` | the buffer of an `lfStr` and every call that changes it; the hash of texts | |
| `StrCalls` | comparing, searching, filters; sequences of calls beside what they mean | EXTENDS `LfStr` |
| `Textures` | GL texture names | uses a map for the cache, which `HashTable` justifies |
| `Buffers` | GL buffer names | |
| `Arrays` | `Array`: its members, and the blocks that `new[]` has given out | |
| `ShadowVolume` | silhouette edges as operators on sequences of triangles; `CreateInteraction` and its statics | |
| `StencilShadow` | frustums, clipping and volumes of `tr_stencilshadow.cpp` | EXTENDS `ShadowVolume` |
| `B3DLoader`, `Mesh3DS` | the two loaders over the words of a file, each with its encoding and what should be made of it | |
| `LwoFile` | the kinds of records of a `.lwo` file, their fields, and their encoding | |
| `LwoReader` | `lwGetObject` and `lwGetObject5`: reading clips, envelopes, surfaces, textures, shaders field by field | EXTENDS `LwoFile` |
| `LwoMeaning` | what should be made of a `.lwo` file | EXTENDS `LwoReader` |
| `LwoGeometry` | layers, points, polygons, tags and vertex maps, and how they are joined | |
| `LwoMesh` | `ConvertLWOToModelSurfaces`, and what it should make | EXTENDS `LwoGeometry` |
| `Material` | `Material::LoadMemory` and the lexer under it | |
| `Images` | the image loaders, cube maps from crosses, and what a texture takes of an image | |
| `ImageProcess` | what `Image_process.cpp` does with pixels | |
| `ResourceFiles` | which loader gets a file | EXTENDS all loaders |
| `Animation` | `AniModel` and `Joint` | |
| `Cinematic` | playing videos over one code book | |
| `RoqPicture` | what a chunk of a video does to the picture and the code book, beside the file's meaning | |
| `UdpPort` | `idPort` with its simulated latency | |
| `TcpSocket`, `NetAddress`, `SocksRelay` | `idTCP`; interfaces and address texts; the SOCKS conversation | |
| `MainLoopProofs` | theorems of `EventQueue` and, on top of them, `MainLoop` | |
| `HashTableProofs`, `GlNamesProofs`, `NetworkProofs`, `PlaybackProofs`, `ArraysProofs`, `SilEdgeProofs`, `ShadowProofs` | theorems of `HashTable` and `HashIndex`; of `Buffers`, `Textures` and `Images`; of `UdpPort`, `TcpSocket`, `NetAddress` and `SocksRelay`; of `Cinematic` and `Animation`; of `Arrays`; of the silhouette edges of `ShadowVolume` and of its volumes | |
| `MC*` | the instances that TLC checks (that of `MainLoop` is at its end); `MCContainers`, `MCGlNames`, `MCPlayback` and `MCNetwork` put components side by side that share no state, one taken at a time | |

Each module has, next to some definitions, a *slip*: the same definition with a
plausible mistake in it. `PROJECT.json` ("mutants") says which slip stands in for which definition,
and which property then fails. Slips are used by no specification.

## How state and actions correspond to the code

`PROJECT.json` ("map") gives the lines of every definition. What is not obvious from them:

**Event queue and main loop.** `eventQue`, `eventHead`, `eventTail` are the variables of the
code; the counters only grow and a slot is the counter modulo the ring's size. `Sys_QueEvent`
decides on overflow before it writes. `Sys_ClearEvents` is called by nobody while the program
runs, and is an action all the same. `MainLoop` has the system's message queue as `osQueue` and
says with `pc` where the thread is: in the pump, in the modal loop of `DefWindowProc`
(`WM_NCLBUTTONDOWN`), in the drain of a frame, or gone. `MainWndProc` is the whole window
procedure for a message. `PostQuit` is the console window. Time stamps (`sysMsgTime`), `MapKey`
and what the sampler does with an event are left out. `handled`, `queuedBy`, `rendered` are history.

**Hash table.** A key is stored in the home node its hash points at or, if that is taken, in
the free node that `GetFreePos` finds, linked to the end of the home's chain. A node that is
linked into one chain may be the home of another key later, so chains coalesce. `Put` and `Get`
walk a step at a time with the walk's place in `pc` and `cur`. A put into a full table follows a
null pointer (`TODO:Resize`), which is the state "crashed".

**Index hash.** A table is a record of the members of `idHashIndex`; before the first `Add`
both arrays are the one cell `INVALID_INDEX` and `lookupMask` is 0. The refinement maps the
chains to sequences of places; stale cells of `indexChain` behind the chains stay as they are.

**Strings.** A buffer is a function on places with `Junk` where nothing was written; a call
that writes outside of it, or never comes back, leaves `Broken`. `StrCalls` makes calls on two
strings and keeps beside them the texts that they should say. Characters are their codes.

**Textures.** A texture stands for its number in the order of creation, `texture` gives its GL
name and `gl` what GL has under the names in use. `InitTexture` takes any unused name.
`FindTexture` looks into the cache, then on disk, then falls back on the default texture, and
without that calls itself without end. `SetLabel` deletes the name of the sprite's texture,
whoever else draws with it, and makes a new one.

**Buffers.** A surface has the number of times it was written (`geometry`) and a buffer what it
was last filled with: whose vertices or indices, of which writing. `R_GenerateGeometryVbo`
deletes `vbo[0]`, deletes it once more where it means `vbo[1]`, and takes two unused names. All
classes but `Plane` write and fill in one call (`SetupVBO`); a plane is filled by `AddDrawSur`
when it has no buffers, and by `UpdateVbo`. `unset` and `generated` are history.

**Shadows.** Geometry is exact: coordinates are small integers (fractions, where volumes are
clipped) and a side is the sign of a determinant, so the models have no rounding.
`CreateInteraction` is one action, as nothing can come between its steps; its statics
(`numShadowIndices`, which is never reset, and `c_sils`) are variables. The cap that is emitted
runs `i3, i2, i1` and the far cap is commented out in the code. In `StencilShadow` a call is
made frustum by frustum (`turn`); what lies within `LIGHT_CLIP_EPSILON` of a plane lies on it.

**Model files.** Words stand for what is read at once: an integer, a float, a string. The loaders
see the words only, at a place that moves as in the code, so every handler must agree with the file on
every word. A read behind the end of the file leaves what it reads into as it was, which is one
of `Garbage`. `LwoReader` has the fields of each kind of record in tables (`LwoFile`) and the
loops over subchunks as steps; the static `flen`, in which nested handlers count, is a variable.
`LwoGeometry` takes up the chunks as records and joins them in the order of `lwGetObject`:
bounding boxes, normals, point polygons, surfaces of tags, maps, vertex normals. A normal is named by the
positions it is computed from.

**Materials.** A text is a sequence of atoms: a word, a brace, a lone `0`, or any other
character. `Read` is where the pointer ends up: one character too far behind every word. The
loader depends on it: `vert{` swallows the brace, so the count of braces starts with 0 inside
the program and the brace that takes it below 0 ends it. With a blank before the brace the
program is never closed and `_vert` goes to the compiler uninitialised (`broken`); a word that ends
the text takes its NUL with it (`overrun`).

**Animation.** Matrices are symbols, `<<joint, frame>>`, and products sequences of them, so two
poses are equal exactly when they were computed from the same factors. `Update` is split by its
branches: within the range, behind the end of a loop, ended, without a mesh, and at a key behind
the last one that cannot be read. `SetFile` after `Play` keeps the start and the counter, so the
loop of a shorter mesh can start behind its keys.

**Cinematics.** A video is a sequence of chunks, a picture the number of its frame, or `Garbled`
when it was built on another picture or decoded with another book than the one it was made for.
`ImageForTime` is split where its loops turn (`call.at`); nothing comes in between, as there is
one thread, but what was played before by others is in the book. `r_skipROQ` is any value at each call: the
`ImageForTime` that `InitFromFile` makes then does nothing, so that a video that does not loop is `IDLE` with its file
open and without an image. `skipped` remembers the objects whose video was opened so and was not asked for a picture
since, `leaked` that a file was lost that was played; both are history. `RoqPicture` is below that:
the block list of `setupQuad`, the vectors of `RoQPrepMcomp`, `blitVQQuad32fs` and
`decodeCodeBook`, over cells of two by two pixels, beside the file format.

**Network.** `UdpPort`: `Tick` is the passing of time, `Arrive` a packet in the system's buffers;
`GetPacket` and `SendPacket` are split where they read the clock and the socket. The age of
a delayed packet stands for its time stamp. `TcpSocket` is about which handles are open, with an
action for each way a call fails. `NetAddress` steps over the adapters one at a time.
`SocksRelay` has an action for each answer, good or bad, that the server may give. Requests and answers share
one `buf`; a byte of it is who wrote it (the server's answer, the request, the name and password) in which
conversation, and `socksRelayAddr` has such bytes too, because an answer may be shorter than what is read from it.

## The runs and their bounds

| Run | Components | Bounds, and why they are enough |
|---|---|---|
| `main_loop` | event queue, main loop | 2 slots, counters up to 5, 5 messages, 3 of them waiting at a time: a drag can overflow the ring twice and leave input for the next frame; each slot is overwritten while taken |
| `containers` | hash table; index hash; strings; arrays | 4 nodes under the code's own hash, three homes: two chains can coalesce and the table be filled. Two buckets, then four, over an array of three, starting with room for one: allocation, growth and renumbering meet. An own buffer of 3 characters and calls of up to 3: texts lie inside, move out and grow again. Two arrays of up to two elements over three blocks: blocks come back to another array |
| `gl_names` | textures; buffers | 2 sprites, 2 shapes, 5 names, 5 textures: each name is deleted and comes back, also while shared. A plane and a mesh, 5 calls: deleted names go to the same and to another surface. Symmetric names |
| `shadow` | silhouettes, shadow volumes; stencil shadows | every sequence of up to 4 triangles of a tetrahedron with a seam, in both orientations, 3 lights: hulls, holes, tripled and doubled edges; 2 surfaces and 2 interactions over arrays that the second call overflows, at the cap or at the sides. Point and projected lights of up to six frustums with the surface inside, outside, across and along their planes |
| `playback` | cinematics; pictures; animation | 2 cinematics, 3 videos (all kinds of chunks; a still that breaks off; one that goes bad), times up to 3. Pictures of less than one square of 16x16, of several, and four times as wide as high, of all kinds of blocks. 2 meshes, 3 ranges, 4 calls between frames, steps of 1 and 2 |
| `network` | ports; TCP; addresses; SOCKS | 2 ports, 2 sockets, 2 numbers, latency 0 or 1, 3 arrivals, 2 sends, 2 openings, 4 of them in all. 2 handles, 3 calls of `Init`. 3 adapters and a table of two, so that it is full early, just in time or never. Any number of texts in four buffers. 2 conversations, with answers of 0, 2, 7 and 10 bytes |
| `resource_files` | all loaders, materials, images, image processing | files whose chunks come in every order that matters, each handler after each other, whole, odd, or broken off at any word; texts of up to 2 sections of all bodies of up to two atoms and some longer ones. Pictures of up to 9 by 12 pixels in every pixel format, with and without rows that GL's alignment cuts; cubes and volumes of up to three levels; crosses with faces of one to three pixels; 3 calls on each. A JPEG whose rows the counted values of a short (32 here) just hold, and one whose rows they do not. Pixels in up to 4 rows, columns and slices, even and odd, 2 calls |
| `overflow_draws_nothing`, `no_interaction_no_tris`, `equal_vertices_stay_apart`, `failure_keeps_socket`, `filter_takes_longer_names` | the same modules | one property each, which the code's own text states and the code does not keep; see below |

Every bound is a constant of a module. `MaxHead`, `MaxPosted`, `MaxOsQueue`, `MaxTextures`,
`MaxBufferCalls`, `MaxIndex`, `MaxIndexSize`, `MaxStrCalls`, `MaxUsed`, `MaxArrayCalls`, `MaxImageCalls`, `MaxProcessCalls`, `MaxTime`, `MaxFrame`, `MaxAnimCalls`, `MaxPackets`,
`MaxSends`, `MaxInits`, `MaxEvents`, `MaxTcpInits`, `MaxStream`, `MaxAdapters`, `MaxOpens` and
`MaxSections` bound the models; `MaxQued`, `MaxSilEdges`, `MaxShadowIndexes`, `MaxShadowVerts`,
`MaxVolumeIndexes`, `MaxVolumeVerts`, `MaxClipSilEdges`, `MaxInterfaces`, `STR_ALLOC_BASE`,
`STR_ALLOC_GRAN`, `GRANULARITY`, `ShortValues` (how many values an unsigned short has) and `BookSize` stand for limits of the code, made small. `MaxSilEdges` is 8
in `shadow`, which four triangles with nothing in common exceed: edges are left out then, the hull test may
be wrong and the sides need not close the cap, but no array is overrun.

`network` and `playback` have `CHECK_DEADLOCK FALSE`: sockets, adapters and videos come to an
end of what they were given, and the program does other things then.

## What the properties say

- `InputInOrder` - what was handled, is held, waits or was dropped is each input exactly
  once and in message order. `LossIsExact` - between frames, what waits is what was queued since
  the last render, or the last ringful of it. `ImplementsFifo` - the ring is a `LossyFifo`.
  `LoopGoesOn` - frames go on while the process lives and no queued event stays.
- `ImplementsMap` - the table is a
  map in which the first put wins. `CallsReturn` (table) - no walk goes round.
- `ArraysAsMeant` - each array has the elements that the calls gave it, in a block of its own that is in use, and no
  other block is but those lent out.
- `ImplementsLists` - an index hash keeps the lists of places through growth, renumbering,
  clearing and copying. `StringsAsMeant` - the two strings say what the calls mean and questions are answered right.
- `AllShowWanted`, `NamesOwned` - labelled before they are added, as the sampler does it,
  sprites disturb nobody and no name is lost or shared. Added first, a sprite shares the default
  texture; when `SetLabel` deletes that name things go wrong, not before.
- `DrawnIsCurrent` - what is drawn is what was written last, from buffers of one's own.
  `LeakIsExact` - every refill leaves exactly one buffer behind.
- `HullIffEdgesMatch` - a surface is a perfect hull exactly when each edge runs as often
  one way as the other, while the array of edges has room. `SidesCloseCap` - each edge with an end on the surface belongs to
  an even number of the volume's triangles, and coincident quads are cut alike (`SameDiagonal`).
  `VolumeEnclosed` - over all frustums together, each edge runs as often one way as the other.
- `LoadedAsWritten`, `Mesh3DSAsWritten`, `LwoAsWritten`, `GeometryAsWritten`,
  `ConvertedAsWritten` - what is made of a file is what its chunks say, each for one loader or
  stage; in `LoadedAsWritten`, indices name vertices and vertices fit the room allotted (`InRange`). `LoadTerminates` - reading a
  supported file comes to an end. `ReadAsMeant` - a tidy text, as those under `Media` are, is
  read as the sections that were written.
- `ImagesAsPictured` - a PNG of one-byte channels, and an RGB JPEG whose row an unsigned short can count, with rows of a
  multiple of four bytes, has each channel of each pixel where GL looks for it, the right way up until a script turns it over
  (`ShowsAll` says which files those are; 16-bit channels, other rows, longer JPEG rows, CMYK, BMP and Targa are left out
  because they are *not* shown as their files have them, see below). The levels of a DDS file that was read are where
  `GetLevel` looks for them. Of files that do not break off only a JPEG leaves something behind. `CrossFolds` - where two faces
  of a cube meet, so do their pixels in the cross. `ProcessedAsMeant` - pixels that went through several calls are those that
  the calls mean. It says nothing of the colours of a blend, of what `R_MipMapWithAlphaSpecularity` returns, of alpha in volumes
  that were halved, of halved odd widths behind the first row, and of what is stretched to a width that 65536 columns
  are no multiple of: there the code does something else.
- `PictureIsOfFrame` - of a well made video, the picture shown is not garbled and is that of the
  frame counted. In a well made video every frame brings its own code book, between the picture before it and
  itself, a still is the first picture, and the size is not said again once there are two. `CloseClosesFile` - between calls, the next `Close` or
  `InitFromFile` of an object closes its video's file, unless the video does not loop, was opened while `r_skipROQ`
  was set and was not asked for a picture since; and no file that a picture was made from is lost. `CinCallsReturn` - every call comes back.
  `VideoAsWritten` - blocks, vectors and colours come out as the file has them.
- `PoseOfFrame` - a pose depends on the frame shown, not on those before. `ShownInRange` - a frame
  shown is one of the animation, put together from the keys around it. `LoopComesRound` - loops come round.
- `ReceivedInOrder`, `SentInOrder`, `NothingVanishes` - order is kept through the simulated
  latency, and a packet is in exactly one place until it is handed out or lost for a known
  reason. `TcpLeakIsExact` - the sockets open are those that `Init` forgot, and the object's.
  `LANIsWhatIsListed` - an address is local exactly when its network was listed with a mask before the
  table was full. `RelayIsGranted` - a relay is used only by grant of the server of this
  conversation, and its address is of this conversation: what the server answered and, where its answer was too
  short, the program's own request behind it - not always an address that the server gave, and never bytes of a
  name, a password or an earlier answer. `CallsReturn` (ports) - every call comes back.

## Fairness

- `MainLoop`: weak fairness of the thread's steps, as the loop of `main` never waits, and
  strong fairness of the end of a drag (the user lets go of the window). Nothing is
  assumed of input; `MaxPosted` makes it stop, and with input that never stops the pump
  may indeed never return.
- `MCContainers`: weak fairness of a hash table's walk that is under way, a loop of the program.
- `ResourceFiles`: weak fairness of the readers' steps (`Reads`), which are loops inside one call.
- `MCPlayback`: weak fairness of a call of a cinematic under way (`Playing`), and of the frames
  of the model, which `LoopGoesOn` of `MainLoop` supports.
- `UdpPort`: weak fairness of the steps of `GetPacket` and `SendPacket`, which one thread makes
  without waiting, and of `Tick`, as time passes.

The other modules assume none.

## The proofs

All theorems are about every value of the constants, under the ASSUMEs of the modules,
which TLC evaluates on each run. Each follows from an invariant that is inductive, with one lemma per action and
one step per part of the invariant that the action can disturb.

- `MainLoopProofs`, the ring (ring size a positive number, `NoEvent` no event).
  `QueueInvariant`: the counters stay a ring apart and the slots that wait hold events. The
  conjunction is inductive: that a waiting slot holds an event needs the window, since only
  within one ring do two counters never share a slot. `QueueIsFifo`: each step of the ring is a
  step of `LossyFifo` or a stutter; writing the head's slot changes none of the waiting ones but
  the oldest, which the tail then steps over.
- `MainLoopProofs`, the loop (every message that is input gives an event of `Events`).
  `LossExact`: `LossIsExact` is silent while a frame drains, so the invariant carries over the
  drain that a frame stops only with an empty ring: `Sys_GetEvent` gives `NoEvent` when nothing
  waits, and never otherwise, because waiting slots hold events. `InputInOrderAlways` needs
  the history to say of each counter which message is in its slot (`OInv`): what waits is
  ordered by counter, what was handled is behind the tail.
- `HashTableProofs` (any number of nodes, any hash function).
  `TableInvariant`, `GetMissesNothing`: the invariant is stated without walks: *a set of nodes that
  contains a key's home and is closed under links contains every node with that key*. It is strengthened
  by what an unfinished `Put` holds (the node it has in hand is free and its place is in the
  home's chain) and by what an unfinished `Get` has behind it. `TableIsMap`: on top of that each step of a
  walk is a stutter of `FirstPutMap` and each return a put or a get of it, which needs that no key is in two nodes.
- `HashTableProofs`, index hash (any tables, sizes, keys, array length and granularity).
  `IndexIsLists`: each call is a step of `KeyedLists` or leaves the lists alone. `IndexInv` says of each
  allocated table that every bucket has a list of distinct places with `hash[]` naming the first and
  `indexChain[]` the one behind each, -1 behind the last, and that no place is in two lists; cells
  of `indexChain` that no list goes through may hold -1 or any place, as clearing leaves them. It has three parts: a walk is its list, as
  a list of distinct places is no longer than the array (`Walk` is followed along the list);
  `Remove` unlinks the place from the one list that has it; and `InsertIndex` and `RemoveIndex`
  renumber one-to-one on what is listed, while the largest index that either array names covers
  all that has to move. TLC checked `IndexInv` along with `ImplementsLists`.
- `GlNamesProofs`, buffers (any surfaces, any names other than 0).
  `BuffersOwned`: `DrawnIsCurrent` is not inductive, as it says nothing of surfaces that are not
  drawn yet and `AddDrawSur` may take any; `BInv` says of every surface with buffers what they are filled with. A buffer's contents
  say whose it is, so that no two surfaces have one in common, and the second deletion, which
  comes before names are given out, finds nothing. `LeakIsExactAlways`: counted with the
  cardinality of the names in use, of which each call of `R_GenerateGeometryVbo` adds two and takes one.
- `GlNamesProofs`, textures (any sprites, shapes, files, texts, names). `AllShowWantedAlways`,
  `NamesOwnedAlways`: as long as the default texture is intact, a sprite has a label of its own or the default texture, a
  shape what the cache has for its file, and the names in use are one each of the textures that are
  held. A label's texture is in no cache, so that deleting its name hurts nobody; a sprite that was added first is the exception that
  `early` remembers.
- `GlNamesProofs`, pictures (any files whose headers have sizes, formats and faces that their formats can state: `ImageFilesAssumption`).
  `PicturesAreShown`: `ImagesInv` says which bytes an image holds, for each format: the rows of a PNG, and of an RGB JPEG whose row
  an unsigned short can count, the way up that the number of flips tells, until they are folded; the levels of a DDS file
  until they are flipped or folded. That `rowspan` is then the row itself is a fact about remainders (`ShortsFit`). Of a JPEG that
  broke off, or whose rows went over memory, nothing is told: the invariant holds or `overrun` is set, and no call follows that.
  A byte's column, row and channel follow from quotients and remainders: turning rows over, for one, is that row `h - 1 - q` has
  `q`'s bytes at the same places. `CrossesFold`: of a cross of squares of n, `Spot` names the one texel that
  shows a pixel, and where neighbours are on the cube is linear in n. TLC checked `ImagesInv` as it does
  the properties. The proof showed that two properties were said too broadly, which the files of the run had hidden:
  a CMYK JPEG as large as a cross can be folded though its pixels have no size, and so can a DDS file of such a size,
  whose levels then are gone. `CrossFolds` and `LevelsFit` name these cases now, and the run has such files.
- `NetworkProofs`, ports (any ports, sockets, numbers, latencies and bounds). One invariant for
  what an open port owns (`Owned`), where a call under way is (`AtHome`), what became of every arrival
  (`Arrived`) and in what order they wait (`Ordered`) gives `ReceivedInOrderAlways` and `OwnedAlways`;
  `SentInOrderAlways` adds that what waits under a number was sent by the port that has it, which is
  lost once two sockets had the same number; `NothingVanishesAlways` counts what is copied over.
- `NetworkProofs`, the others. `TcpLeakIsExactAlways`: `Cardinality` of the open handles against the calls of `Init` that found one.
  `RelayIsGrantedAlways`: what the server granted grows with the stages, and a new conversation
  starts with nothing granted and nothing in use. Where the association is awaited, the first ten bytes of `buf` are the
  request's, all of this conversation, so that an answer of any length leaves an address of answer and request. `FourTextsLastAlways` (four texts of addresses do not overwrite each other): the buffers hold the last four texts, in
  a ring. `LANIsWhatIsListedAlways`: while the list is scanned, the interfaces recorded are the networks with
  a mask among those looked at, as many as those; the scan ends with the table full, so that what was recorded is
  the first `MaxInterfaces` of them, or with everything looked at.
- `PlaybackProofs` (any cinematics, any videos that begin with their size and have a frame).
  `PictureIsOfFrameAlways`, `CloseClosesFileAlways`: an object that no call works on rests: it is
  behind a picture, before its first code book, or where it must be set back before it is
  played on, so the one code book may change while it waits. An object in a call, between a
  code book and its picture, has that book, because nothing else is played before the call
  comes back, and a call comes back only when it has counted a picture, come round or come to the
  end. An object whose file is open has a picture, and with it the image by which `Close` finds the file, or it was `skipped`. Which half a picture is in follows from the parity of its number, and what it was built on is the
  other half. `ShownInRangeAlways` (any meshes with whole-numbered keys, ranges and steps): the counter is
  never before the start, though `Play` and `SetFile` set the two at different times; each frame
  wraps the counter before it is drawn. The key around a frame is the least index whose key is not before it, so that
  the one in front is before it. `PoseOfFrameAlways` (any meshes whose joints come after their parents): a pass is followed
  joint by joint. A joint's parent has its matrix of this pass, so that the joint gets the product along the path to it, and a
  vertex what the last joint with a say in it gives. There is one such joint, the same in each pass. The
  inductive invariant, `PoseInv`, says so of base pose and shown pose, and that a vertex no joint has a say in is untouched.
- `ArraysProofs` (any arrays, elements and addresses, with none of them standing for "no address"). `ArraysAsMeantAlways`: every call but one comes
  down to one of three changes - an array takes a fresh block in place of its own, changes what is in its own, or is
  left without one - and each keeps the invariant because a block in use is of one array or lent, so that the
  deletion of one array's block cannot be of another's, also where `operator=` deletes first and `new[]` gives the same address
  again. The property is inductive but for the array that lent its block: the invariant says that it
  was lent, as otherwise the array that is destroyed without deleting would lose it.
- `SilEdgeProofs` (any scenes of whole triangles over any vertices, any `MAX_SIL_EDGES`).
  `HullsAreFound`: the loop of `R_IdentifySilEdges` is a recursive function, followed from edge to edge with the
  least number that fails. What it keeps is that between two vertices edges are open in one direction at most,
  and that as many are open as the surface has edges more in this direction than in the other; an edge that
  finds an open one to join takes one of these away, and one that finds none is the first or one more of its
  direction. So none is open in the end exactly when the directions balance, and sorting moves edges but loses none.
  It needs room in the array: an edge that is dropped may have been the other side of one that stays open.
- `ShadowProofs`, on top of it (any scenes of whole triangles over any vertices with whole-numbered coordinates,
  any lights, any limits of the arrays). `SidesClose`: the cap is followed triangle by triangle and the sides edge
  by edge. Collecting gives a vertex one index, so that an edge of the cap is used as often as lit triangles have
  it. A quad touches an edge with an end on the surface an odd number of times only when it is its near edge or
  stands over the vertex the edge goes up from; its diagonal counts twice. Of the silhouette edges between two vertices, or at a
  vertex, as many have different facing on their sides as lit triangles have such edges, but for an even number: joining two edges
  changes neither, and the side of a dangling edge counts as facing. So cap and quads add up to an
  even number. The diagonals follow from the near end of each having no smaller `PointHash` than the far end. The inductive
  invariant, `VolumesAsMade`, says all this of each volume behind the indices its call found in the statics; TLC
  checks it as well as it does `SidesCloseCap`.

## Only model-checked

- Liveness (`LoopGoesOn`, both `CallsReturn`, `CinCallsReturn`, `LoadTerminates`, `LoopComesRound`):
  the prover has no rules for fairness and `ENABLED`.
- Modules with RECURSIVE operators, or that use them: `B3DLoader`, `Mesh3DS`, `LwoReader`,
  `LwoMeaning`, `StrCalls`, and `ResourceFiles` on top of them.
- What folds and recursive functions compute for all inputs. There is no induction rule, and where a recursive
  function is followed step by step (as in `HashTableProofs`, `SilEdgeProofs`, `ShadowProofs` and `PlaybackProofs`) each step is a proof of its own length; not done for
  the clipped volumes (`VolumeEnclosed`), block lists (`VideoAsWritten`) and sequences filtered with `SelectSeq` (`GeometryAsWritten`, `ConvertedAsWritten`).
- `ReadAsMeant` speaks of texts, and `ProcessedAsMeant` of bytes, that are put together with folds, and stay with TLC for the
  same reason. `ImageProcess` also needs powers of two, which the provers are weak at.

## Where code and comments disagree

- `overflow_draws_nothing`: `src/src/Interaction.cpp:269` says of overflows "don't draw a
  shadow at all". The cap's check returns before anything is drawn, but `R_AddSilEdges`
  (line 127) returns to a caller that does not look at `overflowed`, and a volume without some
  of its sides is drawn.
- `no_interaction_no_tris`: `src/src/Interaction.h:10` says that interactions with no
  triangles show that light and surface do not interact. `numShadowIndices` is never reset
  (line 227 resets the vertices only), so such an interaction has the indices of the
  surfaces before.
- `equal_vertices_stay_apart`: `src/src/Mesh.cpp:213` speaks of finding all unique combinations and line
  216 of merging what is completely exact. `normalEpsilon` is 1.0 and the dot product of two unit normals must be
  above it, so corners that are equal in everything get a vertex each.
- `failure_keeps_socket`: `src/src/sys/sys_public.h:353` says of `Read` and `Write` that each "returns
  -1 on failure (and closes socket)". When the peer has closed, `Read` returns -1 and leaves the socket open (`win_net.cpp:1174`).
- `filter_takes_longer_names`: `src/src/common/String.cpp:169` says that `Filter` returns true if the string
  conforms to the filter; it does so as soon as the filter is used up, whatever is left of the name (line 279).

Disagreements that the models have and no run is spent on, because a single call shows each:

- `src/src/image_load_dds.cpp:153` says "make sure its a DDS file"; the code refuses files that begin with "DDS " and reads
  what does not (`image_load_dds` in `Images`).
- `src/src/renderer/Image_process.cpp:301` says that `R_MipMapWithAlphaSpecularity` "returns a new copy of the texture, quartered in size
  and filtered"; the new copy is memory that nothing is written to.
- Line 387 says so of `R_MipMap`, line 472 of `R_MipMap3D`. Rows of an odd width lose their place, a pixel further
  with each row of texels, and the alpha of a volume has the blue of its second slice in it.
- Line 551 says of `R_BlendOverTexture` "apply a color blend"; it shifts by nine bits where eight would do, so that colours come out half as
  bright.

`ProcessedAsMeant` and `ImagesAsPictured` leave exactly these cases open; that they hold says nothing in favour of them.

Observed, with no text to hold against them:

- One buffer leaks on every refill (`LeakIsExact`); a full hash table crashes; `Play` of an unknown name crashes;
  an animation that does not loop never shows its last part step and counts on.
- `NET_OpenSocks` accepts an answer of two bytes (`win_net.cpp:470`) and then takes the relay's address and port from what its
  own request left in `buf` (lines 478-480): one that the server never sent.
- While `r_skipROQ` is set, `ImageForTime` returns at once (`Cinematic.cpp:291`). A video that does not loop and is opened then is
  `IDLE` without an image; `RoQShutdown` (line 1620) returns early for it, so that `Close` leaves its file open and the
  next `InitFromFile` loses it. A video without a frame before its last chunk keeps the loop of line 319 for ever.
- `image_load_jpg` keeps the bytes of a row in an unsigned short (`image_load_jpg.cpp:136`): of a wide file the rows are written over
  each other and behind the memory for them. `error_exit` (lines 44-46) returns to libjpeg, where it must not,
  so that a JPEG that is broken may give anything.
- A truncated B3D file never finishes loading. A `.lwo` file in which a plug-in has no data at all is refused.
  In `add_clip`, `*nclips++` counts nothing and numbers a clip with what lies behind `nclips`: the surfaces.
- The header of a bitmap is not packed, so that its members are read
  two bytes too far on and no bitmap ever shows its pixels (`image_load_bmp.cpp:14-20`). A JPEG leaves its file open. A
  Targa file's red and blue are named the wrong way round, its origin is ignored and run lengths are read as pixels.
  Rows whose length is no multiple of four are sheared when GL takes them.
- `R_RotatePic` transposes. What is resampled to a width that 65536 columns are no multiple of drifts to the left.
  `Array::binary_search` never finds anything.
- In the stencil shadows `makeClippedPlanes` keeps what an earlier call left, and edges for which
  `clipSilEdges` has no room are left out without a word.
- Two ports that have had one number can send out of order, as delayed packets wait under numbers.
- A still or a size that comes late in a video leaves the count of frames wrong or the picture garbled, and a book that two
  frames share may be another cinematic's for the second.

## Not modelled

- `Media/KnightModel.cpp` is 9513 lines of vertices, a quarter of the lines under `src/` that are the
  project's own.
- What the libraries under the loaders do (libpng, libjpeg), script bindings, OpenGL helpers, window creation, camera and matrices: decoding of
  formats by long straight code, calls of the operating system or GL with next to no state, or
  arithmetic on floats, which TLC does not have.
- `SkinnedMesh.cpp`, `Skeleton.cpp`, `lfSpine.cpp` and others: not compiled, taken over from
  elsewhere in part, or stubs.
- In modelled components: the sizes of the arrays `remap` and `facing` (`Interaction.cpp:9-19`) and `sigIndice`
  (`tr_trisurf.cpp:337`), which are written without a check, for surfaces of more than 4096 vertices or triangles and for edges that
  are not shared; the chunk `ROQ_QUAD_HANG` (`Cinematic.cpp:1540`); the setters of positions and cameras, cube textures, the search for
  scale keys (never called; its loop would not end), writing files, the far cap
  (commented out), `R_GenerateCaps` (never called), `RenderSystem::CreateShadow` (never called; the
  sampler calls `CreateInteraction` itself), the evaluation of envelopes over time (never called), what strings
  print through `sprintf`, JPEG frames inside, and the code books that `samplesPerPixel` never selects.

## Plan

1. The release of what a `.lwo` file was read into, and the rest of `String.cpp`.
2. Time stamps in `MainLoop`: `sysMsgTime` (`win_shared.cpp:1018`), where zero doubles as
   "unset" and the comment asks that event times never run backwards.
