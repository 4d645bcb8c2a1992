------------------------------ MODULE Animation ------------------------------
(***************************************************************************)
(* AniModel: a model whose vertices follow a tree of joints, frame after   *)
(* frame.  Joints are numbered in the order in which R_InitPoses and       *)
(* UpdateJointPoses come by them, parents first.                           *)
(*                                                                         *)
(* Matrices are symbols: that of a joint at a frame is <<joint, frame>>,   *)
(* and a product is the sequence of its factors.  The position keys of a   *)
(* joint stand for its rotation keys too, which are searched alike, and    *)
(* the weight of an influence is known by its place in the joint's list.   *)
(***************************************************************************)
EXTENDS Integers, Sequences, SequencesExt

CONSTANTS
  Meshes,     \* what AddMesh makes: [parent, keys, influences, numFrames]
  Vertices,
  Motions,    \* the names of animations
  Actions,    \* the frames of animations: [startframe, endframe]
  Steps,      \* the times that go by between frames
  MaxFrame,   \* where the frame counter stops growing, as a float does
  MaxAnimCalls, \* bound: how many calls other than Update are made
  Bind,       \* the frame that joints are written in
  Garbage,    \* the frame of a key that is not there
  Null        \* the null pointer

ASSUME ActionsAssumption ==
  Actions \subseteq [startframe : 0 .. MaxFrame - 1, endframe : 0 .. MaxFrame - 1]
ASSUME MeshesAssumption ==
  \A m \in Meshes :
    /\ m.numFrames \in 0 .. MaxFrame - 1 /\ \A j \in DOMAIN m.keys : m.keys[j] \in Seq(Int)
    /\ m.parent \in Seq(Nat) /\ \A j \in DOMAIN m.parent : m.parent[j] < j
    /\ Null # m
ASSUME StepsAssumption ==
  /\ Steps \subseteq Nat /\ MaxFrame \in Nat /\ MaxAnimCalls \in Nat
  /\ Null \notin 0 .. MaxFrame /\ Null \notin Actions

VARIABLES
  mesh,         \* the mesh of SetFile, which owns _root
  startFrame, endFrame, currentFrame, isLoop,
  animations,   \* _animations: of two pushes of a name the first counts
  base,         \* basePoses: per vertex, the influence and matrix that were undone
  global,       \* globalAnimatedMatrix of each joint
  verts,        \* per vertex: the influence and matrix that were applied
  shown,        \* history: the frame of the last pose, Null when there is none
                \* since SetFile or Play
  animCalls,    \* calls other than Update so far
  animPc        \* "running", or "crashed"

animVars == <<mesh, startFrame, endFrame, currentFrame, isLoop, animations, base, global,
              verts, shown, animCalls, animPc>>
pose == <<base, global, verts>>

\* A vertex that no joint has come by.
Unposed == [by |-> <<0, 0>>, matrix |-> <<>>]

\* The constructor.  endFrame is not initialised, and not read before SetFile or
\* Play sets it.
AnimInit ==
  /\ mesh = Null
  /\ startFrame = 0 /\ endFrame = Null /\ currentFrame = 0 /\ isLoop = FALSE
  /\ animations = [n \in Motions |-> Null]
  /\ base = [v \in Vertices |-> Unposed]
  /\ global = <<>>
  /\ verts = [v \in Vertices |-> Unposed]
  /\ shown = Null /\ animCalls = 0 /\ animPc = "running"

------------------------------------------------------------------------------
\* Joint::GetPositionKeyFramesAtFrame: the keys around a frame.  Behind the last key
\* there is none (SelectInSeq gives 0), and the code reads what comes after the array.
NextKey(keys, frame) == SelectInSeq(keys, LAMBDA k : frame <= k)
PreKey(keys, frame) ==
  IF NextKey(keys, frame) > 2 THEN NextKey(keys, frame) - 1 ELSE 1

\* Joint::GetFrame: the local matrix of a joint, the identity if it has no keys.
LocalMatrix(m, j, frame) ==
  IF m.keys[j] = <<>> THEN <<>>
  ELSE IF NextKey(m.keys[j], frame) = 0 THEN <<<<j, Garbage>>>>
  ELSE <<<<j, frame>>>>

\* What a joint's matrix is multiplied to.
ParentMatrix(m, j, matrices) ==
  IF m.parent[j] = 0 THEN <<>> ELSE matrices[m.parent[j]]

\* The joint's influences on a vertex, in the order in which the loops write it.
Influences(m, j, v) ==
  {i \in DOMAIN m.influences[j] : m.influences[j][i] = v}

\* Every vertex a joint has an influence on gets that joint's matrix; of two
\* influences the second overwrites the first.
Apply(m, j, matrix, old) ==
  [v \in Vertices |->
    IF Influences(m, j, v) = {} THEN old[v]
    ELSE [by |-> <<j, Max(Influences(m, j, v))>>, matrix |-> matrix]]

\* A slip to test the properties with: a joint is posed with the matrix that its
\* parent had before.
PoseJointsStale(m, local, old) ==
  LET Next(acc, j, matrix) == [global |-> [acc.global EXCEPT ![j] = matrix],
                               verts |-> Apply(m, j, matrix, acc.verts)]
      posed[j \in 0 .. Len(m.parent)] ==
        IF j = 0 THEN old
        ELSE Next(posed[j - 1], j, ParentMatrix(m, j, old.global) \o local[j])
  IN  posed[Len(m.parent)]

\* A joint after its parent.
PoseJoint(m, j, local, acc) ==
  LET matrix == ParentMatrix(m, j, acc.global) \o local[j]
  IN  [global |-> [acc.global EXCEPT ![j] = matrix],
       verts |-> Apply(m, j, matrix, acc.verts)]

\* One pass over the joints, with the local matrix of each.
PoseJoints(m, local, old) ==
  LET posed[j \in 0 .. Len(m.parent)] ==
        IF j = 0 THEN old ELSE PoseJoint(m, j, local, posed[j - 1])
  IN  posed[Len(m.parent)]

\* What the joints were written with: their position and rotation.
Written(m) == [j \in DOMAIN m.parent |-> <<<<j, Bind>>>>]

\* R_InitBasePoses
InitPoses(m) ==
  PoseJoints(m, Written(m), [global |-> [j \in DOMAIN m.parent |-> <<>>],
                             verts |-> [v \in Vertices |-> Unposed]])

\* UpdateJointPoses, with R_UpdateGeoPoses for every joint.
LocalMatrices(m, frame) == [j \in DOMAIN m.parent |-> LocalMatrix(m, j, frame)]
UpdateJointPoses(m, frame) ==
  PoseJoints(m, LocalMatrices(m, frame), [global |-> global, verts |-> verts])

------------------------------------------------------------------------------
AnimCall ==
  /\ animPc = "running"
  /\ animCalls < MaxAnimCalls
  /\ animCalls' = animCalls + 1

\* SetFile leaves the start, the frame and the looping as they are.
SetFile(m) ==
  /\ AnimCall
  /\ mesh' = m
  /\ endFrame' = m.numFrames
  /\ base' = InitPoses(m).verts /\ global' = InitPoses(m).global
  /\ verts' = [v \in Vertices |-> Unposed] /\ shown' = Null
  /\ UNCHANGED <<startFrame, currentFrame, isLoop, animations, animPc>>

PushAnimation(name, action) ==
  /\ AnimCall
  /\ animations' =
       IF animations[name] = Null THEN [animations EXCEPT ![name] = action] ELSE animations
  /\ UNCHANGED <<mesh, startFrame, endFrame, currentFrame, isLoop, pose, shown, animPc>>

\* Play; a name that was not pushed gives a null pointer.
Play(name, loop) ==
  /\ AnimCall
  /\ animations[name] # Null
  /\ currentFrame' = animations[name].startframe
  /\ startFrame' = animations[name].startframe
  /\ endFrame' = animations[name].endframe
  /\ isLoop' = loop
  /\ shown' = Null
  /\ UNCHANGED <<mesh, animations, pose, animPc>>
PlayUnknown(name) ==
  /\ AnimCall
  /\ animations[name] = Null
  /\ animPc' = "crashed"
  /\ UNCHANGED <<mesh, startFrame, endFrame, currentFrame, isLoop, animations, pose, shown>>

\* The frame counter after a step of time.
Advanced(step) == Min({currentFrame + step, MaxFrame})

Updating == animPc = "running" /\ mesh # Null

\* The counter is set and the frame posed.
Show(frame) ==
  /\ currentFrame' = frame
  /\ global' = UpdateJointPoses(mesh, frame).global
  /\ verts' = UpdateJointPoses(mesh, frame).verts
  /\ shown' = frame
  /\ UNCHANGED <<mesh, startFrame, endFrame, isLoop, animations, base, animCalls, animPc>>

\* A slip: the end is looked for before the counter is advanced.
UpdateLate(step) == Updating /\ currentFrame <= endFrame /\ Show(Advanced(step))

\* Update within the animation.
Update(step) == Updating /\ Advanced(step) <= endFrame /\ Show(Advanced(step))

\* A slip: the counter is left where it is when the animation starts again.
UpdateLoopsInPlace(step) ==
  Updating /\ Advanced(step) > endFrame /\ isLoop /\ Show(currentFrame)

\* Update behind the end of an animation that loops, and of one that does not.
UpdateLoops(step) == Updating /\ Advanced(step) > endFrame /\ isLoop /\ Show(startFrame)
UpdateEnded(step) ==
  /\ Updating /\ Advanced(step) > endFrame /\ ~isLoop
  /\ currentFrame' = Advanced(step)
  /\ UNCHANGED <<mesh, startFrame, endFrame, isLoop, animations, pose, shown, animCalls, animPc>>

\* A key behind the last one may also lie outside of what the process may read.
UpdateCrashes(step) ==
  LET frame == IF Advanced(step) <= endFrame THEN Advanced(step) ELSE startFrame IN
  /\ Updating
  /\ Advanced(step) <= endFrame \/ isLoop
  /\ \E j \in DOMAIN mesh.keys : mesh.keys[j] # <<>> /\ NextKey(mesh.keys[j], frame) = 0
  /\ animPc' = "crashed"
  /\ UNCHANGED <<mesh, startFrame, endFrame, currentFrame, isLoop, animations, pose,
                 shown, animCalls>>

AnimCrashed == animPc = "crashed" /\ UNCHANGED animVars

\* Without a mesh Update comes back at once.
UpdateNothing == animPc = "running" /\ mesh = Null /\ UNCHANGED animVars

AnimFrame ==
  \/ \E step \in Steps :
       Update(step) \/ UpdateLoops(step) \/ UpdateEnded(step) \/ UpdateCrashes(step)
  \/ UpdateNothing

AnimNext ==
  \/ \E m \in Meshes : SetFile(m)
  \/ \E name \in Motions, action \in Actions : PushAnimation(name, action)
  \/ \E name \in Motions : PlayUnknown(name) \/ \E loop \in BOOLEAN : Play(name, loop)
  \/ AnimFrame
  \/ AnimCrashed

\* Frames go on, which MainLoop shows of the program.
AnimSpec == AnimInit /\ [][AnimNext]_animVars /\ WF_animVars(AnimFrame)

------------------------------------------------------------------------------
\* The shape of the state.
AnimTypeOK ==
  /\ mesh \in Meshes \cup {Null}
  /\ startFrame \in 0 .. MaxFrame /\ currentFrame \in 0 .. MaxFrame
  /\ endFrame \in 0 .. MaxFrame \cup {Null} /\ (mesh # Null => endFrame # Null)
  /\ isLoop \in BOOLEAN /\ animPc \in {"running", "crashed"}
  /\ animations \in [Motions -> Actions \cup {Null}]
  /\ shown \in 0 .. MaxFrame \cup {Null} /\ animCalls \in 0 .. MaxAnimCalls

\* The joints above a joint, from the root down to the joint itself.
Above(m, j) ==
  LET path[k \in 0 .. Len(m.parent)] == IF k = 0 THEN <<>> ELSE Append(path[m.parent[k]], k)
  IN  path[j]

\* The pose of a frame: the matrices of a joint and all above it, at that frame.
PoseMatrix(m, j, frame) ==
  FlattenSeq([k \in DOMAIN Above(m, j) |-> LocalMatrix(m, Above(m, j)[k], frame)])

\* Vertices do not drift: however many frames, loops and animations went before, the
\* pose is that of the frame shown (it starts from basePoses, and no joint is
\* multiplied to a matrix that its parent had in an earlier frame).  A vertex with
\* several influences is posed by the one that was undone for its base pose, with the
\* same weight: the two passes over the joints, R_InitPoses and UpdateJointPoses,
\* overwrite in the same order.
PoseOfFrame ==
  /\ DOMAIN base = Vertices /\ DOMAIN verts = Vertices
  /\ mesh # Null => DOMAIN global = DOMAIN mesh.parent
  /\ shown # Null => \A v \in Vertices :
       LET j == verts[v].by[1] IN
       /\ verts[v].matrix = PoseMatrix(mesh, j, shown)
       /\ verts[v].by = base[v].by
       /\ base[v].matrix = [k \in DOMAIN Above(mesh, j) |-> <<Above(mesh, j)[k], Bind>>]

\* The animation has keys up to its end.
HasKeys ==
  /\ startFrame <= endFrame
  /\ \A j \in DOMAIN mesh.keys : mesh.keys[j] # <<>> => endFrame <= Last(mesh.keys[j])

\* The keys that are interpolated between are neighbours, with the frame between them
\* or before the first one; and there are such keys, as long as the animation has keys
\* up to its end ("i" in GetPositionKeyFramesAtFrame stays in the array).
KeysAround ==
  \A j \in DOMAIN mesh.keys :
    LET keys == mesh.keys[j]
        n == NextKey(keys, shown)
        p == PreKey(keys, shown)
    IN  keys # <<>> =>
          /\ HasKeys => n # 0
          /\ n # 0 =>
               /\ shown <= keys[n]
               /\ p = n \/ (p + 1 = n /\ keys[p] <= shown)
               /\ p = n => n = 1

\* A frame that is shown is one of the animation, at its ends too, with whatever was
\* left of an earlier animation or an earlier mesh, and it is put together from the
\* keys around it.
ShownInRange ==
  /\ AnimTypeOK
  /\ shown # Null =>
       /\ startFrame <= endFrame => startFrame <= shown /\ shown <= endFrame
       /\ KeysAround

\* An animation that loops comes back to its start, again and again.
LoopComesRound ==
  LET looping == animPc = "running" /\ mesh # Null /\ isLoop
  IN  looping ~> (currentFrame = startFrame \/ ~looping)
==============================================================================
