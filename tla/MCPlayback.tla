----------------------------- MODULE MCPlayback ----------------------------
(***************************************************************************)
(* What is played: two cinematics with three videos, what the chunks of a  *)
(* video do to a picture and to the code book, and an animated model.  The *)
(* four share no state in the models: one is taken at a time.              *)
(*                                                                         *)
(* The model is given a mesh of three joints with a vertex that two of     *)
(* them have a say in, or a shorter one of two joints, one of which has no *)
(* keys.                                                                   *)
(***************************************************************************)
EXTENDS Cinematic, RoqPicture, Animation

\* A video that takes everything there is, one that begins with a still and is
\* broken off, and one that goes bad.
MCVideos == {<<"info", "packet", "book", "vq", "info", "book", "vq", "sound">>,
             <<"info", "jpeg", "book", "vq", "over">>,
             <<"info", "book", "vq", "bad", "sound">>}

\* Blocks of 8x8, whole, moved, kept and in four parts of every kind.
Whole(n) == [code |-> "vq", entries |-> <<n>>]
Cells == [code |-> "vq", entries |-> <<5, 6, 7, 8>>]
Keep == [code |-> "keep"]
Move(x, y) == [code |-> "move", to |-> <<x, y>>]
Parts(a, b, c, d) == [code |-> "drop", parts |-> <<a, b, c, d>>]
Mixed == Parts(Whole(9), Cells, Keep, Move(2, 2))
Blocks == {Whole(3), Keep, Move(4, -2), Move(-2, 6), Mixed, Parts(Cells, Cells, Cells, Cells),
           Parts(Keep, Move(0, -4), Whole(9), Whole(9)), Parts(Move(2, 0), Keep, Cells, Whole(9))}

\* Pictures of less than a square of 16x16, of two of them, the second cut off,
\* and one that is four times as wide as it is high.
MCFrames ==
  [w : {24}, h : {8}, mean : {<<1, -2>>}, blocks : [1..3 -> Blocks]]
  \cup [w : {8}, h : {16}, mean : {<<0, 0>>}, blocks : [1..2 -> Blocks]]
  \cup [w : {24}, h : {16}, mean : {<<-1, 1>>}, blocks : [1..6 -> {Whole(3), Mixed}]]
  \cup [w : {32}, h : {8}, mean : {<<0, 1>>}, blocks : [1..4 -> {Whole(3), Mixed, Move(4, -2)}]]
AFrame == CHOOSE f \in MCFrames : TRUE

\* Cells of extreme and of middling colors, and books that are whole or not.
Cell(i) == <<20 * i, 50 + i, 30 * i, 7 * i, 60 * i, 255 - 50 * i>>
MCBooks ==
  [cells : [1..2 -> {<<16, 235, 0, 255, 128, 128>>, <<90, 91, 60, 200, 0, 255>>, <<90, 17, 6, 200, 240, 30>>}],
   fours : {<<<<0, 1, 1, 0>>>>}]
  \cup [cells : {[i \in 1..3 |-> Cell(i)]}, fours : UNION {[1..n -> {<<0, 1, 2, 0>>, <<2, 2, 1, 0>>}] : n \in 0..2}]
  \cup {[cells |-> [i \in 1..4 |-> Cell(i)],
         fours |-> <<<<0, 1, 2, 3>>, <<3, 2, 1, 0>>, <<1, 1, 1, 1>>, <<2, 0, 2, 0>>>>]}
ABook == CHOOSE b \in MCBooks : TRUE

MCMeshes ==
  {[parent |-> <<0, 1, 1>>,
    keys |-> <<<<0, 2, 4>>, <<0, 4>>, <<0, 1, 3, 4>>>>,
    influences |-> <<<<"v1">>, <<"v2", "v3", "v2">>, <<"v3">>>>,
    numFrames |-> 4],
   [parent |-> <<0, 1>>,
    keys |-> <<<<>>, <<1, 2>>>>,
    influences |-> <<<<"v2">>, <<"v1", "v2">>>>,
    numFrames |-> 2]}
MCActions ==
  {[startframe |-> 0, endframe |-> 2], [startframe |-> 2, endframe |-> 4],
   [startframe |-> 3, endframe |-> 3]}

VARIABLE part   \* what is played
playVars == <<cinVars, roqVars, animVars, part>>

PlayInit ==
  /\ part \in {"video", "picture", "book", "model"}
  /\ CinInit /\ RoqInit /\ AnimInit
  /\ part # "picture" => frame = AFrame
  /\ part # "book" => tables.of = ABook

PlayNext ==
  /\ UNCHANGED part
  /\ \/ part = "video" /\ CinNext /\ UNCHANGED <<roqVars, animVars>>
     \/ part = "picture" /\ blitVQQuad32fs /\ UNCHANGED <<cinVars, animVars>>
     \/ part = "book" /\ DecodeBook /\ UNCHANGED <<cinVars, animVars>>
     \/ part = "model" /\ AnimNext /\ UNCHANGED <<cinVars, roqVars>>

\* The model's frames go on while it is what is played.
ModelFrame == part = "model" /\ AnimFrame /\ UNCHANGED <<cinVars, roqVars, part>>

PlaySpec ==
  PlayInit /\ [][PlayNext]_playVars /\ WF_cinVars(Playing) /\ WF_playVars(ModelFrame)
=============================================================================
