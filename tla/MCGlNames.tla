----------------------------- MODULE MCGlNames -----------------------------
(***************************************************************************)
(* What OpenGL gives out names for: the textures of two sprites and two    *)
(* shapes, with three files (one of which is never there) and as many      *)
(* names as can be in use at a time, so that every name that is deleted    *)
(* comes back; and the buffers of a plane and another surface.  The two *)
(* kinds of names have nothing to do with each other, and one of them is   *)
(* taken at a time.                                                        *)
(***************************************************************************)
EXTENDS Textures, Buffers, TLC

VARIABLE kind   \* "textures" or "buffers"
nameVars == <<vars, bufferVars, kind>>

NamesInit ==
  /\ kind \in {"textures", "buffers"}
  /\ Init /\ BufferInit
  /\ kind = "buffers" => onDisk = {}

NamesNext ==
  /\ UNCHANGED kind
  /\ \/ kind = "textures" /\ Next /\ UNCHANGED bufferVars
     \/ kind = "buffers" /\ BufferNext /\ UNCHANGED vars

NamesSpec == NamesInit /\ [][NamesNext]_nameVars

\* One name is as good as another, and so is one text, one of the sprites.
Symmetric ==
  Permutations(Names) \cup Permutations(Texts) \cup Permutations(Sprites)
=============================================================================
