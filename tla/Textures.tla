------------------------------- MODULE Textures ------------------------------
(***************************************************************************)
(* Who owns a GL texture name: the texture cache of ResourceSystem, the    *)
(* Texture objects it hands out, the surfaces that draw with them, and the *)
(* labels of Sprite, each a texture of its own that SetLabel replaces.     *)
(* glGenTextures hands out any name that is not in use, so a name that was *)
(* deleted comes back with other pixels under it.                          *)
(*                                                                         *)
(* The cache is a map, which HashTable shows the table of the code to be.  *)
(* A texture stands for its number in the order of creation; Texture       *)
(* objects are never freed.  Pixels stand for the image or the text that   *)
(* they were made from.                                                    *)
(***************************************************************************)
EXTENDS Naturals, Sequences, Functions

CONSTANTS
  Sprites,     \* the sprites, whose texture is a label
  Shapes,      \* the planes and models, whose texture is an image
  Files,       \* the image files that are asked for
  DefaultPath, \* DEFAULT_TEXTURE_PATH
  NoPng,       \* ".png", what AddUISurf asks for when a sprite has no texture
  Texts,       \* the texts of labels
  Names,       \* GL texture names
  MaxTextures, \* how many textures are made
  None         \* the null pointer

ASSUME SurfacesAssumption == Sprites \cap Shapes = {}
ASSUME FilesAssumption == DefaultPath \in Files /\ NoPng \in Files
ASSUME ImagesAssumption == None \notin Files \cup Texts /\ Files \cap Texts = {}
ASSUME MaxTexturesAssumption == MaxTextures \in Nat /\ None \notin 1 .. MaxTextures

VARIABLES
  onDisk,   \* the files that exist and load
  cache,    \* ResourceSystem::_textures
  texture,  \* per texture: its GL name
  gl,       \* the GL names in use and the pixels under them
  tex,      \* per surface: its texture
  wanted,   \* history: what each surface was last told to show
  early,    \* history: a sprite was added before it was labelled
  pc        \* "idle", or "crashed" after a call that never comes back

vars == <<onDisk, cache, texture, gl, tex, wanted, early, pc>>

Textured == Sprites \cup Shapes
Empty == [x \in {} |-> None]

\* A map with one more entry.
With(f, x, y) == [z \in DOMAIN f \cup {x} |-> IF z = x THEN y ELSE f[z]]

Init ==
  /\ onDisk \in SUBSET (Files \ {NoPng})
  /\ cache = Empty
  /\ texture = <<>>
  /\ gl = Empty
  /\ tex = [s \in Textured |-> None]
  /\ wanted = [s \in Textured |-> None]
  /\ early = FALSE
  /\ pc = "idle"

------------------------------------------------------------------------------
\* Texture::Init: a name that is not in use gets the pixels, and the new texture
\* is given to surface s.
InitTexture(image, s, names) ==
  /\ Len(texture) < MaxTextures
  /\ \E n \in Names \ DOMAIN names :
       /\ gl' = With(names, n, image)
       /\ texture' = Append(texture, n)
  /\ tex' = [tex EXCEPT ![s] = Len(texture) + 1]
  /\ wanted' = [wanted EXCEPT ![s] = image]

\* What FindTexture comes back with: a file that does not load falls back on the
\* default texture.
ImageFor(file) ==
  IF file \in DOMAIN cache \cup onDisk THEN file ELSE DefaultPath

\* FindTexture, its result given to surface s.  When the default texture itself
\* does not load, FindTexture calls itself for it without end.
FindTexture(file, s) ==
  \/ /\ ImageFor(file) \in DOMAIN cache
     /\ tex' = [tex EXCEPT ![s] = cache[ImageFor(file)]]
     /\ wanted' = [wanted EXCEPT ![s] = ImageFor(file)]
     /\ UNCHANGED <<cache, texture, gl, pc>>
  \/ /\ ImageFor(file) \in onDisk \ DOMAIN cache
     /\ InitTexture(ImageFor(file), s, gl)
     /\ cache' = With(cache, ImageFor(file), Len(texture) + 1)
     /\ UNCHANGED pc
  \/ /\ ImageFor(file) \notin DOMAIN cache \cup onDisk
     /\ pc' = "crashed"
     /\ UNCHANGED <<cache, texture, gl, tex, wanted>>

\* Plane::SetTexture and Model::SetFile.
ShapeSetTexture(s, file) ==
  /\ pc = "idle"
  /\ FindTexture(file, s)
  /\ UNCHANGED <<onDisk, early>>

\* AddSprite: AddUISurf gives a sprite without a texture the default one.
AddSprite(s) ==
  /\ pc = "idle"
  /\ tex[s] = None
  /\ FindTexture(NoPng, s)
  /\ early' = TRUE
  /\ UNCHANGED onDisk

\* The names in use after SetLabel deleted the one of the sprite's texture.
NamesAfterDelete(s) ==
  IF tex[s] = None THEN gl ELSE Restrict(gl, DOMAIN gl \ {texture[tex[s]]})

\* Slips: the old texture's name stays in use, or the new one's is deleted.
SetLabelKeepsOld(s, text) ==
  /\ pc = "idle"
  /\ InitTexture(text, s, gl)
  /\ UNCHANGED <<onDisk, cache, early, pc>>
SetLabelDeletesNew(s, text) ==
  /\ pc = "idle"
  /\ Len(texture) < MaxTextures
  /\ \E n \in Names \ DOMAIN gl : texture' = Append(texture, n)
  /\ tex' = [tex EXCEPT ![s] = Len(texture) + 1]
  /\ wanted' = [wanted EXCEPT ![s] = text]
  /\ UNCHANGED <<gl, onDisk, cache, early, pc>>

\* Sprite::SetLabel: the texture the sprite has loses its name, whoever else draws
\* with it; AddText makes a new one.
SetLabel(s, text) ==
  /\ pc = "idle"
  /\ InitTexture(text, s, NamesAfterDelete(s))
  /\ UNCHANGED <<onDisk, cache, early, pc>>

\* SetLabel when Sys_DrawText fails, and Sprite::SetTexture: FindTexture is called
\* through the sprite's _resourceSys, which nothing ever sets.
SpriteFindsTexture(s) ==
  /\ pc = "idle"
  /\ \/ gl' = gl
     \/ gl' = NamesAfterDelete(s)
  /\ pc' = "crashed"
  /\ UNCHANGED <<onDisk, cache, texture, tex, wanted, early>>

Crashed ==
  /\ pc = "crashed"
  /\ UNCHANGED vars

\* As many textures are made as the model makes.
Enough ==
  /\ Len(texture) = MaxTextures
  /\ UNCHANGED vars

Next ==
  \/ \E s \in Shapes, file \in Files \ {NoPng} : ShapeSetTexture(s, file)
  \/ \E s \in Sprites : AddSprite(s) \/ SpriteFindsTexture(s)
  \/ \E s \in Sprites, text \in Texts : SetLabel(s, text)
  \/ Crashed
  \/ Enough

Spec == Init /\ [][Next]_vars

------------------------------------------------------------------------------
Images == Files \cup Texts

\* The shape of the state.
TypeOK ==
  /\ onDisk \in SUBSET Files
  /\ DOMAIN cache \in SUBSET Files /\ Range(cache) \in SUBSET (1 .. Len(texture))
  /\ texture \in Seq(Names) /\ Len(texture) <= MaxTextures
  /\ DOMAIN gl \in SUBSET Names /\ Range(gl) \in SUBSET Images
  /\ tex \in [Textured -> 1 .. Len(texture) \cup {None}]
  /\ wanted \in [Textured -> Images \cup {None}]
  /\ early \in BOOLEAN /\ pc \in {"idle", "crashed"}

Shows(t, image) == texture[t] \in DOMAIN gl /\ gl[texture[t]] = image

ShowsWanted(s) == tex[s] # None => Shows(tex[s], wanted[s])

DefaultIntact == DefaultPath \in DOMAIN cache => Shows(cache[DefaultPath], DefaultPath)

\* Labels replaced while the program runs disturb nobody: every surface shows what
\* it was last told to show, although names are deleted and handed out again, as
\* long as sprites are labelled before they are added, as the sampler does it
\* (SetLabel deletes by name, FindTexture shares one texture among all who ask for a
\* file).  When one is added first, AddUISurf hands it the default texture that the
\* cache shares, and nothing goes wrong before SetLabel deletes that one's name.
AllShowWanted ==
  pc = "idle" /\ (early => DefaultIntact) => \A s \in Textured : ShowsWanted(s)

\* The textures that somebody can still come by.
Held == Range(cache) \cup {tex[s] : s \in {s \in Sprites : tex[s] # None}}

\* No name is leaked and none is shared: the names in use are those of the cached
\* textures and of the current labels, one each.  A label is replaced on every key
\* pressed, so one name leaked per label would be a leak without bound.  (Sprites are
\* labelled before they are added here too.)
NamesOwned ==
  /\ TypeOK
  /\ pc = "idle" /\ ~early =>
       /\ DOMAIN gl = {texture[t] : t \in Held}
       /\ \A t, u \in Held : texture[t] = texture[u] => t = u
==============================================================================
