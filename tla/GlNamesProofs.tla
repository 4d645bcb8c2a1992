---------------------------- MODULE GlNamesProofs ---------------------------
(***************************************************************************)
(* Whatever labels are replaced and whatever files are asked for, in any   *)
(* order and however many, every surface shows what it was told to show    *)
(* and no GL name is leaked or shared, as long as no label replaces the    *)
(* default texture that the cache shares.  Surfaces own their buffers and  *)
(* are drawn as they were last written, for all sets of surfaces and all   *)
(* sets of names that GL may give out, and whatever two of the names it    *)
(* gives out.  The PNGs and JPEGs that Images.ShowsAll names are shown as   *)
(* their files have them, of any size, and crosses of any size fold into   *)
(* cubes without seams.                                                    *)
(***************************************************************************)
EXTENDS Textures, Buffers, Images, FiniteSetTheorems, SequenceTheorems, TLAPS

-----------------------------------------------------------------------------
(* The textures and labels.                                                *)

\* No label was set on a sprite that had the default texture.
Good == early => DefaultIntact

\* What is cached shows its file; a shape shows what the cache has for its file.
CacheShows == \A f \in DOMAIN cache : Shows(cache[f], f)
ShapesShare ==
  \A s \in Shapes : tex[s] # None => wanted[s] \in DOMAIN cache /\ tex[s] = cache[wanted[s]]

\* A sprite has a label of its own, or, when it was added before it was labelled, the
\* default texture.
OwnLabel(s) ==
  /\ tex[s] \notin Range(cache)
  /\ Shows(tex[s], wanted[s])
  /\ \A r \in Sprites \ {s} : tex[r] # tex[s]
HasDefault(s) ==
  /\ early /\ DefaultPath \in DOMAIN cache
  /\ tex[s] = cache[DefaultPath] /\ wanted[s] = DefaultPath
SpritesShow == \A s \in Sprites : tex[s] # None => OwnLabel(s) \/ HasDefault(s)

\* The names in use are those of the textures that are held, one each.
NamesMatch ==
  /\ \A t \in Held : texture[t] \in DOMAIN gl
  /\ \A n \in DOMAIN gl : \E t \in Held : n = texture[t]
  /\ \A t, u \in Held : texture[t] = texture[u] => t = u

Owns == CacheShows /\ ShapesShare /\ SpritesShow /\ NamesMatch

NoPngNeverThere == NoPng \notin onDisk /\ NoPng \notin DOMAIN cache

TInv == TypeOK /\ NoPngNeverThere /\ (pc = "idle" /\ Good => Owns)

LEMMA TInvImplies == TInv => AllShowWanted /\ NamesOwned
<1> SUFFICES ASSUME TInv PROVE AllShowWanted /\ NamesOwned
  OBVIOUS
<1>1. ASSUME pc = "idle", Good, NEW s \in Textured PROVE ShowsWanted(s)
  <2>1. Owns
    BY <1>1 DEF TInv
  <2>2. CASE s \in Shapes
    BY <2>1, <2>2 DEF Owns, CacheShows, ShapesShare, ShowsWanted
  <2>3. CASE s \in Sprites
    <3>1. ASSUME tex[s] # None, HasDefault(s) PROVE Shows(tex[s], wanted[s])
      BY <2>1, <3>1 DEF Owns, CacheShows, HasDefault
    <3>. QED BY <2>1, <2>3, <3>1 DEF Owns, SpritesShow, OwnLabel, ShowsWanted
  <2>. QED BY <2>2, <2>3 DEF Textured
<1>2. pc = "idle" /\ ~early => NamesMatch
  BY DEF TInv, Good, Owns
<1>3. ASSUME NamesMatch PROVE DOMAIN gl = {texture[t] : t \in Held}
  <2>1. ASSUME NEW n PROVE n \in DOMAIN gl <=> n \in {texture[t] : t \in Held}
    BY <1>3 DEF NamesMatch
  <2>. QED BY <2>1
<1>4. pc = "idle" /\ ~early =>
        /\ DOMAIN gl = {texture[t] : t \in Held}
        /\ \A t, u \in Held : texture[t] = texture[u] => t = u
  BY <1>2, <1>3 DEF NamesMatch
<1>. QED BY <1>1, <1>4 DEF AllShowWanted, NamesOwned, Good, TInv

-----------------------------------------------------------------------------
(* The operators that change the names and the cache. *)

LEMMA WithEntry ==
  ASSUME NEW d, NEW e, NEW f, NEW g, g = With(f, d, e)
  PROVE  /\ DOMAIN g = DOMAIN f \cup {d}
         /\ g[d] = e
         /\ \A x \in DOMAIN f : x # d => g[x] = f[x]
BY DEF With

LEMMA RangeWith ==
  ASSUME NEW d, NEW e, NEW f, NEW g, g = With(f, d, e), d \notin DOMAIN f
  PROVE  Range(g) = Range(f) \cup {e}
<1>1. DOMAIN g = DOMAIN f \cup {d} /\ g[d] = e /\ \A x \in DOMAIN f : g[x] = f[x]
  BY DEF With
<1>. QED BY <1>1 DEF Range

LEMMA AfterDelete ==
  ASSUME NEW s
  PROVE  /\ DOMAIN NamesAfterDelete(s)
              = IF tex[s] = None THEN DOMAIN gl ELSE DOMAIN gl \ {texture[tex[s]]}
         /\ \A n \in DOMAIN NamesAfterDelete(s) : n \in DOMAIN gl /\ NamesAfterDelete(s)[n] = gl[n]
BY DEF NamesAfterDelete, Restrict

LEMMA HeldTyped ==
  ASSUME TypeOK
  PROVE  /\ texture \in Seq(Names) /\ DOMAIN texture = 1 .. Len(texture) /\ Len(texture) \in Nat
         /\ Held \subseteq 1 .. Len(texture) /\ Range(cache) \subseteq Held
         /\ \A f \in DOMAIN cache : cache[f] \in Held
         /\ \A s \in Sprites : tex[s] # None => tex[s] \in Held
<1>1. texture \in Seq(Names) /\ DOMAIN texture = 1 .. Len(texture) /\ Len(texture) \in Nat
  BY LenProperties DEF TypeOK
<1>2. \A s \in Sprites : tex[s] # None => tex[s] \in 1 .. Len(texture)
  BY DEF TypeOK, Textured
<1>3. Range(cache) \subseteq 1 .. Len(texture)
  BY DEF TypeOK
<1>. QED BY <1>1, <1>2, <1>3 DEF Held, Range

\* The names are those of the textures of H, one each, with the pixels they have.
NamesOf(names, H) ==
  /\ H \in SUBSET (1 .. Len(texture))
  /\ \A t \in H : texture[t] \in DOMAIN names
  /\ \A n \in DOMAIN names : \E t \in H : n = texture[t]
  /\ \A n \in DOMAIN names : n \in DOMAIN gl /\ names[n] = gl[n]
  /\ \A t, u \in H : texture[t] = texture[u] => t = u

\* The names are those of the textures of H, which show what they did, and of a new
\* one.
Made(H, new, what) ==
  /\ new \notin 1 .. Len(texture)
  /\ \A t \in H \cup {new} : texture'[t] \in DOMAIN gl'
  /\ \A n \in DOMAIN gl' : \E t \in H \cup {new} : n = texture'[t]
  /\ \A t, u \in H \cup {new} : texture'[t] = texture'[u] => t = u
  /\ \A t \in H : \A im : Shows(t, im) => texture'[t] \in DOMAIN gl' /\ gl'[texture'[t]] = im
  /\ texture'[new] \in DOMAIN gl' /\ gl'[texture'[new]] = what

LEMMA NewTexture ==
  ASSUME TypeOK, NEW H, NEW names, NEW what, NEW s,
         InitTexture(what, s, names), NamesOf(names, H)
  PROVE  Made(H, Len(texture) + 1, what)
<1>1. PICK new : new = Len(texture) + 1
  OBVIOUS
<1>2. /\ H \in SUBSET (1 .. Len(texture))
      /\ \A t \in H : texture[t] \in DOMAIN names
      /\ \A n \in DOMAIN names : \E t \in H : n = texture[t]
      /\ \A n \in DOMAIN names : n \in DOMAIN gl /\ names[n] = gl[n]
      /\ \A t, u \in H : texture[t] = texture[u] => t = u
  BY DEF NamesOf
<1>3. PICK n \in Names \ DOMAIN names :
        gl' = With(names, n, what) /\ texture' = Append(texture, n)
  BY DEF InitTexture
<1>4. /\ new \notin 1 .. Len(texture) /\ texture'[new] = n
      /\ \A t \in 1 .. Len(texture) : texture'[t] = texture[t]
  BY <1>1, <1>3, HeldTyped, AppendProperties
<1>5. /\ DOMAIN gl' = DOMAIN names \cup {n} /\ gl'[n] = what
      /\ \A x \in DOMAIN names : gl'[x] = names[x]
  BY <1>3 DEF With
<1>6. \A t \in H : texture'[t] = texture[t] /\ texture[t] \in DOMAIN names /\ texture[t] # n
  BY <1>2, <1>3, <1>4
<1>7. \A t \in H \cup {new} : texture'[t] \in DOMAIN gl'
  BY <1>4, <1>5, <1>6
<1>8. ASSUME NEW x \in DOMAIN gl' PROVE \E t \in H \cup {new} : x = texture'[t]
  <2>1. CASE x = n
    BY <1>4, <2>1
  <2>2. CASE x \in DOMAIN names
    <3>1. PICK t \in H : x = texture[t]
      BY <1>2, <2>2
    <3>. QED BY <1>6, <3>1
  <2>. QED BY <1>5, <2>1, <2>2
<1>9. \A t, u \in H \cup {new} : texture'[t] = texture'[u] => t = u
  BY <1>2, <1>4, <1>6
<1>10. ASSUME NEW t \in H, NEW im, Shows(t, im)
       PROVE  texture'[t] \in DOMAIN gl' /\ gl'[texture'[t]] = im
  BY <1>2, <1>5, <1>6, <1>10 DEF Shows
<1>11. Made(H, new, what)
  BY <1>4, <1>5, <1>7, <1>8, <1>9, <1>10 DEF Made
<1>. QED BY <1>1, <1>11

-----------------------------------------------------------------------------
(* Type correctness. *)

LEMMA InitTyped == Init => TInv
<1> SUFFICES ASSUME Init PROVE TInv
  OBVIOUS
<1>1. /\ DOMAIN cache = {} /\ DOMAIN gl = {} /\ Range(cache) = {} /\ Range(gl) = {}
      /\ texture = <<>> /\ \A s \in Textured : tex[s] = None
  BY DEF Init, Empty, Range
<1>2. TypeOK
  <2>1. texture \in Seq(Names) /\ Len(texture) = 0 /\ Len(texture) <= MaxTextures
    BY <1>1, EmptySeq, MaxTexturesAssumption
  <2>2. tex \in [Textured -> 1 .. Len(texture) \cup {None}]
    BY DEF Init
  <2>3. wanted \in [Textured -> Images \cup {None}]
    BY DEF Init
  <2>. QED BY <1>1, <2>1, <2>2, <2>3 DEF Init, TypeOK
<1>3. NoPngNeverThere
  BY <1>1 DEF Init, NoPngNeverThere
<1>4. Held = {}
  BY <1>1 DEF Held, Textured
<1>5. Owns
  BY <1>1, <1>4 DEF Owns, CacheShows, ShapesShare, SpritesShow, NamesMatch, Textured
<1>. QED BY <1>2, <1>3, <1>5 DEF TInv

LEMMA InitTextureTyped ==
  ASSUME TypeOK, NEW what \in Images, NEW s \in Textured, NEW names,
         InitTexture(what, s, names),
         \A n \in DOMAIN names : n \in DOMAIN gl /\ names[n] = gl[n]
  PROVE  /\ texture' \in Seq(Names) /\ Len(texture') = Len(texture) + 1
         /\ Len(texture') <= MaxTextures
         /\ DOMAIN gl' \in SUBSET Names /\ Range(gl') \in SUBSET Images
         /\ tex' \in [Textured -> 1 .. Len(texture') \cup {None}]
         /\ wanted' \in [Textured -> Images \cup {None}]
<1>1. PICK n \in Names \ DOMAIN names :
        gl' = With(names, n, what) /\ texture' = Append(texture, n)
  BY DEF InitTexture
<1>2. /\ texture' \in Seq(Names) /\ Len(texture') = Len(texture) + 1 /\ Len(texture) \in Nat
      /\ Len(texture') <= MaxTextures
  BY <1>1, HeldTyped, AppendProperties, MaxTexturesAssumption DEF InitTexture
<1>3. /\ DOMAIN gl' = DOMAIN names \cup {n} /\ gl'[n] = what
      /\ \A x \in DOMAIN names : gl'[x] = gl[x] /\ x \in DOMAIN gl
  BY <1>1 DEF With
<1>4. DOMAIN gl' \in SUBSET Names /\ Range(gl') \in SUBSET Images
  <2>1. \A x \in DOMAIN gl : x \in Names /\ gl[x] \in Images
    BY DEF TypeOK, Range
  <2>2. \A x \in DOMAIN gl' : x \in Names /\ gl'[x] \in Images
    BY <1>1, <1>3, <2>1
  <2>. QED BY <2>2 DEF Range
<1>5. tex' \in [Textured -> 1 .. Len(texture') \cup {None}]
  <2>1. 1 .. Len(texture) \subseteq 1 .. Len(texture') /\ Len(texture) + 1 \in 1 .. Len(texture')
    BY <1>2
  <2>. QED BY <2>1 DEF InitTexture, TypeOK
<1>6. wanted' \in [Textured -> Images \cup {None}]
  BY DEF InitTexture, TypeOK
<1>. QED BY <1>2, <1>4, <1>5, <1>6

LEMMA FindTextureTyped ==
  ASSUME TypeOK, NoPngNeverThere, NEW file \in Files, NEW s \in Textured, FindTexture(file, s),
         UNCHANGED onDisk, early' \in BOOLEAN
  PROVE  TypeOK' /\ NoPngNeverThere'
<1> DEFINE f == ImageFor(file)
<1>1. f \in Files /\ f \in Images
  BY FilesAssumption DEF ImageFor, Images
<1>2. CASE f \in DOMAIN cache /\ tex' = [tex EXCEPT ![s] = cache[f]]
           /\ wanted' = [wanted EXCEPT ![s] = f] /\ UNCHANGED <<cache, texture, gl, pc>>
  <2>1. cache[f] \in 1 .. Len(texture)
    BY <1>2 DEF TypeOK, Range
  <2>. QED BY <1>1, <1>2, <2>1 DEF TypeOK, NoPngNeverThere
<1>3. CASE f \in onDisk \ DOMAIN cache /\ InitTexture(f, s, gl)
           /\ cache' = With(cache, f, Len(texture) + 1) /\ UNCHANGED pc
  <2>1. /\ texture' \in Seq(Names) /\ Len(texture') = Len(texture) + 1
        /\ Len(texture') <= MaxTextures
        /\ DOMAIN gl' \in SUBSET Names /\ Range(gl') \in SUBSET Images
        /\ tex' \in [Textured -> 1 .. Len(texture') \cup {None}]
        /\ wanted' \in [Textured -> Images \cup {None}]
    BY <1>1, <1>3, InitTextureTyped
  <2>2. DOMAIN cache' = DOMAIN cache \cup {f} /\ Range(cache') = Range(cache) \cup {Len(texture) + 1}
    BY <1>3, RangeWith DEF With
  <2>3. Range(cache') \in SUBSET (1 .. Len(texture'))
    BY <2>1, <2>2, HeldTyped DEF TypeOK
  <2>. QED BY <1>1, <1>3, <2>1, <2>2, <2>3 DEF TypeOK, NoPngNeverThere
<1>4. CASE pc' = "crashed" /\ UNCHANGED <<cache, texture, gl, tex, wanted>>
  BY <1>4 DEF TypeOK, NoPngNeverThere
<1>. QED BY <1>2, <1>3, <1>4 DEF FindTexture

-----------------------------------------------------------------------------
(* Once a label has replaced the default texture it stays replaced. *)

LEMMA BrokenStays ==
  ASSUME TInv, ~Good, early',
         \A f \in DOMAIN cache : f \in DOMAIN cache' /\ cache'[f] = cache[f],
         \A t \in 1 .. Len(texture) : texture'[t] = texture[t],
         \A n \in DOMAIN gl' : gl'[n] # DefaultPath \/ (n \in DOMAIN gl /\ gl'[n] = gl[n])
  PROVE  ~Good'
<1>1. DefaultPath \in DOMAIN cache /\ ~Shows(cache[DefaultPath], DefaultPath)
  BY DEF Good, DefaultIntact
<1>2. cache[DefaultPath] \in 1 .. Len(texture)
  BY <1>1, HeldTyped DEF TInv
<1>. QED BY <1>1, <1>2 DEF Good, DefaultIntact, Shows

-----------------------------------------------------------------------------
(* FindTexture. *)

\* The surfaces that FindTexture is called for: a shape, or a sprite that has no
\* texture and comes by the default one.
Asks(file, s) ==
  /\ s \in Textured
  /\ s \in Sprites => tex[s] = None /\ early' /\ ImageFor(file) = DefaultPath

\* What every step that stays idle keeps: who held a texture holds it, and it shows
\* what it showed.
LEMMA FindCached ==
  ASSUME TInv, Owns, NEW file, NEW s, Asks(file, s), early => early',
         ImageFor(file) \in DOMAIN cache,
         tex' = [tex EXCEPT ![s] = cache[ImageFor(file)]],
         wanted' = [wanted EXCEPT ![s] = ImageFor(file)],
         UNCHANGED <<cache, texture, gl>>
  PROVE  Owns'
<1>1. PICK f : f = ImageFor(file)
  OBVIOUS
<1>2. PICK im : im = cache[f]
  OBVIOUS
<1>3. /\ im \in Range(cache) /\ f \in DOMAIN cache
      /\ tex'[s] = im /\ \A r \in Textured \ {s} : tex'[r] = tex[r]
      /\ wanted'[s] = f /\ \A r \in Textured \ {s} : wanted'[r] = wanted[r]
  BY <1>1, <1>2 DEF TInv, TypeOK, Asks, Range
<1>4. CacheShows'
  BY DEF Owns, CacheShows, Shows
<1>5. ShapesShare'
  BY <1>2, <1>3 DEF Owns, ShapesShare, Textured
<1>6. ASSUME NEW r \in Sprites, tex'[r] # None PROVE (OwnLabel(r) \/ HasDefault(r))'
  <2>1. CASE r = s
    BY <1>1, <1>2, <1>3, <2>1 DEF HasDefault, Asks
  <2>2. CASE r # s
    <3>1. tex'[r] = tex[r] /\ wanted'[r] = wanted[r]
      BY <1>3, <2>2 DEF Textured
    <3>2. OwnLabel(r) => OwnLabel(r)'
      <4>1. ASSUME OwnLabel(r), NEW q \in Sprites \ {r} PROVE tex'[q] # tex'[r]
        BY <1>3, <3>1, <4>1 DEF OwnLabel, Textured
      <4>. QED BY <3>1, <4>1 DEF OwnLabel, Shows
    <3>3. HasDefault(r) => HasDefault(r)'
      BY <3>1 DEF HasDefault
    <3>. QED BY <1>6, <3>1, <3>2, <3>3 DEF Owns, SpritesShow
  <2>. QED BY <2>1, <2>2
<1>7. Held' = Held
  <2>1. ASSUME NEW r \in Sprites, tex'[r] # None PROVE tex'[r] \in Held
    <3>1. CASE r = s
      BY <1>3, <3>1 DEF Held
    <3>2. CASE r # s
      <4>1. tex'[r] = tex[r]
        BY <1>3, <3>2 DEF Textured
      <4>. QED BY <2>1, <4>1 DEF Held
    <3>. QED BY <3>1, <3>2
  <2>2. ASSUME NEW r \in Sprites, tex[r] # None PROVE tex'[r] = tex[r]
    BY <1>3, <2>2 DEF Textured, Asks
  <2>3. ASSUME NEW t \in Held PROVE t \in Held'
    BY <2>2 DEF Held
  <2>4. ASSUME NEW t \in Held' PROVE t \in Held
    BY <2>1 DEF Held
  <2>. QED BY <2>3, <2>4
<1>8. NamesMatch'
  BY <1>7 DEF Owns, NamesMatch
<1>. QED BY <1>4, <1>5, <1>6, <1>8 DEF Owns, SpritesShow

LEMMA FindNew ==
  ASSUME TInv, Owns, NEW file, NEW s, Asks(file, s), early => early',
         ImageFor(file) \in onDisk \ DOMAIN cache,
         InitTexture(ImageFor(file), s, gl),
         cache' = With(cache, ImageFor(file), Len(texture) + 1)
  PROVE  Owns'
<1>1. PICK f : f = ImageFor(file)
  OBVIOUS
<1>2. PICK new : new = Len(texture) + 1
  OBVIOUS
<1>3. TypeOK
  BY DEF TInv
<1>4. /\ Held \in SUBSET (1 .. Len(texture)) /\ Range(cache) \subseteq Held
      /\ \A g \in DOMAIN cache : cache[g] \in Held
      /\ \A r \in Sprites : tex[r] # None => tex[r] \in Held
  BY <1>3, HeldTyped
<1>5. NamesOf(gl, Held)
  BY <1>4 DEF Owns, NamesMatch, NamesOf
<1>6. /\ new \notin 1 .. Len(texture)
      /\ \A t \in Held \cup {new} : texture'[t] \in DOMAIN gl'
      /\ \A n \in DOMAIN gl' : \E t \in Held \cup {new} : n = texture'[t]
      /\ \A t, u \in Held \cup {new} : texture'[t] = texture'[u] => t = u
      /\ \A t \in Held : \A im : Shows(t, im) => texture'[t] \in DOMAIN gl' /\ gl'[texture'[t]] = im
      /\ texture'[new] \in DOMAIN gl' /\ gl'[texture'[new]] = f
  <2>1. Made(Held, Len(texture) + 1, f)
    BY <1>1, <1>3, <1>5, NewTexture
  <2>. QED BY <1>2, <2>1 DEF Made
<1>7. /\ tex'[s] = new /\ \A r \in Textured \ {s} : tex'[r] = tex[r]
      /\ wanted'[s] = f /\ \A r \in Textured \ {s} : wanted'[r] = wanted[r]
  BY <1>1, <1>2, <1>3 DEF InitTexture, TypeOK, Asks
<1>8. /\ DOMAIN cache' = DOMAIN cache \cup {f} /\ cache'[f] = new /\ f \notin DOMAIN cache
      /\ \A g \in DOMAIN cache : cache'[g] = cache[g]
  BY <1>1, <1>2 DEF With
<1>9. Range(cache') = Range(cache) \cup {new}
  BY <1>1, <1>2, RangeWith
<1>10. CacheShows'
  <2>1. ASSUME NEW g \in DOMAIN cache' PROVE Shows(cache[g], g)'
    <3>1. CASE g = f
      BY <1>6, <1>8, <3>1 DEF Shows
    <3>2. CASE g \in DOMAIN cache
      <4>1. Shows(cache[g], g) /\ cache[g] \in Held /\ cache'[g] = cache[g]
        BY <1>4, <1>8, <3>2 DEF Owns, CacheShows
      <4>. QED BY <1>6, <4>1 DEF Shows
    <3>. QED BY <1>8, <3>1, <3>2
  <2>. QED BY <2>1 DEF CacheShows
<1>11. ShapesShare'
  <2>1. ASSUME NEW r \in Shapes, tex'[r] # None
        PROVE  wanted'[r] \in DOMAIN cache' /\ tex'[r] = cache'[wanted'[r]]
    BY <1>7, <1>8, <2>1 DEF Owns, ShapesShare, Textured
  <2>. QED BY <2>1 DEF ShapesShare
<1>12. ASSUME NEW r \in Sprites, tex'[r] # None PROVE (OwnLabel(r) \/ HasDefault(r))'
  <2>1. CASE r = s
    BY <1>1, <1>7, <1>8, <2>1 DEF HasDefault, Asks
  <2>2. CASE r # s
    <3>1. tex'[r] = tex[r] /\ wanted'[r] = wanted[r]
      BY <1>7, <2>2 DEF Textured
    <3>2. ASSUME OwnLabel(r) PROVE OwnLabel(r)'
      <4>1. tex[r] \in Held /\ tex[r] # new
        <5>1. tex[r] \in Held
          BY <1>4, <1>12, <3>1
        <5>. QED BY <1>4, <1>6, <5>1
      <4>2. ASSUME NEW q \in Sprites \ {r} PROVE tex'[q] # tex'[r]
        BY <1>7, <3>1, <3>2, <4>1 DEF OwnLabel, Textured
      <4>3. Shows(tex[r], wanted[r])'
        BY <1>6, <3>1, <3>2, <4>1 DEF OwnLabel, Shows
      <4>4. tex'[r] \notin Range(cache')
        BY <1>9, <3>1, <3>2, <4>1 DEF OwnLabel
      <4>. QED BY <4>2, <4>3, <4>4 DEF OwnLabel
    <3>3. HasDefault(r) => HasDefault(r)'
      BY <1>8, <3>1 DEF HasDefault
    <3>. QED BY <1>12, <3>1, <3>2, <3>3 DEF Owns, SpritesShow
  <2>. QED BY <2>1, <2>2
<1>13. Held' = Held \cup {new}
  <2>1. ASSUME NEW r \in Sprites, tex'[r] # None PROVE tex'[r] \in Held \cup {new}
    BY <1>4, <1>7, <2>1 DEF Textured
  <2>2. ASSUME NEW r \in Sprites, tex[r] # None PROVE tex'[r] = tex[r]
    BY <1>7, <2>2 DEF Textured, Asks
  <2>3. ASSUME NEW t \in Held \cup {new} PROVE t \in Held'
    BY <1>9, <2>2 DEF Held
  <2>4. ASSUME NEW t \in Held' PROVE t \in Held \cup {new}
    BY <1>4, <1>9, <2>1 DEF Held
  <2>. QED BY <2>3, <2>4
<1>14. NamesMatch'
  BY <1>6, <1>13 DEF NamesMatch
<1>. QED BY <1>10, <1>11, <1>12, <1>14 DEF Owns, SpritesShow

-----------------------------------------------------------------------------
(* SetLabel. *)

LEMMA LabelOwned ==
  ASSUME TInv, Owns, NEW s \in Sprites, NEW text,
         InitTexture(text, s, NamesAfterDelete(s)), UNCHANGED <<cache, early>>,
         tex[s] # None => OwnLabel(s)
  PROVE  Owns'
<1> DEFINE names == NamesAfterDelete(s)
<1>1. PICK new : new = Len(texture) + 1
  OBVIOUS
<1>2. PICK H : H = Held \ {tex[s]}
  OBVIOUS
<1>3. TypeOK /\ s \in Textured /\ s \notin Shapes
  BY SurfacesAssumption DEF TInv, Textured
<1>4. /\ Held \in SUBSET (1 .. Len(texture)) /\ Range(cache) \subseteq Held
      /\ \A g \in DOMAIN cache : cache[g] \in Range(cache)
      /\ \A r \in Sprites : tex[r] # None => tex[r] \in Held
  BY <1>3, HeldTyped DEF Range
<1>5. None \notin Held /\ new # None
  <2>1. Len(texture) < MaxTextures /\ Len(texture) \in Nat
    BY <1>3, HeldTyped DEF InitTexture
  <2>2. MaxTextures \in Nat /\ None \notin 1 .. MaxTextures
    BY MaxTexturesAssumption
  <2>3. new \in 1 .. MaxTextures /\ \A t \in 1 .. Len(texture) : t \in 1 .. MaxTextures
    BY <1>1, <2>1, <2>2
  <2>. QED BY <1>4, <2>2, <2>3
<1>6. \A t \in Range(cache) : t \in H
  BY <1>2, <1>4, <1>5 DEF OwnLabel
<1>7. \A r \in Sprites \ {s} : tex[r] # None => tex[r] \in H
  BY <1>2, <1>4 DEF OwnLabel
<1>8. NamesOf(names, H)
  <2>1. /\ \A t \in Held : texture[t] \in DOMAIN gl
        /\ \A n \in DOMAIN gl : \E t \in Held : n = texture[t]
        /\ \A t, u \in Held : texture[t] = texture[u] => t = u
    BY DEF Owns, NamesMatch
  <2>2. \A n \in DOMAIN names : n \in DOMAIN gl /\ names[n] = gl[n]
    BY AfterDelete
  <2>3. CASE tex[s] = None
    <3>1. H = Held
      BY <1>2, <1>5, <2>3
    <3>2. DOMAIN names = DOMAIN gl
      BY <2>3, AfterDelete
    <3>. HIDE DEF names
    <3>. QED BY <1>4, <2>1, <2>2, <3>1, <3>2 DEF NamesOf
  <2>4. CASE tex[s] # None
    <3>1. DOMAIN names = DOMAIN gl \ {texture[tex[s]]} /\ tex[s] \in Held
      BY <1>4, <2>4, AfterDelete
    <3>2. \A t \in H : texture[t] \in DOMAIN names
      BY <1>2, <2>1, <3>1
    <3>3. ASSUME NEW n \in DOMAIN names PROVE \E t \in H : n = texture[t]
      <4>1. PICK t \in Held : n = texture[t]
        BY <2>1, <3>1
      <4>2. t \in H
        BY <1>2, <3>1, <4>1
      <4>. QED BY <4>1, <4>2
    <3>4. H \in SUBSET (1 .. Len(texture)) /\ \A t, u \in H : texture[t] = texture[u] => t = u
      BY <1>2, <1>4, <2>1
    <3>. HIDE DEF names
    <3>. QED BY <2>2, <3>2, <3>3, <3>4 DEF NamesOf
  <2>. QED BY <2>3, <2>4
<1>9. Made(H, new, text)
  BY <1>1, <1>3, <1>8, NewTexture
<1>10. /\ new \notin 1 .. Len(texture)
       /\ \A t \in H \cup {new} : texture'[t] \in DOMAIN gl'
       /\ \A n \in DOMAIN gl' : \E t \in H \cup {new} : n = texture'[t]
       /\ \A t, u \in H \cup {new} : texture'[t] = texture'[u] => t = u
       /\ \A t \in H : \A im : Shows(t, im) => texture'[t] \in DOMAIN gl' /\ gl'[texture'[t]] = im
       /\ texture'[new] \in DOMAIN gl' /\ gl'[texture'[new]] = text
  BY <1>9 DEF Made
<1>11. /\ tex'[s] = new /\ \A r \in Textured \ {s} : tex'[r] = tex[r]
       /\ wanted'[s] = text /\ \A r \in Textured \ {s} : wanted'[r] = wanted[r]
  BY <1>1, <1>3 DEF InitTexture, TypeOK
<1>12. \A t \in H : t # new
  BY <1>2, <1>4, <1>10
<1>13. CacheShows'
  <2>1. ASSUME NEW g \in DOMAIN cache PROVE Shows(cache[g], g)'
    <3>1. Shows(cache[g], g) /\ cache[g] \in H
      BY <1>4, <1>6 DEF Owns, CacheShows
    <3>. QED BY <1>10, <3>1 DEF Shows
  <2>. QED BY <2>1 DEF CacheShows
<1>14. ShapesShare'
  BY <1>3, <1>11 DEF Owns, ShapesShare, Textured
<1>15. ASSUME NEW r \in Sprites, tex'[r] # None PROVE (OwnLabel(r) \/ HasDefault(r))'
  <2>1. CASE r = s
    <3>1. tex'[s] \notin Range(cache)
      BY <1>6, <1>11, <1>12
    <3>2. Shows(tex[s], wanted[s])'
      BY <1>10, <1>11 DEF Shows
    <3>3. ASSUME NEW q \in Sprites \ {s} PROVE tex'[q] # tex'[s]
      BY <1>5, <1>7, <1>11, <1>12 DEF Textured
    <3>. QED BY <2>1, <3>1, <3>2, <3>3 DEF OwnLabel
  <2>2. CASE r # s
    <3>1. tex'[r] = tex[r] /\ wanted'[r] = wanted[r] /\ tex[r] \in H
      BY <1>7, <1>11, <1>15, <2>2 DEF Textured
    <3>2. ASSUME OwnLabel(r) PROVE OwnLabel(r)'
      <4>1. ASSUME NEW q \in Sprites \ {r} PROVE tex'[q] # tex'[r]
        BY <1>11, <1>12, <3>1, <3>2 DEF OwnLabel, Textured
      <4>2. Shows(tex[r], wanted[r])'
        BY <1>10, <3>1, <3>2 DEF OwnLabel, Shows
      <4>. QED BY <3>1, <3>2, <4>1, <4>2 DEF OwnLabel
    <3>3. HasDefault(r) => HasDefault(r)'
      BY <3>1 DEF HasDefault
    <3>. QED BY <1>15, <3>1, <3>2, <3>3 DEF Owns, SpritesShow
  <2>. QED BY <2>1, <2>2
<1>16. Held' = H \cup {new}
  <2>1. ASSUME NEW r \in Sprites, tex'[r] # None PROVE tex'[r] \in H \cup {new}
    BY <1>7, <1>11, <2>1 DEF Textured
  <2>2. ASSUME NEW t \in Held' PROVE t \in H \cup {new}
    BY <1>6, <2>1 DEF Held
  <2>3. new \in Held'
    BY <1>5, <1>11 DEF Held
  <2>4. ASSUME NEW r \in Sprites, tex[r] # None, tex[r] # tex[s] PROVE tex'[r] = tex[r]
    BY <1>11, <2>4 DEF Textured
  <2>5. ASSUME NEW t \in H PROVE t \in Held'
    <3>1. t \in Held /\ t # tex[s]
      BY <1>2
    <3>. QED BY <2>4, <3>1 DEF Held
  <2>6. ASSUME NEW t PROVE t \in Held' <=> t \in H \cup {new}
    BY <2>2, <2>3, <2>5
  <2>. QED BY <2>6
<1>17. NamesMatch'
  BY <1>10, <1>16 DEF NamesMatch
<1>. QED BY <1>13, <1>14, <1>15, <1>17 DEF Owns, SpritesShow

\* The pixels under the names after a texture was made.
LEMMA GlAfterInit ==
  ASSUME NEW what, NEW s, NEW names, InitTexture(what, s, names), what # DefaultPath,
         \A n \in DOMAIN names : n \in DOMAIN gl /\ names[n] = gl[n]
  PROVE  \A n \in DOMAIN gl' : gl'[n] # DefaultPath \/ (n \in DOMAIN gl /\ gl'[n] = gl[n])
<1>1. PICK n : gl' = With(names, n, what)
  BY DEF InitTexture
<1>. QED BY <1>1 DEF With

LEMMA TextureStays ==
  ASSUME TypeOK, NEW what, NEW s, NEW names, InitTexture(what, s, names)
  PROVE  \A t \in 1 .. Len(texture) : texture'[t] = texture[t]
<1>1. PICK n \in Names : texture' = Append(texture, n)
  BY DEF InitTexture
<1>. QED BY <1>1, HeldTyped, AppendProperties

\* A label that replaces the default texture deletes the name that the cache shares.
LEMMA DefaultReplaced ==
  ASSUME TInv, Owns, NEW s \in Sprites, NEW text \in Texts, tex[s] # None, HasDefault(s),
         InitTexture(text, s, NamesAfterDelete(s)), UNCHANGED <<cache, early>>
  PROVE  ~Good'
<1> DEFINE names == NamesAfterDelete(s)
<1>1. text # DefaultPath
  BY FilesAssumption, ImagesAssumption
<1>2. texture[tex[s]] \notin DOMAIN names
  BY AfterDelete
<1>3. PICK n : gl' = With(names, n, text)
  BY DEF InitTexture
<1>4. PICK t : t = tex[s]
  OBVIOUS
<1>5. t \in 1 .. Len(texture) /\ t = cache[DefaultPath] /\ DefaultPath \in DOMAIN cache /\ early
  BY <1>4, HeldTyped DEF TInv, HasDefault
<1>6. texture'[t] = texture[t]
  BY <1>5, TextureStays DEF TInv
<1>7. ~(texture'[t] \in DOMAIN gl' /\ gl'[texture'[t]] = DefaultPath)
  BY <1>1, <1>2, <1>3, <1>4, <1>6 DEF With
<1>. QED BY <1>5, <1>7 DEF Good, DefaultIntact, Shows

-----------------------------------------------------------------------------
(* The invariant is kept. *)

\* FindTexture as ShapeSetTexture and AddSprite call it.
LEMMA FindTextureKeeps ==
  ASSUME TInv, pc = "idle", NEW file \in Files, NEW s, Asks(file, s), FindTexture(file, s),
         UNCHANGED onDisk, early => early', early' \in BOOLEAN
  PROVE  TInv'
<1>1. TypeOK' /\ NoPngNeverThere'
  BY FindTextureTyped DEF TInv, Asks
<1>2. PICK f : f = ImageFor(file)
  OBVIOUS
<1>3. ASSUME pc' = "idle", Good' PROVE Owns'
  <2>1. CASE f \in DOMAIN cache /\ tex' = [tex EXCEPT ![s] = cache[f]]
             /\ wanted' = [wanted EXCEPT ![s] = f] /\ UNCHANGED <<cache, texture, gl, pc>>
    <3>1. Good
      BY <1>3, <2>1 DEF Good, DefaultIntact, Shows
    <3>. QED BY <1>2, <2>1, <3>1, FindCached DEF TInv
  <2>2. CASE f \in onDisk \ DOMAIN cache /\ InitTexture(f, s, gl)
             /\ cache' = With(cache, f, Len(texture) + 1) /\ UNCHANGED pc
    <3>1. CASE Good
      BY <1>2, <2>2, <3>1, FindNew DEF TInv
    <3>2. CASE ~Good
      <4>1. early' /\ DefaultPath \in DOMAIN cache /\ f # DefaultPath
        BY <2>2, <3>2 DEF Good, DefaultIntact
      <4>2. \A g \in DOMAIN cache : g \in DOMAIN cache' /\ cache'[g] = cache[g]
        BY <2>2 DEF With
      <4>3. \A t \in 1 .. Len(texture) : texture'[t] = texture[t]
        BY <2>2, TextureStays DEF TInv
      <4>4. \A n \in DOMAIN gl' : gl'[n] # DefaultPath \/ (n \in DOMAIN gl /\ gl'[n] = gl[n])
        BY <2>2, <4>1, GlAfterInit
      <4>. QED BY <1>3, <3>2, <4>1, <4>2, <4>3, <4>4, BrokenStays
    <3>. QED BY <3>1, <3>2
  <2>. QED BY <1>2, <1>3, <2>1, <2>2 DEF FindTexture
<1>. QED BY <1>1, <1>3 DEF TInv

LEMMA SetLabelKeeps ==
  ASSUME TInv, NEW s \in Sprites, NEW text \in Texts, SetLabel(s, text)
  PROVE  TInv'
<1> DEFINE names == NamesAfterDelete(s)
<1>1. /\ pc = "idle" /\ InitTexture(text, s, names) /\ UNCHANGED <<cache, early>>
      /\ UNCHANGED <<onDisk, pc>>
  BY DEF SetLabel
<1>2. text \in Images /\ s \in Textured /\ text # DefaultPath
  BY FilesAssumption, ImagesAssumption DEF Images, Textured
<1>3. \A n \in DOMAIN names : n \in DOMAIN gl /\ names[n] = gl[n]
  BY AfterDelete
<1>4. TypeOK' /\ NoPngNeverThere'
  <2>. HIDE DEF names
  <2>1. /\ texture' \in Seq(Names) /\ Len(texture') = Len(texture) + 1
        /\ Len(texture') <= MaxTextures
        /\ DOMAIN gl' \in SUBSET Names /\ Range(gl') \in SUBSET Images
        /\ tex' \in [Textured -> 1 .. Len(texture') \cup {None}]
        /\ wanted' \in [Textured -> Images \cup {None}]
    BY <1>1, <1>2, <1>3, InitTextureTyped DEF TInv
  <2>2. Range(cache') \in SUBSET (1 .. Len(texture'))
    BY <1>1, <2>1, HeldTyped DEF TInv, TypeOK
  <2>. QED BY <1>1, <2>1, <2>2 DEF TInv, TypeOK, NoPngNeverThere
<1>5. ASSUME Good' PROVE Owns'
  <2>1. CASE ~Good
    <3>1. early'
      BY <1>1, <2>1 DEF Good
    <3>2. \A t \in 1 .. Len(texture) : texture'[t] = texture[t]
      BY <1>1, TextureStays DEF TInv
    <3>3. \A n \in DOMAIN gl' : gl'[n] # DefaultPath \/ (n \in DOMAIN gl /\ gl'[n] = gl[n])
      BY <1>1, <1>2, <1>3, GlAfterInit
    <3>. QED BY <1>1, <1>5, <2>1, <3>1, <3>2, <3>3, BrokenStays
  <2>2. CASE Good
    <3>1. Owns
      BY <1>1, <2>2 DEF TInv
    <3>2. tex[s] # None => OwnLabel(s)
      BY <1>1, <1>5, <3>1, DefaultReplaced DEF Owns, SpritesShow
    <3>. QED BY <1>1, <3>1, <3>2, LabelOwned
  <2>. QED BY <2>1, <2>2
<1>. QED BY <1>4, <1>5 DEF TInv

LEMMA NextKeeps == TInv /\ [Next]_vars => TInv'
<1> SUFFICES ASSUME TInv, [Next]_vars PROVE TInv'
  OBVIOUS
<1>1. ASSUME NEW s \in Shapes, NEW file \in Files \ {NoPng}, ShapeSetTexture(s, file)
      PROVE  TInv'
  <2>1. Asks(file, s)
    BY SurfacesAssumption DEF Asks, Textured
  <2>2. early => early' /\ early' \in BOOLEAN
    BY <1>1 DEF ShapeSetTexture, TInv, TypeOK
  <2>. QED BY <1>1, <2>1, <2>2, FindTextureKeeps DEF ShapeSetTexture, TInv, TypeOK
<1>2. ASSUME NEW s \in Sprites, AddSprite(s) PROVE TInv'
  <2>1. ImageFor(NoPng) = DefaultPath
    BY DEF TInv, NoPngNeverThere, ImageFor
  <2>2. Asks(NoPng, s)
    BY <1>2, <2>1 DEF AddSprite, Asks, Textured
  <2>. QED BY <1>2, <2>2, FilesAssumption, FindTextureKeeps DEF AddSprite
<1>3. ASSUME NEW s \in Sprites, SpriteFindsTexture(s) PROVE TInv'
  <2>1. DOMAIN gl' \in SUBSET Names /\ Range(gl') \in SUBSET Images
    <3>1. \A n \in DOMAIN gl' : n \in DOMAIN gl /\ gl'[n] = gl[n]
      BY <1>3, AfterDelete DEF SpriteFindsTexture
    <3>. QED BY <3>1 DEF Range, TInv, TypeOK
  <2>2. TypeOK' /\ NoPngNeverThere'
    BY <1>3, <2>1 DEF SpriteFindsTexture, TInv, TypeOK, NoPngNeverThere
  <2>. QED BY <1>3, <2>2 DEF SpriteFindsTexture, TInv
<1>4. ASSUME NEW s \in Sprites, NEW text \in Texts, SetLabel(s, text) PROVE TInv'
  BY <1>4, SetLabelKeeps
<1>5. CASE UNCHANGED vars
  BY <1>5 DEF vars, TInv, TypeOK, NoPngNeverThere, Good, DefaultIntact, Shows, Owns, CacheShows,
              ShapesShare, SpritesShow, OwnLabel, HasDefault, NamesMatch, Held, Textured
<1>. QED BY <1>1, <1>2, <1>3, <1>4, <1>5 DEF Next, Crashed, Enough

LEMMA TInvAlways == Spec => []TInv
BY InitTyped, NextKeeps, PTL DEF Spec

\* Whatever files are asked for and labels replaced, in any order and however many, and
\* whichever names GL gives out: every surface shows what it was last told to show as
\* long as no label replaced the default texture that the cache shares (SetLabel,
\* FindTexture, AddUISurf).
THEOREM AllShowWantedAlways == Spec => []AllShowWanted
BY TInvAlways, TInvImplies, PTL

\* SetLabel and FindTexture leak no GL name and give none to two textures, as long as
\* sprites are labelled before they are added, as the sampler does it.
THEOREM NamesOwnedAlways == Spec => []NamesOwned
BY TInvAlways, TInvImplies, PTL

-----------------------------------------------------------------------------
(* The buffers.                                                            *)

\* A surface without buffers has neither; one with buffers has the two that were filled
\* for it, and nothing else is filled for it alike.  The contents of a buffer say whose
\* it is, so no two surfaces have one in common.
HasOwn(s) ==
  /\ vbo0[s] = 0 <=> vbo1[s] = 0
  /\ vbo0[s] # 0 =>
       \E version \in 1 .. geometry[s] :
         /\ buffers[vbo0[s]] = Verts(s, version)
         /\ buffers[vbo1[s]] = Indices(s, version)
         /\ s \notin unset => version = geometry[s]

\* The inductive invariant: DrawnIsCurrent of every surface that has buffers, drawn or
\* not, since AddDrawSur takes any.
BInv ==
  /\ BufferTypeOK
  /\ \A s \in Surfaces : HasOwn(s)
  /\ \A s \in surfaces : vbo0[s] # 0

LEMMA BInvImplies == BInv => OwnBuffers /\ DrawnIsCurrent
<1> SUFFICES ASSUME BInv PROVE OwnBuffers /\ DrawnIsCurrent
  OBVIOUS
<1>1. OwnBuffers
  BY DEF BInv, OwnBuffers, HasOwn, Verts, Indices
<1>2. DrawnIsCurrent
  BY DEF BInv, BufferTypeOK, DrawnIsCurrent, HasOwn, Verts, Indices
<1>. QED BY <1>1, <1>2

LEMMA InitHolds == BufferInit => BInv
BY BufferNamesAssumption DEF BufferInit, BInv, BufferTypeOK, HasOwn, Surfaces

\* One call of R_GenerateGeometryVbo for a surface that was written leaves every surface
\* with buffers of its own: the two names were not in use, so they are not those of
\* another surface, and what is deleted is not either.
LEMMA GenerateKeeps ==
  ASSUME BInv, NEW s \in Surfaces, NEW version \in Nat, version # 0,
         R_GenerateGeometryVbo(s, version),
         geometry' \in [Surfaces -> Nat], geometry'[s] = version,
         \A t \in Surfaces \ {s} : geometry'[t] = geometry[t]
  PROVE  /\ buffers' \in [BufferNames -> Content \cup {Free}]
         /\ vbo0' \in [Surfaces -> BufferNames \cup {0}]
         /\ vbo1' \in [Surfaces -> BufferNames \cup {0}]
         /\ unset' \subseteq Planes /\ generated' \in Nat
         /\ vbo0'[s] # 0
         /\ \A t \in Surfaces \ {s} : vbo0'[t] = vbo0[t]
         /\ \A t \in Surfaces : HasOwn(t)'
<1>. USE DEF BInv, BufferTypeOK
<1>1. PICK a \in BufferNames, b \in BufferNames :
        /\ buffers[a] = Free \/ a \in Deleted(s)
        /\ buffers[b] = Free \/ b \in Deleted(s)
        /\ a # b
        /\ buffers' = Upload(s, version, a, b)
        /\ vbo0' = [vbo0 EXCEPT ![s] = a]
        /\ vbo1' = [vbo1 EXCEPT ![s] = b]
        /\ unset' = unset \ {s}
        /\ generated' = generated + 1
  BY DEF R_GenerateGeometryVbo
<1>2. Verts(s, version) \in Content /\ Indices(s, version) \in Content
  BY DEF Verts, Indices, Content
<1>3. buffers' = [n \in BufferNames |->
        IF n = a THEN Verts(s, version)
        ELSE IF n = b THEN Indices(s, version)
        ELSE IF n \in Deleted(s) THEN Free ELSE buffers[n]]
  BY <1>1 DEF Upload
<1>4. /\ buffers' \in [BufferNames -> Content \cup {Free}]
      /\ vbo0' \in [Surfaces -> BufferNames \cup {0}]
      /\ vbo1' \in [Surfaces -> BufferNames \cup {0}]
      /\ unset' \subseteq Planes /\ generated' \in Nat
      /\ vbo0'[s] = a /\ vbo1'[s] = b
  BY <1>1, <1>2, <1>3
<1>5. a # 0 /\ b # 0
  BY BufferNamesAssumption
<1>6. HasOwn(s)'
  <2>1. buffers'[a] = Verts(s, version) /\ buffers'[b] = Indices(s, version)
    BY <1>1, <1>3
  <2>. QED BY <1>4, <1>5, <2>1 DEF HasOwn
<1>7. ASSUME NEW t \in Surfaces \ {s} PROVE HasOwn(t)'
  <2>1. /\ vbo0'[t] = vbo0[t] /\ vbo1'[t] = vbo1[t]
        /\ t \in unset' <=> t \in unset
        /\ geometry'[t] = geometry[t]
    BY <1>1
  <2>2. CASE vbo0[t] = 0
    BY <2>1, <2>2 DEF HasOwn
  <2>3. CASE vbo0[t] # 0
    <3>1. vbo0[t] \in BufferNames /\ vbo1[t] \in BufferNames
      BY <2>3 DEF HasOwn
    <3>2. PICK v \in 1 .. geometry[t] :
            /\ buffers[vbo0[t]] = Verts(t, v)
            /\ buffers[vbo1[t]] = Indices(t, v)
            /\ t \notin unset => v = geometry[t]
      BY <2>3 DEF HasOwn
    <3>3. Verts(t, v) \in Content /\ Indices(t, v) \in Content
      BY <3>2 DEF Verts, Indices, Content
    <3>4. buffers[vbo0[t]] # Free /\ buffers[vbo1[t]] # Free
      BY <3>2, <3>3, FreeAssumption
    \* The only name deleted is that of s, which is filled for s.
    <3>5. vbo0[t] \notin Deleted(s) /\ vbo1[t] \notin Deleted(s)
      <4>1. ASSUME vbo0[s] # 0
            PROVE  vbo0[t] # vbo0[s] /\ vbo1[t] # vbo0[s]
        <5>1. PICK w \in 1 .. geometry[s] :
                buffers[vbo0[s]] = Verts(s, w) /\ buffers[vbo1[s]] = Indices(s, w)
          BY <4>1 DEF HasOwn
        <5>2. Verts(t, v) # Verts(s, w) /\ Indices(t, v) # Verts(s, w)
          <6>1. Verts(t, v).of # Verts(s, w).of /\ Indices(t, v).of # Verts(s, w).of
            BY DEF Verts, Indices
          <6>. QED BY <6>1
        <5>. QED BY <3>2, <5>1, <5>2
      <4>2. Deleted(s) = IF vbo0[s] # 0 THEN {vbo0[s]} ELSE {}
        BY DEF Deleted, HasOwn
      <4>. QED BY <4>1, <4>2
    <3>6. /\ vbo0[t] # a /\ vbo0[t] # b
          /\ vbo1[t] # a /\ vbo1[t] # b
      BY <1>1, <3>4, <3>5
    <3>7. buffers'[vbo0[t]] = Verts(t, v) /\ buffers'[vbo1[t]] = Indices(t, v)
      BY <1>3, <3>1, <3>2, <3>5, <3>6
    <3>. QED BY <2>1, <2>3, <3>2, <3>7 DEF HasOwn
  <2>. QED BY <2>2, <2>3
<1>8. \A t \in Surfaces \ {s} : vbo0'[t] = vbo0[t]
  BY <1>1
<1>. QED BY <1>4, <1>5, <1>6, <1>7, <1>8

LEMMA StepKeeps == BInv /\ [BufferNext]_bufferVars => BInv'
<1> SUFFICES ASSUME BInv, [BufferNext]_bufferVars PROVE BInv'
  OBVIOUS
<1>. USE DEF BInv, BufferTypeOK
<1>1. ASSUME NEW s \in Surfaces, SetupVBO(s) PROVE BInv'
  <2>1. geometry[s] + 1 \in Nat /\ geometry[s] + 1 # 0
    OBVIOUS
  <2>2. /\ R_GenerateGeometryVbo(s, geometry[s] + 1)
        /\ geometry' \in [Surfaces -> Nat] /\ geometry'[s] = geometry[s] + 1
        /\ \A t \in Surfaces \ {s} : geometry'[t] = geometry[t]
    BY <1>1 DEF SetupVBO
  <2>3. surfaces' = surfaces /\ bufferCalls' \in Nat
    BY <1>1 DEF SetupVBO, Call
  <2>. HIDE DEF BInv
  <2>4. /\ buffers' \in [BufferNames -> Content \cup {Free}]
        /\ vbo0' \in [Surfaces -> BufferNames \cup {0}]
        /\ vbo1' \in [Surfaces -> BufferNames \cup {0}]
        /\ unset' \subseteq Planes /\ generated' \in Nat
        /\ vbo0'[s] # 0
        /\ \A t \in Surfaces \ {s} : vbo0'[t] = vbo0[t]
        /\ \A t \in Surfaces : HasOwn(t)'
    BY <2>1, <2>2, GenerateKeeps
  <2>. QED BY <2>2, <2>3, <2>4 DEF BInv
<1>2. ASSUME NEW s \in Surfaces, NewPlane(s) PROVE BInv'
  <2>1. /\ geometry[s] = 0
        /\ geometry' = [geometry EXCEPT ![s] = 1]
        /\ UNCHANGED <<vbo0, vbo1, buffers, surfaces, unset, generated>>
        /\ bufferCalls' \in Nat
    BY <1>2 DEF NewPlane, Exists, Call
  <2>2. vbo0[s] = 0
    BY <2>1 DEF HasOwn
  <2>3. ASSUME NEW t \in Surfaces PROVE HasOwn(t)'
    BY <2>1, <2>2 DEF HasOwn
  <2>. QED BY <2>1, <2>3
<1>3. ASSUME NEW s \in Surfaces, SetTextureUV(s) PROVE BInv'
  <2>1. /\ s \in Planes
        /\ geometry' = [geometry EXCEPT ![s] = @ + 1]
        /\ unset' = IF vbo0[s] = 0 THEN unset ELSE unset \cup {s}
        /\ UNCHANGED <<vbo0, vbo1, buffers, surfaces, generated>>
        /\ bufferCalls' \in Nat
    BY <1>3 DEF SetTextureUV, Call
  <2>2. ASSUME NEW t \in Surfaces PROVE HasOwn(t)'
    <3>1. CASE t = s
      BY <2>1, <3>1 DEF HasOwn
    <3>2. CASE t # s
      BY <2>1, <3>2 DEF HasOwn
    <3>. QED BY <3>1, <3>2
  <2>. QED BY <2>1, <2>2
<1>4. ASSUME NEW s \in Surfaces, UpdateVbo(s) PROVE BInv'
  <2>1. /\ geometry[s] \in Nat /\ geometry[s] # 0
        /\ R_GenerateGeometryVbo(s, geometry[s])
        /\ geometry' = geometry /\ surfaces' = surfaces /\ bufferCalls' \in Nat
    BY <1>4 DEF UpdateVbo, Exists, Call
  <2>2. /\ geometry' \in [Surfaces -> Nat] /\ geometry'[s] = geometry[s]
        /\ \A t \in Surfaces \ {s} : geometry'[t] = geometry[t]
    BY <2>1
  <2>. HIDE DEF BInv
  <2>3. /\ buffers' \in [BufferNames -> Content \cup {Free}]
        /\ vbo0' \in [Surfaces -> BufferNames \cup {0}]
        /\ vbo1' \in [Surfaces -> BufferNames \cup {0}]
        /\ unset' \subseteq Planes /\ generated' \in Nat
        /\ vbo0'[s] # 0
        /\ \A t \in Surfaces \ {s} : vbo0'[t] = vbo0[t]
        /\ \A t \in Surfaces : HasOwn(t)'
    BY <2>1, <2>2, GenerateKeeps
  <2>. QED BY <2>1, <2>2, <2>3 DEF BInv
<1>5. ASSUME NEW s \in Surfaces, AddDrawSur(s) PROVE BInv'
  <2>1. /\ geometry[s] \in Nat /\ geometry[s] # 0
        /\ geometry' = geometry /\ bufferCalls' \in Nat
        /\ surfaces' \subseteq surfaces \cup {s}
    BY <1>5 DEF AddDrawSur, Exists, Call
  <2>2. CASE vbo0[s] = 0
    <3>1. /\ R_GenerateGeometryVbo(s, geometry[s])
          /\ geometry' \in [Surfaces -> Nat] /\ geometry'[s] = geometry[s]
          /\ \A t \in Surfaces \ {s} : geometry'[t] = geometry[t]
      BY <1>5, <2>1, <2>2 DEF AddDrawSur
    <3>. HIDE DEF BInv
    <3>2. /\ buffers' \in [BufferNames -> Content \cup {Free}]
          /\ vbo0' \in [Surfaces -> BufferNames \cup {0}]
          /\ vbo1' \in [Surfaces -> BufferNames \cup {0}]
          /\ unset' \subseteq Planes /\ generated' \in Nat
          /\ vbo0'[s] # 0
          /\ \A t \in Surfaces \ {s} : vbo0'[t] = vbo0[t]
          /\ \A t \in Surfaces : HasOwn(t)'
      BY <2>1, <3>1, GenerateKeeps
    <3>. QED BY <2>1, <3>1, <3>2 DEF BInv
  <2>3. CASE vbo0[s] # 0
    <3>1. UNCHANGED <<vbo0, vbo1, buffers, unset, generated>>
      BY <1>5, <2>3 DEF AddDrawSur
    <3>. QED BY <2>1, <2>3, <3>1 DEF HasOwn
  <2>. QED BY <2>2, <2>3
<1>6. CASE UNCHANGED bufferVars
  BY <1>6 DEF bufferVars, HasOwn
<1>. HIDE DEF BInv
<1>. QED BY <1>1, <1>2, <1>3, <1>4, <1>5, <1>6 DEF BufferNext, FrameUpdate

\* No deletion takes a buffer from a surface that draws from it, and no surface is drawn
\* as it was before its last change: R_GenerateGeometryVbo, AddDrawSur and the bufferCalls that
\* write surfaces keep BInv.
THEOREM BuffersOwned == BufferSpec => [](OwnBuffers /\ DrawnIsCurrent)
<1>1. BufferSpec => []BInv
  BY InitHolds, StepKeeps, PTL DEF BufferSpec
<1>. QED BY <1>1, BInvImplies, PTL

(***************************************************************************)
(* How many names are in use.                                              *)
(***************************************************************************)

InUse == {n \in BufferNames : buffers[n] # Free}
Owners == {s \in Surfaces : vbo0[s] # 0}

\* Neither the names nor the surfaces need be finitely many: what is in use is.
CInv ==
  /\ BInv
  /\ IsFiniteSet(InUse) /\ IsFiniteSet(Owners)
  /\ LeakIsExact

\* With two members that it did not have, a set has two more.
LEMMA TwoMore ==
  ASSUME NEW S, IsFiniteSet(S), NEW a, NEW b, a \notin S, b \notin S, a # b
  PROVE  /\ IsFiniteSet(S \cup {a, b}) /\ Cardinality(S) \in Nat
         /\ Cardinality(S \cup {a, b}) = Cardinality(S) + 2
<1>1. IsFiniteSet(S \cup {a}) /\ Cardinality(S \cup {a}) = Cardinality(S) + 1
  BY FS_AddElement
<1>2. /\ IsFiniteSet((S \cup {a}) \cup {b})
      /\ Cardinality((S \cup {a}) \cup {b}) = Cardinality(S \cup {a}) + 1
  BY <1>1, FS_AddElement
<1>3. (S \cup {a}) \cup {b} = S \cup {a, b}
  OBVIOUS
<1>4. Cardinality(S) \in Nat
  BY FS_CardinalityType
<1>. QED BY <1>1, <1>2, <1>3, <1>4

\* One call of R_GenerateGeometryVbo takes two names, and gives one back if the surface
\* had buffers; if not, it has them now.
LEMMA GenerateCounts ==
  ASSUME CInv, NEW s \in Surfaces, NEW version \in Nat, R_GenerateGeometryVbo(s, version)
  PROVE  /\ IsFiniteSet(InUse') /\ IsFiniteSet(Owners')
         /\ Cardinality(InUse') = Cardinality(Owners') + generated'
<1>1. PICK a \in BufferNames, b \in BufferNames :
        /\ buffers[a] = Free \/ a \in Deleted(s)
        /\ buffers[b] = Free \/ b \in Deleted(s)
        /\ a # b
        /\ buffers' = Upload(s, version, a, b)
        /\ vbo0' = [vbo0 EXCEPT ![s] = a]
        /\ generated' = generated + 1
  BY DEF R_GenerateGeometryVbo
<1>2. /\ Verts(s, version) # Free /\ Indices(s, version) # Free
  BY FreeAssumption DEF Verts, Indices, Content
<1>3. InUse' = (InUse \ Deleted(s)) \cup {a, b}
  <2>1. \A n \in BufferNames :
          buffers'[n] = IF n = a THEN Verts(s, version)
                        ELSE IF n = b THEN Indices(s, version)
                        ELSE IF n \in Deleted(s) THEN Free ELSE buffers[n]
    BY <1>1 DEF Upload
  <2>. QED BY <1>1, <1>2, <2>1 DEF InUse
<1>4. Owners' = Owners \cup {s}
  <2>1. a # 0 /\ vbo0 \in [Surfaces -> BufferNames \cup {0}]
    BY BufferNamesAssumption DEF CInv, BInv, BufferTypeOK
  <2>. QED BY <1>1, <2>1 DEF Owners
<1>5. a \notin InUse \ Deleted(s) /\ b \notin InUse \ Deleted(s)
  BY <1>1 DEF InUse
<1>6. /\ Cardinality(InUse) = Cardinality(Owners) + generated /\ generated \in Nat
      /\ Cardinality(InUse) \in Nat /\ Cardinality(Owners) \in Nat
  BY FS_CardinalityType DEF CInv, LeakIsExact, InUse, Owners, BInv, BufferTypeOK
<1>7. (vbo0[s] = 0 <=> vbo1[s] = 0)
  BY DEF CInv, BInv, HasOwn
<1>8. CASE vbo0[s] = 0
  <2>1. Deleted(s) = {} /\ s \notin Owners
    BY <1>7, <1>8 DEF Deleted, Owners
  <2>2. IsFiniteSet(Owners') /\ Cardinality(Owners') = Cardinality(Owners) + 1
    BY <1>4, <2>1, FS_AddElement DEF CInv
  <2>3. InUse' = InUse \cup {a, b} /\ a \notin InUse /\ b \notin InUse
    BY <1>3, <1>5, <2>1
  <2>4. IsFiniteSet(InUse') /\ Cardinality(InUse') = Cardinality(InUse) + 2
    BY <1>1, <2>3, TwoMore DEF CInv
  <2>. QED BY <1>1, <1>6, <2>2, <2>4, SMT
<1>9. CASE vbo0[s] # 0
  <2>1. Deleted(s) = {vbo0[s]}
    BY <1>7, <1>9 DEF Deleted
  <2>2. vbo0[s] \in InUse
    <3>1. PICK v : v \in 1 .. geometry[s] /\ buffers[vbo0[s]] = Verts(s, v)
      BY <1>9 DEF CInv, BInv, HasOwn
    <3>2. Verts(s, v) # Free
      BY <3>1, FreeAssumption DEF CInv, BInv, BufferTypeOK, Verts, Content
    <3>3. vbo0[s] \in BufferNames
      BY <1>9 DEF CInv, BInv, BufferTypeOK
    <3>. QED BY <3>1, <3>2, <3>3 DEF InUse
  <2>3. /\ IsFiniteSet(InUse \ {vbo0[s]})
        /\ Cardinality(InUse \ {vbo0[s]}) = Cardinality(InUse) - 1
    BY <2>2, FS_RemoveElement DEF CInv
  <2>4. /\ IsFiniteSet(InUse')
        /\ Cardinality(InUse') = Cardinality(InUse \ {vbo0[s]}) + 2
    BY <1>1, <1>3, <1>5, <2>1, <2>3, TwoMore
  <2>5. Owners' = Owners
    BY <1>4, <1>9 DEF Owners
  <2>. QED BY <1>1, <1>6, <2>3, <2>4, <2>5, SMT DEF CInv
<1>. QED BY <1>8, <1>9

LEMMA InitCounts == BufferInit => CInv
<1> SUFFICES ASSUME BufferInit PROVE CInv
  OBVIOUS
<1>1. InUse = {} /\ Owners = {} /\ generated = 0
  BY DEF BufferInit, InUse, Owners
<1>2. LeakIsExact
  BY <1>1, FS_EmptySet DEF LeakIsExact, InUse, Owners
<1>. QED BY <1>1, <1>2, InitHolds, FS_EmptySet DEF CInv

LEMMA StepCounts == CInv /\ [BufferNext]_bufferVars => CInv'
<1> SUFFICES ASSUME CInv, [BufferNext]_bufferVars PROVE CInv'
  OBVIOUS
<1>1. BInv'
  BY StepKeeps DEF CInv
<1>2. ASSUME NEW s \in Surfaces, NEW version \in Nat, R_GenerateGeometryVbo(s, version)
      PROVE  CInv'
  BY <1>1, <1>2, GenerateCounts DEF CInv, LeakIsExact, InUse, Owners
<1>3. ASSUME UNCHANGED <<vbo0, buffers, generated>> PROVE CInv'
  BY <1>1, <1>3 DEF CInv, LeakIsExact, InUse, Owners
<1>4. ASSUME NEW s \in Surfaces,
             SetupVBO(s) \/ NewPlane(s) \/ SetTextureUV(s) \/ UpdateVbo(s) \/ AddDrawSur(s)
      PROVE  CInv'
  <2>1. geometry[s] \in Nat /\ geometry[s] + 1 \in Nat
    BY DEF CInv, BInv, BufferTypeOK
  <2>2. \/ R_GenerateGeometryVbo(s, geometry[s] + 1)
        \/ R_GenerateGeometryVbo(s, geometry[s])
        \/ UNCHANGED <<vbo0, buffers, generated>>
    BY <1>4 DEF SetupVBO, NewPlane, SetTextureUV, UpdateVbo, AddDrawSur
  <2>. QED BY <1>2, <1>3, <2>1, <2>2
<1>. QED BY <1>3, <1>4 DEF BufferNext, FrameUpdate, bufferVars

\* R_GenerateGeometryVbo deletes vbo[0] twice and vbo[1] never: one name is left behind
\* by every call for a surface that had buffers, and by nothing else.
THEOREM LeakIsExactAlways == BufferSpec => []LeakIsExact
<1>1. BufferSpec => []CInv
  BY InitCounts, StepCounts, PTL DEF BufferSpec
<1>2. CInv => LeakIsExact
  BY DEF CInv
<1>. QED BY <1>1, <1>2, PTL

-----------------------------------------------------------------------------
(* The pictures.  Their rows are told apart by quotients and remainders.   *)

LEMMA Products ==
  ASSUME NEW a \in Nat, NEW b \in Nat, NEW c \in Nat
  PROVE  /\ a * b \in Nat /\ a * b = b * a
         /\ a * (b * c) = (a * b) * c /\ a * (b * c) = (a * c) * b
         /\ (a + b) * c = a * c + b * c
<1>1. a * b \in Nat /\ a * b = b * a
  OBVIOUS
<1>2. a * (b * c) = (a * b) * c
  OBVIOUS
<1>3. a * (b * c) = (a * c) * b
  OBVIOUS
<1>4. (a + b) * c = a * c + b * c
  OBVIOUS
<1> QED
  BY <1>1, <1>2, <1>3, <1>4

\* What is in place r of row q of rows of m.
LEMMA RowAndPlace ==
  ASSUME NEW q \in Nat, NEW m \in Nat \ {0}, NEW r \in 0 .. m - 1
  PROVE  (q * m + r) \div m = q /\ (q * m + r) % m = r
  OBVIOUS

LEMMA RowOfPlace ==
  ASSUME NEW i \in Nat, NEW m \in Nat \ {0}
  PROVE  i \div m \in Nat /\ i % m \in 0 .. m - 1 /\ i = (i \div m) * m + (i % m)
  OBVIOUS

\* There are h rows of m places.
LEMMA InRows ==
  ASSUME NEW h \in Nat, NEW m \in Nat \ {0}, NEW q \in 0 .. h - 1, NEW r \in 0 .. m - 1
  PROVE  q * m + r \in 0 .. m * h - 1
<1>1. q * m >= 0 /\ q * m <= (h - 1) * m /\ (h - 1) * m + m = m * h
  OBVIOUS
<1> QED
  BY <1>1

LEMMA RowIsOne ==
  ASSUME NEW h \in Nat, NEW m \in Nat \ {0}, NEW i \in 0 .. m * h - 1
  PROVE  i \div m \in 0 .. h - 1 /\ i % m \in 0 .. m - 1
<1>1. i \div m \in Nat /\ i % m \in 0 .. m - 1 /\ i = (i \div m) * m + (i % m)
  <2>1. m * h \in Nat
    OBVIOUS
  <2>2. i \in Nat
    BY <2>1
  <2> QED
    BY <2>2, RowOfPlace
<1>2. ASSUME i \div m >= h PROVE FALSE
  <2>1. (i \div m) * m >= h * m
    BY <1>1, <1>2
  <2>2. h * m = m * h /\ m * h \in Nat
    OBVIOUS
  <2> QED
    BY <1>1, <2>1, <2>2
<1> QED
  BY <1>1, <1>2

-----------------------------------------------------------------------------
(* The rows of a picture.                                                  *)

IsRaster(f) ==
  /\ f.width \in Nat /\ f.height \in Nat /\ f.bytes \in {1, 2}
  /\ f.form \in DOMAIN PixelChannels
SizeOf(f) == Len(PixelChannels[f.form]) * f.bytes

\* The rows of the file from the bottom, or from the top.
RowFrom(f, up, y) == IF up THEN y ELSE f.height - 1 - y
Rows(f, up) == Lines(f, [y \in 0 .. f.height - 1 |-> RowFrom(f, up, y)], RowLength(f))

LEMMA SizeIsPositive ==
  ASSUME NEW f, IsRaster(f)
  PROVE  /\ Len(PixelChannels[f.form]) \in 1 .. 4 /\ SizeOf(f) \in Nat \ {0}
         /\ f.width * Len(PixelChannels[f.form]) * f.bytes = SizeOf(f) * f.width
         /\ SizeOf(f) * f.width \in Nat
<1>1. Len(PixelChannels[f.form]) \in 1 .. 4
  BY DEF IsRaster, PixelChannels
<1>2. PICK c \in 1 .. 4 : c = Len(PixelChannels[f.form])
  BY <1>1
<1>3. \A b \in {1, 2}, w \in Nat : /\ c * b \in Nat \ {0} /\ w * c * b = (c * b) * w
                                   /\ (c * b) * w \in Nat
  OBVIOUS
<1> QED
  BY <1>1, <1>2, <1>3 DEF IsRaster, SizeOf

LEMMA RowsAre ==
  ASSUME NEW f, IsRaster(f), NEW up \in BOOLEAN
  PROVE  /\ DOMAIN Rows(f, up) = 0 .. (SizeOf(f) * f.width) * f.height - 1
         /\ \A i \in 0 .. (SizeOf(f) * f.width) * f.height - 1 :
              /\ SizeOf(f) * f.width \in Nat \ {0}
              /\ i \div (SizeOf(f) * f.width) \in 0 .. f.height - 1
              /\ i % (SizeOf(f) * f.width) \in 0 .. (SizeOf(f) * f.width) - 1
              /\ Rows(f, up)[i] = RowByte(RowFrom(f, up, i \div (SizeOf(f) * f.width)),
                                          i % (SizeOf(f) * f.width), PixelChannels[f.form], f.bytes)
<1>1. PICK m : m = SizeOf(f) * f.width
  OBVIOUS
<1>2. PICK h : h = f.height
  OBVIOUS
<1>3. m \in Nat /\ h \in Nat /\ m = f.width * Len(PixelChannels[f.form]) * f.bytes
  BY <1>1, <1>2, SizeIsPositive DEF IsRaster
<1>4. Rows(f, up) = [i \in 0 .. m * h - 1 |->
         RowByte([y \in 0 .. h - 1 |-> RowFrom(f, up, y)][i \div m], i % m, PixelChannels[f.form], f.bytes)]
  BY <1>2, <1>3 DEF Rows, Lines, RowLength
<1>5. ASSUME NEW i \in 0 .. m * h - 1
      PROVE  /\ m \in Nat \ {0} /\ i \div m \in 0 .. h - 1 /\ i % m \in 0 .. m - 1
             /\ Rows(f, up)[i] = RowByte(RowFrom(f, up, i \div m), i % m, PixelChannels[f.form], f.bytes)
  <2>1. m # 0
    <3>1. m = 0 => m * h = 0
      BY <1>3
    <3> QED
      BY <3>1
  <2>2. m \in Nat \ {0} /\ i \div m \in 0 .. h - 1 /\ i % m \in 0 .. m - 1
    BY <1>3, <2>1, RowIsOne
  <2> QED
    BY <1>4, <2>2
<1>6. DOMAIN Rows(f, up) = 0 .. m * h - 1
  BY <1>4
<1> QED
  BY <1>1, <1>2, <1>5, <1>6

\* FlipSurface turns the rows over.
LEMMA RowsTurnOver ==
  ASSUME NEW f, IsRaster(f), NEW up \in BOOLEAN
  PROVE  Flipped(Rows(f, up), SizeOf(f) * f.width, f.height) = Rows(f, ~up)
<1>1. PICK m : m = SizeOf(f) * f.width
  OBVIOUS
<1>2. PICK h : h = f.height
  OBVIOUS
<1>3. m \in Nat /\ h \in Nat
  BY <1>1, <1>2, SizeIsPositive DEF IsRaster
<1>4. \A u \in BOOLEAN :
        /\ DOMAIN Rows(f, u) = 0 .. m * h - 1
        /\ \A i \in 0 .. m * h - 1 :
             /\ m \in Nat \ {0} /\ i \div m \in 0 .. h - 1 /\ i % m \in 0 .. m - 1
             /\ Rows(f, u)[i] = RowByte(RowFrom(f, u, i \div m), i % m, PixelChannels[f.form], f.bytes)
  BY <1>1, <1>2, RowsAre
<1>5. ASSUME NEW i \in 0 .. m * h - 1
      PROVE  Flipped(Rows(f, up), m, h)[i] = Rows(f, ~up)[i]
  <2>1. PICK q, r : q = i \div m /\ r = i % m
    OBVIOUS
  <2>2. m \in Nat \ {0} /\ q \in 0 .. h - 1 /\ r \in 0 .. m - 1
    BY <1>4, <2>1
  <2>3. i \in Nat /\ m * h \in Nat \ {0} /\ i < m * h
    BY <1>3, <2>2
  <2>4. 0 * (m * h) + i = i /\ i \in 0 .. m * h - 1
    BY <2>3
  <2>5. i \div (m * h) = 0 /\ i % (m * h) = i
    BY <2>3, <2>4, RowAndPlace
  <2>6. h - 1 - q \in 0 .. h - 1
    BY <1>3, <2>2
  <2>7. PICK j : j = (h - 1 - q) * m + r
    OBVIOUS
  <2>8. j \in 0 .. m * h - 1
    BY <1>3, <2>2, <2>6, <2>7, InRows
  <2>9. j \div m = h - 1 - q /\ j % m = r
    BY <2>2, <2>6, <2>7, RowAndPlace
  <2>10. (i \div (m * h)) * (m * h) + (h - 1 - ((i % (m * h)) \div m)) * m + (i % m) = j
    <3>1. 0 * (m * h) + (h - 1 - q) * m + r = j
      BY <1>3, <2>2, <2>6, <2>7
    <3> QED
      BY <2>1, <2>5, <3>1
  <2>11. Flipped(Rows(f, up), m, h)[i] = Rows(f, up)[j]
    BY <1>4, <2>2, <2>10 DEF Flipped
  <2>12. Rows(f, up)[j] = RowByte(RowFrom(f, up, h - 1 - q), r, PixelChannels[f.form], f.bytes)
    BY <1>4, <2>8, <2>9
  <2>13. Rows(f, ~up)[i] = RowByte(RowFrom(f, ~up, q), r, PixelChannels[f.form], f.bytes)
    BY <1>4, <2>1
  <2>14. RowFrom(f, up, h - 1 - q) = RowFrom(f, ~up, q)
    BY <1>2, <1>3, <2>2 DEF RowFrom
  <2> QED
    BY <2>11, <2>12, <2>13, <2>14
<1>6. /\ Flipped(Rows(f, up), m, h) = [i \in 0 .. m * h - 1 |-> Flipped(Rows(f, up), m, h)[i]]
      /\ Rows(f, ~up) = [i \in 0 .. m * h - 1 |-> Rows(f, ~up)[i]]
  BY <1>4 DEF Flipped, Rows, Lines
<1> QED
  BY <1>1, <1>2, <1>5, <1>6

LEMMA PixelByte ==
  ASSUME NEW f, IsRaster(f), NEW up \in BOOLEAN,
         NEW x \in 0 .. f.width - 1, NEW y \in 0 .. f.height - 1, NEW k \in 0 .. SizeOf(f) - 1
  PROVE  LET at == (y * f.width + x) * SizeOf(f) + k
         IN  /\ at \in DOMAIN Rows(f, up)
             /\ Rows(f, up)[at] = <<x, RowFrom(f, up, y), PixelChannels[f.form][(k \div f.bytes) + 1],
                                    (k % f.bytes) + 1>>
<1>1. PICK n : n = SizeOf(f)
  OBVIOUS
<1>2. PICK w : w = f.width
  OBVIOUS
<1>3. n \in Nat \ {0} /\ w \in Nat /\ f.height \in Nat /\ n * w \in Nat
  BY <1>1, <1>2, SizeIsPositive DEF IsRaster
<1>4. x \in 0 .. w - 1 /\ k \in 0 .. n - 1 /\ y \in 0 .. f.height - 1
  BY <1>1, <1>2
<1>5. PICK r : r = x * n + k
  OBVIOUS
<1>6. r \in 0 .. n * w - 1 /\ r \div n = x /\ r % n = k
  <2>1. x * n + k \in 0 .. n * w - 1
    BY <1>3, <1>4, InRows
  <2>2. x \in Nat
    BY <1>3, <1>4
  <2>3. (x * n + k) \div n = x /\ (x * n + k) % n = k
    BY <1>3, <1>4, <2>2, RowAndPlace
  <2> QED
    BY <1>5, <2>1, <2>3
<1>7. n * w \in Nat \ {0}
  BY <1>3, <1>6
<1>8. PICK at : at = y * (n * w) + r
  OBVIOUS
<1>9. at = (y * w + x) * n + k
  <2>1. y \in Nat /\ x \in Nat /\ y * w \in Nat
    BY <1>3, <1>4, Products
  <2>2. y * (n * w) = (y * w) * n /\ (y * w + x) * n = (y * w) * n + x * n
    BY <1>3, <2>1, Products
  <2>3. (y * w) * n \in Nat /\ x * n \in Nat
    BY <1>3, <1>4
  <2> QED
    BY <1>4, <1>5, <1>8, <2>2, <2>3
<1>10. at \in 0 .. (n * w) * f.height - 1 /\ at \div (n * w) = y /\ at % (n * w) = r
  <2>1. y * (n * w) + r \in 0 .. (n * w) * f.height - 1
    BY <1>3, <1>4, <1>6, <1>7, InRows
  <2>2. y \in Nat
    BY <1>3, <1>4
  <2> QED
    BY <1>6, <1>7, <1>8, <2>1, <2>2, RowAndPlace
<1>11. Rows(f, up)[at] = RowByte(RowFrom(f, up, y), r, PixelChannels[f.form], f.bytes)
  BY <1>1, <1>2, <1>10, RowsAre
<1>12. at \in DOMAIN Rows(f, up)
  BY <1>1, <1>2, <1>10, RowsAre
<1>13. RowByte(RowFrom(f, up, y), r, PixelChannels[f.form], f.bytes)
         = <<x, RowFrom(f, up, y), PixelChannels[f.form][(k \div f.bytes) + 1], (r % f.bytes) + 1>>
  <2>1. PICK channels : channels = PixelChannels[f.form]
    OBVIOUS
  <2>2. Len(channels) * f.bytes = n
    BY <1>1, <2>1 DEF SizeOf
  <2>3. RowByte(RowFrom(f, up, y), r, channels, f.bytes)
          = <<r \div n, RowFrom(f, up, y), channels[((r % n) \div f.bytes) + 1], (r % f.bytes) + 1>>
    BY <2>2 DEF RowByte
  <2> QED
    BY <1>6, <2>1, <2>3
<1>14. r % f.bytes = k % f.bytes
  <2>1. PICK c \in 1 .. 4 : c = Len(PixelChannels[f.form])
    BY SizeIsPositive
  <2>2. \A b \in {1, 2} : (x * (c * b) + k) % b = k % b
    <3>1. x \in Nat /\ k \in Nat
      BY <1>3, <1>4
    <3>2. (x * (c * 1) + k) % 1 = k % 1
      BY <3>1
    <3>3. (x * (c * 2) + k) % 2 = k % 2
      <4>1. PICK z \in Nat : z = x * c
        BY <3>1
      <4>2. x * (c * 2) + k = 2 * z + k
        BY <3>1, <4>1
      <4>3. (2 * z + k) % 2 = k % 2
        BY <3>1
      <4> QED
        BY <4>2, <4>3
    <3> QED
      BY <3>2, <3>3
  <2> QED
    BY <1>1, <1>5, <2>1, <2>2 DEF IsRaster, SizeOf
<1> QED
  BY <1>1, <1>2, <1>9, <1>11, <1>12, <1>13, <1>14

\* An image of one level with such rows.
OfRows(f, format, size, up) ==
  [width |-> f.width, height |-> f.height, depth |-> 0, levelCount |-> 1, faces |-> 0,
   format |-> format, bytes |-> f.bytes, elementSize |-> size, data |-> <<Rows(f, up)>>]

\* What OpenGL takes from it.
LEMMA TexelIs ==
  ASSUME NEW f, IsRaster(f), f.bytes = 1, NEW up \in BOOLEAN, NEW format, NEW size,
         format \in DOMAIN PixelChannels, Len(PixelChannels[format]) = Len(PixelChannels[f.form]),
         (f.width * Len(PixelChannels[format])) % 4 = 0,
         NEW x \in 0 .. f.width - 1, NEW y \in 0 .. f.height - 1,
         NEW k \in 1 .. Len(PixelChannels[f.form])
  PROVE  Texel(OfRows(f, format, size, up), x, y, k)
           = << <<x, RowFrom(f, up, y), PixelChannels[f.form][k], 1>> >>
<1>1. PICK c \in 1 .. 4 : c = Len(PixelChannels[f.form])
  BY SizeIsPositive
<1>2. PICK w \in Nat : w = f.width
  BY DEF IsRaster
<1>3. x \in Nat /\ y \in Nat /\ k \in 1 .. c
  BY <1>1, <1>2 DEF IsRaster
<1>4. SizeOf(f) = c
  BY <1>1 DEF SizeOf
<1>5. k - 1 \in 0 .. SizeOf(f) - 1 /\ (k - 1) \div f.bytes = k - 1 /\ (k - 1) % f.bytes = 0 /\ (k - 1) + 1 = k
  BY <1>1, <1>3, <1>4
<1>6. PICK at : at = (y * w + x) * c + (k - 1)
  OBVIOUS
<1>7. at \in DOMAIN Rows(f, up) /\ Rows(f, up)[at] = <<x, RowFrom(f, up, y), PixelChannels[f.form][k], 1>>
  <2>1. LET a == (y * f.width + x) * SizeOf(f) + (k - 1)
        IN  /\ a \in DOMAIN Rows(f, up)
            /\ Rows(f, up)[a] = <<x, RowFrom(f, up, y), PixelChannels[f.form][((k - 1) \div f.bytes) + 1],
                                  ((k - 1) % f.bytes) + 1>>
    BY <1>5, PixelByte
  <2>2. ((k - 1) \div f.bytes) + 1 = k /\ ((k - 1) % f.bytes) + 1 = 1
    BY <1>5
  <2> QED
    BY <1>2, <1>4, <1>6, <2>1, <2>2
<1>8. PICK im : im = OfRows(f, format, size, up)
  OBVIOUS
<1>9. /\ im.format = format /\ im.bytes = 1 /\ im.width = w
      /\ GetLevel(im, 0, 0) = Rows(f, up)
  BY <1>2, <1>8 DEF OfRows, GetLevel
<1>10. PICK z \in Nat : z = w * c
  OBVIOUS
<1>11. z % 4 = 0
  BY <1>1, <1>2, <1>10
<1>12. ((w * c * 1 + 3) \div 4) * 4 = z
  <2>1. w * c * 1 = z
    BY <1>10
  <2>2. ((z + 3) \div 4) * 4 = z
    BY <1>11
  <2> QED
    BY <2>1, <2>2
<1>13. y * z + (x * c + k - 1) * 1 + 1 - 1 = at
  <2>1. c \in Nat /\ y * w \in Nat
    BY <1>2, <1>3, Products
  <2>2. y * z = (y * w) * c /\ (y * w + x) * c = (y * w) * c + x * c
    <3>1. y * (w * c) = (y * w) * c
      BY <1>2, <1>3, <2>1, Products
    <3>2. (y * w + x) * c = (y * w) * c + x * c
      BY <1>3, <2>1, Products
    <3> QED
      BY <1>10, <3>1, <3>2
  <2>3. (y * w) * c \in Nat /\ x * c \in Nat
    BY <1>3, <2>1, Products
  <2> QED
    BY <1>3, <1>6, <2>2, <2>3
<1>14. Texel(im, x, y, k) =
         [b \in 1 .. 1 |->
            IF y * z + (x * c + k - 1) * 1 + 1 - b \in DOMAIN Rows(f, up)
            THEN Rows(f, up)[y * z + (x * c + k - 1) * 1 + 1 - b] ELSE Unset]
  BY <1>1, <1>9, <1>12 DEF Texel
<1>15. \A b \in 1 .. 1 : b = 1
  OBVIOUS
<1>16. Texel(im, x, y, k) = [b \in 1 .. 1 |-> Rows(f, up)[at]]
  BY <1>7, <1>13, <1>14, <1>15
<1>17. PICK v : v = Rows(f, up)[at]
  OBVIOUS
<1>18. [b \in 1 .. 1 |-> v] = <<v>>
  OBVIOUS
<1> QED
  BY <1>7, <1>8, <1>16, <1>17, <1>18

-----------------------------------------------------------------------------
(* Crosses.                                                                *)

\* A place of a cross of squares of n, and the texel that shows it.
OfCross(x, y, n) ==
  /\ x \in 0 .. 3 * n - 1 /\ y \in 0 .. 4 * n - 1
  /\ x \in n .. 2 * n - 1 \/ y \in 2 * n .. 3 * n - 1
Spot(x, y, n) ==
  IF x >= 2 * n THEN <<1, x - 2 * n, 3 * n - 1 - y>>
  ELSE IF x < n THEN <<2, x, 3 * n - 1 - y>>
  ELSE IF y >= 3 * n THEN <<3, x - n, 4 * n - 1 - y>>
  ELSE IF y >= 2 * n THEN <<5, x - n, 3 * n - 1 - y>>
  ELSE IF y >= n THEN <<4, x - n, 2 * n - 1 - y>>
  ELSE <<6, 2 * n - 1 - x, y>>

\* Each place of the cross is the pixel of that texel, and of no other.
LEMMA SpotShows ==
  ASSUME NEW n \in Nat, NEW x, NEW y, OfCross(x, y, n),
         NEW face \in 1 .. 6, NEW i \in 0 .. n - 1, NEW j \in 0 .. n - 1
  PROVE  CrossPixel(face, i, j, n) = <<x, y>> <=> <<face, i, j>> = Spot(x, y, n)
<1>1. CrossPixel(face, i, j, n) = <<CrossPixel(face, i, j, n)[1], CrossPixel(face, i, j, n)[2]>>
  BY DEF CrossPixel
<1>2. \/ face = 1 /\ CrossPixel(face, i, j, n) = <<2 * n + i, 3 * n - 1 - j>>
      \/ face = 2 /\ CrossPixel(face, i, j, n) = <<i, 3 * n - 1 - j>>
      \/ face = 3 /\ CrossPixel(face, i, j, n) = <<n + i, 4 * n - 1 - j>>
      \/ face = 4 /\ CrossPixel(face, i, j, n) = <<n + i, 2 * n - 1 - j>>
      \/ face = 5 /\ CrossPixel(face, i, j, n) = <<n + i, 3 * n - 1 - j>>
      \/ face = 6 /\ CrossPixel(face, i, j, n) = <<2 * n - 1 - i, j>>
  BY DEF CrossPixel
<1>3. \A a, b, c, d : <<a, b>> = <<c, d>> <=> a = c /\ b = d
  OBVIOUS
<1>4. \A a, b, c, d, e, g : <<a, b, c>> = <<d, e, g>> <=> a = d /\ b = e /\ c = g
  OBVIOUS
<1>5. PICK u, v : CrossPixel(face, i, j, n) = <<u, v>>
  BY <1>1
<1>6. PICK a, b, c : Spot(x, y, n) = <<a, b, c>>
  BY DEF Spot
<1>7. \/ face = 1 /\ u = 2 * n + i /\ v = 3 * n - 1 - j
      \/ face = 2 /\ u = i /\ v = 3 * n - 1 - j
      \/ face = 3 /\ u = n + i /\ v = 4 * n - 1 - j
      \/ face = 4 /\ u = n + i /\ v = 2 * n - 1 - j
      \/ face = 5 /\ u = n + i /\ v = 3 * n - 1 - j
      \/ face = 6 /\ u = 2 * n - 1 - i /\ v = j
  BY <1>2, <1>3, <1>5
<1>8. \/ x >= 2 * n /\ a = 1 /\ b = x - 2 * n /\ c = 3 * n - 1 - y
      \/ x < n /\ a = 2 /\ b = x /\ c = 3 * n - 1 - y
      \/ x >= n /\ x < 2 * n /\ y >= 3 * n /\ a = 3 /\ b = x - n /\ c = 4 * n - 1 - y
      \/ x >= n /\ x < 2 * n /\ y >= 2 * n /\ y < 3 * n /\ a = 5 /\ b = x - n /\ c = 3 * n - 1 - y
      \/ x >= n /\ x < 2 * n /\ y >= n /\ y < 2 * n /\ a = 4 /\ b = x - n /\ c = 2 * n - 1 - y
      \/ x >= n /\ x < 2 * n /\ y < n /\ a = 6 /\ b = 2 * n - 1 - x /\ c = y
  BY <1>4, <1>6 DEF Spot, OfCross
<1>9. x \in Nat /\ y \in Nat /\ x < 3 * n /\ y < 4 * n /\ ((x >= n /\ x < 2 * n) \/ (y >= 2 * n /\ y < 3 * n))
  BY DEF OfCross
<1>10. u = x /\ v = y <=> face = a /\ i = b /\ j = c
  <2>1. ASSUME u = x, v = y PROVE face = a /\ i = b /\ j = c
    BY <1>7, <1>8, <1>9, <2>1
  <2>2. ASSUME face = a, i = b, j = c PROVE u = x /\ v = y
    BY <1>7, <1>8, <1>9, <2>2
  <2> QED
    BY <2>1, <2>2
<1> QED
  BY <1>3, <1>4, <1>5, <1>6, <1>10

LEMMA SpotIsTexel ==
  ASSUME NEW n \in Nat, NEW x, NEW y, OfCross(x, y, n)
  PROVE  Spot(x, y, n) \in (1 .. 6) \X (0 .. n - 1) \X (0 .. n - 1)
  BY DEF Spot, OfCross

\* Where it is on the cube.
CubeAt(x, y, n) == OnCube(Spot(x, y, n)[1], Spot(x, y, n)[2], Spot(x, y, n)[3], n)
NextTo(p, q) == Distance(p[1], q[1]) + Distance(p[2], q[2]) + Distance(p[3], q[3]) = 2

LEMMA CubeAtIs ==
  ASSUME NEW n \in Nat, NEW x, NEW y, OfCross(x, y, n)
  PROVE  CubeAt(x, y, n) =
           IF x >= 2 * n THEN <<n, n - 1 - 2 * (3 * n - 1 - y), n - 1 - 2 * (x - 2 * n)>>
           ELSE IF x < n THEN <<-n, n - 1 - 2 * (3 * n - 1 - y), 2 * x + 1 - n>>
           ELSE IF y >= 3 * n THEN <<2 * (x - n) + 1 - n, n, 2 * (4 * n - 1 - y) + 1 - n>>
           ELSE IF y >= 2 * n THEN <<2 * (x - n) + 1 - n, n - 1 - 2 * (3 * n - 1 - y), n>>
           ELSE IF y >= n THEN <<2 * (x - n) + 1 - n, -n, n - 1 - 2 * (2 * n - 1 - y)>>
           ELSE <<n - 1 - 2 * (2 * n - 1 - x), n - 1 - 2 * y, -n>>
  BY DEF CubeAt, OnCube, Spot, OfCross

LEMMA NeighboursStay ==
  ASSUME NEW n \in Nat, NEW x, NEW y, OfCross(x, y, n)
  PROVE  /\ OfCross(x + 1, y, n) => NextTo(CubeAt(x, y, n), CubeAt(x + 1, y, n))
         /\ OfCross(x, y + 1, n) => NextTo(CubeAt(x, y, n), CubeAt(x, y + 1, n))
<1>1. CASE OfCross(x + 1, y, n)
  BY <1>1, CubeAtIs DEF NextTo, Distance, OfCross
<1>2. CASE OfCross(x, y + 1, n)
  BY <1>2, CubeAtIs DEF NextTo, Distance, OfCross
<1> QED
  BY <1>1, <1>2

LEMMA FirstTwo ==
  ASSUME NEW a, NEW b, NEW c, NEW d
  PROVE  <<a, b, c, d>>[1] = a /\ <<a, b, c, d>>[2] = b
  OBVIOUS

\* The bytes of a folded cross.
FoldedAt(im, face, b, n) ==
  LET p == CrossPixel(face, (b \div im.elementSize) % n, b \div (im.elementSize * n), n)
  IN  im.data[1][(p[2] * im.width + p[1]) * im.elementSize + (b % im.elementSize)]

LEMMA FoldedByte ==
  ASSUME NEW f, IsRaster(f), NEW n \in Nat, f.width = 3 * n, f.height = 4 * n,
         NEW face \in 1 .. 6, NEW i \in 0 .. n - 1, NEW j \in 0 .. n - 1
  PROVE  LET folded == ConvertCrossToCubemap(OfRows(f, f.form, SizeOf(f), TRUE))
         IN  /\ folded.data[face][(j * n + i) * SizeOf(f)][1] = CrossPixel(face, i, j, n)[1]
             /\ folded.data[face][(j * n + i) * SizeOf(f)][2] = CrossPixel(face, i, j, n)[2]
<1> DEFINE im == OfRows(f, f.form, SizeOf(f), TRUE)
<1>0. im = OfRows(f, f.form, SizeOf(f), TRUE)
  OBVIOUS
<1> HIDE DEF im
<1>1. PICK e : e = SizeOf(f)
  OBVIOUS
<1>2. e \in Nat \ {0} /\ n \in Nat \ {0} /\ i \in Nat /\ j \in Nat
  BY <1>1, SizeIsPositive
<1>3. /\ im.width = 3 * n /\ im.elementSize = e /\ im.data[1] = Rows(f, TRUE)
      /\ im.width \div 3 = n
  BY <1>0, <1>1 DEF OfRows
<1>4. PICK b : b = (j * n + i) * e
  OBVIOUS
<1>5. j * n + i \in 0 .. n * n - 1 /\ j * n + i \in Nat /\ (j * n + i) % n = i /\ n * n \in Nat
  <2>1. j * n + i \in 0 .. n * n - 1
    BY <1>2, InRows
  <2>2. (j * n + i) % n = i
    BY <1>2, RowAndPlace
  <2>3. n * n \in Nat
    BY <1>2, Products
  <2> QED
    BY <2>1, <2>2, <2>3
<1>6. b \in 0 .. n * n * e - 1 /\ b \div e = j * n + i /\ b % e = 0
  <2>1. b = (j * n + i) * e + 0 /\ 0 \in 0 .. e - 1
    <3>1. (j * n + i) * e \in Nat
      BY <1>2, <1>5, Products
    <3> QED
      BY <1>2, <1>4, <3>1
  <2>2. (j * n + i) * e + 0 \in 0 .. e * (n * n) - 1
    BY <1>2, <1>5, <2>1, InRows
  <2>3. e * (n * n) = n * n * e
    BY <1>2, <1>5, Products
  <2>4. ((j * n + i) * e + 0) \div e = j * n + i /\ ((j * n + i) * e + 0) % e = 0
    BY <1>2, <1>5, <2>1, RowAndPlace
  <2> QED
    BY <2>1, <2>2, <2>3, <2>4
<1>7. b \div (e * n) = j
  <2>1. i * e + 0 \in 0 .. e * n - 1
    BY <1>2, InRows
  <2>2. i * e \in Nat /\ i * e + 0 = i * e
    BY <1>2, Products
  <2>3. e * n \in Nat \ {0}
    <3>1. e * n \in Nat
      BY <1>2, Products
    <3> QED
      BY <2>1, <2>2, <3>1
  <2>4. (j * (e * n) + i * e) \div (e * n) = j
    BY <1>2, <2>1, <2>2, <2>3, RowAndPlace
  <2>5. b = j * (e * n) + i * e
    <3>1. j * n \in Nat
      BY <1>2, Products
    <3>2. (j * n + i) * e = (j * n) * e + i * e
      BY <1>2, <3>1, Products
    <3>3. j * (e * n) = (j * n) * e
      BY <1>2, Products
    <3> QED
      BY <1>4, <3>2, <3>3
  <2> QED
    BY <2>4, <2>5
<1>8. PICK u, v : CrossPixel(face, i, j, n) = <<u, v>>
  BY DEF CrossPixel
<1>9. u \in 0 .. 3 * n - 1 /\ v \in 0 .. 4 * n - 1
  <2>1. CrossPixel(face, i, j, n)[1] \in 0 .. 3 * n - 1 /\ CrossPixel(face, i, j, n)[2] \in 0 .. 4 * n - 1
    BY <1>2 DEF CrossPixel
  <2> QED
    BY <1>8, <2>1
<1>10. ConvertCrossToCubemap(im).data[face][b] = Rows(f, TRUE)[(v * (3 * n) + u) * e + 0]
  <2>1. ConvertCrossToCubemap(im).data =
          [g \in 1 .. 6 |-> [c \in 0 .. n * n * e - 1 |-> FoldedAt(im, g, c, n)]]
    BY <1>0, <1>3 DEF ConvertCrossToCubemap, OfRows, FoldedAt
  <2>2. ConvertCrossToCubemap(im).data[face][b] = FoldedAt(im, face, b, n)
    <3>1. ConvertCrossToCubemap(im).data[face] = [c \in 0 .. n * n * e - 1 |-> FoldedAt(im, face, c, n)]
      BY <2>1
    <3> QED
      BY <1>6, <3>1
  <2>3. CrossPixel(face, (b \div e) % n, b \div (e * n), n) = <<u, v>>
    BY <1>5, <1>6, <1>7, <1>8
  <2>4. FoldedAt(im, face, b, n) = im.data[1][(v * im.width + u) * e + (b % e)]
    <3>1. FoldedAt(im, face, b, n) = im.data[1][(<<u, v>>[2] * im.width + <<u, v>>[1]) * e + (b % e)]
      BY <1>3, <2>3, Zenon DEF FoldedAt
    <3>2. <<u, v>>[1] = u /\ <<u, v>>[2] = v
      OBVIOUS
    <3> QED
      BY <3>1, <3>2
  <2> QED
    BY <1>3, <1>6, <2>2, <2>4
<1>11. Rows(f, TRUE)[(v * f.width + u) * SizeOf(f) + 0]
         = <<u, RowFrom(f, TRUE, v), PixelChannels[f.form][(0 \div f.bytes) + 1], (0 % f.bytes) + 1>>
  <2>1. 0 \in 0 .. SizeOf(f) - 1
    BY <1>1, <1>2
  <2>2. u \in 0 .. f.width - 1 /\ v \in 0 .. f.height - 1
    BY <1>9
  <2> QED
    BY <2>1, <2>2, PixelByte
<1>12. RowFrom(f, TRUE, v) = v
  BY DEF RowFrom
<1>13. PICK c : c = ConvertCrossToCubemap(im).data[face][(j * n + i) * SizeOf(f)]
  OBVIOUS
<1>14. c = Rows(f, TRUE)[(v * f.width + u) * SizeOf(f) + 0]
  BY <1>1, <1>4, <1>10, <1>13
<1>15. c = <<u, v, PixelChannels[f.form][(0 \div f.bytes) + 1], (0 % f.bytes) + 1>>
  BY <1>11, <1>12, <1>14
<1>16. c[1] = u /\ c[2] = v
  BY <1>15, FirstTwo
<1>17. CrossPixel(face, i, j, n)[1] = u /\ CrossPixel(face, i, j, n)[2] = v
  BY <1>8
<1> QED
  BY <1>0, <1>13, <1>16, <1>17

\* Each place of the cross is shown once.
IsFolded(f, im, n) ==
  /\ IsRaster(f) /\ f.width = 3 * n /\ f.height = 4 * n
  /\ im = ConvertCrossToCubemap(OfRows(f, f.form, SizeOf(f), TRUE))

LEMMA SpotIsPlace ==
  ASSUME NEW f, NEW im, NEW n \in Nat, IsFolded(f, im, n), NEW x, NEW y, OfCross(x, y, n)
  PROVE  Places(im, x, y) = {Spot(x, y, n)}
<1>0. /\ IsRaster(f) /\ f.width = 3 * n /\ f.height = 4 * n
      /\ im = ConvertCrossToCubemap(OfRows(f, f.form, SizeOf(f), TRUE))
  BY DEF IsFolded
<1>1. im.width = n /\ im.height = n /\ im.elementSize = SizeOf(f)
  BY <1>0 DEF ConvertCrossToCubemap, OfRows
<1>2. ASSUME NEW p \in (1 .. 6) \X (0 .. n - 1) \X (0 .. n - 1)
      PROVE  LET b == im.data[p[1]][(p[3] * n + p[2]) * SizeOf(f)]
             IN  (b[1] = x /\ b[2] = y) <=> p = Spot(x, y, n)
  <2>1. PICK face \in 1 .. 6, i \in 0 .. n - 1, j \in 0 .. n - 1 : p = <<face, i, j>>
    OBVIOUS
  <2>2. PICK b : b = im.data[face][(j * n + i) * SizeOf(f)]
    OBVIOUS
  <2>3. <<b[1], b[2]>> = CrossPixel(face, i, j, n)
    <3>1. b[1] = CrossPixel(face, i, j, n)[1] /\ b[2] = CrossPixel(face, i, j, n)[2]
      BY <1>0, <2>2, FoldedByte
    <3>2. CrossPixel(face, i, j, n) = <<CrossPixel(face, i, j, n)[1], CrossPixel(face, i, j, n)[2]>>
      BY DEF CrossPixel
    <3> QED
      BY <3>1, <3>2
  <2>4. CrossPixel(face, i, j, n) = <<x, y>> <=> <<face, i, j>> = Spot(x, y, n)
    BY SpotShows
  <2>5. <<b[1], b[2]>> = <<x, y>> <=> b[1] = x /\ b[2] = y
    OBVIOUS
  <2> QED
    BY <2>1, <2>2, <2>3, <2>4, <2>5
<1>3. Places(im, x, y) =
        {p \in (1 .. 6) \X (0 .. n - 1) \X (0 .. n - 1) :
           LET b == im.data[p[1]][(p[3] * n + p[2]) * SizeOf(f)] IN b[1] = x /\ b[2] = y}
  BY <1>1 DEF Places
<1>4. Spot(x, y, n) \in (1 .. 6) \X (0 .. n - 1) \X (0 .. n - 1)
  BY SpotIsTexel
<1> QED
  BY <1>2, <1>3, <1>4

LEMMA CrossIs ==
  ASSUME NEW n \in Nat \ {0}, NEW x \in Nat, NEW y \in Nat
  PROVE  (x \div n = 1 \/ y \div n = 2) /\ x < 3 * n /\ y < 4 * n <=> OfCross(x, y, n)
<1>1. ASSUME NEW z \in Nat, NEW q \in 0 .. 2
      PROVE  z \div n = q <=> z >= q * n /\ z < q * n + n
  <2>1. z \div n \in Nat /\ z % n \in 0 .. n - 1 /\ z = (z \div n) * n + (z % n)
    BY RowOfPlace
  <2>2. CASE z \div n = q
    BY <2>1, <2>2
  <2>3. CASE z >= q * n /\ z < q * n + n
    <3>1. z - q * n \in 0 .. n - 1 /\ q * n + (z - q * n) = z
      BY <2>3
    <3>2. q \in Nat
      OBVIOUS
    <3> QED
      BY <3>1, <3>2, RowAndPlace
  <2> QED
    BY <2>2, <2>3
<1>2. x \div n = 1 <=> x \in n .. 2 * n - 1
  <2>1. x \div n = 1 <=> x >= 1 * n /\ x < 1 * n + n
    BY <1>1
  <2> QED
    BY <2>1
<1>3. y \div n = 2 <=> y \in 2 * n .. 3 * n - 1
  <2>1. y \div n = 2 <=> y >= 2 * n /\ y < 2 * n + n
    BY <1>1
  <2> QED
    BY <2>1
<1> QED
  BY <1>2, <1>3 DEF OfCross

-----------------------------------------------------------------------------
(* What an image holds.                                                    *)

IsImage(im) ==
  im = [width |-> im.width, height |-> im.height, depth |-> im.depth, levelCount |-> im.levelCount,
        faces |-> im.faces, format |-> im.format, bytes |-> im.bytes,
        elementSize |-> im.elementSize, data |-> im.data]

\* A PNG or a JPEG whose rows fit, a cross that is folded, and a DDS file.
Plain(f) == f.kind = "png" \/ (f.kind = "jpg" /\ f.form = "RGB" /\ f.width * 3 < ShortValues)
Upright(f, up) == OfRows(f, f.form, SizeOf(f), up)
DdsFaces(f) == IF f.cube THEN 6 ELSE 0
Dds(f) ==
  [width |-> f.width, height |-> f.height, depth |-> f.depth, levelCount |-> f.levels,
   faces |-> DdsFaces(f), format |-> f.form, bytes |-> 1, elementSize |-> DdsBytes[f.form],
   data |-> [b \in 1 .. (IF f.cube THEN 6 ELSE 1) * f.levels |->
               [i \in 0 .. DdsSize(f, (b - 1) % f.levels) - 1 |->
                  <<(b - 1) \div f.levels, (b - 1) % f.levels>>]]]

\* An image that was flipped n times.
HoldsPlain(f, im, n) ==
  Plain(f) => \/ im = Upright(f, n % 2 = 0)
              \/ /\ im.faces = 6
                 /\ n = 0 => IsCross(Upright(f, TRUE)) /\ im = ConvertCrossToCubemap(Upright(f, TRUE))
HoldsDds(f, im, n) ==
  f.kind = "dds" => /\ f.form \in DOMAIN DdsBytes
                    /\ f.cube => im.faces = 6
                    /\ n = 0 /\ im.faces = DdsFaces(f) => im = Dds(f)
Holds(f, im, n) ==
  /\ f \in ImageFiles /\ f.breaks = "no" /\ IsImage(im)
  /\ HoldsPlain(f, im, n) /\ HoldsDds(f, im, n)

ImagesInv ==
  /\ OnlyJpegsLeave
  /\ flips \in Nat
  /\ image # NoImage => \/ Holds(picture, image, flips)
                        \/ overrun /\ picture.kind = "jpg"   \* libjpeg went on after an error

LEMMA FilesAreRasters ==
  ASSUME NEW f \in ImageFiles, f.breaks = "no"
  PROVE  /\ Plain(f) => IsRaster(f)
         /\ f.kind = "jpg" => f.bytes = 1
  BY ImageFilesAssumption DEF Plain, IsRaster, PixelChannels

LEMMA RowsOfFiles ==
  ASSUME NEW f
  PROVE  TopDown(f) = Rows(f, FALSE) /\ BottomUp(f) = Rows(f, TRUE)
  BY DEF TopDown, BottomUp, FirstOnTop, FirstBelow, Rows, RowFrom

LEMMA RowsAreImages ==
  ASSUME NEW f, NEW format, NEW size, NEW up
  PROVE  IsImage(OfRows(f, format, size, up))
  BY DEF IsImage, OfRows

LEMMA UprightHolds ==
  ASSUME NEW f \in ImageFiles, f.breaks = "no", Plain(f)
  PROVE  Holds(f, Upright(f, TRUE), 0)
<1>1. IsImage(Upright(f, TRUE))
  BY RowsAreImages DEF Upright
<1>2. (0 % 2 = 0) = TRUE
  OBVIOUS
<1>3. HoldsPlain(f, Upright(f, TRUE), 0)
  BY <1>2, Zenon DEF HoldsPlain
<1>4. f.kind # "dds"
  BY DEF Plain
<1> QED
  BY <1>1, <1>3, <1>4 DEF Holds, HoldsDds

LEMMA FlipsTurnOver ==
  ASSUME NEW f, IsRaster(f), NEW up \in BOOLEAN
  PROVE  FlipSurface(Upright(f, up)) = Upright(f, ~up)
<1>1. PICK rows, turned : rows = Rows(f, up) /\ turned = Rows(f, ~up)
  OBVIOUS
<1>2. Flipped(rows, SizeOf(f) * f.width, f.height) = turned
  BY <1>1, RowsTurnOver
<1>3. [<<rows>> EXCEPT ![1] = turned] = <<turned>>
  OBVIOUS
<1>4. PICK im : im = Upright(f, up)
  OBVIOUS
<1>5. /\ im.data = <<rows>> /\ im.data[1] = rows /\ im.elementSize = SizeOf(f)
      /\ im.width = f.width /\ im.height = f.height
  BY <1>1, <1>4 DEF Upright, OfRows
<1>6. FlipSurface(im) = [im EXCEPT !.data = [im.data EXCEPT ![1] = Flipped(@, im.elementSize * im.width, im.height)]]
  BY DEF FlipSurface
<1>7. FlipSurface(im) = [im EXCEPT !.data = <<turned>>]
  BY <1>2, <1>3, <1>5, <1>6
<1> QED
  BY <1>1, <1>4, <1>7 DEF Upright, OfRows

LEMMA FlipsKeepFaces ==
  ASSUME NEW im, IsImage(im)
  PROVE  IsImage(FlipSurface(im)) /\ FlipSurface(im).faces = im.faces
  BY DEF IsImage, FlipSurface

\* What is loaded holds its file.
LEMMA LoadedHolds ==
  ASSUME ImagesInv, NEW f, NEW im, NEW over, NEW behind, Loaded(f, im, over, behind), flips' = 0,
         f.breaks = "no" => f.kind = "jpg" \/ behind = {},
         im # NoImage => Holds(f, im, 0) \/ (over /\ f.kind = "jpg")
  PROVE  ImagesInv'
<1>1. OnlyJpegsLeave'
  BY DEF ImagesInv, OnlyJpegsLeave, Loaded
<1>2. image' = im /\ picture' = f /\ (over => overrun')
  BY DEF Loaded
<1> QED
  BY <1>1, <1>2 DEF ImagesInv

LEMMA NotLoadedHolds ==
  ASSUME ImagesInv, NEW f, NEW behind, NotLoaded(f, behind), flips' = 0,
         f.breaks = "no" => f.kind = "jpg" \/ behind = {}
  PROVE  ImagesInv'
  BY LoadedHolds DEF NotLoaded

LEMMA PngHolds ==
  ASSUME ImagesInv, NEW f \in ImageFiles, image_load_png(f), flips' = 0
  PROVE  ImagesInv'
<1>1. CASE f.breaks # "no"
  <2>1. \E behind : NotLoaded(f, behind)
    BY <1>1 DEF image_load_png
  <2> QED
    BY <1>1, <2>1, NotLoadedHolds
<1>2. CASE f.breaks = "no"
  <2>1. f.kind = "png" /\ IsRaster(f)
    BY <1>2, FilesAreRasters DEF Plain, image_load_png
  <2>2. PICK im : im = [NewImage EXCEPT
                          !.width = f.width, !.height = f.height, !.levelCount = 1,
                          !.format = f.form, !.bytes = f.bytes,
                          !.elementSize = Len(PixelChannels[f.form]) * f.bytes,
                          !.data = <<TopDown(f)>>]
    OBVIOUS
  <2>3. Loaded(f, PngRows(im), FALSE, {})
    BY <1>2, <2>2 DEF image_load_png
  <2>4. im = Upright(f, FALSE)
    BY <2>2, RowsOfFiles DEF NewImage, Upright, OfRows, SizeOf
  <2>5. PngRows(im) = Upright(f, TRUE)
    BY <2>1, <2>4, FlipsTurnOver DEF PngRows
  <2>6. Holds(f, Upright(f, TRUE), 0)
    BY <1>2, <2>1, UprightHolds DEF Plain
  <2> QED
    BY <2>3, <2>5, <2>6, LoadedHolds
<1> QED
  BY <1>1, <1>2

\* A number that an unsigned short can hold is what it holds.
LEMMA ShortsFit ==
  ASSUME NEW n \in Nat, n < ShortValues
  PROVE  n % ShortValues = n
<1>1. PICK m \in Nat \ {0} : m = ShortValues
  BY ShortAssumption
<1>2. 0 * m + n = n /\ n \in 0 .. m - 1
  BY <1>1
<1>3. (0 * m + n) % m = n
  BY <1>2, RowAndPlace
<1> QED
  BY <1>1, <1>2, <1>3

LEMMA JpgHolds ==
  ASSUME ImagesInv, NEW f \in ImageFiles, image_load_jpg(f), flips' = 0
  PROVE  ImagesInv'
<1>1. f.kind = "jpg"
  BY DEF image_load_jpg
<1>2. CASE f.breaks = "missing"
  BY <1>1, <1>2, NotLoadedHolds DEF image_load_jpg
<1>3. CASE f.breaks \in {"header", "rows"}
  <2>1. PICK im : Loaded(f, im, TRUE, {"fp", "buff"})
    BY <1>3 DEF image_load_jpg
  <2> QED
    BY <1>1, <2>1, LoadedHolds
<1>4. CASE f.breaks = "no" /\ f.form = "RGB"
  <2>1. f.bytes = 1 /\ f.width \in Nat /\ f.height \in Nat
    BY <1>1, <1>4, ImageFilesAssumption
  <2>2. PICK rowspan : rowspan = RowSpan(f, 3)
    OBVIOUS
  <2>3. PICK im : im = [NewImage EXCEPT
                 !.width = f.width, !.height = f.height, !.levelCount = 1, !.format = "RGB",
                 !.elementSize = 3, !.data = <<Lines(f, FirstOnTop(f), rowspan)>>]
    OBVIOUS
  <2>4. \/ rowspan = f.width * 3 /\ Loaded(f, FlipSurface(im), FALSE, {"fp", "buff"})
        \/ rowspan # f.width * 3 /\ Loaded(f, im, TRUE, {"fp", "buff"})
    BY <1>4, <2>2, <2>3 DEF image_load_jpg
  <2>5. CASE f.width * 3 < ShortValues
    <3>1. Plain(f) /\ IsRaster(f)
      BY <1>1, <1>4, <2>5, FilesAreRasters DEF Plain
    <3>2. rowspan = f.width * 3
      BY <2>1, <2>2, <2>5, ShortsFit DEF RowSpan
    <3>3. SizeOf(f) = 3 /\ RowLength(f) = f.width * 3
      BY <1>4, <2>1 DEF SizeOf, RowLength, PixelChannels
    <3>4. im = Upright(f, FALSE)
      <4>1. Lines(f, FirstOnTop(f), rowspan) = Rows(f, FALSE)
        BY <3>2, <3>3, RowsOfFiles DEF TopDown
      <4> QED
        BY <1>4, <2>1, <2>3, <3>3, <4>1 DEF NewImage, Upright, OfRows
    <3>5. FlipSurface(im) = Upright(f, TRUE)
      BY <3>1, <3>4, FlipsTurnOver
    <3>6. Holds(f, Upright(f, TRUE), 0)
      BY <1>4, <3>1, UprightHolds
    <3> QED
      BY <1>1, <2>4, <3>2, <3>5, <3>6, LoadedHolds
  <2>6. CASE ~(f.width * 3 < ShortValues)
    <3>1. ~Plain(f) /\ f.kind # "dds"
      BY <1>1, <2>6 DEF Plain
    <3>2. IsImage(im)
      BY <2>3 DEF IsImage, NewImage
    <3>3. IsImage(FlipSurface(im))
      BY <3>2, FlipsKeepFaces
    <3>4. Holds(f, im, 0) /\ Holds(f, FlipSurface(im), 0)
      BY <1>4, <3>1, <3>2, <3>3 DEF Holds, HoldsPlain, HoldsDds
    <3> QED
      BY <1>1, <2>4, <3>4, LoadedHolds
  <2> QED
    BY <2>5, <2>6
<1>5. CASE f.breaks = "no" /\ f.form = "CMYK"
  <2>1. PICK data, over : Loaded(f, [NewImage EXCEPT
                 !.width = f.width, !.height = f.height, !.levelCount = 1,
                 !.data = data], over, {"fp", "buff"})
    BY <1>5 DEF image_load_jpg
  <2>2. PICK im : im = [NewImage EXCEPT !.width = f.width, !.height = f.height, !.levelCount = 1, !.data = data]
    OBVIOUS
  <2>3. IsImage(im)
    BY <2>2 DEF IsImage, NewImage
  <2>4. Holds(f, im, 0)
    BY <1>1, <1>5, <2>3 DEF Holds, HoldsPlain, HoldsDds, Plain
  <2> QED
    BY <1>1, <2>1, <2>2, <2>4, LoadedHolds
<1> QED
  BY <1>2, <1>3, <1>4, <1>5 DEF image_load_jpg

LEMMA BmpHolds ==
  ASSUME ImagesInv, NEW f \in ImageFiles, image_load_bmp(f), flips' = 0
  PROVE  ImagesInv'
<1>1. f.kind = "bmp"
  BY DEF image_load_bmp
<1>2. CASE f.breaks \in {"missing", "signature"}
  BY <1>2, NotLoadedHolds DEF image_load_bmp
<1>3. CASE f.breaks = "no"
  <2>1. PICK im : im = [NewImage EXCEPT
                             !.width = Behind16(f.height), !.height = Behind16(1), !.levelCount = 1,
                             !.format = "RGB", !.data = <<[i \in {} |-> Unset]>>]
    OBVIOUS
  <2>2. Loaded(f, im, FALSE, {})
    BY <1>3, <2>1 DEF image_load_bmp
  <2>3. IsImage(im)
    BY <2>1 DEF IsImage, NewImage
  <2>4. Holds(f, im, 0)
    BY <1>1, <1>3, <2>3 DEF Holds, HoldsPlain, HoldsDds, Plain
  <2> QED
    BY <2>2, <2>4, LoadedHolds
<1> QED
  BY <1>2, <1>3 DEF image_load_bmp

LEMMA TgaHolds ==
  ASSUME ImagesInv, NEW f \in ImageFiles, image_load_tga(f), flips' = 0
  PROVE  ImagesInv'
<1>1. f.kind = "tga"
  BY DEF image_load_tga
<1>2. CASE f.breaks = "missing"
  BY <1>2, NotLoadedHolds DEF image_load_tga
<1>3. CASE f.breaks = "no"
  <2>1. PICK format, size, data : Loaded(f, [NewImage EXCEPT
                             !.width = f.width, !.height = f.height, !.levelCount = 1,
                             !.format = format, !.elementSize = size, !.data = data], FALSE, {})
    BY <1>3 DEF image_load_tga
  <2>2. PICK im : im = [NewImage EXCEPT
                          !.width = f.width, !.height = f.height, !.levelCount = 1,
                          !.format = format, !.elementSize = size, !.data = data]
    OBVIOUS
  <2>3. IsImage(im)
    BY <2>2 DEF IsImage, NewImage
  <2>4. Holds(f, im, 0)
    BY <1>1, <1>3, <2>3 DEF Holds, HoldsPlain, HoldsDds, Plain
  <2> QED
    BY <2>1, <2>2, <2>4, LoadedHolds
<1> QED
  BY <1>2, <1>3 DEF image_load_tga

LEMMA DdsHolds ==
  ASSUME ImagesInv, NEW f \in ImageFiles, image_load_dds(f), flips' = 0
  PROVE  ImagesInv'
<1>1. f.kind = "dds"
  BY DEF image_load_dds
<1>2. CASE NotLoaded(f, {})
  BY <1>2, NotLoadedHolds
<1>3. CASE ~NotLoaded(f, {})
  <2>1. f.breaks = "no" /\ f.form \in DOMAIN DdsBytes
    BY <1>3 DEF image_load_dds
  <2>2. PICK im : im = [NewImage EXCEPT
                 !.width = f.width, !.height = f.height, !.depth = f.depth,
                 !.levelCount = f.levels, !.faces = IF f.cube THEN 6 ELSE 0,
                 !.format = f.form, !.elementSize = DdsBytes[f.form],
                 !.data = [b \in 1 .. (IF f.cube THEN 6 ELSE 1) * f.levels |->
                             [i \in 0 .. DdsSize(f, (b - 1) % f.levels) - 1 |->
                                <<(b - 1) \div f.levels, (b - 1) % f.levels>>]]]
    OBVIOUS
  <2>3. Loaded(f, im, FALSE, {})
    BY <1>3, <2>2 DEF image_load_dds
  <2>4. im = Dds(f)
    BY <2>2 DEF NewImage, Dds, DdsFaces
  <2>5. IsImage(im) /\ im.faces = DdsFaces(f)
    BY <2>4 DEF IsImage, Dds
  <2>6. Holds(f, im, 0)
    BY <1>1, <2>1, <2>4, <2>5 DEF Holds, HoldsPlain, HoldsDds, Plain, DdsFaces
  <2> QED
    BY <2>3, <2>6, LoadedHolds
<1> QED
  BY <1>2, <1>3

\* What a script does to an image.
LEMMA FlipsHold ==
  ASSUME NEW f, NEW im, NEW n \in Nat, Holds(f, im, n), Sized(im)
  PROVE  Holds(f, FlipSurface(im), n + 1)
<1>1. IsImage(FlipSurface(im)) /\ FlipSurface(im).faces = im.faces
  BY FlipsKeepFaces DEF Holds
<1>2. n + 1 # 0 /\ (((n + 1) % 2 = 0) <=> ~(n % 2 = 0)) /\ (n % 2 = 0) \in BOOLEAN
  OBVIOUS
<1>3. HoldsPlain(f, FlipSurface(im), n + 1)
  <2>1. SUFFICES ASSUME Plain(f) PROVE HoldsPlain(f, FlipSurface(im), n + 1)
    BY DEF HoldsPlain
  <2>2. IsRaster(f)
    BY <2>1, FilesAreRasters DEF Holds
  <2>3. CASE im.faces = 6
    BY <1>1, <1>2, <2>3 DEF HoldsPlain
  <2>4. CASE im = Upright(f, n % 2 = 0)
    <3>1. FlipSurface(im) = Upright(f, ~(n % 2 = 0))
      BY <1>2, <2>2, <2>4, FlipsTurnOver
    <3>2. ((n + 1) % 2 = 0) = ~(n % 2 = 0)
      BY <1>2
    <3> QED
      BY <3>1, <3>2, Zenon DEF HoldsPlain
  <2> QED
    BY <2>1, <2>3, <2>4 DEF Holds, HoldsPlain
<1>4. HoldsDds(f, FlipSurface(im), n + 1)
  BY <1>1, <1>2 DEF Holds, HoldsDds
<1> QED
  BY <1>1, <1>3, <1>4 DEF Holds

LEMMA FoldsHold ==
  ASSUME NEW f, NEW im, NEW n \in Nat, Holds(f, im, n), Sized(im), IsCross(im)
  PROVE  Holds(f, ConvertCrossToCubemap(im), n)
<1>1. im.faces = 0
  BY DEF IsCross
<1>2. IsImage(ConvertCrossToCubemap(im)) /\ ConvertCrossToCubemap(im).faces = 6
  <2>1. PICK data : ConvertCrossToCubemap(im) =
               [im EXCEPT !.faces = 6, !.width = im.width \div 3, !.height = im.width \div 3, !.data = data]
    BY DEF ConvertCrossToCubemap
  <2>2. PICK w : w = im.width \div 3
    OBVIOUS
  <2>3. ConvertCrossToCubemap(im) = [im EXCEPT !.faces = 6, !.width = w, !.height = w, !.data = data]
    BY <2>1, <2>2
  <2>4. IsImage(im)
    BY DEF Holds
  <2> QED
    BY <2>3, <2>4 DEF IsImage
<1>3. HoldsPlain(f, ConvertCrossToCubemap(im), n)
  <2>1. SUFFICES ASSUME Plain(f) PROVE HoldsPlain(f, ConvertCrossToCubemap(im), n)
    BY DEF HoldsPlain
  <2>2. im = Upright(f, n % 2 = 0)
    BY <1>1, <2>1 DEF Holds, HoldsPlain
  <2>3. n = 0 => (n % 2 = 0) = TRUE
    OBVIOUS
  <2>4. n = 0 => im = Upright(f, TRUE)
    BY <2>2, <2>3, Zenon
  <2> QED
    BY <1>2, <2>4 DEF HoldsPlain
<1>4. HoldsDds(f, ConvertCrossToCubemap(im), n)
  BY <1>1, <1>2 DEF Holds, HoldsDds, DdsFaces
<1> QED
  BY <1>2, <1>3, <1>4 DEF Holds

LEMMA ImagesStep ==
  ASSUME ImagesInv, [ImagesNext]_imageVars
  PROVE  ImagesInv'
<1>1. CASE LoadImage
  <2>1. PICK f \in ImageFiles : \/ image_load_png(f) \/ image_load_jpg(f) \/ image_load_bmp(f)
                               \/ image_load_tga(f) \/ image_load_dds(f)
    BY <1>1 DEF LoadImage
  <2>2. flips' = 0
    BY <1>1 DEF LoadImage
  <2> QED
    BY <2>1, <2>2, PngHolds, JpgHolds, BmpHolds, TgaHolds, DdsHolds
<1>2. CASE ScriptFlips
  <2>1. image # NoImage /\ picture' = picture /\ left' = left /\ Holds(picture, image, flips) /\ flips \in Nat
    BY <1>2 DEF ScriptFlips, CallsImage, ImagesInv
  <2>2. OnlyJpegsLeave'
    BY <2>1 DEF ImagesInv, OnlyJpegsLeave
  <2>3. CASE Sized(image) /\ image' = FlipSurface(image) /\ flips' = flips + 1
    BY <2>1, <2>2, <2>3, FlipsHold DEF ImagesInv
  <2>4. CASE image' = image /\ flips' = flips
    BY <2>1, <2>2, <2>4 DEF ImagesInv
  <2> QED
    BY <1>2, <2>3, <2>4 DEF ScriptFlips
<1>3. CASE ScriptFolds
  <2>1. /\ image # NoImage /\ picture' = picture /\ left' = left /\ flips' = flips
        /\ Holds(picture, image, flips) /\ flips \in Nat
    BY <1>3 DEF ScriptFolds, CallsImage, ImagesInv
  <2>2. OnlyJpegsLeave'
    BY <2>1 DEF ImagesInv, OnlyJpegsLeave
  <2>3. CASE IsCross(image) /\ Sized(image) /\ image' = ConvertCrossToCubemap(image)
    BY <2>1, <2>2, <2>3, FoldsHold DEF ImagesInv
  <2>4. CASE image' = image
    BY <2>1, <2>2, <2>4 DEF ImagesInv
  <2> QED
    BY <1>3, <2>3, <2>4 DEF ScriptFolds
<1>4. CASE DeleteImage
  BY <1>4 DEF DeleteImage, ImagesInv, OnlyJpegsLeave
<1>5. CASE UNCHANGED imageVars
  BY <1>5 DEF imageVars, ImagesInv, OnlyJpegsLeave
<1> QED
  BY <1>1, <1>2, <1>3, <1>4, <1>5 DEF ImagesNext

-----------------------------------------------------------------------------
(* What an image is shown to be.                                           *)

LEMMA ShownPlain ==
  ASSUME NEW f \in ImageFiles, f.breaks = "no", Plain(f), f.bytes = 1, NEW up \in BOOLEAN,
         (f.width * Len(PixelChannels[f.form])) % 4 = 0,
         NEW x \in 0 .. f.width - 1, NEW y \in 0 .. f.height - 1,
         NEW k \in DOMAIN PixelChannels[f.form]
  PROVE  Texel(Upright(f, up), x, y, k)
           = << <<x, IF ~up THEN f.height - 1 - y ELSE y, PixelChannels[f.form][k], 1>> >>
<1>1. IsRaster(f)
  BY FilesAreRasters
<1>2. f.form \in DOMAIN PixelChannels
  BY <1>1 DEF IsRaster
<1>3. k \in 1 .. Len(PixelChannels[f.form])
  BY <1>2 DEF PixelChannels
<1>4. RowFrom(f, up, y) = IF ~up THEN f.height - 1 - y ELSE y
  BY DEF RowFrom
<1>5. Texel(Upright(f, up), x, y, k) = << <<x, RowFrom(f, up, y), PixelChannels[f.form][k], 1>> >>
  BY <1>1, <1>2, <1>3, TexelIs DEF Upright
<1> QED
  BY <1>4, <1>5

LEMMA Shown ==
  ASSUME ImagesInv
  PROVE  ShownAsPictured
<1> SUFFICES ASSUME image # NoImage, ShowsAll(picture, image) PROVE ShownAsPictured
  BY DEF ShownAsPictured
<1>1. PICK f, im, n : f = picture /\ im = image /\ n = flips
  OBVIOUS
<1>2. Holds(f, im, n) /\ n \in Nat
  BY <1>1 DEF ImagesInv, ShowsAll
<1>3. /\ Plain(f) /\ im.faces = 0
      /\ (f.width * Len(PixelChannels[im.format])) % 4 = 0 /\ f.bytes = 1
  BY <1>1 DEF ShowsAll, Plain
<1>4. f \in ImageFiles /\ f.breaks = "no"
  BY <1>2 DEF Holds
<1>5. im = Upright(f, n % 2 = 0)
  BY <1>2, <1>3 DEF Holds, HoldsPlain
<1>6. im.format = f.form
  BY <1>5 DEF Upright, OfRows
<1>7. (n % 2 = 0) \in BOOLEAN /\ (~(n % 2 = 0) <=> n % 2 = 1)
  BY <1>2
<1>8. ASSUME NEW x \in 0 .. f.width - 1, NEW y \in 0 .. f.height - 1,
             NEW k \in DOMAIN PixelChannels[f.form]
      PROVE  Texel(im, x, y, k)
               = << <<x, IF n % 2 = 1 THEN f.height - 1 - y ELSE y, PixelChannels[f.form][k], 1>> >>
  <2>1. PICK up \in BOOLEAN : up = (n % 2 = 0)
    BY <1>7
  <2>2. (f.width * Len(PixelChannels[f.form])) % 4 = 0
    BY <1>3, <1>6
  <2>3. Texel(Upright(f, up), x, y, k)
          = << <<x, IF ~up THEN f.height - 1 - y ELSE y, PixelChannels[f.form][k], 1>> >>
    BY <1>3, <1>4, <2>2, ShownPlain
  <2>4. Texel(im, x, y, k)
          = << <<x, IF ~(n % 2 = 0) THEN f.height - 1 - y ELSE y, PixelChannels[f.form][k], 1>> >>
    BY <1>5, <2>1, <2>3
  <2> QED
    BY <1>7, <2>4
<1> QED
  BY <1>1, <1>8 DEF ShownAsPictured

-----------------------------------------------------------------------------
(* The levels of DDS files.                                                *)

LEMMA HalfIsPositive ==
  ASSUME NEW n \in Nat, NEW level
  PROVE  Half(n, level) \in Nat \ {0}
  BY DEF Half

LEMMA CodesHaveBytes ==
  ASSUME NEW form \in DOMAIN DdsBytes, form \notin DdsCompressed
  PROVE  DdsBytes[form] \in Nat
<1>1. \A code \in DOMAIN DdsCoded : DdsCoded[code] \in Nat
  BY DEF DdsCoded
<1>2. \A code \in DOMAIN DdsMasked : DdsMasked[code] \in Nat
  BY DEF DdsMasked
<1> QED
  BY <1>1, <1>2 DEF DdsBytes

LEMMA SizesAgree ==
  ASSUME NEW a \in Nat, NEW b \in Nat, NEW c \in Nat, NEW d \in Nat
  PROVE  a * b * c * d \in Nat /\ a * b * c * d = d * a * b * c
<1>1. a * b \in Nat /\ a * b * c \in Nat
  BY Products
<1>2. a * b * c * d \in Nat /\ a * b * c * d = d * (a * b * c)
  BY <1>1, Products
<1>3. d * (a * b * c) = (d * (a * b)) * c
  BY <1>1, Products
<1>4. d * (a * b) = (d * a) * b
  BY Products
<1> QED
  BY <1>2, <1>3, <1>4

\* What level `level' of face `face' of a DDS file holds.
LEMMA LevelIs ==
  ASSUME NEW f \in ImageFiles, f.breaks = "no", f.kind = "dds", f.form \in DOMAIN DdsBytes,
         NEW level \in 0 .. f.levels - 1, NEW face \in 0 .. (IF f.cube THEN 5 ELSE 0)
  PROVE  /\ GetLevel(Dds(f), level, face) = [i \in 0 .. DdsSize(f, level) - 1 |-> <<face, level>>]
         /\ f.form \notin DdsCompressed =>
              Cardinality(DOMAIN GetLevel(Dds(f), level, face)) = GetImageSize(Dds(f), level)
<1>1. /\ f.width \in Nat /\ f.height \in Nat /\ f.depth \in Nat
      /\ f.levels \in Nat /\ f.cube \in BOOLEAN
  BY ImageFilesAssumption
<1>2. PICK m : m = f.levels
  OBVIOUS
<1>3. PICK faces \in {1, 6} : faces = IF f.cube THEN 6 ELSE 1
  BY <1>1
<1>4. m \in Nat \ {0} /\ level \in 0 .. m - 1 /\ face \in 0 .. faces - 1 /\ face \in Nat /\ faces \in Nat
  BY <1>1, <1>2, <1>3
<1>5. PICK at : at = face * m + level
  OBVIOUS
<1>6. at \in 0 .. m * faces - 1 /\ at \div m = face /\ at % m = level
  <2>1. face * m + level \in 0 .. m * faces - 1
    BY <1>4, InRows
  <2>2. (face * m + level) \div m = face /\ (face * m + level) % m = level
    BY <1>4, RowAndPlace
  <2> QED
    BY <1>5, <2>1, <2>2
<1>7. m * faces = faces * m /\ m * faces \in Nat
  BY <1>4, Products
<1>8. at + 1 \in 1 .. faces * m /\ (at + 1) - 1 = at
  BY <1>6, <1>7
<1>9. PICK im : im = Dds(f)
  OBVIOUS
<1>10. im.data = [b \in 1 .. faces * m |-> [i \in 0 .. DdsSize(f, (b - 1) % m) - 1 |-> <<(b - 1) \div m, (b - 1) % m>>]]
  BY <1>2, <1>3, <1>9 DEF Dds
<1>11. im.data[at + 1] = [i \in 0 .. DdsSize(f, level) - 1 |-> <<face, level>>]
  BY <1>6, <1>8, <1>10
<1>12. GetLevel(im, level, face) = [i \in 0 .. DdsSize(f, level) - 1 |-> <<face, level>>]
  <2>1. im.levelCount = m
    BY <1>2, <1>9 DEF Dds
  <2>2. face * im.levelCount + level + 1 = at + 1
    BY <1>5, <2>1
  <2> QED
    BY <1>11, <2>2 DEF GetLevel
<1>13. ASSUME f.form \notin DdsCompressed
       PROVE  Cardinality(DOMAIN GetLevel(im, level, face)) = GetImageSize(im, level)
  <2>1. PICK w, h, d : /\ w = Half(f.width, level) /\ h = Half(f.height, level)
                       /\ d = Half(f.depth, level)
    OBVIOUS
  <2>2. PICK e : e = DdsBytes[f.form]
    OBVIOUS
  <2>3. w \in Nat /\ h \in Nat /\ d \in Nat /\ e \in Nat
    BY <1>1, <1>13, <2>1, <2>2, HalfIsPositive, CodesHaveBytes
  <2>4. DdsSize(f, level) = w * h * d * e
    BY <1>13, <2>1, <2>2 DEF DdsSize
  <2>5. GetImageSize(im, level) = e * w * h * d
    <3>1. im.elementSize = e /\ im.width = f.width /\ im.height = f.height /\ im.depth = f.depth
      BY <1>9, <2>2 DEF Dds
    <3> QED
      BY <2>1, <3>1 DEF GetImageSize
  <2>6. PICK size \in Nat : size = w * h * d * e
    BY <2>3, SizesAgree
  <2>7. DOMAIN GetLevel(im, level, face) = 0 .. size - 1
    BY <1>12, <2>4, <2>6
  <2>8. Cardinality(0 .. size - 1) = size
    BY FS_Interval
  <2>9. w * h * d * e = e * w * h * d
    BY <2>3, SizesAgree
  <2> QED
    BY <2>5, <2>6, <2>7, <2>8, <2>9
<1> QED
  BY <1>9, <1>12, <1>13

LEMMA Fit ==
  ASSUME ImagesInv
  PROVE  LevelsFit
<1> SUFFICES ASSUME image # NoImage, picture.kind = "dds", flips = 0,
                    image.faces = IF picture.cube THEN 6 ELSE 0
             PROVE  LevelsFit
  BY DEF LevelsFit
<1>1. PICK f, im : f = picture /\ im = image
  OBVIOUS
<1>2. Holds(f, im, 0)
  BY <1>1 DEF ImagesInv
<1>3. f \in ImageFiles /\ f.breaks = "no" /\ f.kind = "dds" /\ f.form \in DOMAIN DdsBytes /\ im = Dds(f)
  BY <1>1, <1>2 DEF Holds, HoldsDds, DdsFaces
<1>4. /\ im.levelCount = f.levels
      /\ (IF im.faces = 6 THEN 5 ELSE 0) = IF f.cube THEN 5 ELSE 0
  BY <1>3 DEF Dds, DdsFaces
<1>5. ASSUME NEW level \in 0 .. im.levelCount - 1, NEW face \in 0 .. (IF im.faces = 6 THEN 5 ELSE 0)
      PROVE  /\ \A i \in DOMAIN GetLevel(im, level, face) : GetLevel(im, level, face)[i] = <<face, level>>
             /\ f.form \notin DdsCompressed =>
                  Cardinality(DOMAIN GetLevel(im, level, face)) = GetImageSize(im, level)
  <2>1. level \in 0 .. f.levels - 1 /\ face \in 0 .. (IF f.cube THEN 5 ELSE 0)
    BY <1>4
  <2>2. /\ GetLevel(im, level, face) = [i \in 0 .. DdsSize(f, level) - 1 |-> <<face, level>>]
        /\ f.form \notin DdsCompressed =>
             Cardinality(DOMAIN GetLevel(im, level, face)) = GetImageSize(im, level)
    BY <1>3, <2>1, LevelIs
  <2> QED
    BY <2>2
<1> QED
  BY <1>1, <1>5 DEF LevelsFit

-----------------------------------------------------------------------------
(* Crosses that are folded.                                                *)

\* A texel shows a place of the cross, where CrossFolds says it is.
LEMMA PlaceIsOnCube ==
  ASSUME NEW im, NEW n \in Nat, NEW x, NEW y, Places(im, x, y) = {Spot(x, y, n)}
  PROVE  /\ Cardinality(Places(im, x, y)) = 1
         /\ (LET p == CHOOSE p \in Places(im, x, y) : TRUE IN OnCube(p[1], p[2], p[3], n)) = CubeAt(x, y, n)
<1>1. PICK s : s = Spot(x, y, n)
  OBVIOUS
<1>2. Cardinality({s}) = 1
  BY FS_Singleton
<1>3. (CHOOSE p \in {s} : TRUE) = s
  OBVIOUS
<1> QED
  BY <1>1, <1>2, <1>3 DEF CubeAt

\* What CrossFolds says of a cube whose sides are n.
FoldsTo(im, n) ==
  LET InCross(x, y) == (x \div n = 1 \/ y \div n = 2) /\ x < 3 * n /\ y < 4 * n
      At(x, y) == LET p == CHOOSE p \in Places(im, x, y) : TRUE IN OnCube(p[1], p[2], p[3], n)
  IN  \A x \in 0 .. 3 * n - 1, y \in 0 .. 4 * n - 1 : InCross(x, y) =>
        /\ Cardinality(Places(im, x, y)) = 1
        /\ InCross(x + 1, y) => NextTo(At(x, y), At(x + 1, y))
        /\ InCross(x, y + 1) => NextTo(At(x, y), At(x, y + 1))

LEMMA FoldsToIs == FoldsTo(image, image.width) => CrossFolds
  BY Zenon DEF FoldsTo, NextTo, CrossFolds

LEMMA Folds ==
  ASSUME ImagesInv
  PROVE  CrossFolds
<1> SUFFICES ASSUME image # NoImage, image.faces = 6, picture.kind \in {"png", "jpg"},
                    picture.form # "CMYK", flips = 0, ~overrun,
                    picture.kind = "jpg" => picture.width * 3 < ShortValues
             PROVE  CrossFolds
  BY DEF CrossFolds
<1>1. PICK f, im : f = picture /\ im = image
  OBVIOUS
<1>2. Holds(f, im, 0)
  BY <1>1 DEF ImagesInv
<1>3. f \in ImageFiles /\ f.breaks = "no"
  BY <1>2 DEF Holds
<1>4. Plain(f) /\ IsRaster(f)
  <2>1. Plain(f)
    BY <1>1, <1>3, ImageFilesAssumption DEF Plain
  <2> QED
    BY <1>3, <2>1, FilesAreRasters
<1>5. IsCross(Upright(f, TRUE)) /\ im = ConvertCrossToCubemap(Upright(f, TRUE))
  <2>1. Upright(f, 0 % 2 = 0).faces = 0
    BY DEF Upright, OfRows
  <2>2. im.faces = 6 /\ im # Upright(f, 0 % 2 = 0)
    BY <1>1, <2>1
  <2> QED
    BY <1>2, <1>4, <2>2, Zenon DEF Holds, HoldsPlain
<1>6. PICK n \in Nat : n = f.width \div 3 /\ f.width = 3 * n /\ f.height = 4 * n
  <2>1. PICK w \in Nat, h \in Nat : w = f.width /\ h = f.height
    BY <1>4 DEF IsRaster
  <2>2. w \div 3 = h \div 4 /\ w % 3 = 0 /\ h % 4 = 0
    BY <1>5, <2>1 DEF IsCross, Upright, OfRows
  <2>3. w \div 3 \in Nat /\ w = 3 * (w \div 3) /\ h = 4 * (h \div 4)
    BY <2>2
  <2> QED
    BY <2>1, <2>2, <2>3
<1>7. im.width = n
  BY <1>5, <1>6 DEF ConvertCrossToCubemap, Upright, OfRows
<1>8. ASSUME NEW x, NEW y, OfCross(x, y, n)
      PROVE  /\ Cardinality(Places(im, x, y)) = 1
             /\ (LET p == CHOOSE p \in Places(im, x, y) : TRUE IN OnCube(p[1], p[2], p[3], n)) = CubeAt(x, y, n)
  <2>1. IsFolded(f, im, n)
    BY <1>4, <1>5, <1>6 DEF Upright, IsFolded
  <2>2. Places(im, x, y) = {Spot(x, y, n)}
    BY <1>8, <2>1, SpotIsPlace
  <2> QED
    BY <2>2, PlaceIsOnCube
<1> DEFINE InCross(x, y) == (x \div n = 1 \/ y \div n = 2) /\ x < 3 * n /\ y < 4 * n
           At(x, y) == LET p == CHOOSE p \in Places(im, x, y) : TRUE IN OnCube(p[1], p[2], p[3], n)
<1>9. ASSUME NEW x \in 0 .. 3 * n - 1, NEW y \in 0 .. 4 * n - 1, InCross(x, y)
      PROVE  /\ Cardinality(Places(im, x, y)) = 1
             /\ InCross(x + 1, y) => NextTo(At(x, y), At(x + 1, y))
             /\ InCross(x, y + 1) => NextTo(At(x, y), At(x, y + 1))
  <2>1. n \in Nat \ {0} /\ x \in Nat /\ y \in Nat /\ x + 1 \in Nat /\ y + 1 \in Nat
    BY <1>6
  <2>2. /\ OfCross(x, y, n)
        /\ InCross(x + 1, y) <=> OfCross(x + 1, y, n)
        /\ InCross(x, y + 1) <=> OfCross(x, y + 1, n)
    BY <1>9, <2>1, CrossIs
  <2>3. /\ At(x, y) = CubeAt(x, y, n)
        /\ OfCross(x + 1, y, n) => At(x + 1, y) = CubeAt(x + 1, y, n)
        /\ OfCross(x, y + 1, n) => At(x, y + 1) = CubeAt(x, y + 1, n)
    BY <1>8, <2>2
  <2> HIDE DEF InCross, At
  <2>4. Cardinality(Places(im, x, y)) = 1
    BY <1>8, <2>2
  <2>5. /\ OfCross(x + 1, y, n) => NextTo(CubeAt(x, y, n), CubeAt(x + 1, y, n))
        /\ OfCross(x, y + 1, n) => NextTo(CubeAt(x, y, n), CubeAt(x, y + 1, n))
    BY <1>6, <2>2, NeighboursStay
  <2>6. ASSUME InCross(x + 1, y) PROVE NextTo(At(x, y), At(x + 1, y))
    BY <2>2, <2>3, <2>5, <2>6
  <2>7. ASSUME InCross(x, y + 1) PROVE NextTo(At(x, y), At(x, y + 1))
    BY <2>2, <2>3, <2>5, <2>7
  <2> QED
    BY <2>4, <2>6, <2>7
<1> QED
  <2>1. FoldsTo(im, n)
    BY <1>9, Zenon DEF FoldsTo
  <2> QED
    BY <1>1, <1>7, <2>1, FoldsToIs, Zenon

-----------------------------------------------------------------------------
(* What is proved of pictures.                                             *)

LEMMA ImagesAlways ==
  ImagesInit /\ [][ImagesNext]_imageVars => []ImagesInv
<1>1. ImagesInit => ImagesInv
  BY DEF ImagesInit, ImagesInv, OnlyJpegsLeave
<1>2. ImagesInv /\ [ImagesNext]_imageVars => ImagesInv'
  BY ImagesStep
<1> QED
  BY <1>1, <1>2, PTL

\* Whatever files are loaded, flipped, folded and let go of, of any size: a PNG or a JPEG of
\* those that ShowsAll admits (channels of one byte, rows of a multiple of four bytes, which
\* an unsigned short can count if it is a JPEG, of three colors) is shown as it is in its
\* file, the right way up until it is turned over; the levels of a DDS file that was read
\* are where GetLevel looks for them, as long as GetImageSize says when they are not
\* compressed; and of files that are whole only a JPEG leaves something behind.
THEOREM PicturesAreShown ==
  ImagesInit /\ [][ImagesNext]_imageVars => []ImagesAsPictured
<1>1. ImagesInv => ImagesAsPictured
  BY Shown, Fit DEF ImagesAsPictured, ImagesInv
<1> QED
  BY <1>1, ImagesAlways, PTL

\* ConvertCrossToCubemap shows each pixel of a cross, from a PNG or from a JPEG of three
\* colors with rows that an unsigned short can count, on the cube once, and pixels that are
\* next to each other in the cross are next to each other on the cube, whatever its size.
THEOREM CrossesFold ==
  ImagesInit /\ [][ImagesNext]_imageVars => []CrossFolds
  BY Folds, ImagesAlways, PTL
============================================================================
