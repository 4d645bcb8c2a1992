SPECIFICATION NamesSpec
CONSTANTS
  Sprites = {s1, s2}
  Shapes = {plane, model}
  Files = {default, noPng, image}
  DefaultPath = default
  NoPng = noPng
  Texts = {t1, t2}
  Names = {n1, n2, n3, n4, n5}
  MaxTextures = 5
  None = None
  Planes = {quad}
  Others = {mesh}
  BufferNames = {n1, n2, n3, n4, n5}
  Free = Free
  MaxBufferCalls = 5
SYMMETRY Symmetric
INVARIANTS
  AllShowWanted
  NamesOwned
  DrawnIsCurrent
  LeakIsExact
