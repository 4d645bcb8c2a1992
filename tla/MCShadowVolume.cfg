SPECIFICATION ShadowSpec
CONSTANTS
  s1 = s1
  s2 = s2
  Surfaces = {s1, s2}
  Interactions = {i1, i2}
  Scenes <- MCScenes
  PosOf <- MCPosOf
  Lights <- MCLights
  MaxSilEdges = 8
  MaxShadowIndexes = 84
  MaxShadowVerts = 14
  Nothing = Nothing
  Parts = {"interaction", "stencil"}
  Casters <- MCCasters
  Spots <- MCSpots
  LightParms <- MCLightParms
  MaxVolumeIndexes = 110
  MaxVolumeVerts = 44
  MaxClipSilEdges = 3
INVARIANTS
  HullIffEdgesMatch
  SidesCloseCap
  VolumeEnclosed
