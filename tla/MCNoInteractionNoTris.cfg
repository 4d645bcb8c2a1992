SPECIFICATION ShadowSpec
CONSTANTS
  s1 = s1
  s2 = s2
  Surfaces = {s1, s2}
  Interactions = {i1, i2}
  Scenes <- FewScenes
  PosOf <- MCPosOf
  Lights <- FewLights
  MaxSilEdges = 12
  MaxShadowIndexes = 45
  MaxShadowVerts = 12
  Nothing = Nothing
  Parts = {"interaction"}
  Casters <- MCCasters
  Spots <- MCSpots
  LightParms <- MCLightParms
  MaxVolumeIndexes = 110
  MaxVolumeVerts = 44
  MaxClipSilEdges = 3
INVARIANTS
  NoInteractionNoTris
