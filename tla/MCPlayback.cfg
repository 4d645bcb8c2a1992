SPECIFICATION PlaySpec
CONSTANTS
  Cins = {c1, c2}
  Videos <- MCVideos
  MaxTime = 3
  RoqFrames <- MCFrames
  RoqBooks <- MCBooks
  BookSize = 4
  Meshes <- MCMeshes
  Vertices = {"v1", "v2", "v3"}
  Motions = {walk, run}
  Actions <- MCActions
  Steps = {1, 2}
  MaxFrame = 6
  MaxAnimCalls = 4
  Bind = Bind
  Garbage = Garbage
  Null = Null
INVARIANTS
  PictureIsOfFrame
  CloseClosesFile
  VideoAsWritten
  PoseOfFrame
  ShownInRange
PROPERTIES
  CinCallsReturn
  LoopComesRound
CHECK_DEADLOCK FALSE
