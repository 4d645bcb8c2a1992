SPECIFICATION FilesSpec
CONSTANTS
  Files <- MCB3DFiles
  Garbage = {0, 3}
  Undefined = Undefined
  Files3DS <- MC3DSFiles
  Garbage3DS = {0, 3}
  LwoFiles <- MCLwoFiles
  LwoGarbage = {0, 3}
  Objects <- MCObjects
  Angle <- MCAngle
  Sections <- MCSections
  MaxSections = 2
  NoProgram = NoProgram
  ImageFiles <- MCImageFiles
  NoImage = NoImage
  Unset = Unset
  ShortValues = 32
  MaxImageCalls = 3
  Pictures <- MCPictures
  NoFile = NoFile
  AnyByte = AnyByte
  MaxProcessCalls = 2
INVARIANTS
  LoadedAsWritten
  Mesh3DSAsWritten
  LwoAsWritten
  GeometryAsWritten
  ConvertedAsWritten
  ReadAsMeant
  ImagesAsPictured
  CrossFolds
  ProcessedAsMeant
PROPERTIES
  LoadTerminates
