---------------------------- MODULE ResourceFiles ----------------------------
(***************************************************************************)
(* The files that ResourceSystem reads: AddMesh gives a model to one of    *)
(* three loaders, by its name, FindMaterial gives a text to                *)
(* Material::LoadMemory, and FindTexture a picture to one of four loaders. *)
(* A .lwo file goes through lwGetObject and through                        *)
(* ConvertLWOToModelSurfaces; LwoReader reads its items, and what its      *)
(* geometry becomes is LwoMesh's part.  Pixels are worked on by            *)
(* ImageProcess.  A call is of one file, so one of them has something to   *)
(* do and the others are idle.                                             *)
(***************************************************************************)
EXTENDS B3DLoader, Mesh3DS, LwoMeaning, LwoMesh, Material, Images, ImageProcess

fileVars == <<vars, vars3, lwoVars, meshVars, materialVars, imageVars, processVars>>
pictureVars == <<imageVars, processVars>>
NoPicture == ImagesIdle /\ ProcessIdle

AddB3D == InitB3D /\ Idle3DS /\ LwoIdle /\ LwoMeshIdle /\ IdleMaterial
Add3DS == IdleB3D /\ Init3DS /\ LwoIdle /\ LwoMeshIdle /\ IdleMaterial
AddLwo ==
  /\ IdleB3D /\ Idle3DS /\ IdleMaterial
  /\ (LwoInit /\ LwoMeshIdle) \/ (LwoIdle /\ LwoMeshInit)
AddMesh == (AddB3D \/ Add3DS \/ AddLwo) /\ NoPicture
NoMesh == IdleB3D /\ Idle3DS /\ LwoIdle /\ LwoMeshIdle
FindMaterial == NoMesh /\ InitMaterial /\ NoPicture
FindTexture == NoMesh /\ IdleMaterial /\ ImagesInit /\ ProcessIdle
ProcessPicture == NoMesh /\ IdleMaterial /\ ImagesIdle /\ ProcessInit

LoadB3D == NextB3D /\ UNCHANGED <<vars3, lwoVars, meshVars, materialVars, pictureVars>>
LoadMesh3DS == Next3DS /\ UNCHANGED <<vars, lwoVars, meshVars, materialVars, pictureVars>>
lwGetObject == LwoNext /\ UNCHANGED <<vars, vars3, meshVars, materialVars, pictureVars>>
MakeLwo == LwoMeshNext /\ UNCHANGED <<vars, vars3, lwoVars, materialVars, pictureVars>>
LoadMemory == NextMaterial /\ UNCHANGED <<vars, vars3, lwoVars, meshVars, pictureVars>>
UsesImage == ImagesNext /\ UNCHANGED <<vars, vars3, lwoVars, meshVars, materialVars, processVars>>
UsesPixels == ProcessNext /\ UNCHANGED <<vars, vars3, lwoVars, meshVars, materialVars, imageVars>>
Reads == LoadB3D \/ LoadMesh3DS \/ lwGetObject

\* The call has returned, or never will.
Over ==
  /\ pc \in {"idle", "loaded", "crashed"} /\ pc3 \in {"idle", "loaded", "null", "crashed"}
  /\ lpc \in {"idle", "loaded", "null", "crashed", "hangs"} /\ gpc \in {"idle", "done", "crashed"}
  /\ parsing \in {"idle", "loaded", "overrun", "broken"}
  /\ imageCalls = MaxImageCalls \/ overrun
  /\ ~CanProcess
Returned == Over /\ UNCHANGED fileVars
FilesNext == Reads \/ MakeLwo \/ LoadMemory \/ UsesImage \/ UsesPixels \/ Returned

\* A loader reads on until it is done.
FilesInit == AddMesh \/ FindMaterial \/ FindTexture \/ ProcessPicture
FilesSpec == FilesInit /\ [][FilesNext]_fileVars /\ WF_fileVars(Reads)

\* Reading a file in which everything is there comes to an end, whatever its kind: every
\* turn of every loop over chunks, subchunks, records and tokens moves on (the loops are
\* bounded by the sizes that a file states, and by nothing else).
LoadTerminates ==
  \/ pc = "loading" /\ Supported
  \/ pc3 = "reading" /\ Supported3DS
  \/ lpc = "item" /\ lwo.whole
  ~> Over
==============================================================================
