SPECIFICATION StudySpec
CONSTANTS
  Lengths = {0, 1, 50, 51, 100, 101}
  Widths = {FALSE, TRUE}
  Surrounds <- MixedSurrounds
  Letters = {"a"}
  TagLength = 0
  TagCount = 0
  InputLength = 0
  MaxEdits = 2
  NoPet = NoPet
  NoId = NoId
  Pets = {"rex", "tom"}
  Dead = {"typed"}
  Slots = {1, 2}
  MaxPhotos = 2
  MaxMoves = 3
  MaxPhotoEdits = 4
  NoText = NoText
  NoUpload = NoUpload
  NotSeen = NotSeen
INVARIANTS
  FormTypeOK
  SavedPetIsKept
  RejectedOnlyForBlanksAndPhotos
PROPERTIES
  OwnPhotosStay
CHECK_DEADLOCK FALSE
