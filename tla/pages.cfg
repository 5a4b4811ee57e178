SPECIFICATION SessionSpec
CONSTANTS
  Pets = {p1, p2}
  Born = {p1, p2}
  Writes = {"save"}
  Slots = {1, 2}
  MaxVersion = 1
  MaxMoves = 2
  MaxPresses = 2
  NoPet = NoPet
  NoData = NoData
  NoFetch = NoFetch
  Sent = Sent
  NoRequest = NoRequest
  NoSlot = NoSlot
INVARIANTS
  TypeOK
  EditsOwnPet
  FreshDataFollowWrites
  OneCreatePerVisit
PROPERTIES
  TypedTextLostOnlyToNews
  WritesShow
CHECK_DEADLOCK FALSE
