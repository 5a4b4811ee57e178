SPECIFICATION StudySpec
CONSTANTS
  Requests = {r1, r2, r3}
  MaxSignals = 2
  None = None
  Ada = Ada
  Ben = Ben
  Cy = Cy
  LocalTest = LocalTest
  Own = Own
  DevToken = DevToken
  Secret = Secret
  Wrong = Wrong
  Unset = Unset
  Down = Down
  NoPage = NoPage
INVARIANTS
  ServerTypeOK
  OrderlyLife
  RefusesOnlyTheUnusable
  IdentitiesAreEarned
  PagesReachService
PROPERTIES
  SignalEndsIt
CHECK_DEADLOCK FALSE
