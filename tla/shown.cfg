SPECIFICATION StudySpec
CONSTANTS
  BirthYears = {2022, 2023, 2024}
  BirthDays = {1, 28, 29, 30, 31}
  FirstToday = 2023
  LastToday = 2025
  Users = {"ann", "bob"}
  Dates = {"d"}
  Minute = 2
  Epoch = 2
  MaxClock = 5
  MaxUpdates = 2
  NoPet = NoPet
  Pets = {1, 2, 3, 4, 5}
  Old = {1, 2, 4, 5}
  PageSize = 2
  MaxChanges = 3
  Tabs = {t1, t2}
  MaxSteps = 6
  None = None
INVARIANTS
  ShownTypeOK
  AgeIsCounted
  PagesAgree
  WalkIsAccountedFor
PROPERTIES
  AgeNeverDrops
  LookIsKept
CHECK_DEADLOCK FALSE
