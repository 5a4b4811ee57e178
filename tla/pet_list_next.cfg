SPECIFICATION Spec
CONSTANTS
  Filters = {"all", "dogs"}
  All = "all"
  MaxTotal = 2
  MaxVersion = 2
  MaxClicks = 3
  NoData = NoData
  NoKey = NoKey
  NoFetch = NoFetch
  Sent = Sent
  NoDeletion = NoDeletion
PROPERTY
  PageKeptUntilAnswered
CHECK_DEADLOCK FALSE
