SPECIFICATION Spec
CONSTANTS
  Servers = {s1, s2}
  MaxKills = 0
  MaxDowns = 0
PROPERTY
  OnlyPendingApplied
CHECK_DEADLOCK FALSE
