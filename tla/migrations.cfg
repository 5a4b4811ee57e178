SPECIFICATION FairSpec
CONSTANTS
  Servers = {s1, s2, s3}
  MaxKills = 1
  MaxDowns = 4
INVARIANTS
  TypeOK
  SchemaMatchesVersion
  RacingServersConverge
PROPERTIES
  PhotosSurviveUpgrades
  MigrationEnds
CHECK_DEADLOCK FALSE
