SPECIFICATION FairSpec
CONSTANTS
  Ids = {1, 2}
  Malformed = Malformed
  Stray = Stray
  Words = {"Rex", "dog", "cat"}
  Blank = ""
  Users = {"ann", "bob"}
  MaxInt32 = 7
  DefaultLimit = 2
  MaxPageSize = 4
  Requests = {r1, r2, r3}
  Calls <- PoolCalls
  Guesses = {Stray}
  Conns = {k1}
  MaxClock = 0
  NoPet = NoPet
  NoConn = NoConn
PROPERTY
  EveryRequestAnswered
