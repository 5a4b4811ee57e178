SPECIFICATION Spec
CONSTANTS
  Ids = {1}
  Malformed = Malformed
  Stray = Stray
  Words = {"Rex", "dog", "cat"}
  Blank = ""
  Users = {"ann", "bob"}
  MaxInt32 = 7
  DefaultLimit = 2
  MaxPageSize = 4
  Requests = {r1, r2}
  Calls <- InputCalls
  Guesses = {Stray, Malformed}
  Conns = {k1}
  MaxClock = 0
  NoPet = NoPet
  NoConn = NoConn
SYMMETRY SymmRequests
INVARIANTS
  EveryRowCanBeResaved
  FarPagesAreEmpty
