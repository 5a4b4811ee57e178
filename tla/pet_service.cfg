SPECIFICATION Spec
CONSTANTS
  Ids = {1, 2}
  Malformed = Malformed
  Stray = Stray
  Words = {"Rex", "dog", "cat"}
  Blank = ""
  Users = {"ann", "bob"}
  MaxInt32 = 7
  DefaultLimit = 2
  MaxPageSize = 4
  Requests = {r1, r2, r3}
  Calls <- AllCalls
  Guesses = {Stray}
  Conns = {k1, k2}
  MaxClock = 1
  NoPet = NoPet
  NoConn = NoConn
SYMMETRY Symm
INVARIANTS
  TypeOK
PROPERTIES
  ImplementsPetStore
