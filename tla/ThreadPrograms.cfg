SPECIFICATION ProgramsSpec
CONSTANTS
  Threads = {main, t2, t3}
  N = 3
  MaxUnits = 3
  MIN = 2
  MAX = 9
  Main = main
  THRNUM = 4
  Adders = {a1, a2, a3}
  Nobody = nobody
  Clients = {c1, c2, c3}
  Children = {k1, k2}
  PROCNUM = 2
INVARIANTS
  ProgramsTypeOK
  NoneStalled
  CleanEnd
  Counted
  TurnedAway
PROPERTIES
  SemaphoreServes
  LettersInTurn
  LettersGoOn
  ClientsEnd
CHECK_DEADLOCK FALSE
