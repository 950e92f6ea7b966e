SPECIFICATION PoolsSpec
CONSTANTS
  MIN = 2
  MAX = 7
  Workers = {w1, w2, w3, w4}
  Main = main
  NoOne = noone
  First = 5
  Last = 9
  N = 3
INVARIANTS
  PoolsTypeOK
  PoolsNeverStall
  AllPrimesPrinted
  ForkedPrimes
PROPERTIES
  Distribution
  AllEnd
CHECK_DEADLOCK FALSE
