SPECIFICATION BucketsSpec
CONSTANTS
  CPS = 2
  BURST = 3
  BUFSIZE = 3
  MaxTicks = 4
  Users = {u1}
  Alarm = alarm
  NoOne = noone
  MaxToken = 9
  BufLen = 3
  MaxLen = 5
  BLOCKSIZE = 2
  LINESIZE = 3
  MaxFile = 0
  STARS = 3
  ROWS = 3
  MaxInts = 2
  JOB_MAX = 2
  Secs = {0, 1, 2}
  MaxSec = 2
  NoJob = nojob
INVARIANT NeverKilled
CHECK_DEADLOCK FALSE
