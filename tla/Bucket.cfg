SPECIFICATION FairSpec
CONSTANTS
  Users = {u1, u2}
  Buckets = {b1, b2}
  MYTBF_MAX = 2
  CPS = 1
  BURST = 2
  BUFSIZE = 2
  NoBucket = nobucket
  NoUser = nouser
  Alarm = alarm
  MaxRefills = 4
INVARIANTS
  TypeOK
  RateBound
  FetchNonEmpty
  AlarmTouchesLive
  CleanEnd
PROPERTY NobodyHangs
CHECK_DEADLOCK FALSE
