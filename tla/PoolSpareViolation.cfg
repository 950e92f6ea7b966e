SPECIFICATION Spec
CONSTANTS
  MINSPARESERVER = 1
  MAXSPARESERVER = 1
  MAXCLIENTS = 4
  MaxBacklog = 1
  MaxVictims = 1
  AcceptMayFail = FALSE
  ForkMayFail = FALSE
  LoadsTwice = FALSE
INVARIANT SpareBounded
CHECK_DEADLOCK FALSE
