SPECIFICATION Spec
CONSTANTS
  MINSPARESERVER = 1
  MAXSPARESERVER = 1
  MAXCLIENTS = 3
  MaxBacklog = 1
  MaxVictims = 1
  AcceptMayFail = FALSE
  ForkMayFail = FALSE
  LoadsTwice = FALSE
PROPERTY KillsIdleOnly
CHECK_DEADLOCK FALSE
