SPECIFICATION FairSpec
CONSTANTS
  MINSPARESERVER = 1
  MAXSPARESERVER = 1
  MAXCLIENTS = 2
  MaxBacklog = 1
  MaxVictims = 1
  AcceptMayFail = FALSE
  ForkMayFail = FALSE
  LoadsTwice = TRUE
PROPERTIES
  Standby
  Progress
CHECK_DEADLOCK FALSE
