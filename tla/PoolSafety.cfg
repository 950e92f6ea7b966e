SPECIFICATION Spec
CONSTANTS
  MINSPARESERVER = 2
  MAXSPARESERVER = 2
  MAXCLIENTS = 3
  MaxBacklog = 1
  MaxVictims = 1
  AcceptMayFail = TRUE
  ForkMayFail = TRUE
  LoadsTwice = FALSE
INVARIANTS
  TypeOK
  Accounting
  NeverOvercounted
  StandbyAtRest
CHECK_DEADLOCK FALSE
