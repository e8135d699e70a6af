SPECIFICATION FairSpec
CONSTANTS
  Client = {a, b}
  Peer = {}
  Configured = {a, b}
  Discovery = FALSE
  SetRoles = TRUE
  SetBGP = FALSE
  LiveCap = 1
  DeadCap = 1
  PurgeCap = 1
  AliveCap = 1
  ClientDeadCap = 1
  ClientPurgeCap = 1
  EgressCap = 1
  MaxDown = 2
  FastRestart = FALSE
PROPERTY DeadMasterReplaced
CHECK_DEADLOCK FALSE
