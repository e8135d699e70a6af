SPECIFICATION AllSpec
CONSTANTS
  N = 3
  NumZoneInst = 2
  NoRole = {3}
  ExclIPAM = TRUE
  Elector = {"agent"}
  a = a
  b = b
INVARIANT AtMostOneMaster
PROPERTIES OneMasterFromThen Arbitrated DeadMasterReplaced RolesArrive
