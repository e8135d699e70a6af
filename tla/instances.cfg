SPECIFICATION AllSpec
CONSTANTS
  n1 = n1
  n2 = n2
  u1 = u1
  u2 = u2
  u3 = u3
  h1 = h1
  h2 = h2
  p = p
  x = x
  None = None
  Client = {i1, i2}
  Peer = {i2}
  Configured = {}
  Discovery = TRUE
  SetRoles = FALSE
  SetBGP = TRUE
  LiveCap = 3
  DeadCap = 1
  PurgeCap = 2
  AliveCap = 5
  ClientDeadCap = 1
  ClientPurgeCap = 1
  EgressCap = 1
  MaxDown = 1
  FastRestart = FALSE
INVARIANT NoCircularWait
PROPERTIES ObjectsFollowed MeshForms MetadataArrives
CHECK_DEADLOCK FALSE
