SPECIFICATION AllSpec
CONSTANTS
  None = None
  e1 = e1
  e2 = e2
  a1 = a1
  v1 = v1
  v2 = v2
  c1 = c1
  c2 = c2
  w1 = w1
  w2 = w2
PROPERTIES EgressInstalled EgressRemoved
CHECK_DEADLOCK FALSE
