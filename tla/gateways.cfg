SPECIFICATION AllSpec
CONSTANTS
  x1 = x1
  x2 = x2
  s = s
  p0 = p0
  g1 = g1
  c1 = c1
  c2 = c2
  w1 = w1
  w2 = w2
  None = None
  NoIdent = NoIdent
PROPERTIES GatewayServed GatewayRemoved ClassAccepted
CHECK_DEADLOCK FALSE
