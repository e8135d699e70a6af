SPECIFICATION AllSpec
CONSTANTS
  n1 = n1
  b1 = b1
  b2 = b2
  g1 = g1
  l1 = l1
  m1 = m1
  m2 = m2
  w1 = w1
  x1 = x1
  x2 = x2
  None = None
  Kind = {"tcp", "udp", "http"}
  Ns = {m1, m2}
  RouteNs = {m1}
  Name = {n1}
  Backend = {b1, b2}
  Gateways = {g1}
  Section = {l1}
  IP = {x1, x2}
  Specs <- MCSpecs
  Worker = {w1}
  Fails = {"gateway", "get", "write", "list", "delete"}
  Users = TRUE
  Plain = TRUE
  Regate = TRUE
  MaxEdits = 4
  MaxBackends = 2
PROPERTIES RoutesServed RoutesRemoved UserServicesKept
CHECK_DEADLOCK FALSE
