SPECIFICATION AllSpec
CONSTANTS
  IP = {x1, x2, x3}
  PoolIP = {x1, x2}
  Port = {p1, p2}
  NoIdent = NoIdent
  Shared = TRUE
  User = {u1, u2, u3}
  Reserver = {u1, u2, u3}
  Octet <- SomeOctets
  Asked <- SomeIPs
  Ranges <- SomeRanges
  Nets <- SomeNets
  Agent = {a1, a2}
  ZoneOf <- Zones
  PoolOf <- Pools
  V4 <- Words
  Hex = {"2001", "db8", "1", "2", "b"}
  UserIPs <- Given
  ZeroCIDR = FALSE
  Hosts <- InstanceIPs
  MaxRestarts = 6
  x1 = x1
  x2 = x2
  p1 = p1
  p2 = p2
  c1 = c1
  s1 = s1
  s2 = s2
  m1 = m1
  e1 = e1
  a1 = a1
  a2 = a2
  g1 = g1
  g2 = g2
  w1 = w1
  None = None
INVARIANTS GrantsDisjoint MembersContained AddressKept SecondariesHeld AddressesApart
CHECK_DEADLOCK FALSE
