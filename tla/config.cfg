SPECIFICATION AllSpec
CONSTANTS
  None = None
  Host = {h1}
  Thread = {t1, t2}
  Ops = {"lb create"}
  Refreshable = {h1}
  Slow = {}
  Down = {}
  Life = 5
  Margin = 2
  MaxDelay = 1
  LateClients = FALSE
  Restarts = FALSE
  Lossy = FALSE
  Refused200 = FALSE
  MaxClock = 9
  MaxIssued = 2
  Factory = {"bgp"}
  TypesOf <- BGPTypes
  Caller = {"c1", "c2"}
  h1 = h1
  h2 = h2
  s1 = s1
  x1 = x1
  p1 = p1
  NoIdent = NoIdent
  m1 = m1
  m2 = m2
  e1 = e1
  e2 = e2
  n1 = n1
  n2 = n2
  i1 = i1
  c1 = c1
  c2 = c2
  w1 = w1
  w2 = w2
INVARIANTS TokenAccepted SuccessMeansApplied ShutdownIsFinal
PROPERTIES DeletedIsReleased ServiceGetsAddress ConfigConverges ObjectsConfigured ObjectsRemoved
CHECK_DEADLOCK FALSE
