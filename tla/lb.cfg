SPECIFICATION AllSpec
CONSTANTS
  s1 = s1
  s2 = s2
  p1 = p1
  p2 = p2
  c1 = c1
  c2 = c2
  m1 = m1
  y1 = y1
  IP = {x1, x2}
  PoolIP = {x1, x2}
  Port = {p1, p2}
  NoIdent = NoIdent
  Shared = FALSE
  Service = {s1, s2}
  Client = {c1}
  Mode = {m1, m2}
  Endpoint = {e1}
  None = None
  PortLists <- TwoAndOne
  NameReuse = FALSE
  FailStages = {"first"}
  LostReplies = FALSE
  MaxRestarts = 0
INVARIANTS UniqueServiceIP NoLeak RuleHeld OneAddress
SYMMETRY Symmetry
