SPECIFICATION Spec
CONSTANTS
  p1 = p1  p2 = p2  p3 = p3  c1 = c1  c2 = c2  x1 = x1  y1 = y1  Nil = Nil
  Peers = {p1, p2}
  Controls = {}
  Proxies = {x1}
  Writeable = {x1}
  Id <- MCId
  RemoteIds = {}
  BadUpgrade = {x1}
  Payloads = {1}
  Urls = {}
  Talkers = {p1, p2}
  MaxInput = 2
  Capacity = 2
INVARIANTS BroadcastExact
CONSTRAINT RaceFree
CHECK_DEADLOCK FALSE
