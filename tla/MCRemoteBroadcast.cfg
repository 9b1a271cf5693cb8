SPECIFICATION Spec
CONSTANTS
  p1 = p1  p2 = p2  p3 = p3  c1 = c1  c2 = c2  x1 = x1  y1 = y1  Nil = Nil
  Peers = {p1}
  Controls = {}
  Proxies = {x1, y1}
  Writeable = {x1}
  Id <- MCId
  RemoteIds = {21}
  BadUpgrade = {}
  Payloads = {1}
  Urls = {}
  Talkers = {p1, x1, y1}
  MaxInput = 1
  Capacity = 1
INVARIANTS TypeOK RemoteBroadcastExact
CONSTRAINT RaceFree
CHECK_DEADLOCK FALSE
PROPERTIES ImplementsGroup
