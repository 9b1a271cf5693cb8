SPECIFICATION Spec
CONSTANTS
  p1 = p1  p2 = p2  p3 = p3  c1 = c1  c2 = c2  x1 = x1  y1 = y1  Nil = Nil
  Peers = {p1, p2}
  Controls = {c1}
  Proxies = {x1}
  Writeable = {x1}
  Id <- MCId
  RemoteIds = {}
  BadUpgrade = {}
  Payloads = {1}
  Urls = {}
  Talkers = {}
  MaxInput = 0
  Capacity = 1
INVARIANTS ListsExact AllAnnounced NoGhosts
CONSTRAINT RaceFree
CHECK_DEADLOCK FALSE
