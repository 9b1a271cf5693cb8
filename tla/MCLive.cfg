SPECIFICATION FairSpec
CONSTANTS
  p1 = p1  p2 = p2  p3 = p3  c1 = c1  c2 = c2  x1 = x1  y1 = y1  Nil = Nil
  Peers = {p1}
  Controls = {c1}
  Proxies = {}
  Writeable = {}
  Id <- MCId
  RemoteIds = {}
  BadUpgrade = {}
  Payloads = {1}
  Urls = {1}
  Talkers = {p1}
  MaxInput = 2
  Capacity = 1
INVARIANTS PanicsExplained
PROPERTIES BufferDrains TeardownEnds
CHECK_DEADLOCK FALSE
