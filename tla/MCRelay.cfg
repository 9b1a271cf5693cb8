SPECIFICATION Spec
CONSTANTS
  p1 = p1  p2 = p2  p3 = p3  c1 = c1  c2 = c2  x1 = x1  y1 = y1  Nil = Nil
  Peers = {}
  Controls = {c1, c2}
  Proxies = {x1, y1}
  Writeable = {x1}
  Id <- MCId
  RemoteIds = {21}
  BadUpgrade = {}
  Payloads = {1}
  Urls = {1}
  Talkers = {c1, x1, y1}
  MaxInput = 2
  Capacity = 1
INVARIANTS RemoteAnnounced
PROPERTIES RelayFinds
CONSTRAINTS RaceFree TwoFrames SecondControl
CHECK_DEADLOCK FALSE
