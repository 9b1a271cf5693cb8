SPECIFICATION FairSpec
CONSTANTS
  ha = ha  hb = hb  d1 = d1  d2 = d2  r1 = r1  r2 = r2  Nil = Nil
  Hosts = {ha, hb}
  Clients = {d1}
  Host <- MCHost
  Own = FALSE
  Rounds <- OnceB
  MaxSockets = 2
  MaxRestarts <- Stable
  MaxLosses = 1
PROPERTIES MeshForms
CHECK_DEADLOCK FALSE
