SPECIFICATION Spec
CONSTANTS
  ha = ha  hb = hb  d1 = d1  d2 = d2  r1 = r1  r2 = r2  Nil = Nil
  Hosts = {ha}
  Clients = {d1, d2}
  Host <- MCHost
  Own = TRUE
  Rounds <- NoRounds
  MaxSockets = 2
  MaxRestarts <- Stable
  MaxLosses = 0
INVARIANT ChannelShared
CHECK_DEADLOCK FALSE
