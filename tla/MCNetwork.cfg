SPECIFICATION Spec
CONSTANTS
  ha = ha  hb = hb  d1 = d1  d2 = d2  r1 = r1  r2 = r2  Nil = Nil
  Hosts = {ha, hb}
  Clients = {d1, d2}
  Host <- MCHost
  Own = FALSE
  Rounds <- TwiceB
  MaxSockets = 2
  MaxRestarts <- RestartA
  MaxLosses = 0
INVARIANTS TypeOK LinksExact LinksComplete ClientsTogether
CONSTRAINTS NoCause OneMore
SYMMETRY Alike
CHECK_DEADLOCK FALSE
