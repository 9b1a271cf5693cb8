SPECIFICATION FairSpec
CONSTANTS
  k1 = k1  k2 = k2  k3 = k3  n1 = n1  n2 = n2  Null = Null
  Calls = {k1, k2, k3}
  Asked <- MCAsked
  Connects = {n1, n2}
INVARIANTS TypeOK OwnAnswer SocketOwn
PROPERTIES Settles
CONSTRAINT OneHalf
CHECK_DEADLOCK FALSE
