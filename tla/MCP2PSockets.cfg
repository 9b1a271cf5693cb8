SPECIFICATION FairSpec
CONSTANTS
  i1 = i1
  Ids = {i1}
  MaxConnects <- Connects
  MaxMessages <- Speaks
  MaxCloses = 1
INVARIANTS PeersMatchMap OpenShimRouted MessagesInOrder EventsBalance
PROPERTIES NeverReopens DeparturesTold
CHECK_DEADLOCK FALSE
