SPECIFICATION FairSpec
CONSTANTS
  s1 = s1  s2 = s2  h1 = h1  Null = Null  Type = type
  Services = {s1, s2}
  Hosts = {h1}
  HostOf <- MCHostOf
  Families = {"v4", "v6"}
  Capacity = 1
  Room = 1
INVARIANTS TypeOK EntriesExact NoStorm
PROPERTIES GoroutinesEnd
CONSTRAINT Few
CHECK_DEADLOCK FALSE
