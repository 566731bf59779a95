CONSTANTS
  u1 = u1
  Users = {u1}
  w1 = w1
  Writers = {w1}
  Addrs <- Hosts
  Remotes <- Configured
  MaxSessions = 2
  MaxDatagrams = 2
SPECIFICATION FairSpec
INVARIANTS ConnectionsEndOnce OneTimer PortIsWhole
PROPERTIES EvictedAtLast PortReleased
