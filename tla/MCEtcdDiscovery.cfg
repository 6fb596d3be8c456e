\* One other node that starts twice, one failure of etcd.
CONSTANTS
  me = me
  n1 = n1
  home = home
  c1 = c1
  Nodes = {me, n1}
  Me = me
  Networks <- MCNetworks
  Clients = {c1}
  watchKeys <- MCWatchKeys
  EarlyRetire = FALSE
  MaxLeases = 2
  MaxStarts = 2
  MaxFails = 1
  MaxWatchers = 1
  MaxQueue = 1
SPECIFICATION EtcdSpec
INVARIANT ViewFollowsStore
PROPERTY EventuallyKnown
CHECK_DEADLOCK FALSE
