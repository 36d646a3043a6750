SPECIFICATION DaemonFairSpec
CONSTANTS
  Pids = {p1, p2}
  Ips = {a}
  MaximumClients = 1
  MaxConnsPerIp = 0
  CountBound = 3
  MaxOrphans = 1
 
PROPERTIES EventuallyReaped FreedUnlessStuck
CHECK_DEADLOCK FALSE
