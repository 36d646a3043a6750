SPECIFICATION DaemonSpec
CONSTANTS
  Pids = {p1, p2}
  Ips = {a}
  MaximumClients = 1
  MaxConnsPerIp = 0
  CountBound = 3
  MaxOrphans = 1
INVARIANT SessionsWithinLimit
CHECK_DEADLOCK FALSE
