SPECIFICATION Spec
CONSTANTS
  Pids = {p1, p2, p3}
  Ips = {a}
  MaximumClients = 0
  MaxConnsPerIp = 0
  CountBound = 3
SYMMETRY Symmetry
INVARIANT HandlerKnowsPid
CHECK_DEADLOCK FALSE
