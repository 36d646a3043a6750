SPECIFICATION Spec
CONSTANTS
  Pids = {p1, p2, p3}
  Ips = {a, b}
  MaximumClients = 2
  MaxConnsPerIp = 1
  CountBound = 3
SYMMETRY Symmetry
INVARIANTS TypeOK TotalLimit PerIpLimitUnlessTorn CountersExactUnlessTorn Tracked NoLostZombie IInv
PROPERTY AbstractSpec
CHECK_DEADLOCK FALSE
