SPECIFICATION FairSpec
CONSTANTS
  Addrs = {a1, a2}
  Ports = {q1, q2, q3}
  None = None
  AcceptTimeout = TRUE
  Crashes = TRUE
INVARIANTS TypeOK MatchedConnection ListenersMatch NoStaleAnswer NoMutualWait
PROPERTIES ChannelSpec EveryRequestAnswered NeverLeftWaiting
CHECK_DEADLOCK FALSE
