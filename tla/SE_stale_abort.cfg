SPECIFICATION Spec
CONSTANTS
  Lines <- AbortLines
  Root = Root
  Users = {u1, u2, Root}
  Locked = {u2}
  None = None
  MaxLines = 1
  MaxChunks = 2
  u1 = u1
  u2 = u2
  f1 = f1
  f2 = f2
INVARIANT AbortOfThisTransfer
CHECK_DEADLOCK FALSE
