SPECIFICATION Spec
CONSTANTS
  Sessions = {s1, s2}
  Hole = Hole
  Chunk = 2
  MaxLen = 2
  MaxInodes = 2
INVARIANTS TypeOK TransferIntact SentAllUnlessStaleOrCut
PROPERTIES AppendKeepsEarlier SharedSpec DownloadEndsUnlessStalled
CHECK_DEADLOCK FALSE
