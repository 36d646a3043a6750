SPECIFICATION TimeFairSpec
CONSTANTS
  Default <- Defaults
  MinRate = 2
  Modulus = 16
  Files <- ShortFiles
  TicksPerSecond = 4
  MinElapsed = 2
  Chunk = 4
  Capacity = 3
  MaxElapsed = 10
PROPERTY TransferNeverBlocks
CHECK_DEADLOCK FALSE
