SPECIFICATION SceneSpec
CONSTANTS
  BEATS_PER_BLOCK = 2
  BEAT_SIZE = 2
  capacity_blocks = 3
  dma_base = 0
  dma_size = 12
  media_capacity = 3
  bad_blocks = {2}
  RamBeats <- MCRamBeats
  Data <- MCData
  InitialRam <- MCInitialRam
  InitialMedia <- MCInitialMedia
  MaxTxn = 5
  Commands = {1, 2, 3}
  Lbas = {0, 1, 2}
  Addrs = {0, 1, 6}
  Counts = {1, 2}
  MaxCommands = 2
  Conformant = TRUE
  MaxWire = 2
  None = None
INVARIANT Resumable
INVARIANT LineFollows
PROPERTY Transfers
PROPERTY EveryCommandEnds
\* A faulted session stops.
CHECK_DEADLOCK FALSE
