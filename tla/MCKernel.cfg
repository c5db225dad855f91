SPECIFICATION SceneSpec
CONSTANTS
  MaxPid = 3
  NFrames = 12
  Contexts = {0, 1}
  None = None
  Images <- TurnImages
  Disk = FALSE
  BadTables = FALSE
  DiskErrors = FALSE
  PcMod = 2
  PerSlot = 2
  Slots = 3
  KernelSlot = 2
  Causes = {"simple", "write", "yield", "exit0", "exit1", "smode"}
  Conformant = TRUE
INVARIANT Restorable
INVARIANT Continues
INVARIANT Honest
PROPERTY EnterAnswered
PROPERTY EveryoneRuns
\* A halted hart and a faulted session stop.
CHECK_DEADLOCK FALSE
