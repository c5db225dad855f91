SPECIFICATION SetupSpec
CONSTANTS
  EHDR_SIZE = 4
  PHDR_SIZE = 2
  PN_XNUM = 15
  MAX_PHDRS = 3
  PAGE = 16
  TOP = 256
  MAX_ACCESS = 8
  PER_SLOT = 4
  MMIO_MEGAPAGE = 64
  PHYS_LIMIT = 1024
  BLK_REGISTERS = 8
  BLOCK_SIZE = 8
  MAX_ENTRIES = 2
  MAGIC = 7
  VERSION = 0
  RamBases = {16, 20}
  RamSizes = {0, 32, 150, 240}
  Inputs <- Boots
  Paths = {"p", "q"}
  MaxPorts = 2
  MaxDomains = 1
  MaxComponents = 2
  MaxLinks = 2
INVARIANT Verdict
INVARIANT MappedAsFile
INVARIANT SafeLoad
INVARIANT Firmware
INVARIANT Wired
CHECK_DEADLOCK FALSE
