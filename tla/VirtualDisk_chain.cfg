CONSTANTS
  SECTOR_SIZE = 512
  SectorsPerCluster = 8
  SECTOR_COUNT = 262144
  MAX_ROOT_DIRECTORY_ENTRIES = 512
  SRAM_BASE = 536870912
  SRAM_END = 537141248
  TextLen = 111
SPECIFICATION Spec
INVARIANT ChainEnds
