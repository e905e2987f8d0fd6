CONSTANTS
  WordMod = 96
  FLASH_PAGE_SIZE = 4
  FLASH_SECTOR_ERASE_SIZE = 8
  TableSize = 3
  RomEnd = 8
  XIP_MAIN_BASE = 16
  XIP_SRAM_BASE = 32
  XIP_SRAM_END = 40
  SRAM_BASE = 56
  SRAM_END = 72
  Addresses = {0, 3, 4, 5, 7, 8, 15, 16, 17, 18, 20, 24, 28, 30, 31, 32, 33, 34, 36, 37, 38,
               39, 40, 41, 44, 48, 52, 53, 54, 55, 56, 57, 58, 59, 60, 61, 62, 64, 65, 66,
               67, 68, 69, 70, 71, 72, 73, 88, 92, 93, 95}
  Sizes = {0, 1, 2, 3, 4, 5, 6, 7, 8, 9, 10, 11, 16, 24, 40, 48, 64, 80, 88, 95}
SPECIFICATION Spec
INVARIANTS
  AccessesAllowed
  VectorsIntact
