CONSTANTS
  WordMod = 96
  FLASH_PAGE_SIZE = 4
  FLASH_SECTOR_ERASE_SIZE = 8
  TableSize = 3
  RomEnd = 8
  XIP_MAIN_BASE = 16
  XIP_SRAM_BASE = 32
  XIP_SRAM_END = 40
  SRAM_BASE = 56
  SRAM_END = 72
  Addresses = {16, 20, 40, 56, 60}
  Sizes = {0, 4, 6}
SPECIFICATION Spec
INVARIANT EmptyRangeUnused
