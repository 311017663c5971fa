\* The bootloader and update manager under any program.
SPECIFICATION Spec
CONSTANTS
  FLASH_PAGE_SIZE = 8
  FLASH_TOTAL_SIZE = 48
  PARTITION_ACTIVE_START = 8
  PARTITION_INACTIVE_START = 24
  PARTITION_SIZE = 16
  PARTITION_FLAG_SPACE_START = 44
  MAX_RETRY_COUNT = 2
  FLASH_FAULTS = "whole"
  Images = {"image"}
  UpdateFlags = {"in_progress"}
  Blocks = {"image", "in_progress", "update_complete"}
  FirmwareSizes = {0, 4, 8, 12, 36}
  CRC_METADATA_SIZE = 8
  UINT32_RANGE = 1024
  InitialFlash <- MCInitialFlash
INVARIANTS ApiTypeOK FlagsOfTheFlash UpdateFlagKept OverreadOnlyIfTiny
PROPERTIES OnlyTwoPagesWritten
