\* The manager under any caller.
SPECIFICATION Spec
CONSTANTS
  FLASH_PAGE_SIZE = 8
  FLASH_TOTAL_SIZE = 64
  PARTITION_ACTIVE_START = 8
  PARTITION_INACTIVE_START = 32
  PARTITION_SIZE = 24
  MAX_RETRY_COUNT = 2
  FLASH_FAULTS = "whole"
  c1 = c1
  c2 = c2
  Chunks = {c1, c2}
  Blocks = {c1, c2, "crc", "mark"}
  ChunkLengths <- MCLengths
  CRC_METADATA_SIZE = 8
  UINT32_RANGE = 1024
  InitialFlash <- MCInitialFlash
SYMMETRY ContentSymmetry
INVARIANTS FwTypeOK CountersAgree WholePagesKept OldFlagDecides FinalizeSpoilsBank
PROPERTIES RunningBankUntouched
