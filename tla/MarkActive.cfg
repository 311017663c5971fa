\* What CMD_MARK_ACTIVE does to the active partition.
SPECIFICATION Spec
CONSTANTS
  FLASH_PAGE_SIZE = 32
  FLASH_TOTAL_SIZE = 192
  PARTITION_ACTIVE_START = 32
  PARTITION_INACTIVE_START = 96
  PARTITION_SIZE = 64
  MAX_RETRY_COUNT = 3
  FLASH_FAULTS = "whole"
  I2C_BUFFER_SIZE = 12
  CRC_METADATA_SIZE = 8
  UINT32_RANGE = 1024
  c1 = c1
  c2 = c2
  mixed = mixed
  Chunks = {c1, c2}
  Mixed = mixed
  Blocks = {c1, c2, mixed}
  DELIVERIES <- MCDeliveries
  TX_FIFO_DEPTH = 1
  InitialFlash <- MCInitialFlash
INVARIANT MarkActiveTakesEffect
