\* The master and a slave that boots, on a bus that does nothing wrong.
SPECIFICATION SystemFairSpec
CONSTANTS
  FLASH_PAGE_SIZE = 8
  FLASH_TOTAL_SIZE = 48
  PARTITION_ACTIVE_START = 8
  PARTITION_INACTIVE_START = 24
  PARTITION_SIZE = 16
  MAX_RETRY_COUNT = 1
  FLASH_FAULTS = "none"
  I2C_BUFFER_SIZE = 8
  CRC_METADATA_SIZE = 4
  UINT32_RANGE = 1024
  c1 = c1
  c2 = c2
  mixed = mixed
  Chunks = {c1, c2}
  Mixed = mixed
  Blocks = {c1, c2, mixed}
  DELIVERIES = {"none", "command", "partial", "full"}
  TX_FIFO_DEPTH = 1
  InitialFlash <- MCInitialFlash
  File <- MCFile
  POWER_FAILS = FALSE
  BUS = {}
CHECK_DEADLOCK FALSE
PROPERTY MasterReturns
