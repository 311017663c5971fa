\* The slave under any master, with controller faults and power loss, and what it
\* owes its master.
SPECIFICATION FairSpec
CONSTANTS
  FLASH_PAGE_SIZE = 16
  FLASH_TOTAL_SIZE = 96
  PARTITION_ACTIVE_START = 16
  PARTITION_INACTIVE_START = 48
  PARTITION_SIZE = 32
  MAX_RETRY_COUNT = 3
  FLASH_FAULTS = "whole"
  I2C_BUFFER_SIZE = 12
  CRC_METADATA_SIZE = 8
  UINT32_RANGE = 1024
  c1 = c1
  c2 = c2
  mixed = mixed
  Chunks = {c1, c2}
  Mixed = mixed
  Blocks = {c1, c2, mixed}
  DELIVERIES <- MCDeliveries
  TX_FIFO_DEPTH = 1
  InitialFlash <- MCInitialFlash
INVARIANTS SlaveTypeOK BootDecision InactiveFlagFresh AckedChunkStored OneChunkOnly
PROPERTIES RunningBankUntouched ImplementsBootPolicy CommandReturns StartUpEnds
