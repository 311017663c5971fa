\* The flash driver under any caller, with controller faults and power loss.
SPECIFICATION FairSpec
CONSTANTS
  FLASH_PAGE_SIZE = 8
  FLASH_TOTAL_SIZE = 40
  PARTITION_ACTIVE_START = 0
  PARTITION_INACTIVE_START = 16
  PARTITION_SIZE = 16
  MAX_RETRY_COUNT = 3
  FLASH_FAULTS = "part"
  d1 = d1
  Blocks = {d1}
  Addresses <- MCAddresses
  Lengths <- MCLengths
  InitialMemory <- MCInitialMemory
INVARIANT FlashTypeOK
PROPERTY ImplementsContract CallReturns
