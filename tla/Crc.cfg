\* The checksum on pairs of memories.
SPECIFICATION PairSpec
CONSTANTS
  PARTITION_SIZE = 24
  CHUNK_SIZE = 6
  UINT32_RANGE = 1024
  MEMORY_SIZE = 26
  Contents <- MCContents
  Sizes <- MCSizes
INVARIANTS PairTypeOK RemainderCalculated VerdictMeaning FaultsByLength BurstErrorSeen LastChunkDecides
