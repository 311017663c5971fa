------------------------ MODULE MemoryManagerProofs ------------------------
(***************************************************************************)
(* The properties of the memory manager, for any heap of at least two      *)
(* blocks and any users.  Together they are inductive.                     *)
(***************************************************************************)
EXTENDS MemoryManager, TLAPS

IInv ==
  /\ MemoryTypeOK
  /\ NoDanglingBuffer
  /\ PairedNeverLeaks
  /\ UpdateBufferRefused
  /\ SharedBufferExclusive

\* What concerns the heap, and what concerns the shared buffer.
HeapInv ==
  /\ heap \subseteq Block
  /\ comm_buffer \in Block \cup {NULL} /\ crc_buffer \in Block \cup {NULL}
  /\ refused \in BOOLEAN /\ paired \in BOOLEAN
  /\ update_buffer = NULL
  /\ comm_buffer # NULL => comm_buffer \in heap /\ comm_buffer # crc_buffer
  /\ crc_buffer # NULL => crc_buffer \in heap
  /\ paired => heap \subseteq {comm_buffer, crc_buffer} /\ ~refused

SharedInv ==
  /\ shared_buffer_in_use \in BOOLEAN /\ holders \subseteq Users /\ evicted \subseteq holders
  /\ SharedBufferExclusive

LEMMA Parts == IInv <=> HeapInv /\ SharedInv
<1>1. ASSUME IInv PROVE HeapInv /\ SharedInv
  BY <1>1, MemoryAssumption DEF IInv, HeapInv, SharedInv, MemoryTypeOK, NoDanglingBuffer,
     PairedNeverLeaks, UpdateBufferRefused, Lost
<1>2. ASSUME HeapInv, SharedInv PROVE IInv
  BY <1>2, MemoryAssumption DEF IInv, HeapInv, SharedInv, MemoryTypeOK, NoDanglingBuffer,
     PairedNeverLeaks, UpdateBufferRefused, Lost
<1> QED BY <1>1, <1>2

LEMMA InitIInv == Init => HeapInv /\ SharedInv
BY DEF Init, HeapInv, SharedInv, SharedBufferExclusive

\* A buffer within the limit is a block that was free, or the heap is full.
LEMMA Allocated ==
  ASSUME NEW size \in 1 .. 1024, NEW b \in Block \cup {NULL}, HeapInv, Allocate(size, b)
  PROVE  \/ b \in Block \ heap /\ heap' = heap \cup {b}
         \/ b = NULL /\ heap' = heap /\ heap = Block
BY DEF Allocate, MEMORY_BUFFER_SIZE, HeapInv

\* While nothing leaked the heap holds one buffer at most beside that of
\* CRC_Validate, so it is not full.
LEMMA RoomLeft ==
  ASSUME HeapInv, paired, Called
  PROVE  heap # Block
<1>1. heap \subseteq {comm_buffer, NULL}  BY DEF HeapInv, Called
<1>2. PICK b \in Block, c \in Block : b # c  BY MemoryAssumption
<1>3. b # NULL /\ c # NULL  BY MemoryAssumption
<1> QED BY <1>1, <1>2, <1>3

LEMMA HeapStep ==
  ASSUME HeapInv, [Next]_vars
  PROVE  HeapInv'
<1>1. CASE CommunicationManager_Init
  <2>1. PICK b \in Block \cup {NULL} : Allocate(COMM_BUFFER_SIZE, b) /\ comm_buffer' = b
    BY <1>1 DEF CommunicationManager_Init
  <2>2. \/ b \in Block \ heap /\ heap' = heap \cup {b}
        \/ b = NULL /\ heap' = heap /\ heap = Block
    BY <2>1, Allocated DEF COMM_BUFFER_SIZE
  <2>3. /\ crc_buffer = NULL /\ paired' = (paired /\ comm_buffer = NULL)
        /\ UNCHANGED <<update_buffer, crc_buffer, refused>>
    BY <1>1 DEF CommunicationManager_Init, Called
  <2>4. paired' \in BOOLEAN /\ (paired' => paired /\ comm_buffer = NULL)
    BY <2>3
  <2>5. paired' => heap' \subseteq {comm_buffer', crc_buffer'} /\ ~refused'
    BY <2>1, <2>2, <2>3, <2>4, MemoryAssumption DEF HeapInv
  <2> QED BY <2>1, <2>2, <2>3, <2>4, <2>5, MemoryAssumption DEF HeapInv
<1>2. CASE CommunicationManager_Deinit
  BY <1>2, MemoryAssumption DEF CommunicationManager_Deinit, Called, Free, HeapInv
<1>3. CASE CRC_Validate
  <2>1. PICK b \in Block \cup {NULL} :
          Allocate(CHUNK_SIZE, b) /\ crc_buffer' = b /\ refused' = (b = NULL)
    BY <1>3 DEF CRC_Validate
  <2>2. \/ b \in Block \ heap /\ heap' = heap \cup {b}
        \/ b = NULL /\ heap' = heap /\ heap = Block
    BY <2>1, Allocated DEF CHUNK_SIZE
  <2>3. Called /\ UNCHANGED <<comm_buffer, update_buffer, paired>>
    BY <1>3 DEF CRC_Validate
  <2>4. refused' \in BOOLEAN /\ (refused' => b = NULL)
    BY <2>1
  <2>5. paired => ~refused' /\ heap' \subseteq {comm_buffer, crc_buffer'}
    BY <2>1, <2>2, <2>3, <2>4, RoomLeft, MemoryAssumption DEF HeapInv, Called
  <2> QED BY <2>1, <2>2, <2>3, <2>4, <2>5, MemoryAssumption DEF HeapInv
<1>4. CASE CRC_ValidateEnds
  BY <1>4, MemoryAssumption DEF CRC_ValidateEnds, Called, Free, HeapInv
<1>5. CASE UpdateManager_StartFirmwareUpdate
  <2>1. UPDATE_BUFFER_SIZE \notin 1 .. MEMORY_BUFFER_SIZE
    BY DEF UPDATE_BUFFER_SIZE, MEMORY_BUFFER_SIZE
  <2>2. update_buffer' = NULL /\ heap' = heap
    BY <1>5, <2>1 DEF UpdateManager_StartFirmwareUpdate, Allocate
  <2> QED BY <1>5, <2>2 DEF UpdateManager_StartFirmwareUpdate, HeapInv
<1>6. CASE UpdateManager_EndFirmwareUpdate
  BY <1>6, MemoryAssumption DEF UpdateManager_EndFirmwareUpdate, Free, HeapInv
<1>7. CASE MemoryManager_Init \/ MemoryManager_Deinit
  BY <1>7 DEF MemoryManager_Init, MemoryManager_Deinit, TakeBack, HeapInv
<1>8. ASSUME NEW u \in Users,
             MemoryManager_GetSharedBuffer(u) \/ MemoryManager_ReleaseSharedBuffer(u)
      PROVE  HeapInv'
  BY <1>8 DEF MemoryManager_GetSharedBuffer, MemoryManager_ReleaseSharedBuffer, HeapInv
<1>9. CASE Reset
  BY <1>9 DEF Reset, HeapInv
<1>10. CASE UNCHANGED vars
  BY <1>10 DEF vars, HeapInv
<1> QED BY <1>1, <1>2, <1>3, <1>4, <1>5, <1>6, <1>7, <1>8, <1>9, <1>10 DEF Next

LEMMA SharedStep ==
  ASSUME SharedInv, [Next]_vars
  PROVE  SharedInv'
<1>1. CASE MemoryManager_Init \/ MemoryManager_Deinit
  BY <1>1 DEF MemoryManager_Init, MemoryManager_Deinit, TakeBack, SharedInv,
     SharedBufferExclusive
<1>2. ASSUME NEW u \in Users, MemoryManager_GetSharedBuffer(u)
      PROVE  SharedInv'
  <2>1. /\ ~shared_buffer_in_use /\ shared_buffer_in_use' = TRUE
        /\ holders' = holders \cup {u} /\ evicted' = evicted \ {u}
    BY <1>2 DEF MemoryManager_GetSharedBuffer
  <2>2. holders' \ evicted' = {u}
    BY <2>1 DEF SharedInv, SharedBufferExclusive
  <2> QED BY <2>1, <2>2 DEF SharedInv, SharedBufferExclusive
<1>3. ASSUME NEW u \in Users, MemoryManager_ReleaseSharedBuffer(u)
      PROVE  SharedInv'
  BY <1>3 DEF MemoryManager_ReleaseSharedBuffer, SharedInv, SharedBufferExclusive
<1>4. CASE Reset
  BY <1>4 DEF Reset, SharedInv, SharedBufferExclusive
<1>5. CASE UNCHANGED sharedVars
  BY <1>5 DEF sharedVars, SharedInv, SharedBufferExclusive
<1> QED BY <1>1, <1>2, <1>3, <1>4, <1>5 DEF Next, vars, sharedVars, CommunicationManager_Init,
       CommunicationManager_Deinit, CRC_Validate, CRC_ValidateEnds,
       UpdateManager_StartFirmwareUpdate, UpdateManager_EndFirmwareUpdate

LEMMA AlwaysIInv == Spec => []IInv
<1>1. Init => IInv  BY InitIInv, Parts
<1>2. IInv /\ [Next]_vars => IInv'
  <2>1. (IInv <=> HeapInv /\ SharedInv)'  BY Parts, PTL
  <2> QED BY <2>1, Parts, HeapStep, SharedStep
<1> QED BY <1>1, <1>2, PTL DEF Spec

\* Every variable keeps its type (memory_manager.c).
THEOREM MemoryTyped == Spec => []MemoryTypeOK
<1>1. IInv => MemoryTypeOK  BY DEF IInv
<1> QED BY <1>1, AlwaysIInv, PTL

\* No buffer is freed under its owner, freed twice or handed out twice
\* (MemoryManager_Allocate, MemoryManager_Free and their callers).
THEOREM NothingDangles == Spec => []NoDanglingBuffer
<1>1. IInv => NoDanglingBuffer  BY DEF IInv
<1> QED BY <1>1, AlwaysIInv, PTL

\* With CommunicationManager_Init and Deinit in pairs nothing leaks and
\* CRC_Validate always has its buffer, in a heap of two blocks already.
THEOREM NoLeakWhenPaired == Spec => []PairedNeverLeaks
<1>1. IInv => PairedNeverLeaks  BY DEF IInv
<1> QED BY <1>1, AlwaysIInv, PTL

\* No firmware update ever gets its buffer (memory_manager.c:80).
THEOREM UpdateNeverBuffered == Spec => []UpdateBufferRefused
<1>1. IInv => UpdateBufferRefused  BY DEF IInv
<1> QED BY <1>1, AlwaysIInv, PTL

\* At most one user holds the shared buffer under whom nobody else released it
\* (memory_manager.c:64).
THEOREM SharedBufferOwned == Spec => []SharedBufferExclusive
<1>1. IInv => SharedBufferExclusive  BY DEF IInv
<1> QED BY <1>1, AlwaysIInv, PTL
=============================================================================
