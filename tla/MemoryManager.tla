--------------------------- MODULE MemoryManager ---------------------------
(***************************************************************************)
(* The memory manager (memory_manager.c) and those who allocate from it:   *)
(* CommunicationManager_Init and Deinit (communication_manager.c),         *)
(* CRC_Validate (crc.c) and the update buffer; and the one shared buffer,  *)
(* which Bootloader_Init and Bootloader_ValidateAndBoot take back through  *)
(* MemoryManager_Init and MemoryManager_Deinit.  Each function may be      *)
(* called at any time, except during CRC_Validate, which holds its buffer  *)
(* while it runs.                                                          *)
(*                                                                         *)
(* The allocator of the C library is external: a heap of equal blocks that *)
(* returns NULL only when all of them are live.                            *)
(***************************************************************************)
EXTENDS Integers

CONSTANTS
  Block,  \* what the heap has room for
  NULL,
  Users   \* parts of the program that use the shared buffer

ASSUME MemoryAssumption ==
  /\ NULL \notin Block
  /\ \E b, c \in Block : b # c

MEMORY_BUFFER_SIZE == 1024
UPDATE_BUFFER_SIZE == 4096
CHUNK_SIZE         == 512
COMM_BUFFER_SIZE   == 1     \* the second name of an enumeration of status codes

VARIABLES
  heap,                  \* the live blocks
  comm_buffer, update_buffer,
  crc_buffer,            \* the local of CRC_Validate while it runs
  refused,               \* the last CRC_Validate had no buffer and answered false
  paired,                \* history: no CommunicationManager_Init over a buffer
  shared_buffer_in_use,
  holders,               \* history: who was given the shared buffer and has not released it
  evicted                \* history: the holders under whom somebody else released it

vars == <<heap, comm_buffer, update_buffer, crc_buffer, refused, paired,
          shared_buffer_in_use, holders, evicted>>
sharedVars == <<shared_buffer_in_use, holders, evicted>>

Init ==
  /\ heap = {} /\ comm_buffer = NULL /\ update_buffer = NULL /\ crc_buffer = NULL
  /\ refused = FALSE /\ paired = TRUE
  /\ shared_buffer_in_use = FALSE /\ holders = {} /\ evicted = {}

----------------------------------------------------------------------------
\* The heap.

\* Mutant: the upper limit is gone.
Allocate_NoLimit(size, buffer) ==
  IF size # 0 /\ heap # Block
  THEN buffer \in Block \ heap /\ heap' = heap \cup {buffer}
  ELSE buffer = NULL /\ UNCHANGED heap

\* Mutant: what malloc returned is not looked at.
Allocate_Untested(size, buffer) ==
  IF size \in 1 .. MEMORY_BUFFER_SIZE
  THEN buffer \notin heap /\ heap' = heap \cup {buffer}
  ELSE buffer = NULL /\ UNCHANGED heap

\* MemoryManager_Allocate returns buffer.
Allocate(size, buffer) ==
  IF size \in 1 .. MEMORY_BUFFER_SIZE /\ heap # Block
  THEN buffer \in Block \ heap /\ heap' = heap \cup {buffer}
  ELSE buffer = NULL /\ UNCHANGED heap

\* MemoryManager_Free, which does nothing to NULL.
Free(buffer) == heap' = heap \ {buffer}

\* No call runs inside CRC_Validate.
Called == crc_buffer = NULL

CommunicationManager_Init ==
  /\ Called
  /\ \E b \in Block \cup {NULL} : Allocate(COMM_BUFFER_SIZE, b) /\ comm_buffer' = b
  /\ paired' = (paired /\ comm_buffer = NULL)
  /\ UNCHANGED <<update_buffer, crc_buffer, refused, sharedVars>>

\* Mutant: the pointer survives the buffer.
CommunicationManager_Deinit_Dangling ==
  /\ Called
  /\ Free(comm_buffer)
  /\ UNCHANGED <<comm_buffer, update_buffer, crc_buffer, refused, paired, sharedVars>>

\* Mutant: the pointer is forgotten, not freed.
CommunicationManager_Deinit_Forgets ==
  /\ Called
  /\ comm_buffer' = NULL
  /\ UNCHANGED <<heap, update_buffer, crc_buffer, refused, paired, sharedVars>>

CommunicationManager_Deinit ==
  /\ Called
  /\ Free(comm_buffer) /\ comm_buffer' = NULL
  /\ UNCHANGED <<update_buffer, crc_buffer, refused, paired, sharedVars>>

\* CRC_Validate takes its buffer, or returns false without one.
CRC_Validate ==
  /\ Called
  /\ \E b \in Block \cup {NULL} :
       Allocate(CHUNK_SIZE, b) /\ crc_buffer' = b /\ refused' = (b = NULL)
  /\ UNCHANGED <<comm_buffer, update_buffer, paired, sharedVars>>

CRC_ValidateEnds ==
  /\ ~Called
  /\ Free(crc_buffer) /\ crc_buffer' = NULL
  /\ UNCHANGED <<comm_buffer, update_buffer, refused, paired, sharedVars>>

UpdateManager_StartFirmwareUpdate ==
  /\ Called
  /\ \E b \in Block \cup {NULL} : Allocate(UPDATE_BUFFER_SIZE, b) /\ update_buffer' = b
  /\ UNCHANGED <<comm_buffer, crc_buffer, refused, paired, sharedVars>>

UpdateManager_EndFirmwareUpdate ==
  /\ Called
  /\ Free(update_buffer) /\ update_buffer' = NULL
  /\ UNCHANGED <<comm_buffer, crc_buffer, refused, paired, sharedVars>>

----------------------------------------------------------------------------
\* The shared buffer.

\* MemoryManager_Init and MemoryManager_Deinit: whoever holds it loses it.
TakeBack ==
  /\ Called
  /\ shared_buffer_in_use' = FALSE
  /\ evicted' = holders
  /\ UNCHANGED <<heap, comm_buffer, update_buffer, crc_buffer, refused, paired, holders>>

MemoryManager_Init   == TakeBack
MemoryManager_Deinit == TakeBack

\* Mutant: the flag is not tested.
MemoryManager_GetSharedBuffer_Always(u) ==
  /\ Called
  /\ shared_buffer_in_use' = TRUE
  /\ holders' = holders \cup {u} /\ evicted' = evicted \ {u}
  /\ UNCHANGED <<heap, comm_buffer, update_buffer, crc_buffer, refused, paired>>

\* A call that finds the buffer in use returns NULL and changes nothing.
MemoryManager_GetSharedBuffer(u) ==
  /\ Called
  /\ ~shared_buffer_in_use
  /\ shared_buffer_in_use' = TRUE
  /\ holders' = holders \cup {u} /\ evicted' = evicted \ {u}
  /\ UNCHANGED <<heap, comm_buffer, update_buffer, crc_buffer, refused, paired>>

\* Nobody asks who releases it.
MemoryManager_ReleaseSharedBuffer(u) ==
  /\ Called
  /\ shared_buffer_in_use' = FALSE
  /\ holders' = holders \ {u} /\ evicted' = holders \ {u}
  /\ UNCHANGED <<heap, comm_buffer, update_buffer, crc_buffer, refused, paired>>

----------------------------------------------------------------------------

\* A reset, also in the middle of CRC_Validate.
Reset ==
  /\ heap' = {} /\ comm_buffer' = NULL /\ update_buffer' = NULL /\ crc_buffer' = NULL
  /\ refused' = FALSE /\ paired' = TRUE
  /\ shared_buffer_in_use' = FALSE /\ holders' = {} /\ evicted' = {}

Next ==
  \/ CommunicationManager_Init \/ CommunicationManager_Deinit
  \/ CRC_Validate \/ CRC_ValidateEnds
  \/ UpdateManager_StartFirmwareUpdate \/ UpdateManager_EndFirmwareUpdate
  \/ MemoryManager_Init \/ MemoryManager_Deinit
  \/ \E u \in Users :
       MemoryManager_GetSharedBuffer(u) \/ MemoryManager_ReleaseSharedBuffer(u)
  \/ Reset

Spec == Init /\ [][Next]_vars

----------------------------------------------------------------------------
\* Properties.

MemoryTypeOK ==
  /\ heap \subseteq Block
  /\ comm_buffer \in Block \cup {NULL} /\ update_buffer \in Block \cup {NULL}
  /\ crc_buffer \in Block \cup {NULL}
  /\ refused \in BOOLEAN /\ paired \in BOOLEAN /\ shared_buffer_in_use \in BOOLEAN
  /\ holders \subseteq Users /\ evicted \subseteq holders

\* A block that is live although nobody has its address.
Lost == heap \ {comm_buffer, update_buffer, crc_buffer}

\* Pointers point at live blocks, and no two at the same one: a buffer is not
\* freed under its owner, not freed twice and not handed out twice
\* (MemoryManager_Allocate, MemoryManager_Free and their callers).
NoDanglingBuffer ==
  /\ {comm_buffer, update_buffer, crc_buffer} \subseteq heap \cup {NULL}
  /\ comm_buffer # NULL => comm_buffer \notin {update_buffer, crc_buffer}
  /\ update_buffer # NULL => update_buffer # crc_buffer

\* As long as CommunicationManager_Init is not called over a buffer it
\* allocated before, nothing leaks and CRC_Validate never calls a firmware
\* invalid for want of memory (communication_manager.c:22, crc.c:39).
PairedNeverLeaks == paired => Lost = {} /\ ~refused

\* No firmware update ever gets its buffer, however much memory is free: 4096
\* bytes exceed the size of the shared buffer, which bounds what
\* MemoryManager_Allocate gives (memory_manager.c:83).
UpdateBufferRefused == update_buffer = NULL

\* The flag says whether somebody holds the shared buffer under whom nobody
\* else released it, and there is at most one: two use it at once only after a
\* release by a third, an Init or a Deinit took it from the first
\* (memory_manager.c:76).
SharedBufferExclusive ==
  /\ shared_buffer_in_use <=> holders \ evicted # {}
  /\ \A u, v \in holders \ evicted : u = v
=============================================================================
