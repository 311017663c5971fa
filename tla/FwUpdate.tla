------------------------------ MODULE FwUpdate ------------------------------
(***************************************************************************)
(* The firmware update manager (fw_update_manager.c) with the CRC store of *)
(* crc.c, over the flash driver and the partition flags.                   *)
(*                                                                         *)
(* The manager is a library: here any program calls its functions, in any  *)
(* order, after the start-up that reads the flags.  A function that calls  *)
(* the flash driver is in progress while running names where it waits:     *)
(*   start   FWUpdateManager_StartUpdate, its erase                        *)
(*   chunk   FWUpdateManager_ProcessChunk, its program                     *)
(*   crc     FWUpdateManager_FinalizeUpdate, CRC_Store writing the CRC     *)
(*   mark    the same, CRC_Store writing the valid mark                    *)
(*   fault   the processor faulted                                         *)
(***************************************************************************)
EXTENDS Bootloader, Sequences

CONSTANTS
  Chunks,             \* contents of firmware chunks
  ChunkLengths,       \* lengths callers pass, silly ones included
  CRC_METADATA_SIZE,  \* 8
  UINT32_RANGE,       \* 2^32
  InitialFlash        \* what the chip may hold when it is first powered

\* The words CRC_Store writes: the CRC of a firmware, and VALID_MARK.
CrcValue   == "crc"
VALID_MARK == "mark"

ASSUME FwAssumption ==
  /\ Blocks = Chunks \cup {CrcValue, VALID_MARK}
  /\ {CrcValue, VALID_MARK} \cap Chunks = {}
  /\ CRC_METADATA_SIZE = 8 /\ CRC_METADATA_SIZE <= FLASH_PAGE_SIZE
  /\ UINT32_RANGE \in Nat /\ UINT32_RANGE > 2 * FLASH_TOTAL_SIZE
  /\ ChunkLengths \subseteq 0 .. UINT32_RANGE - 1
  /\ InitialFlash \subseteq [Words -> WordValues \ Blocks]

VARIABLES
  current_write_address, total_written_bytes,  \* the statics
  running,   \* the function in progress
  returned,  \* the last function to return, and what it returned
  bootFlag,  \* history: the inactive bank's flag when Partition_Init read it
  written    \* history: the chunks acknowledged since the bank was started

managerVars == <<current_write_address, total_written_bytes>>
fwVars == <<flash, call, bootloaderVars, managerVars, running, returned, bootFlag, written>>

BankEnd == PARTITION_INACTIVE_START + PARTITION_SIZE

CRC_METADATA_OFFSET == PARTITION_SIZE - CRC_METADATA_SIZE
CrcWord  == PARTITION_INACTIVE_START + CRC_METADATA_OFFSET
MarkWord == CrcWord + 4

Responses ==
  {"CMD_SUCCESS", "CMD_ERR_INVALID_COMMAND", "CMD_ERR_FLASH_OP_FAILED",
   "CMD_ERR_CRC_MISMATCH", "CMD_ERR_PARTITION_SWITCH_FAIL", "false", "true"}

Nothing == [from |-> "none", response |-> "CMD_SUCCESS"]

FwTypeOK ==
  /\ FlashTypeOK
  /\ BootloaderTypeOK
  /\ current_write_address \in Nat /\ total_written_bytes \in Nat
  /\ running \in {"none", "start", "chunk", "crc", "mark", "fault"}
  /\ returned \in [from : {"none", "start", "chunk", "finalize", "cancel", "verify"},
                   response : Responses]
  /\ bootFlag \in WordValues
  /\ written \in Seq([address : Words, data : Chunks, length : Nat])

----------------------------------------------------------------------------

\* The statics are initialised as FWUpdateManager_Init does; the program has
\* called Partition_Init.
Init ==
  /\ flash \in InitialFlash
  /\ call = NoCall
  /\ active_flag = flash[ActiveFlagWord] /\ inactive_flag = flash[InactiveFlagWord]
  /\ current_state = RamAtReset.current_state /\ last_error = RamAtReset.last_error
  /\ current_write_address = PARTITION_INACTIVE_START
  /\ total_written_bytes = 0
  /\ running = "none" /\ returned = Nothing
  /\ bootFlag = flash[InactiveFlagWord] /\ written = <<>>

Forget ==
  /\ current_write_address' = PARTITION_INACTIVE_START
  /\ total_written_bytes' = 0

\* Nothing but the flash survives.
PowerLoss ==
  /\ Partition_Init
  /\ current_state' = RamAtReset.current_state /\ last_error' = RamAtReset.last_error
  /\ Forget
  /\ call' = NoCall /\ running' = "none" /\ returned' = Nothing
  /\ bootFlag' = flash[InactiveFlagWord] /\ written' = <<>>
  /\ UNCHANGED flash

FlashCall ==
  /\ running # "none" /\ FlashStep
  /\ UNCHANGED <<bootloaderVars, managerVars, running, returned, bootFlag, written>>

\* A function returns to its caller.
Respond(function, response) ==
  /\ running' = "none"
  /\ call' = NoCall
  /\ returned' = [from |-> function, response |-> response]

\* A function waits for the driver.
Await(place, flashCall) ==
  /\ running' = place
  /\ call' = flashCall
  /\ returned' = Nothing

Back(place) == running = place /\ call.step = "done"

FWUpdateManager_Init ==
  /\ running = "none"
  /\ Forget /\ written' = <<>>
  /\ UNCHANGED <<flash, call, bootloaderVars, running, returned, bootFlag>>

FWUpdateManager_StartUpdate ==
  /\ running = "none"
  /\ Await("start", Flash_ErasePage(PARTITION_INACTIVE_START))
  /\ written' = <<>>
  /\ UNCHANGED <<flash, bootloaderVars, managerVars, bootFlag>>

\* Mutant: the byte count of the update before is kept.
StartReturn_CountKept ==
  /\ Back("start")
  /\ IF Returned("FLASH_SUCCESS")
     THEN /\ current_write_address' = PARTITION_INACTIVE_START
          /\ UNCHANGED total_written_bytes
          /\ Respond("start", "CMD_SUCCESS")
     ELSE UNCHANGED managerVars /\ Respond("start", "CMD_ERR_FLASH_OP_FAILED")
  /\ UNCHANGED <<flash, bootloaderVars, bootFlag, written>>

StartReturn ==
  /\ Back("start")
  /\ IF Returned("FLASH_SUCCESS")
     THEN Forget /\ Respond("start", "CMD_SUCCESS")
     ELSE UNCHANGED managerVars /\ Respond("start", "CMD_ERR_FLASH_OP_FAILED")
  /\ UNCHANGED <<flash, bootloaderVars, bootFlag, written>>

\* Mutant: only where the chunk begins is tested.
Exceeds_StartOnly(length) == current_write_address > BankEnd

\* The 32-bit sum of ProcessChunk's bound; a huge length wraps and passes it.
Exceeds(length) == (current_write_address + length) % UINT32_RANGE > BankEnd

ChunkRefused(length) ==
  /\ running = "none"
  /\ length = 0 \/ Exceeds(length)
  /\ Respond("chunk", IF length = 0 THEN "CMD_ERR_INVALID_COMMAND" ELSE "CMD_ERR_FLASH_OP_FAILED")
  /\ UNCHANGED <<flash, bootloaderVars, managerVars, bootFlag, written>>

FWUpdateManager_ProcessChunk(data, length) ==
  /\ running = "none"
  /\ length # 0 /\ ~Exceeds(length)
  /\ Await("chunk", Flash_ProgramPage(current_write_address, data, length))
  /\ UNCHANGED <<flash, bootloaderVars, managerVars, bootFlag, written>>

ChunkReturn ==
  /\ Back("chunk")
  /\ IF Returned("FLASH_SUCCESS")
     THEN /\ current_write_address' = current_write_address + call.length
          /\ total_written_bytes' = total_written_bytes + call.length
          /\ written' = Append(written, [address |-> call.address, data |-> call.data,
                                         length |-> call.length])
          /\ Respond("chunk", "CMD_SUCCESS")
     ELSE UNCHANGED <<managerVars, written>> /\ Respond("chunk", "CMD_ERR_FLASH_OP_FAILED")
  /\ UNCHANGED <<flash, bootloaderVars, bootFlag>>

\* The length CRC_UpdateExpected and CRC_Validate compute; from it on they
\* read that many bytes of the bank, whether or not the flash has them.
CrcLength == (total_written_bytes - CRC_METADATA_SIZE) % UINT32_RANGE
ReadsBeyond == PARTITION_INACTIVE_START + CrcLength > FLASH_TOTAL_SIZE

ReadFault ==
  /\ running = "none" /\ ReadsBeyond
  /\ running' = "fault" /\ returned' = Nothing
  /\ UNCHANGED <<flash, call, bootloaderVars, managerVars, bootFlag, written>>

\* CRC_UpdateExpected computes the CRC and CRC_Store writes it first.
FWUpdateManager_FinalizeUpdate ==
  /\ running = "none" /\ ~ReadsBeyond
  /\ Await("crc", Flash_ProgramPage(CrcWord, CrcValue, 4))
  /\ UNCHANGED <<flash, bootloaderVars, managerVars, bootFlag, written>>

CrcReturn ==
  /\ Back("crc")
  /\ IF Returned("FLASH_SUCCESS")
     THEN Await("mark", Flash_ProgramPage(MarkWord, VALID_MARK, 4))
     ELSE Respond("finalize", "CMD_ERR_CRC_MISMATCH")
  /\ UNCHANGED <<flash, bootloaderVars, managerVars, bootFlag, written>>

\* Mutant: the switch is made whatever Partition_Validate says.
MarkReturn_Unvalidated ==
  /\ Back("mark")
  /\ IF Returned("FLASH_SUCCESS")
     THEN Partition_SwitchActive /\ Respond("finalize", "CMD_SUCCESS")
     ELSE UNCHANGED partitionVars /\ Respond("finalize", "CMD_ERR_CRC_MISMATCH")
  /\ UNCHANGED <<flash, current_state, last_error, managerVars, bootFlag, written>>

\* FinalizeUpdate drops the result of Partition_Validate; Partition_SwitchActive
\* asks it again.
MarkReturn ==
  /\ Back("mark")
  /\ IF Returned("FLASH_SUCCESS")
     THEN IF Partition_IsValid(inactive_flag)
          THEN Partition_SwitchActive /\ Respond("finalize", "CMD_SUCCESS")
          ELSE UNCHANGED partitionVars /\ Respond("finalize", "CMD_ERR_PARTITION_SWITCH_FAIL")
     ELSE UNCHANGED partitionVars /\ Respond("finalize", "CMD_ERR_CRC_MISMATCH")
  /\ UNCHANGED <<flash, current_state, last_error, managerVars, bootFlag, written>>

\* Partition_MarkRollback(PARTITION_INACTIVE) clears the RAM flag.
FWUpdateManager_CancelUpdate ==
  /\ running = "none"
  /\ Forget /\ written' = <<>>
  /\ inactive_flag' = PARTITION_INVALID_FLAG
  /\ Respond("cancel", "CMD_SUCCESS")
  /\ UNCHANGED <<flash, active_flag, current_state, last_error, bootFlag>>

\* The verdict of CRC_Validate, over values the model does not keep, is open;
\* without a buffer it is false before anything is read.
FWUpdateManager_VerifyIntegrity ==
  /\ running = "none"
  /\ \E answer \in {"true", "false"} :
       /\ answer = "true" => Partition_IsValid(inactive_flag) /\ ~ReadsBeyond
       /\ Respond("verify", answer)
  /\ UNCHANGED <<flash, bootloaderVars, managerVars, bootFlag, written>>

Returns == StartReturn \/ ChunkReturn \/ CrcReturn \/ MarkReturn

Calls ==
  \/ FWUpdateManager_Init \/ FWUpdateManager_StartUpdate
  \/ \E length \in ChunkLengths :
       ChunkRefused(length) \/ \E data \in Chunks : FWUpdateManager_ProcessChunk(data, length)
  \/ FWUpdateManager_FinalizeUpdate \/ ReadFault
  \/ FWUpdateManager_CancelUpdate \/ FWUpdateManager_VerifyIntegrity

Next == FlashCall \/ Returns \/ Calls \/ PowerLoss

Spec == Init /\ [][Next]_fwVars

----------------------------------------------------------------------------
\* Properties.

\* The two statics always agree, and stay within the bank although a huge
\* length wraps past the test of ProcessChunk: such a chunk is longer than a
\* page and the driver refuses it (ProcessChunk, Flash_ProgramPage).
CountersAgree ==
  /\ current_write_address = PARTITION_INACTIVE_START + total_written_bytes
  /\ current_write_address <= BankEnd

\* A chunk that was acknowledged is in the flash until its page is erased for
\* another: a caller whose chunks are whole pages, and begin on one, keeps all
\* of them, but for the last page of the bank, which CRC_Store erases; through
\* errors, retries, refused chunks and failed calls.  Whole pages alone are not
\* enough: a StartUpdate that failed keeps the address of the update before,
\* which may lie inside a page (ProcessChunk, fw_update_manager.c:28).
LastPage == PageWords(CrcWord)
WholePagesKept ==
  (\A i \in 1 .. Len(written) :
     written[i].length = FLASH_PAGE_SIZE /\ written[i].address % FLASH_PAGE_SIZE = 0)
  => \A i \in 1 .. Len(written) :
       Holds(flash, BlockWords(written[i].address, written[i].length) \ LastPage, written[i].data)

Finalized == returned = [from |-> "finalize", response |-> "CMD_SUCCESS"]

\* FinalizeUpdate succeeds only where the bank was marked valid before the
\* update: nothing in the manager marks a bank valid, and the flag it tests is
\* the one Partition_Init read (Partition_Validate, Partition_SwitchActive).
OldFlagDecides == Finalized => bootFlag = PARTITION_VALID_FLAG

\* After FinalizeUpdate reports success the stored CRC is erased and the valid
\* mark stands where Partition_Init looks for the validation flag: the next
\* start finds the bank invalid, and CRC_Validate finds no CRC, although crc.c:83
\* says the CRC is stored and fw_update_manager.c:78 that the update completed
\* (CRC_Store writes two blocks of one page).
FinalizeSpoilsBank ==
  Finalized => flash[CrcWord] = Erased /\ flash[InactiveFlagWord] = VALID_MARK

\* The manager never writes a word outside the inactive bank, whatever the
\* lengths and the sequence of calls.
RunningBankUntouched ==
  [][\A w \in Words \ PartitionWords(PARTITION_INACTIVE_START) : flash'[w] = flash[w]]_fwVars
=============================================================================
