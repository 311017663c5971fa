------------------------------- MODULE BootApi -------------------------------
(***************************************************************************)
(* The bootloader core, the partition manager with its update flag, the    *)
(* state manager and the update manager (bootloader.c, partition_manager.c,*)
(* state_manager.c, update_manager.c) as a library: any program calls      *)
(* their functions in any order, without the start-up of main.             *)
(*                                                                         *)
(* A function that calls the flash driver is in progress while running     *)
(* names where it waits:                                                   *)
(*   firmware  Bootloader_FirmwareUpdate, its program                      *)
(*   session   UpdateManager_StartUpdate, its erase                        *)
(*   flag      one of the four functions that write the update flag        *)
(*   fault     the processor faulted                                       *)
(* The byte count of the update manager is only ever set to zero and is    *)
(* left out, and so is last_status, which no function but the one that     *)
(* sets it returns.                                                        *)
(***************************************************************************)
EXTENDS Bootloader

CONSTANTS
  Images,                      \* contents of firmware images
  UpdateFlags,                 \* values programs pass to Partition_SetUpdateFlag
  FirmwareSizes,               \* sizes programs pass, silly ones included
  PARTITION_FLAG_SPACE_START,  \* 0x3F000, within the page after the banks
  CRC_METADATA_SIZE,           \* 8
  UINT32_RANGE,                \* 2^32
  InitialFlash                 \* what the chip may hold when it is first powered

\* PARTITION_UPDATE_IN_PROGRESS has the value of PARTITION_VALID_FLAG.
PARTITION_UPDATE_IN_PROGRESS == PARTITION_VALID_FLAG
PARTITION_UPDATE_COMPLETE    == "update_complete"

BankEnd == PARTITION_INACTIVE_START + PARTITION_SIZE
UpdateFlagWord == PARTITION_FLAG_SPACE_START

ASSUME ApiAssumption ==
  /\ Blocks = Images \cup UpdateFlags \cup {PARTITION_UPDATE_COMPLETE}
  /\ PARTITION_FLAG_SPACE_START \in Nat /\ PARTITION_FLAG_SPACE_START % 4 = 0
  /\ BankEnd <= PARTITION_FLAG_SPACE_START
  /\ PARTITION_FLAG_SPACE_START + 4 <= FLASH_TOTAL_SIZE
  /\ CRC_METADATA_SIZE \in Nat /\ CRC_METADATA_SIZE <= PARTITION_SIZE
  /\ UINT32_RANGE \in Nat /\ UINT32_RANGE > 2 * FLASH_TOTAL_SIZE
  /\ FirmwareSizes \subseteq 0 .. UINT32_RANGE - 1
  /\ InitialFlash \subseteq Memory

VARIABLES
  update_in_progress, firmware_size,  \* the statics of update_manager.c
  size,      \* the argument of an UpdateManager_StartUpdate in progress
  running,   \* the function in progress
  lastFlag   \* history: the update flag last set with success, if it is the last

sessionVars == <<update_in_progress, firmware_size, size>>
apiVars == <<flash, call, bootloaderVars, sessionVars, running, lastFlag>>

Unknown == "unknown"

ApiTypeOK ==
  /\ FlashTypeOK
  /\ BootloaderTypeOK
  /\ update_in_progress \in BOOLEAN
  /\ firmware_size \in Nat /\ size \in Nat
  /\ running \in {"none", "firmware", "session", "flag", "fault"}
  /\ lastFlag \in WordValues \cup {Unknown}

----------------------------------------------------------------------------

Init ==
  /\ flash \in InitialFlash
  /\ call = NoCall
  /\ active_flag = RamAtReset.active_flag /\ inactive_flag = RamAtReset.inactive_flag
  /\ current_state = RamAtReset.current_state /\ last_error = RamAtReset.last_error
  /\ update_in_progress = FALSE /\ firmware_size = 0 /\ size = 0
  /\ running = "none"
  /\ lastFlag = flash[UpdateFlagWord]

\* A power failure, and RebootManager_Reboot: nothing but the flash survives.
PowerLoss ==
  /\ BootloaderReset
  /\ update_in_progress' = FALSE /\ firmware_size' = 0 /\ size' = 0
  /\ call' = NoCall /\ running' = "none"
  /\ UNCHANGED <<flash, lastFlag>>

FlashCall ==
  /\ running # "none" /\ FlashStep
  /\ UNCHANGED <<bootloaderVars, sessionVars, running, lastFlag>>

Await(place, flashCall) == running = "none" /\ running' = place /\ call' = flashCall

Back(place) == running = place /\ call.step = "done" /\ running' = "none" /\ call' = NoCall

\* A function of the core or of the partition manager that only changes RAM.
CoreOnly == running = "none" /\ UNCHANGED <<flash, call, sessionVars, running, lastFlag>>

----------------------------------------------------------------------------
\* bootloader.c and state_manager.c

SetError(error) == last_error' = error /\ current_state' = "BOOTLOADER_ERROR"

\* A firmware that cannot fit the bank is refused; one that is longer than a
\* page is refused by the driver.
FirmwareRefused(n) ==
  /\ n > PARTITION_SIZE
  /\ CoreOnly
  /\ SetError("BOOTLOADER_ERR_FW_UPDATE_FAIL")
  /\ UNCHANGED partitionVars

Bootloader_FirmwareUpdate(image, n) ==
  /\ n <= PARTITION_SIZE
  /\ Await("firmware", Flash_ProgramPage(PARTITION_INACTIVE_START, image, n))
  /\ UNCHANGED <<flash, bootloaderVars, sessionVars, lastFlag>>

FirmwareReturn ==
  /\ Back("firmware")
  /\ IF Returned("FLASH_SUCCESS")
     THEN current_state' = "BOOTLOADER_UPDATE" /\ UNCHANGED last_error
     ELSE SetError("BOOTLOADER_ERR_FW_UPDATE_FAIL")
  /\ UNCHANGED <<flash, partitionVars, sessionVars, lastFlag>>

\* Built without USE_CRC_VALIDATION, which no build file defines.
Bootloader_ValidateAndBoot ==
  /\ CoreOnly
  /\ IF Partition_IsValid(active_flag)
     THEN current_state' = "BOOTLOADER_BOOT" /\ UNCHANGED last_error
     ELSE /\ current_state' = "BOOTLOADER_ROLLBACK"
          /\ last_error' = "BOOTLOADER_ERR_FW_UPDATE_FAIL"
  /\ UNCHANGED partitionVars

\* StateManager_Init is StateManager_SetState(BOOTLOADER_BOOT); a value that is
\* no state is refused.
StateManager_SetState(state) ==
  /\ CoreOnly
  /\ current_state' = state
  /\ UNCHANGED <<partitionVars, last_error>>

Core ==
  \/ CoreOnly /\ Bootloader_Init
  \/ CoreOnly /\ Bootloader_Rollback(last_error)
  \/ Bootloader_ValidateAndBoot
  \/ \E state \in bootloader_state_t : StateManager_SetState(state)
  \/ \E n \in FirmwareSizes :
       FirmwareRefused(n) \/ \E image \in Images : Bootloader_FirmwareUpdate(image, n)

----------------------------------------------------------------------------
\* partition_manager.c

PartitionInit ==
  /\ CoreOnly /\ Partition_Init
  /\ UNCHANGED <<current_state, last_error>>

PartitionSwitch ==
  /\ CoreOnly /\ Partition_IsValid(inactive_flag) /\ Partition_SwitchActive
  /\ UNCHANGED <<current_state, last_error>>

Partition_MarkRollback ==
  /\ CoreOnly
  /\ \/ active_flag' = PARTITION_INVALID_FLAG /\ UNCHANGED inactive_flag
     \/ inactive_flag' = PARTITION_INVALID_FLAG /\ UNCHANGED active_flag
  /\ UNCHANGED <<current_state, last_error>>

\* Partition_SetUpdateFlag, Partition_ClearUpdateFlag,
\* Partition_MarkUpdateInProgress and Partition_MarkUpdateComplete; the last
\* two drop the status.
FlagValues ==
  UpdateFlags \cup {PARTITION_INVALID_FLAG, PARTITION_UPDATE_IN_PROGRESS,
                    PARTITION_UPDATE_COMPLETE}

WriteUpdateFlag(value) ==
  /\ Await("flag", Flash_ProgramPage(PARTITION_FLAG_SPACE_START, value, 4))
  /\ lastFlag' = Unknown
  /\ UNCHANGED <<flash, bootloaderVars, sessionVars>>

FlagReturn ==
  /\ Back("flag")
  /\ lastFlag' = IF Returned("FLASH_SUCCESS") THEN call.data ELSE Unknown
  /\ UNCHANGED <<flash, bootloaderVars, sessionVars>>

Partitions ==
  \/ PartitionInit \/ PartitionSwitch \/ Partition_MarkRollback
  \/ \E value \in FlagValues : WriteUpdateFlag(value)

----------------------------------------------------------------------------
\* update_manager.c

EndSession == update_in_progress' = FALSE /\ firmware_size' = 0

\* UpdateManager_Init and, while an update is in progress, CancelUpdate.
UpdateManager_Reset ==
  /\ running = "none" /\ EndSession
  /\ UNCHANGED <<flash, call, bootloaderVars, size, running, lastFlag>>

\* Mutant: any size is taken.
SessionAccepted_AnySize(n) == ~update_in_progress

SessionAccepted(n) == ~update_in_progress /\ n <= PARTITION_SIZE

UpdateManager_StartUpdate(n) ==
  /\ SessionAccepted(n)
  /\ Await("session", Flash_ErasePage(PARTITION_INACTIVE_START))
  /\ size' = n
  /\ UNCHANGED <<flash, bootloaderVars, update_in_progress, firmware_size, lastFlag>>

SessionReturn ==
  /\ Back("session")
  /\ IF Returned("FLASH_SUCCESS")
     THEN update_in_progress' = TRUE /\ firmware_size' = size
     ELSE UNCHANGED <<update_in_progress, firmware_size>>
  /\ size' = 0
  /\ UNCHANGED <<flash, bootloaderVars, lastFlag>>

\* CRC_Validate reads firmware_size less the metadata, in 32 bits, from the
\* start of the bank.  Its verdict is open: valid ends the session, invalid
\* leaves it as it was; a failed allocation is invalid, too.
ReadsBeyond ==
  PARTITION_INACTIVE_START + ((firmware_size - CRC_METADATA_SIZE) % UINT32_RANGE)
    > FLASH_TOTAL_SIZE

UpdateManager_FinalizeUpdate ==
  /\ running = "none" /\ update_in_progress
  /\ \/ ReadsBeyond /\ running' = "fault" /\ UNCHANGED update_in_progress
     \/ ~ReadsBeyond /\ update_in_progress' = FALSE /\ UNCHANGED running
  /\ UNCHANGED <<flash, call, bootloaderVars, firmware_size, size, lastFlag>>

UpdateManager ==
  \/ UpdateManager_Reset \/ UpdateManager_FinalizeUpdate
  \/ \E n \in FirmwareSizes : UpdateManager_StartUpdate(n)

----------------------------------------------------------------------------

Returns == FirmwareReturn \/ FlagReturn \/ SessionReturn

Next == Core \/ Partitions \/ UpdateManager \/ FlashCall \/ Returns \/ PowerLoss

Spec == Init /\ [][Next]_apiVars

----------------------------------------------------------------------------
\* Properties.

\* No sequence of calls makes the RAM believe in a bank whose flag in the
\* flash is not valid, although the flags are copies, a switch sets one of
\* them, and updates, cancellations and failures happen in between: what
\* Bootloader_ValidateAndBoot boots is a bank that was marked valid
\* (Partition_Init, Partition_SwitchActive, Bootloader_Rollback).
FlagsOfTheFlash ==
  /\ Partition_IsValid(active_flag) => Partition_IsValid(flash[ActiveFlagWord])
  /\ Partition_IsValid(inactive_flag) => Partition_IsValid(flash[InactiveFlagWord])

\* No function changes more than the first page of the inactive bank and the
\* page of the update flag, whatever sizes are passed: in particular none
\* marks a bank valid or invalid in the flash (Bootloader_FirmwareUpdate,
\* UpdateManager_StartUpdate, Partition_SetUpdateFlag).
OnlyTwoPagesWritten ==
  [][\A w \in Words \ (PageWords(PARTITION_INACTIVE_START) \cup PageWords(UpdateFlagWord)) :
       flash'[w] = flash[w]]_apiVars

\* An update flag that was set with success is what Partition_GetUpdateFlag
\* reads, across resets and the other functions, until the next write of it
\* begins.
UpdateFlagKept == lastFlag # Unknown => flash[UpdateFlagWord] = lastFlag

\* A session never reads beyond the flash for a firmware that is at least as
\* long as the metadata, however calls were refused or failed before
\* (UpdateManager_StartUpdate, UpdateManager_FinalizeUpdate).
OverreadOnlyIfTiny ==
  update_in_progress /\ firmware_size >= CRC_METADATA_SIZE => ~ReadsBeyond
=============================================================================
