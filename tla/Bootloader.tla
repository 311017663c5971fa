----------------------------- MODULE Bootloader -----------------------------
(***************************************************************************)
(* The bootloader's view of the two firmware banks (partition_manager.c),  *)
(* its global state (state_manager.c) and the operations on both           *)
(* (bootloader.c).                                                         *)
(*                                                                         *)
(* The flags are RAM copies, read from the flash by Partition_Init only.   *)
(* The operators below describe the primed values of these four variables; *)
(* the program that calls them is in the modules that extend this one.     *)
(***************************************************************************)
EXTENDS Flash

VARIABLES
  active_flag,    \* active_partition.validation_flag
  inactive_flag,  \* inactive_partition.validation_flag
  current_state,  \* the global of state_manager.c
  last_error      \* the static of bootloader.c

partitionVars  == <<active_flag, inactive_flag>>
bootloaderVars == <<active_flag, inactive_flag, current_state, last_error>>

bootloader_state_t ==
  {"BOOTLOADER_IDLE", "BOOTLOADER_BOOT", "BOOTLOADER_UPDATE",
   "BOOTLOADER_VALIDATE", "BOOTLOADER_ROLLBACK", "BOOTLOADER_ERROR"}

bootloader_error_t ==
  {"BOOTLOADER_NO_ERROR", "BOOTLOADER_ERR_NO_VALID_FW",
   "BOOTLOADER_ERR_FW_UPDATE_FAIL", "BOOTLOADER_ERR_PARTITION_SWITCH_FAIL",
   "BOOTLOADER_ERR_CRC_MISMATCH", "BOOTLOADER_ERR_MEMORY_INIT_FAIL"}

BootloaderTypeOK ==
  /\ active_flag \in WordValues
  /\ inactive_flag \in WordValues
  /\ current_state \in bootloader_state_t
  /\ last_error \in bootloader_error_t

\* The initial values of the statics, restored by every reset.
RamAtReset ==
  [active_flag   |-> PARTITION_INVALID_FLAG,
   inactive_flag |-> PARTITION_INVALID_FLAG,
   current_state |-> "BOOTLOADER_BOOT",
   last_error    |-> "BOOTLOADER_NO_ERROR"]

BootloaderReset ==
  /\ active_flag' = RamAtReset.active_flag
  /\ inactive_flag' = RamAtReset.inactive_flag
  /\ current_state' = RamAtReset.current_state
  /\ last_error' = RamAtReset.last_error

----------------------------------------------------------------------------
\* partition_manager.c

ActiveFlagWord   == FlagWord(PARTITION_ACTIVE_START)
InactiveFlagWord == FlagWord(PARTITION_INACTIVE_START)

\* Partition_Validate and Partition_IsValid test the RAM copy of the flag and
\* nothing else.
Partition_IsValid(validation_flag) == validation_flag = PARTITION_VALID_FLAG

\* Mutant: the active flag is loaded from the inactive bank.
Partition_Init_Swapped ==
  /\ active_flag' = flash[InactiveFlagWord]
  /\ inactive_flag' = flash[InactiveFlagWord]

Partition_Init ==
  /\ active_flag' = flash[ActiveFlagWord]
  /\ inactive_flag' = flash[InactiveFlagWord]

\* Mutant: the flags change places, as a switch of the banks would have it.
Partition_SwitchActive_Exchange ==
  /\ active_flag' = inactive_flag
  /\ inactive_flag' = PARTITION_INVALID_FLAG

\* What Partition_SwitchActive assigns once the inactive flag is found valid;
\* without that it returns false and assigns nothing.  The start addresses
\* of the two partitions stay where they are.
Partition_SwitchActive ==
  /\ active_flag' = PARTITION_INVALID_FLAG
  /\ inactive_flag' = PARTITION_VALID_FLAG

----------------------------------------------------------------------------
\* bootloader.c

\* StateManager_Init, Partition_Init and the verdict on the two flags.  The
\* error of the last branch is overruled by BOOTLOADER_IDLE at once.
Bootloader_Init ==
  /\ Partition_Init
  /\ current_state' = CASE Partition_IsValid(active_flag') -> "BOOTLOADER_BOOT"
                        [] ~Partition_IsValid(active_flag')
                             /\ Partition_IsValid(inactive_flag') -> "BOOTLOADER_ROLLBACK"
                        [] OTHER -> "BOOTLOADER_IDLE"
  /\ last_error' = IF current_state' = "BOOTLOADER_IDLE"
                   THEN "BOOTLOADER_ERR_NO_VALID_FW" ELSE last_error

\* Mutant: SetError leaves BOOTLOADER_ERROR behind when the rollback fails.
Bootloader_Rollback_Error(error) ==
  LET switched == Partition_IsValid(inactive_flag)
  IN /\ IF switched THEN Partition_SwitchActive ELSE UNCHANGED partitionVars
     /\ IF switched /\ Partition_IsValid(active_flag')
        THEN current_state' = "BOOTLOADER_BOOT" /\ last_error' = error
        ELSE /\ current_state' = "BOOTLOADER_ERROR"
             /\ last_error' = IF switched THEN "BOOTLOADER_ERR_NO_VALID_FW"
                              ELSE "BOOTLOADER_ERR_PARTITION_SWITCH_FAIL"

\* Mutant: the rollback answers for the switch without looking at the
\* partition it switched to.
Bootloader_Rollback_Trusting(error) ==
  IF Partition_IsValid(inactive_flag)
  THEN Partition_SwitchActive /\ current_state' = "BOOTLOADER_BOOT" /\ last_error' = error
  ELSE /\ current_state' = "BOOTLOADER_IDLE"
       /\ last_error' = "BOOTLOADER_ERR_PARTITION_SWITCH_FAIL"
       /\ UNCHANGED partitionVars

\* Switch, validate the active partition, and boot or fall back to idle.
\* error is what last_error holds on entry.
Bootloader_Rollback(error) ==
  LET switched == Partition_IsValid(inactive_flag)
  IN /\ IF switched THEN Partition_SwitchActive ELSE UNCHANGED partitionVars
     /\ IF switched /\ Partition_IsValid(active_flag')
        THEN current_state' = "BOOTLOADER_BOOT" /\ last_error' = error
        ELSE /\ current_state' = "BOOTLOADER_IDLE"
             /\ last_error' = IF switched THEN "BOOTLOADER_ERR_NO_VALID_FW"
                              ELSE "BOOTLOADER_ERR_PARTITION_SWITCH_FAIL"
=============================================================================
