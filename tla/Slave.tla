------------------------------- MODULE Slave -------------------------------
(***************************************************************************)
(* The slave's program: the start-up and the main loop of main.c, the      *)
(* command loop ProcessI2CCommands, and the handlers of                    *)
(* command_handler.c, on top of the bootloader and the flash driver.       *)
(*                                                                         *)
(* One thread runs everything, so pc says where it is:                     *)
(*   simulate  SimulateValidFirmware, its flash call running               *)
(*   init      about to call Bootloader_Init                               *)
(*   loop      at the switch of main                                       *)
(*   receive   blocked in I2C_Receive                                      *)
(*   dispatch  about to run the handler of buffer.command                  *)
(*   flash     in a handler, its flash call running                        *)
(*   send      about to call I2C_Send                                      *)
(*   fault     in the HardFault handler, which spins                       *)
(* The master is any master here: it may send any frame at any time.       *)
(***************************************************************************)
EXTENDS Bootloader, Sequences

CONSTANTS
  I2C_BUFFER_SIZE,    \* 1024: the command byte and the payload
  CRC_METADATA_SIZE,  \* 8
  UINT32_RANGE,       \* 2^32, the range of the unsigned subtraction
  Chunks,             \* contents a master may put in a frame
  Mixed,              \* a payload that is partly or wholly left-over bytes
  DELIVERIES,         \* how much of a frame ReadRXFIFO may return
  TX_FIFO_DEPTH,      \* responses the transmit FIFO holds
  InitialFlash        \* what the chip may hold when it is first powered

PayloadSize == I2C_BUFFER_SIZE - 1

ASSUME SlaveAssumption ==
  /\ I2C_BUFFER_SIZE \in Nat /\ I2C_BUFFER_SIZE % 4 = 0
  /\ CRC_METADATA_SIZE \in Nat \ {0}
  /\ CRC_METADATA_SIZE < PayloadSize
  /\ I2C_BUFFER_SIZE <= FLASH_PAGE_SIZE
  /\ UINT32_RANGE \in Nat /\ UINT32_RANGE > 2 * FLASH_TOTAL_SIZE
  /\ Mixed \notin Chunks /\ Blocks = Chunks \cup {Mixed}
  /\ DELIVERIES \subseteq {"none", "command", "partial", "full"}
  /\ TX_FIFO_DEPTH \in Nat \ {0}
  /\ InitialFlash \subseteq [Words -> WordValues \ Blocks]

VARIABLES
  pc,
  program_offset,  \* the static of command_handler.c
  buffer,          \* the receive buffer of ProcessI2CCommands, never cleared
  response,        \* the response of ProcessI2CCommands
  tx               \* the transmit FIFO of the I2C peripheral

commandVars == <<program_offset, buffer, response, tx>>
slaveVars   == <<flash, call, active_flag, inactive_flag, current_state,
                 last_error, pc, program_offset, buffer, response, tx>>

CMD_START_UPDATE    == 1
CMD_ERASE_PARTITION == 2
CMD_PROGRAM_PAGE    == 3
CMD_VALIDATE_CRC    == 4
CMD_MARK_ACTIVE     == 5
CMD_REBOOT          == 6
CMD_QUERY_STATUS    == 7
CMD_PING            == 16   \* 0x10, known to the master only

\* Every byte the handler tells apart; 0 and 0x10 are unknown to it.
Bytes == 0 .. 7 \cup {CMD_PING}

cmd_response_t ==
  {"CMD_SUCCESS", "CMD_ERR_INVALID_COMMAND", "CMD_ERR_FLASH_OP_FAILED",
   "CMD_ERR_CRC_MISMATCH", "CMD_ERR_PARTITION_SWITCH_FAIL",
   "CMD_ERR_PAYLOAD_SIZE_EXCEEDED"}

SlaveTypeOK ==
  /\ FlashTypeOK
  /\ BootloaderTypeOK
  /\ pc \in {"simulate", "init", "loop", "receive", "dispatch", "flash", "send", "fault"}
  /\ program_offset \in Nat
  /\ buffer \in [command : Bytes, payload : Blocks]
  /\ response \in cmd_response_t
  /\ tx \in Seq(cmd_response_t)

----------------------------------------------------------------------------
\* Power-on and reset.

SimulateValidFirmware ==
  Flash_ProgramPage(InactiveFlagWord, PARTITION_VALID_FLAG, 4)

NoBuffer == [command |-> 0, payload |-> Mixed]

Init ==
  /\ flash \in InitialFlash
  /\ call = SimulateValidFirmware
  /\ active_flag = RamAtReset.active_flag
  /\ inactive_flag = RamAtReset.inactive_flag
  /\ current_state = RamAtReset.current_state
  /\ last_error = RamAtReset.last_error
  /\ pc = "simulate"
  /\ program_offset = 0
  /\ buffer = NoBuffer
  /\ response = "CMD_SUCCESS"
  /\ tx = <<>>

\* The flash is all that survives; main starts again.
Reset ==
  /\ BootloaderReset
  /\ call' = SimulateValidFirmware
  /\ pc' = "simulate"
  /\ program_offset' = 0
  /\ buffer' = NoBuffer
  /\ response' = "CMD_SUCCESS"
  /\ tx' = <<>>
  /\ UNCHANGED flash

\* Power may fail between any two steps, a running flash call included.
PowerLoss == Reset

\* The flash call of the step the program is in goes on.
FlashCall ==
  /\ FlashStep
  /\ UNCHANGED <<bootloaderVars, pc, commandVars>>

\* main goes on whether or not the flag could be written.
SimulateReturn ==
  /\ pc = "simulate" /\ call.step = "done"
  /\ pc' = "init" /\ call' = NoCall
  /\ UNCHANGED <<flash, bootloaderVars, commandVars>>

\* Bootloader_Init, I2C_Slave_Init and the first Bootloader_GetState.
Start ==
  /\ pc = "init" /\ pc' = "loop"
  /\ Bootloader_Init
  /\ UNCHANGED <<flash, call, commandVars>>

----------------------------------------------------------------------------
\* The switch of main.  state is reloaded from current_state after every
\* case, so the two agree here.

\* Bootloader_ValidateAndBoot tests the active flag again.  If it is valid it
\* returns true without starting anything, and the loop comes round again;
\* if not it sets BOOTLOADER_ERR_FW_UPDATE_FAIL and main rolls back.
CaseBoot ==
  /\ pc = "loop" /\ current_state = "BOOTLOADER_BOOT"
  /\ IF Partition_IsValid(active_flag)
     THEN UNCHANGED bootloaderVars
     ELSE Bootloader_Rollback("BOOTLOADER_ERR_FW_UPDATE_FAIL")
  /\ UNCHANGED <<flash, call, pc, commandVars>>

CaseRollback ==
  /\ pc = "loop" /\ current_state = "BOOTLOADER_ROLLBACK"
  /\ Bootloader_Rollback(last_error)
  /\ UNCHANGED <<flash, call, pc, commandVars>>

\* BOOTLOADER_IDLE and BOOTLOADER_UPDATE enter ProcessI2CCommands, which
\* never returns.  Its buffer is an uninitialised local.
CaseService ==
  /\ pc = "loop" /\ current_state \in {"BOOTLOADER_IDLE", "BOOTLOADER_UPDATE"}
  /\ pc' = "receive"
  /\ \E byte \in Bytes : buffer' = [NoBuffer EXCEPT !.command = byte]
  /\ UNCHANGED <<flash, call, bootloaderVars, program_offset, response, tx>>

----------------------------------------------------------------------------
\* ProcessI2CCommands.

\* I2C_Slave_Receive returns I2C_SUCCESS when a transaction completes and
\* ignores how many bytes MXC_I2C_ReadRXFIFO then found: what was not
\* delivered is what the buffer held before.
Deliver(byte, chunk, delivered) ==
  /\ pc = "receive" /\ pc' = "dispatch"
  /\ buffer' = CASE delivered = "none"    -> buffer
                 [] delivered = "command" -> [buffer EXCEPT !.command = byte]
                 [] delivered = "partial" -> [command |-> byte, payload |-> Mixed]
                 [] delivered = "full"    -> [command |-> byte, payload |-> chunk]
  /\ UNCHANGED <<flash, call, bootloaderVars, program_offset, response, tx>>

Receive ==
  \E byte \in Bytes, chunk \in Chunks, delivered \in DELIVERIES :
    Deliver(byte, chunk, delivered)

\* The response byte is queued for the master, or the FIFO is full, the send
\* fails and the loop goes on.
SendResponse ==
  /\ pc = "send" /\ pc' = "receive"
  /\ tx' = IF Len(tx) < TX_FIFO_DEPTH THEN Append(tx, response) ELSE tx
  /\ UNCHANGED <<flash, call, bootloaderVars, program_offset, buffer, response>>

\* The master clocks one response out of the FIFO.
MasterReads ==
  /\ tx # <<>>
  /\ tx' = Tail(tx)
  /\ UNCHANGED <<flash, call, bootloaderVars, pc, program_offset, buffer, response>>

----------------------------------------------------------------------------
\* CommandHandler_ProcessCommand, one action per case and per return of a
\* flash call.

Handling(command) == pc = "dispatch" /\ buffer.command = command

Respond(r) == pc' = "send" /\ response' = r

StartUpdate ==
  /\ Handling(CMD_START_UPDATE)
  /\ Partition_Init
  /\ program_offset' = 0
  /\ Respond("CMD_SUCCESS")
  /\ UNCHANGED <<flash, call, current_state, last_error, buffer, tx>>

ErasePartition ==
  /\ Handling(CMD_ERASE_PARTITION)
  /\ call' = Flash_ErasePage(PARTITION_INACTIVE_START)
  /\ pc' = "flash"
  /\ UNCHANGED <<flash, bootloaderVars, commandVars>>

ProgramPage ==
  /\ Handling(CMD_PROGRAM_PAGE)
  /\ IF PayloadSize = 0 \/ PayloadSize > PARTITION_SIZE
     THEN Respond("CMD_ERR_PAYLOAD_SIZE_EXCEEDED") /\ UNCHANGED call
     ELSE /\ call' = Flash_ProgramPage(PARTITION_INACTIVE_START + program_offset,
                                       buffer.payload, PayloadSize)
          /\ pc' = "flash" /\ UNCHANGED response
  /\ UNCHANGED <<flash, bootloaderVars, program_offset, buffer, tx>>

\* The rest of either handler, once the driver has returned.
FlashReturn ==
  /\ pc = "flash" /\ call.step = "done"
  /\ call' = NoCall
  /\ program_offset' = IF Returned("FLASH_SUCCESS") /\ call.op = "program"
                       THEN program_offset + PayloadSize ELSE program_offset
  /\ Respond(IF Returned("FLASH_SUCCESS") THEN "CMD_SUCCESS" ELSE "CMD_ERR_FLASH_OP_FAILED")
  /\ UNCHANGED <<flash, bootloaderVars, buffer, tx>>

\* CRC_Validate reads partition_size - CRC_METADATA_SIZE bytes, an unsigned
\* subtraction: a length beyond the end of the flash ends in a HardFault.
\* Otherwise it compares two words of which the model keeps no value.  Its
\* buffer may also fail to be allocated, which reads as a mismatch.
ValidateCRC ==
  LET remaining_size == (program_offset - CRC_METADATA_SIZE) % UINT32_RANGE
  IN /\ Handling(CMD_VALIDATE_CRC)
     /\ \/ /\ PARTITION_INACTIVE_START + remaining_size <= FLASH_TOTAL_SIZE
           /\ Respond("CMD_SUCCESS")
        \/ Respond("CMD_ERR_CRC_MISMATCH")
        \/ /\ PARTITION_INACTIVE_START + remaining_size > FLASH_TOTAL_SIZE
           /\ pc' = "fault" /\ UNCHANGED response
     /\ UNCHANGED <<flash, call, bootloaderVars, program_offset, buffer, tx>>

MarkActive ==
  /\ Handling(CMD_MARK_ACTIVE)
  /\ IF Partition_IsValid(inactive_flag)
     THEN Partition_SwitchActive /\ Respond("CMD_SUCCESS")
     ELSE UNCHANGED partitionVars /\ Respond("CMD_ERR_PARTITION_SWITCH_FAIL")
  /\ UNCHANGED <<flash, call, current_state, last_error, program_offset, buffer, tx>>

Reboot ==
  /\ Handling(CMD_REBOOT)
  /\ Bootloader_Rollback(last_error)
  /\ Respond("CMD_SUCCESS")
  /\ UNCHANGED <<flash, call, program_offset, buffer, tx>>

\* The status is logged, not sent.
QueryStatus ==
  /\ Handling(CMD_QUERY_STATUS)
  /\ Respond("CMD_SUCCESS")
  /\ UNCHANGED <<flash, call, bootloaderVars, program_offset, buffer, tx>>

UnknownCommand ==
  /\ pc = "dispatch" /\ buffer.command \notin 1 .. 7
  /\ Respond("CMD_ERR_INVALID_COMMAND")
  /\ UNCHANGED <<flash, call, bootloaderVars, program_offset, buffer, tx>>

----------------------------------------------------------------------------

Handler ==
  \/ StartUpdate \/ ErasePartition \/ ProgramPage \/ FlashReturn \/ ValidateCRC
  \/ MarkActive \/ Reboot \/ QueryStatus \/ UnknownCommand

MainLoop == CaseBoot \/ CaseRollback \/ CaseService

\* What the processor does by itself.
SlaveStep == FlashCall \/ SimulateReturn \/ Start \/ MainLoop \/ Handler \/ SendResponse

Next == SlaveStep \/ Receive \/ MasterReads \/ PowerLoss

Spec == Init /\ [][Next]_slaveVars

\* The processor runs while it has power; nothing obliges a master to send
\* or read, nor power to fail.
FairSpec == Spec /\ WF_slaveVars(SlaveStep)

----------------------------------------------------------------------------
\* Properties.

Started == pc \notin {"simulate", "init"}
Booting == pc = "loop" /\ current_state = "BOOTLOADER_BOOT"
Serving == pc \in {"receive", "dispatch", "flash", "send", "fault"}

InactiveBank == PartitionWords(PARTITION_INACTIVE_START)

\* The only part of the inactive bank the command loop can write.
FirstChunk == BlockWords(PARTITION_INACTIVE_START, PayloadSize)

\* What main decided at start-up still follows from the flash, whatever was
\* commanded since: it is in the boot arm if and only if the flag of the
\* active bank is valid, the command loop runs only in BOOTLOADER_IDLE, and
\* the error and default arms of the switch, which reset the chip, are not
\* reached (Bootloader_Init, Bootloader_Rollback, main).
BootDecision ==
  Started =>
    /\ current_state \in {"BOOTLOADER_BOOT", "BOOTLOADER_ROLLBACK", "BOOTLOADER_IDLE"}
    /\ current_state = "BOOTLOADER_BOOT" <=> flash[ActiveFlagWord] = PARTITION_VALID_FLAG
    /\ Serving => current_state = "BOOTLOADER_IDLE"

\* The RAM copy of the inactive bank's flag is never stale: no erase, no
\* program and no switch of partitions parts it from the flash, although
\* only Partition_Init reads it.
InactiveFlagFresh == Started => inactive_flag = flash[InactiveFlagWord]

\* A CMD_PROGRAM_PAGE answered with CMD_SUCCESS has its payload in the flash
\* and the offset advanced, after failed and repeated writes as well.
AckedChunkStored ==
  pc = "send" /\ buffer.command = CMD_PROGRAM_PAGE /\ response = "CMD_SUCCESS" =>
    /\ program_offset = PayloadSize
    /\ Holds(flash, FirstChunk, buffer.payload)

\* Since a payload is one byte short of a multiple of four, every chunk after
\* the first falls on an address Flash_ProgramPage refuses: whatever the
\* master sends, firmware data only ever lies in the first payload's place.
OneChunkOnly == \A w \in Words \ FirstChunk : flash[w] \notin Blocks

\* No step changes a word outside the inactive bank: not the bootloader, not
\* the bank that runs, not the flags behind the banks; through resets,
\* failed writes and any sequence of commands.
RunningBankUntouched ==
  [][\A w \in Words \ InactiveBank : flash'[w] = flash[w]]_slaveVars

\* Seen from outside the slave keeps the policy of BootPolicy: from power-on
\* it boots or serves as the flag of the active bank says, it leaves either
\* only through a fault or a reset, and nothing it is commanded to do changes
\* the verdict (main, Bootloader_Init, Bootloader_Rollback and every handler).
Phase ==
  CASE pc = "fault" -> "faulted"
    [] pc \in {"receive", "dispatch", "flash", "send"} -> "serving"
    [] Booting -> "booting"
    [] OTHER -> "starting"
Verdict == IF flash[ActiveFlagWord] = PARTITION_VALID_FLAG THEN "boot" ELSE "serve"
Policy == INSTANCE BootPolicy WITH phase <- Phase, verdict <- Verdict
ImplementsBootPolicy == Policy!PolicySpec

\* A command that was received brings the slave back to its receive, unless it
\* faults the processor or power fails: flash errors and retries do not hang the
\* handler.  One that finds the transmit FIFO empty also leaves its response
\* there; no more is promised, since a full FIFO loses the response and main
\* goes on (I2C_Slave_Send, i2c_driver.c:56, main.c:83).
Lost == pc \in {"fault", "simulate"}
CommandReturns ==
  /\ (pc = "dispatch") ~> (pc = "receive" \/ Lost)
  /\ (pc = "dispatch" /\ tx = <<>>) ~> (tx # <<>> \/ Lost)

\* Once power stays on, start-up ends: main boots or waits for commands.
StartUpEnds ==
  <>[][~PowerLoss]_slaveVars => ((pc = "simulate") ~> (Booting \/ pc = "receive"))

----------------------------------------------------------------------------
\* What the program says of itself and does not do; each is checked by a run
\* of its own that finds a counterexample.

\* crc.c:51 copies data from the partition: CRC_Validate reads the partition
\* and survives.
NoCrcOverread == pc # "fault"

\* partition_manager.c:73: after a CMD_MARK_ACTIVE answered with CMD_SUCCESS
\* the active partition has been switched, so the one now active is valid.
MarkActiveTakesEffect ==
  pc = "send" /\ buffer.command = CMD_MARK_ACTIVE /\ response = "CMD_SUCCESS" =>
    Partition_IsValid(active_flag)
=============================================================================
