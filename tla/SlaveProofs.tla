---------------------------- MODULE SlaveProofs ----------------------------
(***************************************************************************)
(* Theorems about the slave, for every flash geometry, buffer size, retry  *)
(* count and master.                                                       *)
(***************************************************************************)
EXTENDS Slave, FlashProofs

----------------------------------------------------------------------------
\* Where the words of the model lie.

LEMMA FlagWords ==
  /\ ActiveFlagWord \in Words /\ InactiveFlagWord \in Words
  /\ ActiveFlagWord \in Nat /\ InactiveFlagWord \in Nat
  /\ ActiveFlagWord \notin InactiveBank
BY LayoutAssumption
   DEF ActiveFlagWord, InactiveFlagWord, FlagWord, Words, InactiveBank,
       PartitionWords, BlockWords

LEMMA PayloadType == PayloadSize \in Nat /\ PayloadSize <= FLASH_PAGE_SIZE
BY SlaveAssumption, LayoutAssumption DEF PayloadSize

----------------------------------------------------------------------------
\* Types.

LEMMA SimulateCallType == SimulateValidFirmware \in CallType
BY CallTypes, FlagWords DEF SimulateValidFirmware, Data

\* Partition_Init and Bootloader_Rollback keep the types of the bootloader's
\* variables.
LEMMA PartitionInitType ==
  ASSUME flash \in Memory, Partition_Init
  PROVE  active_flag' \in WordValues /\ inactive_flag' \in WordValues
BY FlagWords DEF Partition_Init, Memory

LEMMA RollbackType ==
  ASSUME BootloaderTypeOK, NEW error \in bootloader_error_t, Bootloader_Rollback(error)
  PROVE  BootloaderTypeOK'
BY DEF Bootloader_Rollback, Partition_SwitchActive, partitionVars, BootloaderTypeOK,
       bootloader_state_t, bootloader_error_t, PARTITION_INVALID_FLAG,
       PARTITION_VALID_FLAG, WordValues, Data, Erased

LEMMA InitType == Init => SlaveTypeOK
<1> SUFFICES ASSUME Init PROVE SlaveTypeOK  OBVIOUS
<1>1. flash \in Memory
  BY SlaveAssumption DEF Init, Memory
<1>2. FlashTypeOK
  BY <1>1, SimulateCallType DEF Init, FlashTypeOK, CallType
<1>3. BootloaderTypeOK
  BY DEF Init, BootloaderTypeOK, RamAtReset, bootloader_state_t, bootloader_error_t,
         PARTITION_INVALID_FLAG, WordValues, Data, Erased
<1>4. buffer \in [command : Bytes, payload : Blocks]
  BY SlaveAssumption DEF Init, NoBuffer, Bytes
<1> QED BY <1>2, <1>3, <1>4 DEF Init, SlaveTypeOK, cmd_response_t

LEMMA NextType ==
  ASSUME SlaveTypeOK, [Next]_slaveVars
  PROVE  SlaveTypeOK'
<1> USE DEF SlaveTypeOK
<1>1. CASE FlashCall
  <2>1. FlashTypeOK'  BY <1>1, FlashStepType DEF FlashCall
  <2> QED BY <1>1, <2>1 DEF FlashCall, bootloaderVars, commandVars, BootloaderTypeOK
<1>2. CASE SimulateReturn
  BY <1>2, CallTypes
     DEF SimulateReturn, bootloaderVars, commandVars, BootloaderTypeOK, FlashTypeOK, CallType
<1>3. CASE Start
  <2>1. BootloaderTypeOK'
    BY <1>3, PartitionInitType
       DEF Start, Bootloader_Init, BootloaderTypeOK, bootloader_state_t,
           bootloader_error_t, FlashTypeOK
  <2> QED BY <1>3, <2>1 DEF Start, commandVars, FlashTypeOK
<1>4. CASE CaseBoot
  <2>1. BootloaderTypeOK'
    <3>1. "BOOTLOADER_ERR_FW_UPDATE_FAIL" \in bootloader_error_t  BY DEF bootloader_error_t
    <3>2. CASE Partition_IsValid(active_flag)
      BY <1>4, <3>2 DEF CaseBoot, bootloaderVars, BootloaderTypeOK
    <3>3. CASE ~Partition_IsValid(active_flag)
      BY <1>4, <3>1, <3>3, RollbackType DEF CaseBoot
    <3> QED BY <3>2, <3>3
  <2> QED BY <1>4, <2>1 DEF CaseBoot, commandVars, FlashTypeOK
<1>5. CASE CaseRollback
  <2>1. BootloaderTypeOK'
    BY <1>5, RollbackType DEF CaseRollback, BootloaderTypeOK
  <2> QED BY <1>5, <2>1 DEF CaseRollback, commandVars, FlashTypeOK
<1>6. CASE CaseService
  <2>1. buffer' \in [command : Bytes, payload : Blocks]
    BY <1>6, SlaveAssumption DEF CaseService, NoBuffer
  <2> QED BY <1>6, <2>1 DEF CaseService, bootloaderVars, BootloaderTypeOK, FlashTypeOK
<1>7. CASE Receive
  <2>1. buffer' \in [command : Bytes, payload : Blocks]
    <3>1. PICK byte \in Bytes, chunk \in Chunks, delivered \in DELIVERIES :
            buffer' = CASE delivered = "none"    -> buffer
                        [] delivered = "command" -> [buffer EXCEPT !.command = byte]
                        [] delivered = "partial" -> [command |-> byte, payload |-> Mixed]
                        [] delivered = "full"    -> [command |-> byte, payload |-> chunk]
      BY <1>7 DEF Receive, Deliver
    <3>2. delivered \in {"none", "command", "partial", "full"}  BY SlaveAssumption
    <3>3. Mixed \in Blocks /\ chunk \in Blocks  BY SlaveAssumption
    <3> QED BY <3>1, <3>2, <3>3
  <2> QED BY <1>7, <2>1 DEF Receive, Deliver, bootloaderVars, BootloaderTypeOK, FlashTypeOK
<1>8. CASE SendResponse
  BY <1>8 DEF SendResponse, bootloaderVars, BootloaderTypeOK, FlashTypeOK
<1>9. CASE MasterReads
  BY <1>9 DEF MasterReads, bootloaderVars, BootloaderTypeOK, FlashTypeOK
<1>10. CASE StartUpdate
  BY <1>10, PartitionInitType
     DEF StartUpdate, Respond, BootloaderTypeOK, FlashTypeOK, cmd_response_t
<1>11. CASE ErasePartition
  <2>1. call' \in CallType
    BY <1>11, CallTypes, LayoutAssumption DEF ErasePartition
  <2> QED BY <1>11, <2>1
     DEF ErasePartition, bootloaderVars, commandVars, BootloaderTypeOK, FlashTypeOK, CallType
<1>12. CASE ProgramPage
  <2>1. call' \in CallType
    <3>1. PARTITION_INACTIVE_START + program_offset \in Nat  BY LayoutAssumption
    <3>2. buffer.payload \in Data  BY DEF Data
    <3>3. Flash_ProgramPage(PARTITION_INACTIVE_START + program_offset,
                            buffer.payload, PayloadSize) \in CallType
      BY <3>1, <3>2, CallTypes, PayloadType
    <3>4. call \in CallType  BY DEF FlashTypeOK
    <3> QED BY <1>12, <3>3, <3>4 DEF ProgramPage
  <2> QED BY <1>12, <2>1
     DEF ProgramPage, Respond, bootloaderVars, BootloaderTypeOK, FlashTypeOK, CallType,
         cmd_response_t
<1>13. CASE FlashReturn
  BY <1>13, CallTypes, PayloadType
     DEF FlashReturn, Respond, bootloaderVars, BootloaderTypeOK, FlashTypeOK, CallType,
         cmd_response_t
<1>14. CASE ValidateCRC
  BY <1>14
     DEF ValidateCRC, Respond, bootloaderVars, BootloaderTypeOK, FlashTypeOK, cmd_response_t
<1>15. CASE MarkActive
  BY <1>15
     DEF MarkActive, Partition_SwitchActive, Respond, partitionVars, BootloaderTypeOK,
         FlashTypeOK, cmd_response_t, PARTITION_INVALID_FLAG, PARTITION_VALID_FLAG,
         WordValues, Data, Erased
<1>16. CASE Reboot
  <2>1. BootloaderTypeOK'
    BY <1>16, RollbackType DEF Reboot, BootloaderTypeOK
  <2> QED BY <1>16, <2>1 DEF Reboot, Respond, FlashTypeOK, cmd_response_t
<1>17. CASE QueryStatus
  BY <1>17 DEF QueryStatus, Respond, bootloaderVars, BootloaderTypeOK, FlashTypeOK, cmd_response_t
<1>18. CASE UnknownCommand
  BY <1>18 DEF UnknownCommand, Respond, bootloaderVars, BootloaderTypeOK, FlashTypeOK, cmd_response_t
<1>19. CASE PowerLoss
  <2>1. call' \in CallType  BY <1>19, SimulateCallType DEF PowerLoss, Reset
  <2>2. BootloaderTypeOK'
    BY <1>19
       DEF PowerLoss, Reset, BootloaderReset, RamAtReset, BootloaderTypeOK, bootloader_state_t,
           bootloader_error_t, PARTITION_INVALID_FLAG, WordValues, Data, Erased
  <2>3. buffer' \in [command : Bytes, payload : Blocks]
    BY <1>19, SlaveAssumption DEF PowerLoss, Reset, NoBuffer, Bytes
  <2> QED BY <1>19, <2>1, <2>2, <2>3 DEF PowerLoss, Reset, FlashTypeOK, CallType, cmd_response_t
<1>20. CASE UNCHANGED slaveVars
  BY <1>20 DEF slaveVars, BootloaderTypeOK, FlashTypeOK
<1> QED
  BY <1>1, <1>2, <1>3, <1>4, <1>5, <1>6, <1>7, <1>8, <1>9, <1>10, <1>11, <1>12, <1>13,
     <1>14, <1>15, <1>16, <1>17, <1>18, <1>19, <1>20
     DEF Next, SlaveStep, MainLoop, Handler

\* The variables of the slave keep their types: in particular the retry
\* counter stays within MAX_RETRY_COUNT and the flash holds words, through
\* every command, flash error and reset.
THEOREM TypeCorrect == Spec => []SlaveTypeOK
<1>1. Init => SlaveTypeOK  BY InitType
<1>2. SlaveTypeOK /\ [Next]_slaveVars => SlaveTypeOK'  BY NextType
<1> QED BY <1>1, <1>2, PTL DEF Spec

----------------------------------------------------------------------------
\* The safety theorems.  None of the invariants is inductive alone: what a
\* flash step may change depends on who started the call and with which offset,
\* and that in turn on every handler.  IInv puts them together.

\* Between the steps of the program a flash call runs only on behalf of the
\* handler, or of SimulateValidFirmware, that waits for it, with the arguments
\* that one passed: a chunk that is not the first never gets past the entry
\* checks of Flash_ProgramPage, and success means the chunk is in the flash.
SimulateCall ==
  /\ call.op = "program" /\ call.step \in {"erase", "write", "done"}
  /\ call.address = InactiveFlagWord /\ call.length = 4
  /\ call.data = PARTITION_VALID_FLAG
EraseCall ==
  /\ buffer.command = CMD_ERASE_PARTITION
  /\ call.op = "erase" /\ call.step \in {"erase", "done"}
  /\ call.address = PARTITION_INACTIVE_START /\ call.length = 0
ProgramCall ==
  /\ call.op = "program" /\ call.step \in {"erase", "write", "done"}
  /\ call.address = PARTITION_INACTIVE_START + program_offset
  /\ call.length = PayloadSize /\ call.data = buffer.payload
  /\ buffer.command = CMD_PROGRAM_PAGE
  /\ program_offset # 0 => Returned("FLASH_ERROR_INVALID_ADDRESS")
  /\ call.step # "done" => call.status = "FLASH_SUCCESS"
  /\ Returned("FLASH_SUCCESS") => Holds(flash, FirstChunk, buffer.payload)
CallBelongsToHandler ==
  /\ pc = "simulate" => SimulateCall
  /\ pc = "flash" => EraseCall \/ ProgramCall
  /\ pc \notin {"simulate", "flash"} => call = NoCall

\* The offset never gets beyond the first chunk.
OffsetStops == program_offset \in {0, PayloadSize}

\* In the boot arm Bootloader_ValidateAndBoot will find the flag valid.
BootArmValid == Booting => Partition_IsValid(active_flag)

IInv ==
  /\ SlaveTypeOK
  /\ CallBelongsToHandler
  /\ OffsetStops
  /\ BootDecision
  /\ BootArmValid
  /\ InactiveFlagFresh
  /\ AckedChunkStored
  /\ OneChunkOnly

----------------------------------------------------------------------------
\* Where the program's three flash calls may write.

LEMMA Bounds ==
  /\ PARTITION_INACTIVE_START \in Nat
  /\ InactiveFlagWord \in Nat
  /\ PARTITION_INACTIVE_START + FLASH_PAGE_SIZE <= InactiveFlagWord
  /\ InactiveFlagWord + 4 = PARTITION_INACTIVE_START + PARTITION_SIZE
  /\ FLASH_PAGE_SIZE >= 4
<1>1. FLASH_PAGE_SIZE >= 4  BY LayoutAssumption
<1> QED BY <1>1, LayoutAssumption DEF InactiveFlagWord, FlagWord

\* The page of the flag lies in the inactive bank.
LEMMA SimulateFootprint == Footprint(InactiveFlagWord, 4) \subseteq InactiveBank
<1> DEFINE s == PARTITION_INACTIVE_START
           e == PARTITION_INACTIVE_START + PARTITION_SIZE
<1>1. s \in Nat /\ s % FLASH_PAGE_SIZE = 0  BY LayoutAssumption
<1>2. e \in Nat /\ e % FLASH_PAGE_SIZE = 0
  <2>1. /\ s \in Int /\ PARTITION_SIZE \in Int /\ FLASH_PAGE_SIZE \in Nat \ {0}
        /\ s % FLASH_PAGE_SIZE = 0 /\ PARTITION_SIZE % FLASH_PAGE_SIZE = 0
    BY LayoutAssumption
  <2>2. (s + PARTITION_SIZE) % FLASH_PAGE_SIZE = 0  BY <2>1, MultipleSum
  <2> QED BY <2>2, LayoutAssumption
<1>3. InactiveFlagWord \in Nat /\ s <= InactiveFlagWord /\ InactiveFlagWord < e
  BY Bounds, LayoutAssumption
<1>4. \A w \in PageWords(InactiveFlagWord) : s <= w /\ w < e
  <2> HIDE DEF s, e
  <2> QED BY <1>1, <1>2, <1>3, PageInside
<1>5. \A w \in BlockWords(InactiveFlagWord, 4) : s <= w /\ w < e
  BY Bounds, LayoutAssumption DEF BlockWords, Words
<1> QED BY <1>4, <1>5 DEF Footprint, InactiveBank, PartitionWords, BlockWords, PageWords

\* The first page lies in the inactive bank and does not hold the flag.
LEMMA FirstPage ==
  ASSUME NEW length \in {0, PayloadSize}
  PROVE  /\ Footprint(PARTITION_INACTIVE_START, length) \subseteq InactiveBank
         /\ InactiveFlagWord \notin Footprint(PARTITION_INACTIVE_START, length)
         /\ BlockWords(PARTITION_INACTIVE_START, length) \subseteq FirstChunk
<1> DEFINE s == PARTITION_INACTIVE_START
<1>1. s \in Nat /\ s % FLASH_PAGE_SIZE = 0  BY LayoutAssumption
<1>2. PAGE_START_ADDR(s) = s  BY <1>1 DEF PAGE_START_ADDR
<1>3. \A w \in Footprint(s, length) : w \in Words /\ s <= w /\ w < s + FLASH_PAGE_SIZE
  BY <1>1, <1>2, PayloadType, LayoutAssumption DEF Footprint, PageWords, BlockWords, Words
<1>4. s + FLASH_PAGE_SIZE <= s + PARTITION_SIZE  BY LayoutAssumption
<1>5. Footprint(s, length) \subseteq InactiveBank
  BY <1>1, <1>3, <1>4, LayoutAssumption DEF InactiveBank, PartitionWords, BlockWords, Words
<1>6. InactiveFlagWord \notin Footprint(s, length)
  BY <1>1, <1>3, Bounds, LayoutAssumption
<1>7. BlockWords(s, length) \subseteq FirstChunk
  BY <1>1, PayloadType DEF BlockWords, FirstChunk, Words
<1> QED BY <1>5, <1>6, <1>7

\* A payload is one byte short of whole words: the next chunk is unaligned.
LEMMA NextChunkUnaligned ==
  ~Flash_IsAddressValid(PARTITION_INACTIVE_START + PayloadSize)
BY LayoutAssumption, SlaveAssumption DEF Flash_IsAddressValid, PayloadSize

----------------------------------------------------------------------------
\* What one step of the running flash call does to the flash.

LEMMA FlashCallFrame ==
  ASSUME IInv, FlashCall, NEW w \in Words
  PROVE  /\ w \notin InactiveBank => flash'[w] = flash[w]
         /\ pc = "flash" /\ w = InactiveFlagWord => flash'[w] = flash[w]
         /\ w \notin FirstChunk => flash'[w] \in {flash[w], Erased, Garbled, PARTITION_VALID_FLAG}
         /\ pc \in {"simulate", "flash"}
<1>1. FlashTypeOK /\ FlashStep  BY DEF IInv, SlaveTypeOK, FlashCall
<1>2. call.step \in {"erase", "write"}  BY <1>1, FlashStepCall
<1>3. pc \in {"simulate", "flash"}
  BY <1>2 DEF IInv, CallBelongsToHandler, NoCall
<1>4. CASE pc = "simulate"
  <2>1. SimulateCall  BY <1>4 DEF IInv, CallBelongsToHandler
  <2> QED BY <1>1, <1>4, <2>1, FlashStepFrame, SimulateFootprint DEF SimulateCall
<1>5. CASE pc = "flash"
  <2>1. call.address = PARTITION_INACTIVE_START /\ call.length \in {0, PayloadSize}
    <3>1. CASE EraseCall  BY <3>1 DEF EraseCall
    <3>2. CASE ProgramCall
      <4>1. program_offset = 0  BY <1>2, <3>2 DEF ProgramCall, Returned
      <4> QED BY <3>2, <4>1, LayoutAssumption DEF ProgramCall
    <3> QED BY <1>5, <3>1, <3>2 DEF IInv, CallBelongsToHandler
  <2>2. /\ w \notin FirstChunk => w \notin BlockWords(call.address, call.length)
        /\ w \notin InactiveBank => w \notin Footprint(call.address, call.length)
        /\ InactiveFlagWord \notin Footprint(call.address, call.length)
    BY <2>1, FirstPage
  <2> QED BY <1>1, <1>5, <2>2, FlashStepFrame
<1> QED BY <1>3, <1>4, <1>5

\* Only the running flash call changes the flash.
LEMMA OnlyFlashCallWrites ==
  ASSUME [Next]_slaveVars, ~FlashCall
  PROVE  UNCHANGED flash
BY DEF Next, SlaveStep, MainLoop, Handler, SimulateReturn, Start, CaseBoot, CaseRollback,
       CaseService, Receive, Deliver, SendResponse, MasterReads, StartUpdate, ErasePartition,
       ProgramPage, FlashReturn, ValidateCRC, MarkActive, Reboot, QueryStatus,
       UnknownCommand, PowerLoss, Reset, slaveVars

----------------------------------------------------------------------------
\* The initial states.

LEMMA SimulateIsCall ==
  ASSUME call = SimulateValidFirmware
  PROVE  SimulateCall
BY DEF SimulateValidFirmware, Flash_ProgramPage, NoCall, SimulateCall

LEMMA InitInv == Init => IInv
<1> SUFFICES ASSUME Init PROVE IInv  OBVIOUS
<1>1. SlaveTypeOK  BY InitType
<1>2. CallBelongsToHandler  BY SimulateIsCall DEF Init, CallBelongsToHandler
<1>3. OffsetStops  BY DEF Init, OffsetStops
<1>4. BootDecision /\ InactiveFlagFresh  BY DEF Init, BootDecision, InactiveFlagFresh, Started
<1>5. BootArmValid /\ AckedChunkStored  BY DEF Init, BootArmValid, Booting, AckedChunkStored
<1>6. OneChunkOnly  BY SlaveAssumption DEF Init, OneChunkOnly
<1> QED BY <1>1, <1>2, <1>3, <1>4, <1>5, <1>6 DEF IInv

----------------------------------------------------------------------------
\* Each part of IInv is kept by every step.

LEMMA CallStep ==
  ASSUME IInv, [Next]_slaveVars
  PROVE  CallBelongsToHandler'
<1> USE DEF IInv, CallBelongsToHandler
<1>1. CASE FlashCall
  <2>1. FlashTypeOK /\ FlashStep  BY <1>1 DEF SlaveTypeOK, FlashCall
  <2>2. UNCHANGED <<pc, program_offset, buffer>>  BY <1>1 DEF FlashCall, commandVars
  <2>3. pc \in {"simulate", "flash"} /\ call.step \in {"erase", "write"}
    BY <1>1, <2>1, FlashCallFrame, FlashStepCall, FlagWords
  <2>4. CASE pc = "simulate"
    BY <2>1, <2>2, <2>4, FlashStepCall DEF SimulateCall
  <2>5. CASE pc = "flash" /\ EraseCall
    <3>1. EraseCall'  BY <2>1, <2>2, <2>5, FlashStepCall, <2>3 DEF EraseCall
    <3> QED BY <2>2, <2>5, <3>1
  <2>6. CASE pc = "flash" /\ ProgramCall
    <3>1. program_offset = 0  BY <2>3, <2>6 DEF ProgramCall, Returned
    <3>2. call.status = "FLASH_SUCCESS"  BY <2>3, <2>6 DEF ProgramCall
    <3>3. Returned("FLASH_SUCCESS")' => Holds(flash, FirstChunk, buffer.payload)'
      <4>1. BlockWords(call.address, call.length) = FirstChunk
        BY <2>6, <3>1, LayoutAssumption DEF ProgramCall, FirstChunk
      <4> QED BY <2>1, <2>2, <2>6, <3>2, <4>1, FlashStepStored
          DEF ProgramCall, Returned, Holds
    <3>4. ProgramCall'
      BY <2>1, <2>2, <2>6, <3>1, <3>2, <3>3, FlashStepCall DEF ProgramCall
    <3> QED BY <2>2, <2>6, <3>4
  <2> QED BY <2>3, <2>4, <2>5, <2>6
<1>2. CASE SimulateReturn \/ Start \/ CaseBoot \/ CaseRollback \/ CaseService
           \/ Receive \/ SendResponse
  BY <1>2 DEF SimulateReturn, Start, CaseBoot, CaseRollback, CaseService, Receive, Deliver, SendResponse
<1>3. CASE StartUpdate \/ ValidateCRC \/ MarkActive \/ Reboot \/ QueryStatus \/ UnknownCommand
  BY <1>3 DEF StartUpdate, ValidateCRC, MarkActive, Reboot, QueryStatus, UnknownCommand,
              Handling, Respond
<1>4. CASE MasterReads \/ UNCHANGED slaveVars
  BY <1>4 DEF MasterReads, slaveVars, bootloaderVars, SimulateCall, EraseCall, ProgramCall,
              Returned, Holds
<1>5. CASE ErasePartition
  BY <1>5 DEF ErasePartition, Handling, Flash_ErasePage, NoCall, EraseCall, commandVars
<1>6. CASE ProgramPage
  <2>1. CASE PayloadSize = 0 \/ PayloadSize > PARTITION_SIZE
    BY <1>6, <2>1 DEF ProgramPage, Respond, Handling
  <2>2. CASE ~(PayloadSize = 0 \/ PayloadSize > PARTITION_SIZE)
    <3> DEFINE address == PARTITION_INACTIVE_START + program_offset
               accepted == Flash_IsAddressValid(address) /\ PayloadSize <= FLASH_PAGE_SIZE
    <3>1. /\ call' = Flash_ProgramPage(address, buffer.payload, PayloadSize)
          /\ pc' = "flash" /\ UNCHANGED <<program_offset, buffer>>
          /\ buffer.command = CMD_PROGRAM_PAGE
      BY <1>6, <2>2 DEF ProgramPage, Handling
    <3>2. /\ call'.op = "program" /\ call'.address = address
          /\ call'.length = PayloadSize /\ call'.data = buffer.payload
          /\ call'.step = IF accepted THEN "erase" ELSE "done"
          /\ call'.status = IF accepted THEN "FLASH_SUCCESS" ELSE "FLASH_ERROR_INVALID_ADDRESS"
      BY <3>1 DEF Flash_ProgramPage, NoCall
    <3>3. program_offset # 0 => ~accepted
      BY NextChunkUnaligned DEF OffsetStops
    <3> HIDE DEF accepted
    <3>4. ProgramCall'  BY <3>1, <3>2, <3>3 DEF ProgramCall, Returned
    <3> QED BY <3>1, <3>4
  <2> QED BY <2>1, <2>2
<1>7. CASE FlashReturn
  BY <1>7 DEF FlashReturn, Respond
<1>8. CASE PowerLoss
  <2>1. SimulateCall'
    BY <1>8 DEF PowerLoss, Reset, SimulateValidFirmware, Flash_ProgramPage, NoCall, SimulateCall
  <2> QED BY <1>8, <2>1 DEF PowerLoss, Reset
<1> QED BY <1>1, <1>2, <1>3, <1>4, <1>5, <1>6, <1>7, <1>8
        DEF Next, SlaveStep, MainLoop, Handler

LEMMA OffsetStep ==
  ASSUME IInv, [Next]_slaveVars
  PROVE  OffsetStops'
<1> USE DEF IInv, OffsetStops
<1>1. CASE FlashReturn
  <2>1. EraseCall \/ ProgramCall  BY <1>1 DEF FlashReturn, CallBelongsToHandler
  <2>2. CASE Returned("FLASH_SUCCESS") /\ call.op = "program"
    <3>1. ProgramCall  BY <2>1, <2>2 DEF EraseCall
    <3>2. program_offset = 0  BY <2>2, <3>1 DEF ProgramCall, Returned
    <3> QED BY <1>1, <2>2, <3>2, PayloadType DEF FlashReturn
  <2>3. CASE ~(Returned("FLASH_SUCCESS") /\ call.op = "program")
    BY <1>1, <2>3 DEF FlashReturn
  <2> QED BY <2>2, <2>3
<1>2. CASE ~FlashReturn
  <2>1. program_offset' \in {0, program_offset}
    BY <1>2 DEF Next, SlaveStep, MainLoop, Handler, FlashCall, SimulateReturn, Start, CaseBoot,
                CaseRollback, CaseService, Receive, Deliver, SendResponse, MasterReads, StartUpdate,
                ErasePartition, ProgramPage, ValidateCRC, MarkActive, Reboot, QueryStatus,
                UnknownCommand, PowerLoss, Reset, commandVars, slaveVars
  <2> QED BY <2>1
<1> QED BY <1>1, <1>2

\* A rollback always ends in BOOTLOADER_IDLE, because Partition_SwitchActive
\* clears the very flag that is validated next.
LEMMA RollbackIdles ==
  ASSUME NEW error, Bootloader_Rollback(error)
  PROVE  /\ current_state' = "BOOTLOADER_IDLE"
         /\ inactive_flag' = inactive_flag
<1>1. PARTITION_INVALID_FLAG # PARTITION_VALID_FLAG
  BY DEF PARTITION_INVALID_FLAG, PARTITION_VALID_FLAG, Erased
<1> QED BY <1>1 DEF Bootloader_Rollback, Partition_SwitchActive, Partition_IsValid, partitionVars

\* The flags in the flash that decide are not written once they were read.
LEMMA FlagsStay ==
  ASSUME IInv, [Next]_slaveVars
  PROVE  /\ flash'[ActiveFlagWord] = flash[ActiveFlagWord]
         /\ Started => flash'[InactiveFlagWord] = flash[InactiveFlagWord]
<1>1. CASE FlashCall
  BY <1>1, FlagWords, FlashCallFrame DEF Started
<1>2. CASE ~FlashCall
  BY <1>2, OnlyFlashCallWrites
<1> QED BY <1>1, <1>2

LEMMA BootStep ==
  ASSUME IInv, [Next]_slaveVars
  PROVE  BootDecision' /\ BootArmValid'
<1> USE DEF BootDecision, BootArmValid, Started, Serving, Booting
<1>1. BootDecision /\ BootArmValid  BY DEF IInv
<1>2. flash'[ActiveFlagWord] = flash[ActiveFlagWord]  BY FlagsStay
<1>3. CASE Start
  BY <1>2, <1>3 DEF Start, Bootloader_Init, Partition_Init, Partition_IsValid
<1>4. CASE CaseBoot
  BY <1>1, <1>2, <1>4 DEF CaseBoot, bootloaderVars
<1>5. CASE CaseRollback
  BY <1>1, <1>2, <1>5, RollbackIdles DEF CaseRollback
<1>6. CASE Reboot
  BY <1>1, <1>2, <1>6, RollbackIdles DEF Reboot, Handling, Respond
<1>7. CASE CaseService
  BY <1>1, <1>2, <1>7 DEF CaseService, bootloaderVars
<1>8. CASE SimulateReturn \/ PowerLoss
  BY <1>8 DEF SimulateReturn, PowerLoss, Reset
<1>9. CASE FlashCall \/ MasterReads \/ UNCHANGED slaveVars
  BY <1>1, <1>2, <1>9 DEF FlashCall, MasterReads, slaveVars, bootloaderVars
<1>10. CASE Receive \/ SendResponse \/ FlashReturn
  BY <1>1, <1>2, <1>10 DEF Receive, Deliver, SendResponse, FlashReturn, Respond, bootloaderVars
<1>11. CASE StartUpdate \/ ErasePartition \/ ProgramPage \/ ValidateCRC \/ MarkActive
            \/ QueryStatus \/ UnknownCommand
  BY <1>1, <1>2, <1>11
     DEF StartUpdate, ErasePartition, ProgramPage, ValidateCRC, MarkActive, QueryStatus,
         UnknownCommand, Handling, Respond, bootloaderVars
<1> QED BY <1>3, <1>4, <1>5, <1>6, <1>7, <1>8, <1>9, <1>10, <1>11
        DEF Next, SlaveStep, MainLoop, Handler

LEMMA FlagStep ==
  ASSUME IInv, [Next]_slaveVars
  PROVE  InactiveFlagFresh'
<1> USE DEF InactiveFlagFresh, Started
<1>1. InactiveFlagFresh  BY DEF IInv
<1>2. Started => flash'[InactiveFlagWord] = flash[InactiveFlagWord]  BY FlagsStay
<1>3. CASE Start \/ StartUpdate
  BY <1>3 DEF Start, StartUpdate, Bootloader_Init, Partition_Init
<1>4. CASE SimulateReturn \/ PowerLoss
  BY <1>4 DEF SimulateReturn, PowerLoss, Reset
<1>5. CASE CaseBoot \/ CaseRollback \/ Reboot
  <2>1. inactive_flag' = inactive_flag
    BY <1>5, RollbackIdles DEF CaseBoot, CaseRollback, Reboot, bootloaderVars
  <2>2. Started  BY <1>5 DEF CaseBoot, CaseRollback, Reboot, Handling
  <2> QED BY <1>1, <1>2, <2>1, <2>2
<1>6. CASE MarkActive
  <2>1. inactive_flag' = inactive_flag
    BY <1>6 DEF MarkActive, Partition_SwitchActive, Partition_IsValid, partitionVars
  <2>2. Started  BY <1>6 DEF MarkActive, Handling
  <2> QED BY <1>1, <1>2, <2>1, <2>2
<1>7. CASE FlashCall \/ MasterReads \/ UNCHANGED slaveVars
  BY <1>1, <1>2, <1>7 DEF FlashCall, MasterReads, slaveVars, bootloaderVars
<1>8. CASE CaseService \/ Receive \/ SendResponse \/ FlashReturn \/ ErasePartition
           \/ ProgramPage \/ ValidateCRC \/ QueryStatus \/ UnknownCommand
  BY <1>1, <1>2, <1>8
     DEF CaseService, Receive, Deliver, SendResponse, FlashReturn, ErasePartition, ProgramPage,
         ValidateCRC, QueryStatus, UnknownCommand, Handling, bootloaderVars
<1> QED BY <1>3, <1>4, <1>5, <1>6, <1>7, <1>8 DEF Next, SlaveStep, MainLoop, Handler

LEMMA AckStep ==
  ASSUME IInv, [Next]_slaveVars
  PROVE  AckedChunkStored'
<1> USE DEF AckedChunkStored, CMD_PROGRAM_PAGE
<1>1. AckedChunkStored  BY DEF IInv
<1>2. CASE FlashReturn
  <2>1. EraseCall \/ ProgramCall  BY <1>2 DEF IInv, FlashReturn, CallBelongsToHandler
  <2>2. CASE EraseCall
    BY <1>2, <2>2 DEF FlashReturn, EraseCall, CMD_ERASE_PARTITION
  <2>3. CASE ProgramCall /\ Returned("FLASH_SUCCESS")
    <3>1. program_offset = 0 /\ Holds(flash, FirstChunk, buffer.payload)
      BY <2>3 DEF ProgramCall, Returned
    <3>2. program_offset' = PayloadSize
      BY <1>2, <2>3, <3>1, PayloadType DEF FlashReturn, ProgramCall
    <3> QED BY <1>2, <3>1, <3>2 DEF FlashReturn, Holds
  <2>4. CASE ~Returned("FLASH_SUCCESS")
    BY <1>2, <2>4 DEF FlashReturn, Respond
  <2> QED BY <2>1, <2>2, <2>3, <2>4
<1>3. CASE ProgramPage
  BY <1>3 DEF ProgramPage, Respond
<1>4. CASE StartUpdate \/ ErasePartition \/ ValidateCRC \/ MarkActive \/ Reboot \/ QueryStatus
           \/ UnknownCommand
  BY <1>4 DEF StartUpdate, ErasePartition, ValidateCRC, MarkActive, Reboot, QueryStatus,
              UnknownCommand, Handling, Respond, bootloaderVars, commandVars,
              CMD_START_UPDATE, CMD_ERASE_PARTITION, CMD_VALIDATE_CRC, CMD_MARK_ACTIVE,
              CMD_REBOOT, CMD_QUERY_STATUS
<1>5. CASE FlashCall
  <2>1. pc' # "send"  BY <1>5, FlashCallFrame, FlagWords DEF FlashCall
  <2> QED BY <2>1
<1>6. CASE SimulateReturn \/ Start \/ MainLoop \/ Receive \/ SendResponse \/ PowerLoss
  BY <1>6 DEF SimulateReturn, Start, MainLoop, CaseBoot, CaseRollback, CaseService, Receive, Deliver,
              SendResponse, PowerLoss, Reset
<1>7. CASE MasterReads \/ UNCHANGED slaveVars
  BY <1>1, <1>7 DEF MasterReads, slaveVars, Holds
<1> QED BY <1>2, <1>3, <1>4, <1>5, <1>6, <1>7 DEF Next, SlaveStep, Handler

LEMMA ChunkStep ==
  ASSUME IInv, [Next]_slaveVars
  PROVE  OneChunkOnly'
<1>1. OneChunkOnly  BY DEF IInv
<1>2. CASE FlashCall
  <2> SUFFICES ASSUME NEW w \in Words \ FirstChunk PROVE flash'[w] \notin Blocks
    BY DEF OneChunkOnly
  <2>1. flash'[w] \in {flash[w], Erased, Garbled, PARTITION_VALID_FLAG}
    BY <1>2, FlashCallFrame
  <2> QED BY <1>1, <2>1, BlocksAssumption DEF OneChunkOnly
<1>3. CASE ~FlashCall
  BY <1>1, <1>3, OnlyFlashCallWrites DEF OneChunkOnly
<1> QED BY <1>2, <1>3

LEMMA NextInv ==
  ASSUME IInv, [Next]_slaveVars
  PROVE  IInv'
<1>1. SlaveTypeOK'  BY NextType DEF IInv
<1> QED BY <1>1, CallStep, OffsetStep, BootStep, FlagStep, AckStep, ChunkStep DEF IInv

LEMMA Invariance == Spec => []IInv
<1>1. Init => IInv  BY InitInv
<1>2. IInv /\ [Next]_slaveVars => IInv'  BY NextInv
<1> QED BY <1>1, <1>2, PTL DEF Spec

----------------------------------------------------------------------------
\* The safety properties of Slave.

\* The decision main took at start-up follows from the flash for as long as
\* the power stays on (Bootloader_Init, Bootloader_Rollback).
THEOREM BootDecisionHolds == Spec => []BootDecision
BY Invariance, PTL DEF IInv

\* The RAM copy of the inactive flag is what the flash holds
\* (Partition_Init, Partition_SwitchActive and the flash calls).
THEOREM InactiveFlagStaysFresh == Spec => []InactiveFlagFresh
BY Invariance, PTL DEF IInv

\* A chunk that was acknowledged is in the flash (CMD_PROGRAM_PAGE).
THEOREM AcknowledgedChunksAreStored == Spec => []AckedChunkStored
BY Invariance, PTL DEF IInv

\* No payload ever lands behind the first (CMD_PROGRAM_PAGE,
\* Flash_IsAddressValid).
THEOREM OneChunkFits == Spec => []OneChunkOnly
BY Invariance, PTL DEF IInv

\* No step of the program, and no reset, writes outside the inactive bank.
THEOREM RunningBankIsUntouched == Spec => RunningBankUntouched
<1> DEFINE Keeps == \A w \in Words \ InactiveBank : flash'[w] = flash[w]
<1>1. ASSUME IInv, [Next]_slaveVars PROVE [Keeps]_slaveVars
  <2>1. CASE FlashCall  BY <1>1, <2>1, FlashCallFrame
  <2>2. CASE ~FlashCall  BY <1>1, <2>2, OnlyFlashCallWrites
  <2> QED BY <2>1, <2>2
<1> QED BY <1>1, Invariance, PTL DEF Spec, RunningBankUntouched

\* The program implements BootPolicy: every step boots, serves, faults or
\* resets as the policy lets it, or is none of its business.
LEMMA PolicyStep ==
  ASSUME IInv, [Next]_slaveVars
  PROVE  [Policy!PolicyNext]_Policy!pvars
<1> USE DEF Phase, Verdict, Booting, Policy!pvars
<1>1. UNCHANGED Verdict  BY FlagsStay
<1>2. CASE Start
  <2>1. Phase = "starting"  BY <1>2 DEF Start
  <2>2. CASE current_state' = "BOOTLOADER_BOOT"
    <3>1. Verdict = "boot"
      BY <1>2, <2>2 DEF Start, Bootloader_Init, Partition_Init, Partition_IsValid
    <3>2. Phase' = "booting"  BY <1>2, <2>2 DEF Start
    <3> QED BY <1>1, <2>1, <3>1, <3>2 DEF Policy!PolicyNext, Policy!Boot
  <2>3. CASE current_state' # "BOOTLOADER_BOOT"
    <3>1. Phase' = "starting"  BY <1>2, <2>3 DEF Start
    <3> QED BY <1>1, <2>1, <3>1
  <2> QED BY <2>2, <2>3
<1>3. CASE CaseService
  <2>1. Phase = "starting" /\ Phase' = "serving"  BY <1>3 DEF CaseService
  <2>2. Verdict = "serve"  BY <1>3 DEF CaseService, IInv, BootDecision, Started
  <2> QED BY <1>1, <2>1, <2>2 DEF Policy!PolicyNext, Policy!Serve
<1>4. CASE ValidateCRC
  <2>1. Phase = "serving"  BY <1>4 DEF ValidateCRC, Handling
  <2>2. Phase' \in {"serving", "faulted"}  BY <1>4 DEF ValidateCRC, Respond
  <2> QED BY <1>1, <2>1, <2>2 DEF Policy!PolicyNext, Policy!Fault
<1>5. CASE PowerLoss
  <2>1. Phase' = "starting"  BY <1>5 DEF PowerLoss, Reset
  <2> QED BY <1>1, <2>1 DEF Policy!PolicyNext, Policy!PowerCycle
<1>6. CASE CaseBoot
  <2>1. Partition_IsValid(active_flag)  BY <1>6 DEF CaseBoot, IInv, BootArmValid
  <2>2. UNCHANGED Phase  BY <1>6, <2>1 DEF CaseBoot, bootloaderVars
  <2> QED BY <1>1, <2>2
<1>7. CASE CaseRollback
  <2>1. UNCHANGED Phase  BY <1>7, RollbackIdles DEF CaseRollback
  <2> QED BY <1>1, <2>1
<1>8. CASE SimulateReturn \/ MasterReads \/ UNCHANGED slaveVars
  <2>1. UNCHANGED Phase  BY <1>8 DEF SimulateReturn, MasterReads, slaveVars, bootloaderVars
  <2> QED BY <1>1, <2>1
<1>9. CASE FlashCall
  <2>1. UNCHANGED Phase  BY <1>9 DEF FlashCall, bootloaderVars
  <2> QED BY <1>1, <2>1
<1>10. CASE Receive \/ SendResponse \/ StartUpdate \/ ErasePartition \/ ProgramPage
            \/ FlashReturn \/ MarkActive \/ Reboot \/ QueryStatus \/ UnknownCommand
  <2>1. Phase = "serving" /\ Phase' = "serving"
    BY <1>10 DEF Receive, Deliver, SendResponse, StartUpdate, ErasePartition, ProgramPage, FlashReturn,
                 MarkActive, Reboot, QueryStatus, UnknownCommand, Handling, Respond
  <2> QED BY <1>1, <2>1
<1> QED BY <1>2, <1>3, <1>4, <1>5, <1>6, <1>7, <1>8, <1>9, <1>10
        DEF Next, SlaveStep, MainLoop, Handler

\* From power-on to power-on the slave keeps the boot policy: what it does is
\* decided by the flag of the active bank, which no command changes.
THEOREM SlaveImplementsBootPolicy == Spec => ImplementsBootPolicy
<1>1. Init => Policy!PolicyInit
  BY DEF Init, Policy!PolicyInit, Phase, Verdict, Booting
<1>2. IInv /\ [Next]_slaveVars => [Policy!PolicyNext]_Policy!pvars  BY PolicyStep
<1> QED BY <1>1, <1>2, Invariance, PTL DEF Spec, ImplementsBootPolicy, Policy!PolicySpec

----------------------------------------------------------------------------
\* Why a command returns and start-up ends.

\* The steps the processor has still to take until it waits for a command,
\* boots, or has faulted.
SlaveWork ==
  CASE pc = "simulate" -> CallWork + 5
    [] pc = "init"     -> 4
    [] pc = "loop"     -> IF current_state = "BOOTLOADER_BOOT" THEN 0
                          ELSE IF current_state = "BOOTLOADER_ROLLBACK" THEN 2 ELSE 1
    [] pc = "dispatch" -> MAX_RETRY_COUNT + 4
    [] pc = "flash"    -> CallWork + 2
    [] pc = "send"     -> 1
    [] OTHER           -> 0

LEMMA SlaveWorkRange == SlaveTypeOK => SlaveWork \in 0 .. MAX_RETRY_COUNT + 6
<1> SUFFICES ASSUME SlaveTypeOK PROVE SlaveWork \in 0 .. MAX_RETRY_COUNT + 6  OBVIOUS
<1>1. CallWork \in 0 .. MAX_RETRY_COUNT + 1  BY CallWorkRange DEF SlaveTypeOK
<1> QED BY <1>1, FlashAssumption DEF SlaveWork

LEMMA SlaveStepWork ==
  ASSUME IInv, SlaveStep, ~UNCHANGED slaveVars
  PROVE  SlaveWork' < SlaveWork
<1>1. SlaveTypeOK /\ FlashTypeOK  BY DEF IInv, SlaveTypeOK
<1>2. CallWork \in 0 .. MAX_RETRY_COUNT + 1  BY <1>1, CallWorkRange
<1>3. MAX_RETRY_COUNT \in Nat  BY FlashAssumption
<1>4. CASE FlashCall
  <2>1. call.step \in {"erase", "write"}  BY <1>1, <1>4, FlashStepCall DEF FlashCall
  <2>2. pc \in {"simulate", "flash"} /\ pc' = pc
    BY <1>4, <2>1 DEF FlashCall, IInv, CallBelongsToHandler, NoCall
  <2>3. CallWork' < CallWork  BY <1>1, <1>4, FlashStepWork DEF FlashCall
  <2>4. FlashTypeOK'  BY <1>1, <1>4, FlashStepType DEF FlashCall
  <2>5. CallWork' \in Nat
    BY <1>3, <2>4 DEF CallWork, FlashTypeOK, CallType
  <2> QED BY <1>2, <2>2, <2>3, <2>5 DEF SlaveWork
<1>5. CASE SimulateReturn
  BY <1>2, <1>5 DEF SimulateReturn, SlaveWork
<1>6. CASE Start
  BY <1>6 DEF Start, SlaveWork
<1>7. CASE CaseBoot
  <2>1. UNCHANGED slaveVars
    BY <1>7 DEF CaseBoot, IInv, BootArmValid, Booting, slaveVars, bootloaderVars, partitionVars,
                commandVars
  <2> QED BY <2>1
<1>8. CASE CaseRollback
  <2>1. current_state' = "BOOTLOADER_IDLE"  BY <1>8, RollbackIdles DEF CaseRollback
  <2> QED BY <1>8, <2>1 DEF CaseRollback, SlaveWork
<1>9. CASE CaseService
  BY <1>9 DEF CaseService, SlaveWork
<1>10. CASE SendResponse
  BY <1>10 DEF SendResponse, SlaveWork
<1>11. CASE ErasePartition \/ ProgramPage
  <2>1. pc = "dispatch" /\ pc' \in {"flash", "send"}
    BY <1>11 DEF ErasePartition, ProgramPage, Handling, Respond
  <2>2. SlaveTypeOK'  BY <1>1, <1>11, NextType DEF Next, SlaveStep, Handler
  <2>3. CallWork' \in 0 .. MAX_RETRY_COUNT + 1
    BY <1>3, <2>2 DEF CallWork, SlaveTypeOK, FlashTypeOK, CallType
  <2> QED BY <1>3, <2>1, <2>3 DEF SlaveWork
<1>12. CASE FlashReturn
  BY <1>2, <1>12 DEF FlashReturn, Respond, SlaveWork
<1>13. CASE StartUpdate \/ ValidateCRC \/ MarkActive \/ Reboot \/ QueryStatus \/ UnknownCommand
  <2>1. pc = "dispatch" /\ pc' \in {"send", "fault"}
    BY <1>13 DEF StartUpdate, ValidateCRC, MarkActive, Reboot, QueryStatus, UnknownCommand,
                 Handling, Respond
  <2> QED BY <1>3, <2>1 DEF SlaveWork
<1> QED BY <1>4, <1>5, <1>6, <1>7, <1>8, <1>9, <1>10, <1>11, <1>12, <1>13
        DEF SlaveStep, MainLoop, Handler

\* From any state the processor is at most MAX_RETRY_COUNT + 6 steps away from
\* waiting for a command, booting, or a fault.
THEOREM SlaveWorkIsBounded == Spec => [](SlaveWork \in 0 .. MAX_RETRY_COUNT + 6)
BY TypeCorrect, SlaveWorkRange, PTL

\* Every step of its own brings it closer and only a command or a loss of power
\* takes it away again: no handler, retry or rollback goes round for ever
\* (main, ProcessI2CCommands, Flash_ProgramPage).
THEOREM SlaveWorkShrinks ==
  Spec => [][IF SlaveStep THEN SlaveWork' < SlaveWork
             ELSE Receive \/ PowerLoss \/ SlaveWork' = SlaveWork]_slaveVars
<1> DEFINE Shrinks == IF SlaveStep THEN SlaveWork' < SlaveWork
                      ELSE Receive \/ PowerLoss \/ SlaveWork' = SlaveWork
<1>1. ASSUME IInv, [Next]_slaveVars PROVE [Shrinks]_slaveVars
  <2>1. CASE UNCHANGED slaveVars  BY <2>1
  <2>2. CASE SlaveStep /\ ~UNCHANGED slaveVars  BY <1>1, <2>2, SlaveStepWork
  <2>3. CASE ~SlaveStep /\ MasterReads
    BY <2>3 DEF MasterReads, SlaveWork, CallWork, bootloaderVars
  <2> QED BY <1>1, <2>1, <2>2, <2>3 DEF Next
<1> QED BY <1>1, Invariance, PTL DEF Spec
=============================================================================
