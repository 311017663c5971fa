--------------------------- MODULE FwUpdateProofs ---------------------------
(***************************************************************************)
(* Theorems about the firmware update manager, for every geometry, retry   *)
(* count, set of lengths and sequence of calls.                            *)
(***************************************************************************)
EXTENDS FwUpdate, FlashProofs

Bank == PartitionWords(PARTITION_INACTIVE_START)

----------------------------------------------------------------------------
\* Where things lie.

LEMMA Numbers ==
  /\ FLASH_PAGE_SIZE \in Nat \ {0} /\ FLASH_TOTAL_SIZE \in Nat /\ PARTITION_SIZE \in Nat
  /\ PARTITION_INACTIVE_START \in Nat /\ BankEnd \in Nat
  /\ PARTITION_INACTIVE_START < BankEnd /\ BankEnd <= FLASH_TOTAL_SIZE
  /\ UINT32_RANGE \in Nat /\ UINT32_RANGE > 2 * FLASH_TOTAL_SIZE
  /\ FLASH_PAGE_SIZE <= FLASH_TOTAL_SIZE
  /\ CRC_METADATA_SIZE \in Nat
BY LayoutAssumption, FwAssumption DEF BankEnd

LEMMA MetadataWords ==
  /\ CrcWord \in Nat /\ PARTITION_INACTIVE_START <= CrcWord
  /\ CrcWord + 4 <= BankEnd /\ MarkWord + 4 <= BankEnd
  /\ MarkWord \in Nat /\ PARTITION_INACTIVE_START <= MarkWord
BY LayoutAssumption, FwAssumption DEF CrcWord, MarkWord, CRC_METADATA_OFFSET, BankEnd

\* A call whose block lies in the bank changes nothing outside it.
LEMMA FootprintInBank ==
  ASSUME NEW address \in Nat, NEW length \in Nat,
         PARTITION_INACTIVE_START <= address, address < BankEnd,
         address + length <= BankEnd
  PROVE  Footprint(address, length) \subseteq Bank
<1>1. PARTITION_INACTIVE_START % FLASH_PAGE_SIZE = 0  BY LayoutAssumption
<1>2. BankEnd % FLASH_PAGE_SIZE = 0
  <2>1. PARTITION_SIZE % FLASH_PAGE_SIZE = 0  BY LayoutAssumption
  <2>2. PARTITION_INACTIVE_START \in Int /\ PARTITION_SIZE \in Int
        /\ FLASH_PAGE_SIZE \in Nat \ {0}
    BY Numbers
  <2> QED BY <1>1, <2>1, <2>2, MultipleSum DEF BankEnd
<1>3. \A w \in PageWords(address) : PARTITION_INACTIVE_START <= w /\ w < BankEnd
  BY <1>1, <1>2, Numbers, PageInside
<1>4. PageWords(address) \subseteq Words  BY DEF PageWords
<1>5. \A w \in Words : PARTITION_INACTIVE_START <= w /\ w < BankEnd => w \in Bank
  BY Numbers DEF Bank, PartitionWords, BlockWords, BankEnd
<1>6. BlockWords(address, length) \subseteq Bank
  BY Numbers DEF BlockWords, Bank, PartitionWords, BankEnd, Words
<1> QED BY <1>3, <1>4, <1>5, <1>6 DEF Footprint

\* Of a chunk the driver accepts the sum in ProcessChunk does not wrap, so
\* that its test means what it says.
LEMMA NoWrap ==
  ASSUME current_write_address \in Nat, current_write_address <= BankEnd,
         NEW length \in Nat, length <= FLASH_PAGE_SIZE, ~Exceeds(length)
  PROVE  current_write_address + length <= BankEnd
<1> DEFINE sum == current_write_address + length
<1>1. sum \in Nat /\ sum < UINT32_RANGE  BY Numbers
<1> HIDE DEF sum
<1>2. sum % UINT32_RANGE = sum  BY <1>1, Numbers
<1>3. ~(sum % UINT32_RANGE > BankEnd)  BY DEF Exceeds, sum
<1>4. sum <= BankEnd  BY <1>1, <1>2, <1>3, Numbers
<1> QED BY <1>4 DEF sum

----------------------------------------------------------------------------
\* The inductive invariant.

\* The call in progress is that of the function in progress; one the driver
\* works on, or fulfilled, lies within the bank.
Accepted ==
  /\ Flash_IsAddressValid(call.address)
  /\ call.address + call.length <= BankEnd
ChunkCall ==
  /\ call.op = "program" /\ call.address = current_write_address
  /\ call.data \in Chunks /\ call.length # 0
  /\ call.step # "done" => call.status = "FLASH_SUCCESS"
  /\ call.status = "FLASH_SUCCESS" => Accepted
CallOfFunction ==
  /\ running \in {"none", "fault"} => call = NoCall
  /\ running = "start" => call.address = PARTITION_INACTIVE_START /\ call.length = 0
  /\ running = "chunk" => ChunkCall
  /\ running = "crc" => call.address = CrcWord /\ call.length = 4
  /\ running = "mark" => call.address = MarkWord /\ call.length = 4

OldFlag == Partition_IsValid(inactive_flag) => bootFlag = PARTITION_VALID_FLAG

FwInv == FwTypeOK /\ CountersAgree /\ CallOfFunction /\ OldFlag /\ OldFlagDecides

LEMMA FwInitial == Init => FwInv
<1> SUFFICES ASSUME Init PROVE FwInv  OBVIOUS
<1>1. flash \in Memory /\ call = NoCall  BY FwAssumption DEF Init, Memory
<1>2. NoCall \in CallType
  BY FlashAssumption DEF NoCall, CallType, Data, flash_status_t
<1>3. ActiveFlagWord \in Words /\ InactiveFlagWord \in Words
  BY LayoutAssumption DEF ActiveFlagWord, InactiveFlagWord, FlagWord, Words
<1>4. FlashTypeOK /\ BootloaderTypeOK /\ bootFlag \in WordValues
  BY <1>1, <1>2, <1>3
     DEF Init, FlashTypeOK, BootloaderTypeOK, Memory, RamAtReset, bootloader_state_t,
         bootloader_error_t
<1>5. current_write_address = PARTITION_INACTIVE_START /\ total_written_bytes = 0
      /\ running = "none" /\ returned = Nothing /\ written = <<>> /\ bootFlag = inactive_flag
  BY DEF Init
<1>6. FwTypeOK  BY <1>4, <1>5, Numbers DEF FwTypeOK, Nothing, Responses
<1>7. CountersAgree  BY <1>5, Numbers DEF CountersAgree
<1> QED BY <1>1, <1>5, <1>6, <1>7
        DEF FwInv, CallOfFunction, OldFlag, OldFlagDecides, Finalized, Nothing, Partition_IsValid

\* The parts of the invariant that a call of the driver does not touch.
LEMMA FlashCallInv ==
  ASSUME FwInv, FlashCall
  PROVE  FwInv'
<1> USE DEF FwInv
<1>1. FlashTypeOK /\ FlashStep  BY DEF FlashCall, FwTypeOK
<1>2. FlashTypeOK'  BY <1>1, FlashStepType
<1>3. UNCHANGED <<bootloaderVars, managerVars, running, returned, bootFlag, written>>
  BY DEF FlashCall
<1>4. FwTypeOK' /\ CountersAgree' /\ OldFlag' /\ OldFlagDecides'
  BY <1>2, <1>3
     DEF FwTypeOK, CountersAgree, OldFlag, OldFlagDecides, Finalized, bootloaderVars, managerVars,
         BootloaderTypeOK, Partition_IsValid
<1>5. CallOfFunction'
  <2>1. /\ call.step \in {"erase", "write"}
        /\ call'.op = call.op /\ call'.address = call.address
        /\ call'.data = call.data /\ call'.length = call.length
        /\ call'.step # "done" => call'.status = call.status
    BY <1>1, FlashStepCall
  <2>2. running # "none" /\ running # "fault"
    BY <2>1 DEF CallOfFunction, NoCall
  <2>3. running = "chunk" => ChunkCall'
    BY <1>3, <2>1 DEF CallOfFunction, ChunkCall, Accepted, managerVars, Flash_IsAddressValid
  <2> QED BY <1>3, <2>1, <2>2, <2>3 DEF CallOfFunction
<1> QED BY <1>4, <1>5

\* The entry checks of the driver give well-typed calls.
LEMMA NewCalls ==
  /\ NoCall \in CallType
  /\ Flash_ErasePage(PARTITION_INACTIVE_START) \in CallType
  /\ Flash_ErasePage(PARTITION_INACTIVE_START).address = PARTITION_INACTIVE_START
  /\ Flash_ErasePage(PARTITION_INACTIVE_START).length = 0
  /\ \A address \in Nat, data \in Data, length \in Nat :
       LET c == Flash_ProgramPage(address, data, length)
       IN /\ c \in CallType
          /\ c.op = "program" /\ c.address = address /\ c.data = data /\ c.length = length
          /\ c.step # "done" => c.status = "FLASH_SUCCESS"
          /\ c.status = "FLASH_SUCCESS" =>
               Flash_IsAddressValid(address) /\ length <= FLASH_PAGE_SIZE
<1>1. NoCall \in CallType
  BY FlashAssumption DEF NoCall, CallType, Data, flash_status_t
<1>2. /\ Flash_ErasePage(PARTITION_INACTIVE_START) \in CallType
      /\ Flash_ErasePage(PARTITION_INACTIVE_START).address = PARTITION_INACTIVE_START
      /\ Flash_ErasePage(PARTITION_INACTIVE_START).length = 0
  BY <1>1, Numbers DEF Flash_ErasePage, CallType, flash_status_t, NoCall
<1>3. ASSUME NEW address \in Nat, NEW data \in Data, NEW length \in Nat
      PROVE  LET c == Flash_ProgramPage(address, data, length)
             IN /\ c \in CallType
                /\ c.op = "program" /\ c.address = address /\ c.data = data /\ c.length = length
                /\ c.step # "done" => c.status = "FLASH_SUCCESS"
                /\ c.status = "FLASH_SUCCESS" =>
                     Flash_IsAddressValid(address) /\ length <= FLASH_PAGE_SIZE
  <2> DEFINE accepted == Flash_IsAddressValid(address) /\ length <= FLASH_PAGE_SIZE
  <2>1. Flash_ProgramPage(address, data, length) =
          [NoCall EXCEPT
             !.op = "program", !.address = address, !.data = data, !.length = length,
             !.step = IF accepted THEN "erase" ELSE "done",
             !.status = IF accepted THEN "FLASH_SUCCESS" ELSE "FLASH_ERROR_INVALID_ADDRESS"]
    BY DEF Flash_ProgramPage
  <2>2. accepted => Flash_IsAddressValid(address) /\ length <= FLASH_PAGE_SIZE  OBVIOUS
  <2> HIDE DEF accepted
  <2> QED BY <1>1, <2>1, <2>2 DEF CallType, flash_status_t
<1> QED BY <1>1, <1>2, <1>3

----------------------------------------------------------------------------
\* Every step keeps the invariant.

\* A function that returns, or refuses, leaves no call behind.
LEMMA RespondInv ==
  ASSUME FwInv,
         NEW function \in {"start", "chunk", "finalize", "cancel", "verify"},
         NEW response \in Responses,
         Respond(function, response),
         CountersAgree', current_write_address' \in Nat, total_written_bytes' \in Nat,
         BootloaderTypeOK', OldFlag',
         function = "finalize" /\ response = "CMD_SUCCESS" => Partition_IsValid(inactive_flag),
         written' \in Seq([address : Words, data : Chunks, length : Nat]),
         UNCHANGED <<flash, bootFlag>>
  PROVE  FwInv'
<1>1. running' = "none" /\ call' = NoCall
      /\ returned' = [from |-> function, response |-> response]
  BY DEF Respond
<1>2. FwTypeOK'
  BY <1>1, NewCalls DEF FwInv, FwTypeOK, FlashTypeOK
<1>3. CallOfFunction'  BY <1>1 DEF CallOfFunction
<1>4. OldFlagDecides'
  BY <1>1 DEF FwInv, OldFlag, OldFlagDecides, Finalized
<1> QED BY <1>2, <1>3, <1>4 DEF FwInv

\* A function that begins to wait for the driver.
LEMMA AwaitInv ==
  ASSUME FwInv,
         NEW place \in {"start", "chunk", "crc", "mark"}, NEW c \in CallType,
         Await(place, c), CallOfFunction',
         written' \in Seq([address : Words, data : Chunks, length : Nat]),
         UNCHANGED <<flash, bootloaderVars, managerVars, bootFlag>>
  PROVE  FwInv'
<1>1. running' = place /\ call' = c /\ returned' = Nothing  BY DEF Await
<1>2. FwTypeOK'
  BY <1>1 DEF FwInv, FwTypeOK, FlashTypeOK, BootloaderTypeOK, bootloaderVars, managerVars,
              Nothing, Responses
<1>3. CountersAgree' /\ OldFlag' /\ OldFlagDecides'
  BY <1>1 DEF FwInv, CountersAgree, OldFlag, OldFlagDecides, Finalized, bootloaderVars, managerVars,
              Nothing, Partition_IsValid
<1> QED BY <1>2, <1>3 DEF FwInv

\* The bank is forgotten: the counters start again.
LEMMA ForgetCounters ==
  ASSUME Forget
  PROVE  CountersAgree' /\ current_write_address' \in Nat /\ total_written_bytes' \in Nat
BY Numbers DEF Forget, CountersAgree

LEMMA ReturnsInv ==
  ASSUME FwInv, Returns
  PROVE  FwInv'
<1>0. /\ BootloaderTypeOK /\ CountersAgree /\ OldFlag /\ CallOfFunction /\ call \in CallType
      /\ current_write_address \in Nat /\ total_written_bytes \in Nat
      /\ written \in Seq([address : Words, data : Chunks, length : Nat])
  BY DEF FwInv, FwTypeOK, FlashTypeOK
<1>k. /\ UNCHANGED bootloaderVars => BootloaderTypeOK'
      /\ UNCHANGED <<bootloaderVars, bootFlag>> => OldFlag'
      /\ UNCHANGED managerVars => CountersAgree' /\ current_write_address' \in Nat
                                   /\ total_written_bytes' \in Nat
  BY <1>0 DEF bootloaderVars, managerVars, BootloaderTypeOK, CountersAgree, OldFlag,
              Partition_IsValid
<1>r. {"CMD_SUCCESS", "CMD_ERR_FLASH_OP_FAILED", "CMD_ERR_CRC_MISMATCH",
       "CMD_ERR_PARTITION_SWITCH_FAIL"} \subseteq Responses
  BY DEF Responses
<1>1. CASE StartReturn
  <2>1. UNCHANGED <<flash, bootloaderVars, bootFlag, written>>  BY <1>1 DEF StartReturn
  <2>2. CASE Forget /\ Respond("start", "CMD_SUCCESS")
    BY <1>0, <1>k, <1>r, <2>1, <2>2, ForgetCounters, RespondInv
  <2>3. CASE UNCHANGED managerVars /\ Respond("start", "CMD_ERR_FLASH_OP_FAILED")
    BY <1>0, <1>k, <1>r, <2>1, <2>3, RespondInv
  <2> QED BY <1>1, <2>2, <2>3 DEF StartReturn
<1>2. CASE ChunkReturn
  <2>1. UNCHANGED <<flash, bootloaderVars, bootFlag>>  BY <1>2 DEF ChunkReturn
  <2>2. CASE Returned("FLASH_SUCCESS")
    <3>1. ChunkCall /\ Accepted
      BY <1>0, <1>2, <2>2 DEF ChunkReturn, Back, CallOfFunction, ChunkCall, Returned
    <3>2. /\ current_write_address' = current_write_address + call.length
          /\ total_written_bytes' = total_written_bytes + call.length
          /\ written' = Append(written, [address |-> call.address, data |-> call.data,
                                         length |-> call.length])
          /\ Respond("chunk", "CMD_SUCCESS")
      BY <1>2, <2>2 DEF ChunkReturn
    <3>3. call.length \in Nat /\ call.address \in Words /\ call.data \in Chunks
      <4>1. call.length \in Nat /\ call.address \in Nat  BY <1>0 DEF CallType
      <4>2. call.address < FLASH_TOTAL_SIZE /\ call.address % 4 = 0
        BY <3>1 DEF Accepted, Flash_IsAddressValid
      <4>3. call.address \in Words  BY <4>1, <4>2, Numbers DEF Words
      <4> QED BY <3>1, <4>1, <4>3 DEF ChunkCall
    <3>4. written' \in Seq([address : Words, data : Chunks, length : Nat])
      BY <1>0, <3>2, <3>3
    <3>5. CountersAgree' /\ current_write_address' \in Nat /\ total_written_bytes' \in Nat
      BY <1>0, <3>1, <3>2, <3>3, Numbers DEF CountersAgree, ChunkCall, Accepted
    <3> QED BY <1>k, <1>r, <2>1, <3>2, <3>4, <3>5, RespondInv
  <2>3. CASE ~Returned("FLASH_SUCCESS")
    <3>1. UNCHANGED <<managerVars, written>> /\ Respond("chunk", "CMD_ERR_FLASH_OP_FAILED")
      BY <1>2, <2>3 DEF ChunkReturn
    <3> QED BY <1>0, <1>k, <1>r, <2>1, <3>1, RespondInv
  <2> QED BY <2>2, <2>3
<1>3. CASE CrcReturn
  <2>1. UNCHANGED <<flash, bootloaderVars, managerVars, bootFlag, written>>
    BY <1>3 DEF CrcReturn
  <2>2. CASE Respond("finalize", "CMD_ERR_CRC_MISMATCH")
    BY <1>0, <1>k, <1>r, <2>1, <2>2, RespondInv
  <2>3. CASE Await("mark", Flash_ProgramPage(MarkWord, VALID_MARK, 4))
    <3> DEFINE c == Flash_ProgramPage(MarkWord, VALID_MARK, 4)
    <3>1. VALID_MARK \in Data  BY FwAssumption DEF Data
    <3>2. c \in CallType /\ c.address = MarkWord /\ c.length = 4
      BY <3>1, NewCalls, MetadataWords
    <3> HIDE DEF c
    <3>3. CallOfFunction'  BY <2>3, <3>2 DEF Await, CallOfFunction, c
    <3> QED BY <1>0, <2>1, <2>3, <3>2, <3>3, AwaitInv DEF c
  <2> QED BY <1>3, <2>2, <2>3 DEF CrcReturn
<1>4. CASE MarkReturn
  <2>1. UNCHANGED <<flash, current_state, last_error, managerVars, bootFlag, written>>
    BY <1>4 DEF MarkReturn
  <2>2. CASE Partition_IsValid(inactive_flag) /\ Partition_SwitchActive
             /\ Respond("finalize", "CMD_SUCCESS")
    <3>1. BootloaderTypeOK' /\ OldFlag'
      BY <1>0, <2>1, <2>2
         DEF Partition_SwitchActive, BootloaderTypeOK, OldFlag, Partition_IsValid,
             PARTITION_INVALID_FLAG, PARTITION_VALID_FLAG, WordValues, Data, Erased
    <3> QED BY <1>0, <1>k, <1>r, <2>1, <2>2, <3>1, RespondInv
  <2>3. ASSUME NEW response \in {"CMD_ERR_PARTITION_SWITCH_FAIL", "CMD_ERR_CRC_MISMATCH"},
               UNCHANGED partitionVars, Respond("finalize", response)
        PROVE  FwInv'
    <3>1. UNCHANGED bootloaderVars  BY <2>1, <2>3 DEF partitionVars, bootloaderVars
    <3> QED BY <1>0, <1>k, <1>r, <2>1, <2>3, <3>1, RespondInv
  <2> QED BY <1>4, <2>2, <2>3 DEF MarkReturn
<1> QED BY <1>1, <1>2, <1>3, <1>4 DEF Returns

LEMMA CallsInv ==
  ASSUME FwInv, Calls
  PROVE  FwInv'
<1>0. /\ FwTypeOK /\ FlashTypeOK /\ BootloaderTypeOK /\ CountersAgree /\ OldFlag
      /\ CallOfFunction
      /\ current_write_address \in Nat /\ total_written_bytes \in Nat
      /\ written \in Seq([address : Words, data : Chunks, length : Nat])
  BY DEF FwInv, FwTypeOK
<1>k. /\ UNCHANGED bootloaderVars => BootloaderTypeOK'
      /\ UNCHANGED <<bootloaderVars, bootFlag>> => OldFlag'
      /\ UNCHANGED managerVars => CountersAgree' /\ current_write_address' \in Nat
                                   /\ total_written_bytes' \in Nat
  BY <1>0 DEF bootloaderVars, managerVars, BootloaderTypeOK, CountersAgree, OldFlag,
              Partition_IsValid
<1>e. <<>> \in Seq([address : Words, data : Chunks, length : Nat])  OBVIOUS
<1>1. CASE FWUpdateManager_Init
  <2>1. UNCHANGED <<flash, call, bootloaderVars, running, returned, bootFlag>>
        /\ written' = <<>> /\ Forget
    BY <1>1 DEF FWUpdateManager_Init
  <2>2. running = "none"  BY <1>1 DEF FWUpdateManager_Init
  <2>3. CountersAgree' /\ current_write_address' \in Nat /\ total_written_bytes' \in Nat
    BY <2>1, ForgetCounters
  <2>4. FwTypeOK'
    BY <1>0, <1>k, <1>e, <2>1, <2>3 DEF FwTypeOK, FlashTypeOK
  <2>5. CallOfFunction' /\ OldFlagDecides'
    BY <1>0, <2>1, <2>2 DEF CallOfFunction, FwInv, OldFlagDecides, Finalized
  <2> QED BY <1>k, <2>1, <2>3, <2>4, <2>5 DEF FwInv
<1>2. CASE FWUpdateManager_StartUpdate
  <2> DEFINE c == Flash_ErasePage(PARTITION_INACTIVE_START)
  <2>1. c \in CallType /\ c.address = PARTITION_INACTIVE_START /\ c.length = 0
    BY NewCalls
  <2>2. Await("start", c) /\ written' = <<>>
        /\ UNCHANGED <<flash, bootloaderVars, managerVars, bootFlag>>
    BY <1>2 DEF FWUpdateManager_StartUpdate
  <2> HIDE DEF c
  <2>3. CallOfFunction'  BY <2>1, <2>2 DEF Await, CallOfFunction
  <2> QED BY <1>e, <2>1, <2>2, <2>3, AwaitInv
<1>3. ASSUME NEW length \in ChunkLengths, ChunkRefused(length) PROVE FwInv'
  <2>1. PICK response \in {"CMD_ERR_INVALID_COMMAND", "CMD_ERR_FLASH_OP_FAILED"} :
          Respond("chunk", response)
    BY <1>3 DEF ChunkRefused
  <2>2. response \in Responses  BY DEF Responses
  <2>3. UNCHANGED <<flash, bootloaderVars, managerVars, bootFlag, written>>
    BY <1>3 DEF ChunkRefused
  <2> QED BY <1>0, <1>k, <2>1, <2>2, <2>3, RespondInv
<1>4. ASSUME NEW length \in ChunkLengths, NEW data \in Chunks,
             FWUpdateManager_ProcessChunk(data, length)
      PROVE  FwInv'
  <2> DEFINE c == Flash_ProgramPage(current_write_address, data, length)
  <2>1. length \in Nat /\ length # 0 /\ ~Exceeds(length)
    BY <1>4, FwAssumption DEF FWUpdateManager_ProcessChunk
  <2>2. /\ c \in CallType
        /\ c.op = "program" /\ c.address = current_write_address
        /\ c.data = data /\ c.length = length
        /\ c.step # "done" => c.status = "FLASH_SUCCESS"
        /\ c.status = "FLASH_SUCCESS" =>
             Flash_IsAddressValid(current_write_address) /\ length <= FLASH_PAGE_SIZE
    <3>1. data \in Data  BY FwAssumption DEF Data
    <3> QED BY <1>0, <2>1, <3>1, NewCalls
  <2>3. Await("chunk", c) /\ UNCHANGED <<flash, bootloaderVars, managerVars, bootFlag, written>>
    BY <1>4 DEF FWUpdateManager_ProcessChunk
  <2> HIDE DEF c
  <2>4. c.status = "FLASH_SUCCESS" => current_write_address + length <= BankEnd
    BY <1>0, <2>1, <2>2, NoWrap DEF CountersAgree
  <2>5. CallOfFunction'
    BY <2>1, <2>2, <2>3, <2>4
       DEF Await, CallOfFunction, ChunkCall, Accepted, managerVars
  <2> QED BY <1>0, <2>2, <2>3, <2>5, AwaitInv
<1>5. CASE FWUpdateManager_FinalizeUpdate
  <2> DEFINE c == Flash_ProgramPage(CrcWord, CrcValue, 4)
  <2>1. CrcValue \in Data  BY FwAssumption DEF Data
  <2>2. c \in CallType /\ c.address = CrcWord /\ c.length = 4
    BY <2>1, NewCalls, MetadataWords
  <2>3. Await("crc", c) /\ UNCHANGED <<flash, bootloaderVars, managerVars, bootFlag, written>>
    BY <1>5 DEF FWUpdateManager_FinalizeUpdate
  <2> HIDE DEF c
  <2>4. CallOfFunction'  BY <2>2, <2>3 DEF Await, CallOfFunction
  <2> QED BY <1>0, <2>2, <2>3, <2>4, AwaitInv
<1>6. CASE ReadFault
  <2>1. running = "none" /\ running' = "fault" /\ returned' = Nothing
        /\ UNCHANGED <<flash, call, bootloaderVars, managerVars, bootFlag, written>>
    BY <1>6 DEF ReadFault
  <2>2. FwTypeOK'
    BY <1>0, <1>k, <2>1 DEF FwTypeOK, FlashTypeOK, Nothing, Responses
  <2>3. CallOfFunction' /\ OldFlagDecides'
    BY <1>0, <2>1 DEF CallOfFunction, OldFlagDecides, Finalized, Nothing
  <2> QED BY <1>k, <2>1, <2>2, <2>3 DEF FwInv
<1>7. CASE FWUpdateManager_CancelUpdate
  <2>1. Forget /\ written' = <<>> /\ inactive_flag' = PARTITION_INVALID_FLAG
        /\ Respond("cancel", "CMD_SUCCESS")
        /\ UNCHANGED <<flash, active_flag, current_state, last_error, bootFlag>>
    BY <1>7 DEF FWUpdateManager_CancelUpdate
  <2>2. BootloaderTypeOK' /\ OldFlag'
    BY <1>0, <2>1
       DEF BootloaderTypeOK, OldFlag, Partition_IsValid, PARTITION_INVALID_FLAG,
           PARTITION_VALID_FLAG, WordValues, Data, Erased
  <2>3. "CMD_SUCCESS" \in Responses  BY DEF Responses
  <2> QED BY <1>e, <2>1, <2>2, <2>3, ForgetCounters, RespondInv
<1>8. CASE FWUpdateManager_VerifyIntegrity
  <2>1. PICK answer \in {"true", "false"} : Respond("verify", answer)
    BY <1>8 DEF FWUpdateManager_VerifyIntegrity
  <2>2. UNCHANGED <<flash, bootloaderVars, managerVars, bootFlag, written>>
    BY <1>8 DEF FWUpdateManager_VerifyIntegrity
  <2>3. answer \in Responses  BY DEF Responses
  <2> QED BY <1>0, <1>k, <2>1, <2>2, <2>3, RespondInv
<1> QED BY <1>1, <1>2, <1>3, <1>4, <1>5, <1>6, <1>7, <1>8 DEF Calls

LEMMA PowerLossInv ==
  ASSUME FwInv, PowerLoss
  PROVE  FwInv'
<1>1. ActiveFlagWord \in Words /\ InactiveFlagWord \in Words
  BY LayoutAssumption DEF ActiveFlagWord, InactiveFlagWord, FlagWord, Words
<1>2. /\ Partition_Init /\ Forget /\ UNCHANGED flash
      /\ current_state' = RamAtReset.current_state /\ last_error' = RamAtReset.last_error
      /\ call' = NoCall /\ running' = "none" /\ returned' = Nothing
      /\ bootFlag' = flash[InactiveFlagWord] /\ written' = <<>>
  BY DEF PowerLoss
<1>3. flash \in Memory  BY DEF FwInv, FwTypeOK, FlashTypeOK
<1>4. BootloaderTypeOK' /\ bootFlag' \in WordValues /\ OldFlag'
  BY <1>1, <1>2, <1>3
     DEF Partition_Init, BootloaderTypeOK, RamAtReset, bootloader_state_t, bootloader_error_t,
         OldFlag, Partition_IsValid, Memory
<1>5. CountersAgree' /\ current_write_address' \in Nat /\ total_written_bytes' \in Nat
  BY <1>2, ForgetCounters
<1>6. FwTypeOK'
  BY <1>2, <1>3, <1>4, <1>5, NewCalls DEF FwTypeOK, FlashTypeOK, Nothing, Responses
<1>7. CallOfFunction' /\ OldFlagDecides'
  BY <1>2 DEF CallOfFunction, OldFlagDecides, Finalized, Nothing
<1> QED BY <1>4, <1>5, <1>6, <1>7 DEF FwInv

THEOREM FwInvariance == Spec => []FwInv
<1>1. FwInv /\ UNCHANGED fwVars => FwInv'
  BY DEF FwInv, fwVars, FwTypeOK, FlashTypeOK, BootloaderTypeOK, bootloaderVars, managerVars,
         CountersAgree, CallOfFunction, ChunkCall, Accepted, OldFlag, OldFlagDecides, Finalized,
         Partition_IsValid, Flash_IsAddressValid
<1>2. FwInv /\ [Next]_fwVars => FwInv'
  BY <1>1, FlashCallInv, ReturnsInv, CallsInv, PowerLossInv DEF Next
<1> QED BY <1>2, FwInitial, PTL DEF Spec

\* The statics, locals and calls of the manager keep their types, through every
\* length a caller may pass (fw_update_manager.c).
THEOREM ManagerTyped == Spec => []FwTypeOK
BY FwInvariance, PTL DEF FwInv

\* The counters of the manager agree and stay within the bank, for every
\* length a caller may pass.
THEOREM CountersStayInBank == Spec => []CountersAgree
BY FwInvariance, PTL DEF FwInv

\* No update is finalised on a bank that was not marked valid before it.
THEOREM OldFlagAlwaysDecides == Spec => []OldFlagDecides
BY FwInvariance, PTL DEF FwInv

\* The manager writes nothing outside the inactive bank, for every length and
\* sequence of calls.
THEOREM ManagerKeepsToItsBank == Spec => RunningBankUntouched
<1> DEFINE Keeps == \A w \in Words \ Bank : flash'[w] = flash[w]
<1>1. ASSUME FwInv, [Next]_fwVars PROVE [Keeps]_fwVars
  <2>1. CASE FlashCall
    <3>1. FlashTypeOK /\ FlashStep  BY <1>1, <2>1 DEF FlashCall, FwInv, FwTypeOK
    <3>2. call.step \in {"erase", "write"} /\ call \in CallType
      BY <3>1, FlashStepCall DEF FlashTypeOK
    <3>3. running \in {"start", "chunk", "crc", "mark"}
      BY <1>1, <3>2 DEF FwInv, FwTypeOK, CallOfFunction, NoCall
    <3>4. /\ call.address \in Nat /\ call.length \in Nat
          /\ PARTITION_INACTIVE_START <= call.address
          /\ call.address < BankEnd /\ call.address + call.length <= BankEnd
      <4>1. call.address \in Nat /\ call.length \in Nat  BY <3>2 DEF CallType
      <4>2. CASE running = "start"
        BY <1>1, <4>1, <4>2, Numbers DEF FwInv, CallOfFunction
      <4>3. CASE running = "chunk"
        <5>1. ChunkCall /\ Accepted  BY <1>1, <3>2, <4>3 DEF FwInv, CallOfFunction, ChunkCall
        <5>2. current_write_address = PARTITION_INACTIVE_START + total_written_bytes
              /\ total_written_bytes \in Nat
          BY <1>1 DEF FwInv, CountersAgree, FwTypeOK
        <5> QED BY <4>1, <5>1, <5>2, Numbers DEF ChunkCall, Accepted
      <4>4. CASE running \in {"crc", "mark"}
        BY <1>1, <4>1, <4>4, Numbers, MetadataWords DEF FwInv, CallOfFunction
      <4> QED BY <3>3, <4>2, <4>3, <4>4
    <3>5. Footprint(call.address, call.length) \subseteq Bank  BY <3>4, FootprintInBank
    <3> QED BY <3>1, <3>5, FlashStepFrame
  <2>2. CASE ~FlashCall
    BY <1>1, <2>2
       DEF Next, Returns, Calls, StartReturn, ChunkReturn, CrcReturn, MarkReturn,
           FWUpdateManager_Init, FWUpdateManager_StartUpdate, ChunkRefused,
           FWUpdateManager_ProcessChunk, FWUpdateManager_FinalizeUpdate, ReadFault,
           FWUpdateManager_CancelUpdate, FWUpdateManager_VerifyIntegrity, PowerLoss, fwVars
  <2> QED BY <2>1, <2>2
<1> QED BY <1>1, FwInvariance, PTL DEF Spec, RunningBankUntouched, Bank

----------------------------------------------------------------------------
\* What FinalizeUpdate leaves behind.

\* Both words of the metadata are on the last page of the bank, the mark where
\* Partition_Init looks for the flag.
LEMMA MetadataPage ==
  /\ InactiveFlagWord = MarkWord /\ CrcWord \in Words /\ MarkWord \in Words
  /\ CrcWord \in PageWords(MarkWord) /\ MarkWord \in BlockWords(MarkWord, 4)
  /\ CrcWord \notin BlockWords(MarkWord, 4)
<1>1. CrcWord = BankEnd - 8 /\ MarkWord = BankEnd - 4 /\ InactiveFlagWord = BankEnd - 4
  BY Numbers, FwAssumption, LayoutAssumption
     DEF CrcWord, MarkWord, CRC_METADATA_OFFSET, InactiveFlagWord, FlagWord, BankEnd
<1>2. BankEnd % 4 = 0  BY LayoutAssumption DEF BankEnd
<1>3. CrcWord \in Words /\ MarkWord \in Words
  BY <1>1, <1>2, Numbers, MetadataWords, LayoutAssumption DEF Words, BankEnd
<1>4. BankEnd % FLASH_PAGE_SIZE = 0
  <2>1. PARTITION_INACTIVE_START % FLASH_PAGE_SIZE = 0 /\ PARTITION_SIZE % FLASH_PAGE_SIZE = 0
    BY LayoutAssumption
  <2>2. PARTITION_INACTIVE_START \in Int /\ PARTITION_SIZE \in Int
        /\ FLASH_PAGE_SIZE \in Nat \ {0}
    BY Numbers
  <2> QED BY <2>1, <2>2, MultipleSum DEF BankEnd
<1>5. PAGE_START_ADDR(MarkWord) + FLASH_PAGE_SIZE <= BankEnd
  <2>1. MarkWord \in Int /\ BankEnd \in Int /\ MarkWord < BankEnd /\ FLASH_PAGE_SIZE \in Nat \ {0}
    BY <1>1, Numbers, MetadataWords, LayoutAssumption
  <2>2. MarkWord - (MarkWord % FLASH_PAGE_SIZE) + FLASH_PAGE_SIZE <= BankEnd
    BY <1>4, <2>1, PageBelow
  <2> QED BY <2>2 DEF PAGE_START_ADDR
<1>6. PAGE_START_ADDR(MarkWord) \in Int /\ MarkWord < PAGE_START_ADDR(MarkWord) + FLASH_PAGE_SIZE
  <2>1. MarkWord \in Int /\ FLASH_PAGE_SIZE \in Nat \ {0}  BY MetadataWords, LayoutAssumption
  <2>2. MarkWord % FLASH_PAGE_SIZE \in 0 .. FLASH_PAGE_SIZE - 1  BY <2>1, Division
  <2> QED BY <2>1, <2>2 DEF PAGE_START_ADDR
<1>7. CrcWord \in PageWords(MarkWord)
  BY <1>1, <1>3, <1>5, <1>6, Numbers, MetadataWords, FwAssumption, LayoutAssumption DEF PageWords
<1>8. MarkWord \in BlockWords(MarkWord, 4) /\ CrcWord \notin BlockWords(MarkWord, 4)
  BY <1>1, <1>3, Numbers, MetadataWords DEF BlockWords
<1> QED BY <1>1, <1>3, <1>7, <1>8

\* The page is erased for the mark after the CRC was stored on it.
Spoilt == flash[CrcWord] = Erased /\ flash[MarkWord] = VALID_MARK

MarkCall ==
  /\ call.op = "program" /\ call.data = VALID_MARK
  /\ call.step # "idle"
  /\ call.step # "done" => call.status = "FLASH_SUCCESS"
  /\ call.step = "write" => flash[CrcWord] = Erased
  /\ Returned("FLASH_SUCCESS") => Spoilt

SpoilInv ==
  /\ running = "mark" => MarkCall
  /\ running # "none" => returned = Nothing
  /\ Finalized => Spoilt

LEMMA MarkCallStep ==
  ASSUME FwInv, SpoilInv, running = "mark", FlashStep
  PROVE  MarkCall'
<1>1. /\ MarkCall /\ FlashTypeOK /\ call.address = MarkWord /\ call.length = 4
  BY DEF SpoilInv, FwInv, FwTypeOK, CallOfFunction
<1>2. /\ call.step \in {"erase", "write"}
      /\ call'.op = call.op /\ call'.data = call.data
      /\ call'.step \in {"write", "done"}
      /\ call'.step # "done" => call'.status = call.status
  BY <1>1, FlashStepCall
<1>3. call.status = "FLASH_SUCCESS"  BY <1>1, <1>2 DEF MarkCall
<1>4. CASE PageErase
  <2>1. call'.step = "write" => flash'[CrcWord] = Erased
    BY <1>1, <1>4, MetadataPage DEF PageErase, Fill, FlashTypeOK, CallType
  <2>2. ~(call'.step = "done" /\ call'.status = "FLASH_SUCCESS")
    BY <1>1, <1>4 DEF PageErase, MarkCall, FlashTypeOK, CallType
  <2> QED BY <1>1, <1>2, <1>3, <2>1, <2>2 DEF MarkCall, Returned
<1>5. CASE WriteAttempt
  <2>1. call.step = "write"  BY <1>5 DEF WriteAttempt
  <2>2. flash[CrcWord] = Erased  BY <1>1, <2>1 DEF MarkCall
  <2>3. PICK n \in 0 .. 4 : flash' = Program(flash, BlockWords(MarkWord, n), VALID_MARK)
    BY <1>1, <1>5 DEF WriteAttempt, MarkCall
  <2>4. CrcWord \notin BlockWords(MarkWord, n)
    BY <2>3, MetadataPage, MetadataWords DEF BlockWords, Words
  <2>5. flash'[CrcWord] = Erased
    BY <2>2, <2>3, <2>4, MetadataPage DEF Program
  <2>6. call'.step = "done" /\ call'.status = "FLASH_SUCCESS" => flash'[MarkWord] = VALID_MARK
    <3>1. call'.step = "done" /\ call'.status = "FLASH_SUCCESS" =>
            Holds(flash', BlockWords(call.address, call.length), call.data)
      BY <1>1, <1>3, FlashStepStored DEF MarkCall
    <3> QED BY <1>1, <3>1, MetadataPage DEF Holds, MarkCall
  <2> QED BY <1>1, <1>2, <1>3, <2>5, <2>6 DEF MarkCall, Returned, Spoilt
<1> QED BY <1>4, <1>5 DEF FlashStep

LEMMA SpoilStep ==
  ASSUME FwInv, SpoilInv, [Next]_fwVars
  PROVE  SpoilInv'
<1>1. CASE FlashCall
  <2>1. running' = running /\ returned' = returned /\ running # "none" /\ FlashStep
    BY <1>1 DEF FlashCall
  <2>2. running = "mark" => MarkCall'  BY <2>1, MarkCallStep
  <2>3. ~Finalized'  BY <2>1 DEF SpoilInv, Finalized, Nothing
  <2> QED BY <2>1, <2>2, <2>3 DEF SpoilInv
<1>2. CASE CrcReturn
  <2>1. CASE Await("mark", Flash_ProgramPage(MarkWord, VALID_MARK, 4))
    <3> DEFINE accepted == Flash_IsAddressValid(MarkWord) /\ 4 <= FLASH_PAGE_SIZE
    <3>1. /\ running' = "mark" /\ returned' = Nothing
          /\ call' = [NoCall EXCEPT !.op = "program", !.address = MarkWord, !.data = VALID_MARK,
                        !.length = 4, !.step = IF accepted THEN "erase" ELSE "done",
                        !.status = IF accepted THEN "FLASH_SUCCESS"
                                   ELSE "FLASH_ERROR_INVALID_ADDRESS"]
      BY <2>1 DEF Await, Flash_ProgramPage
    <3> HIDE DEF accepted
    <3>2. MarkCall'  BY <3>1 DEF MarkCall, Returned, NoCall
    <3> QED BY <3>1, <3>2 DEF SpoilInv, Finalized, Nothing
  <2>2. CASE Respond("finalize", "CMD_ERR_CRC_MISMATCH")
    BY <2>2 DEF Respond, SpoilInv, Finalized
  <2> QED BY <1>2, <2>1, <2>2 DEF CrcReturn
<1>3. CASE MarkReturn
  <2>1. running = "mark" /\ flash' = flash /\ running' = "none"
    BY <1>3 DEF MarkReturn, Back, Respond
  <2>2. Finalized' => Returned("FLASH_SUCCESS")
    BY <1>3 DEF MarkReturn, Respond, Finalized
  <2> QED BY <2>1, <2>2 DEF SpoilInv, MarkCall, Spoilt
<1>4. CASE StartReturn \/ ChunkReturn
  <2>1. running' = "none" /\ returned'.from \in {"start", "chunk"}
    BY <1>4 DEF StartReturn, ChunkReturn, Respond
  <2> QED BY <2>1 DEF SpoilInv, Finalized
<1>5. CASE FWUpdateManager_Init
  BY <1>5 DEF FWUpdateManager_Init, SpoilInv, Finalized, Spoilt
<1>6. ASSUME NEW length \in ChunkLengths, ChunkRefused(length) PROVE SpoilInv'
  BY <1>6 DEF ChunkRefused, Respond, SpoilInv, Finalized
<1>7. ASSUME NEW length \in ChunkLengths, NEW data \in Chunks,
             FWUpdateManager_ProcessChunk(data, length)
      PROVE  SpoilInv'
  BY <1>7 DEF FWUpdateManager_ProcessChunk, Await, SpoilInv, Finalized, Nothing
<1>8. CASE FWUpdateManager_StartUpdate
  BY <1>8 DEF FWUpdateManager_StartUpdate, Await, SpoilInv, Finalized, Nothing
<1>9. CASE FWUpdateManager_FinalizeUpdate
  BY <1>9 DEF FWUpdateManager_FinalizeUpdate, Await, SpoilInv, Finalized, Nothing
<1>10. CASE ReadFault
  BY <1>10 DEF ReadFault, SpoilInv, Finalized, Nothing
<1>11. CASE FWUpdateManager_CancelUpdate \/ FWUpdateManager_VerifyIntegrity
  BY <1>11 DEF FWUpdateManager_CancelUpdate, FWUpdateManager_VerifyIntegrity, Respond, SpoilInv,
     Finalized
<1>12. CASE PowerLoss
  BY <1>12 DEF PowerLoss, SpoilInv, Finalized, Nothing
<1>13. CASE UNCHANGED fwVars
  BY <1>13 DEF fwVars, SpoilInv, MarkCall, Returned, Spoilt, Finalized
<1> QED BY <1>1, <1>2, <1>3, <1>4, <1>5, <1>6, <1>7, <1>8, <1>9, <1>10, <1>11, <1>12, <1>13
        DEF Next, Returns, Calls

\* Every update that is reported complete has lost its CRC to the erase before
\* the mark, which stands where the next start looks for the flag (crc.c:83,
\* fw_update_manager.c:78).
THEOREM FinalizeAlwaysSpoils == Spec => []FinalizeSpoilsBank
<1>1. Init => SpoilInv
  BY DEF Init, SpoilInv, Finalized, Nothing
<1>2. FwInv /\ SpoilInv /\ [Next]_fwVars => SpoilInv'  BY SpoilStep
<1>3. SpoilInv => FinalizeSpoilsBank
  BY MetadataPage DEF SpoilInv, Spoilt, FinalizeSpoilsBank
<1> QED BY <1>1, <1>2, <1>3, FwInvariance, PTL DEF Spec

----------------------------------------------------------------------------
\* What the manager keeps of a firmware.

LEMMA SamePage == PAGE_START_ADDR(MarkWord) = PAGE_START_ADDR(CrcWord)
<1> DEFINE crc  == PAGE_START_ADDR(CrcWord)
           mark == PAGE_START_ADDR(MarkWord)
<1>1. /\ CrcWord \in Int /\ MarkWord \in Int /\ BankEnd \in Int /\ FLASH_PAGE_SIZE \in Nat \ {0}
      /\ MarkWord = CrcWord + 4 /\ CrcWord = BankEnd - 8 /\ 8 <= FLASH_PAGE_SIZE
  BY Numbers, MetadataWords, FwAssumption DEF MarkWord, CrcWord, CRC_METADATA_OFFSET, BankEnd
<1>2. BankEnd % FLASH_PAGE_SIZE = 0
  <2>1. PARTITION_INACTIVE_START % FLASH_PAGE_SIZE = 0 /\ PARTITION_SIZE % FLASH_PAGE_SIZE = 0
    BY LayoutAssumption
  <2>2. PARTITION_INACTIVE_START \in Int /\ PARTITION_SIZE \in Int  BY Numbers
  <2> QED BY <1>1, <2>1, <2>2, MultipleSum DEF BankEnd
<1>3. mark + FLASH_PAGE_SIZE <= BankEnd
  <2>1. MarkWord < BankEnd  BY <1>1
  <2>2. MarkWord - (MarkWord % FLASH_PAGE_SIZE) + FLASH_PAGE_SIZE <= BankEnd
    BY <1>1, <1>2, <2>1, PageBelow
  <2> QED BY <2>2 DEF PAGE_START_ADDR
<1>4. /\ crc \in Int /\ crc <= CrcWord /\ crc % FLASH_PAGE_SIZE = 0
      /\ mark \in Int /\ mark <= MarkWord /\ mark % FLASH_PAGE_SIZE = 0
  <2>1. CrcWord % FLASH_PAGE_SIZE \in 0 .. FLASH_PAGE_SIZE - 1
        /\ MarkWord % FLASH_PAGE_SIZE \in 0 .. FLASH_PAGE_SIZE - 1
    BY <1>1, Division
  <2>2. crc % FLASH_PAGE_SIZE = 0 /\ mark % FLASH_PAGE_SIZE = 0
    BY <1>1, PageStartMultiple DEF PAGE_START_ADDR
  <2> QED BY <1>1, <2>1, <2>2 DEF PAGE_START_ADDR
<1>5. mark <= crc
  <2>1. mark <= CrcWord
    <3> HIDE DEF mark
    <3> QED BY <1>1, <1>3, <1>4
  <2> HIDE DEF mark
  <2> QED BY <1>1, <1>4, <2>1, PageAbove DEF PAGE_START_ADDR
<1>6. crc <= mark
  <2>1. crc <= MarkWord
    <3> HIDE DEF crc
    <3> QED BY <1>1, <1>4
  <2> HIDE DEF crc
  <2> QED BY <1>1, <1>4, <2>1, PageAbove DEF PAGE_START_ADDR
<1> HIDE DEF crc, mark
<1>7. mark = crc  BY <1>4, <1>5, <1>6
<1> QED BY <1>7 DEF crc, mark

\* CRC_Store writes on the last page of the bank only.
LEMMA StoreFootprint ==
  /\ Footprint(CrcWord, 4) \subseteq LastPage
  /\ Footprint(MarkWord, 4) \subseteq LastPage
<1> DEFINE page == PAGE_START_ADDR(CrcWord)
<1>1. /\ CrcWord \in Int /\ MarkWord \in Int /\ MarkWord = CrcWord + 4
      /\ FLASH_PAGE_SIZE \in Nat \ {0} /\ FLASH_PAGE_SIZE % 4 = 0 /\ page \in Int
      /\ page <= CrcWord
  <2>1. CrcWord \in Int /\ MarkWord \in Int /\ FLASH_PAGE_SIZE \in Nat \ {0}
    BY Numbers, MetadataWords
  <2>2. CrcWord % FLASH_PAGE_SIZE \in 0 .. FLASH_PAGE_SIZE - 1  BY <2>1, Division
  <2> QED BY <2>1, <2>2, LayoutAssumption DEF PAGE_START_ADDR, MarkWord
<1>2. PageWords(CrcWord) = LastPage /\ PageWords(MarkWord) = LastPage
  BY SamePage DEF PageWords, LastPage
<1>3. CrcWord \in LastPage /\ MarkWord \in LastPage
  <2>1. CrcWord < page + FLASH_PAGE_SIZE /\ MarkWord < page + FLASH_PAGE_SIZE
    <3>1. CrcWord % FLASH_PAGE_SIZE \in 0 .. FLASH_PAGE_SIZE - 1
          /\ MarkWord % FLASH_PAGE_SIZE \in 0 .. FLASH_PAGE_SIZE - 1
      BY <1>1, Division
    <3>2. MarkWord < PAGE_START_ADDR(MarkWord) + FLASH_PAGE_SIZE
          /\ CrcWord < PAGE_START_ADDR(CrcWord) + FLASH_PAGE_SIZE
      BY <1>1, <3>1 DEF PAGE_START_ADDR
    <3> QED BY <3>2, SamePage
  <2> HIDE DEF page
  <2>2. page <= CrcWord /\ page <= MarkWord  BY <1>1
  <2> QED BY <2>1, <2>2, MetadataPage DEF LastPage, PageWords, page
<1>4. BlockWords(CrcWord, 4) = {CrcWord} /\ BlockWords(MarkWord, 4) = {MarkWord}
  <2>1. CrcWord % 4 = 0 /\ MarkWord % 4 = 0 /\ CrcWord \in Words /\ MarkWord \in Words
    BY MetadataPage DEF Words
  <2> QED BY <1>1, <2>1 DEF BlockWords, Words
<1> QED BY <1>2, <1>3, <1>4 DEF Footprint

\* A chunk of one page at its beginning keeps its words while calls lie behind
\* its end.
LEMMA PageBefore ==
  ASSUME NEW start \in Nat, start % FLASH_PAGE_SIZE = 0,
         NEW address \in Nat, NEW length \in Nat, start + FLASH_PAGE_SIZE <= address
  PROVE  BlockWords(start, FLASH_PAGE_SIZE) \cap Footprint(address, length) = {}
<1> DEFINE end == start + FLASH_PAGE_SIZE
<1>1. FLASH_PAGE_SIZE \in Nat \ {0} /\ end \in Int /\ address \in Int /\ end <= address
  BY Numbers
<1>2. end % FLASH_PAGE_SIZE = 0
  <2>1. FLASH_PAGE_SIZE % FLASH_PAGE_SIZE = 0
    <3>1. (FLASH_PAGE_SIZE * 1) % FLASH_PAGE_SIZE = 0  BY <1>1, Product
    <3>2. FLASH_PAGE_SIZE * 1 = FLASH_PAGE_SIZE  BY <1>1
    <3> QED BY <3>1, <3>2
  <2>2. start \in Int /\ FLASH_PAGE_SIZE \in Int  BY <1>1
  <2> HIDE DEF end
  <2>3. (start + FLASH_PAGE_SIZE) % FLASH_PAGE_SIZE = 0  BY <1>1, <2>1, <2>2, MultipleSum
  <2> QED BY <2>3 DEF end
<1> HIDE DEF end
<1>3. end <= PAGE_START_ADDR(address)  BY <1>1, <1>2, PageAbove DEF PAGE_START_ADDR
<1>4. PAGE_START_ADDR(address) \in Int  BY <1>1, Division DEF PAGE_START_ADDR
<1>5. \A w \in Footprint(address, length) : end <= w
  BY <1>1, <1>3, <1>4 DEF Footprint, PageWords, BlockWords, Words
<1> QED BY <1>5, LayoutAssumption DEF end, BlockWords, Words

Whole(chunk) == chunk.length = FLASH_PAGE_SIZE /\ chunk.address % FLASH_PAGE_SIZE = 0
AllWhole == \A i \in 1 .. Len(written) : Whole(written[i])
Kept(chunk) == Holds(flash, BlockWords(chunk.address, chunk.length) \ LastPage, chunk.data)

\* Chunks lie before the address where the next one goes, and one that the
\* driver reports stored is.
PagesInv ==
  /\ running = "start" => written = <<>>
  /\ \A i \in 1 .. Len(written) :
       written[i].address + written[i].length <= current_write_address
  /\ running = "chunk" /\ Returned("FLASH_SUCCESS") =>
       Holds(flash, BlockWords(call.address, call.length), call.data)
  /\ AllWhole => \A i \in 1 .. Len(written) : Kept(written[i])

\* What was written is typed, chunk by chunk.
LEMMA ElementType ==
  ASSUME NEW S, NEW s \in Seq(S), NEW i \in 1 .. Len(s)
  PROVE  s[i] \in S
OBVIOUS

LEMMA WrittenChunk ==
  ASSUME FwTypeOK, NEW i \in 1 .. Len(written)
  PROVE  written[i].address \in Nat /\ written[i].length \in Nat
<1>1. written \in Seq([address : Words, data : Chunks, length : Nat])  BY DEF FwTypeOK
<1>2. written[i] \in [address : Words, data : Chunks, length : Nat]
  <2> DEFINE S == [address : Words, data : Chunks, length : Nat]
  <2> HIDE DEF S
  <2>1. written \in Seq(S)  BY <1>1 DEF S
  <2>2. written[i] \in S  BY <2>1, ElementType
  <2> QED BY <2>2 DEF S
<1> QED BY <1>2 DEF Words

\* A step of the driver leaves the chunks before it alone.
LEMMA KeptStep ==
  ASSUME FwInv, PagesInv, FlashCall, NEW i \in 1 .. Len(written), Whole(written[i]),
         Kept(written[i])
  PROVE  Kept(written[i])'
<1>1. /\ FlashTypeOK /\ FlashStep /\ UNCHANGED <<written, managerVars, running>>
      /\ written \in Seq([address : Words, data : Chunks, length : Nat])
      /\ CallOfFunction /\ current_write_address \in Nat
  BY DEF FlashCall, FwInv, FwTypeOK
<1>2. /\ call.step \in {"erase", "write"} /\ call.address \in Nat /\ call.length \in Nat
  BY <1>1, FlashStepCall DEF FlashTypeOK, CallType
<1>3. running \in {"chunk", "crc", "mark"}
  <2>1. running # "start"  BY <1>1 DEF PagesInv
  <2> QED BY <1>1, <1>2, <2>1 DEF FwInv, FwTypeOK, CallOfFunction, NoCall
<1>4. written[i].address \in Nat /\ written[i].address + FLASH_PAGE_SIZE <= current_write_address
  <2>1. written[i].address \in Nat  BY WrittenChunk DEF FwInv
  <2> QED BY <2>1 DEF PagesInv, Whole
<1> DEFINE S == BlockWords(written[i].address, written[i].length) \ LastPage
<1>5. S \cap Footprint(call.address, call.length) = {}
  <2>1. CASE running = "chunk"
    <3>1. call.address = current_write_address  BY <1>1, <2>1 DEF CallOfFunction, ChunkCall
    <3> QED BY <1>2, <1>4, <3>1, PageBefore DEF Whole
  <2>2. CASE running \in {"crc", "mark"}
    BY <1>1, <2>2, StoreFootprint DEF CallOfFunction
  <2> QED BY <1>3, <2>1, <2>2
<1>6. S \subseteq Words  BY DEF BlockWords
<1>7. \A w \in S : flash'[w] = flash[w]  BY <1>1, <1>5, <1>6, FlashStepFrame
<1>8. written'[i] = written[i]  BY <1>1
<1> QED BY <1>7, <1>8 DEF Kept, Holds

LEMMA FlashCallPages ==
  ASSUME FwInv, PagesInv, FlashCall
  PROVE  PagesInv'
<1>1. /\ FlashTypeOK /\ FlashStep /\ UNCHANGED <<written, managerVars, running>>
      /\ CallOfFunction
  BY DEF FlashCall, FwInv, FwTypeOK
<1>2. (running = "start" => written = <<>>)'  BY <1>1 DEF PagesInv
<1>3. (\A i \in 1 .. Len(written) :
         written[i].address + written[i].length <= current_write_address)'
  BY <1>1 DEF PagesInv, managerVars
<1>4. ASSUME running = "chunk", Returned("FLASH_SUCCESS")'
      PROVE  Holds(flash, BlockWords(call.address, call.length), call.data)'
  <2>1. /\ call.step \in {"erase", "write"}
        /\ call'.address = call.address /\ call'.data = call.data /\ call'.length = call.length
    BY <1>1, FlashStepCall
  <2>2. call.op = "program" /\ call.status = "FLASH_SUCCESS"
    BY <1>1, <1>4, <2>1 DEF CallOfFunction, ChunkCall
  <2> QED BY <1>1, <1>4, <2>1, <2>2, FlashStepStored DEF Returned
<1>5. (AllWhole => \A i \in 1 .. Len(written) : Kept(written[i]))'
  <2> SUFFICES ASSUME AllWhole', NEW i \in 1 .. Len(written)'
               PROVE  Kept(written[i])'
    OBVIOUS
  <2>1. AllWhole /\ i \in 1 .. Len(written)  BY <1>1 DEF AllWhole, Whole
  <2> QED BY <2>1, KeptStep DEF PagesInv, AllWhole
<1> QED BY <1>1, <1>2, <1>3, <1>4, <1>5 DEF PagesInv

\* The bank is started again, or the chip was reset.
LEMMA NothingWritten ==
  ASSUME written' = <<>>, running' # "chunk"
  PROVE  PagesInv'
BY DEF PagesInv

\* A step that changes neither the flash nor what was written.
LEMMA SamePages ==
  ASSUME PagesInv, UNCHANGED <<flash, written, current_write_address>>, running' # "start",
         ~(running' = "chunk" /\ Returned("FLASH_SUCCESS")')
  PROVE  PagesInv'
BY DEF PagesInv, AllWhole, Whole, Kept

\* An acknowledged chunk joins the others.
LEMMA ChunkPages ==
  ASSUME FwInv, PagesInv, ChunkReturn
  PROVE  PagesInv'
<1>1. /\ running = "chunk" /\ ChunkCall /\ call \in CallType /\ running' = "none" /\ flash' = flash
      /\ written \in Seq([address : Words, data : Chunks, length : Nat])
      /\ current_write_address \in Nat
  BY DEF ChunkReturn, Back, Respond, FwInv, FwTypeOK, FlashTypeOK, CallOfFunction
<1>2. CASE ~Returned("FLASH_SUCCESS")
  BY <1>1, <1>2, SamePages DEF ChunkReturn, managerVars
<1>3. CASE Returned("FLASH_SUCCESS")
  <2> DEFINE chunk == [address |-> call.address, data |-> call.data, length |-> call.length]
  <2>1. /\ current_write_address' = current_write_address + call.length
        /\ written' = Append(written, chunk)
    BY <1>3 DEF ChunkReturn
  <2>2. call.length \in Nat /\ call.address = current_write_address
    BY <1>1 DEF CallType, ChunkCall
  <2>3. Kept(chunk)  BY <1>1, <1>3 DEF PagesInv, Kept, Holds
  <2>4. chunk.address + chunk.length = current_write_address'  BY <2>1, <2>2
  <2> HIDE DEF chunk
  <2>5. /\ Len(written') = Len(written) + 1 /\ Len(written) \in Nat
        /\ written'[Len(written) + 1] = chunk
        /\ \A i \in 1 .. Len(written) : written'[i] = written[i]
    BY <1>1, <2>1
  <2>6. \A i \in 1 .. Len(written) :
          written[i].address + written[i].length <= current_write_address'
    <3> SUFFICES ASSUME NEW i \in 1 .. Len(written)
                 PROVE  written[i].address + written[i].length <= current_write_address'
      OBVIOUS
    <3>1. written[i].address \in Nat /\ written[i].length \in Nat  BY WrittenChunk DEF FwInv
    <3>2. written[i].address + written[i].length <= current_write_address  BY DEF PagesInv
    <3> DEFINE end == written[i].address + written[i].length
    <3>3. end \in Nat /\ end <= current_write_address  BY <3>1, <3>2
    <3> HIDE DEF end
    <3>4. end <= current_write_address'  BY <1>1, <2>1, <2>2, <3>3
    <3> QED BY <3>4 DEF end
  <2>7. \A i \in 1 .. Len(written') :
          written'[i].address + written'[i].length <= current_write_address'
    <3> SUFFICES ASSUME NEW i \in 1 .. Len(written')
                 PROVE  written'[i].address + written'[i].length <= current_write_address'
      OBVIOUS
    <3>1. CASE i \in 1 .. Len(written)
      BY <2>5, <2>6, <3>1
    <3>2. CASE i = Len(written) + 1
      <4>1. written'[i] = chunk  BY <2>5, <3>2
      <4>2. chunk.address + chunk.length \in Nat  BY <1>1, <2>1, <2>2, <2>4
      <4> QED BY <2>4, <4>1, <4>2
    <3> QED BY <2>5, <3>1, <3>2
  <2>8. AllWhole' => \A i \in 1 .. Len(written') : Kept(written[i])'
    <3> SUFFICES ASSUME AllWhole', NEW i \in 1 .. Len(written')
                 PROVE  Kept(written[i])'
      OBVIOUS
    <3>1. AllWhole  BY <2>5 DEF AllWhole, Whole
    <3>2. CASE i \in 1 .. Len(written)
      BY <1>1, <2>5, <3>1, <3>2 DEF PagesInv, Kept
    <3>3. CASE i = Len(written) + 1
      BY <1>1, <2>3, <2>5, <3>3 DEF Kept
    <3> QED BY <2>5, <3>2, <3>3
  <2> QED BY <1>1, <2>7, <2>8 DEF PagesInv
<1> QED BY <1>2, <1>3

LEMMA PagesStep ==
  ASSUME FwInv, PagesInv, [Next]_fwVars
  PROVE  PagesInv'
<1>1. CASE FlashCall  BY <1>1, FlashCallPages
<1>2. CASE StartReturn
  <2>1. written' = <<>> /\ running' = "none"
    BY <1>2 DEF StartReturn, Back, Respond, PagesInv
  <2> QED BY <2>1, NothingWritten
<1>3. CASE ChunkReturn  BY <1>3, ChunkPages
<1>4. CASE CrcReturn \/ MarkReturn
  <2>1. /\ running' \in {"none", "mark"}
        /\ UNCHANGED <<flash, written, current_write_address>>
    BY <1>4 DEF CrcReturn, MarkReturn, Await, Respond, managerVars
  <2> QED BY <2>1, SamePages
<1>5. CASE FWUpdateManager_Init
  BY <1>5, NothingWritten DEF FWUpdateManager_Init
<1>6. ASSUME NEW length \in ChunkLengths, ChunkRefused(length) PROVE PagesInv'
  BY <1>6, SamePages DEF ChunkRefused, Respond, managerVars
<1>7. ASSUME NEW length \in ChunkLengths, NEW data \in Chunks,
             FWUpdateManager_ProcessChunk(data, length)
      PROVE  PagesInv'
  <2>1. call' = Flash_ProgramPage(current_write_address, data, length) /\ running' = "chunk"
        /\ UNCHANGED <<flash, written, current_write_address>>
    BY <1>7 DEF FWUpdateManager_ProcessChunk, Await, managerVars
  <2>2. ~(call'.step = "done" /\ call'.status = "FLASH_SUCCESS")
    <3> DEFINE accepted == Flash_IsAddressValid(current_write_address) /\ length <= FLASH_PAGE_SIZE
    <3>1. call' = [NoCall EXCEPT
                     !.op = "program", !.address = current_write_address, !.data = data,
                     !.length = length, !.step = IF accepted THEN "erase" ELSE "done",
                     !.status = IF accepted THEN "FLASH_SUCCESS"
                                ELSE "FLASH_ERROR_INVALID_ADDRESS"]
      BY <2>1 DEF Flash_ProgramPage
    <3> HIDE DEF accepted
    <3> QED BY <3>1 DEF NoCall
  <2> QED BY <2>1, <2>2, SamePages DEF Returned
<1>8. CASE FWUpdateManager_StartUpdate
  BY <1>8, NothingWritten DEF FWUpdateManager_StartUpdate, Await
<1>9. CASE FWUpdateManager_FinalizeUpdate
  BY <1>9, SamePages DEF FWUpdateManager_FinalizeUpdate, Await, managerVars
<1>10. CASE ReadFault
  BY <1>10, SamePages DEF ReadFault, managerVars
<1>11. CASE FWUpdateManager_CancelUpdate
  BY <1>11, NothingWritten DEF FWUpdateManager_CancelUpdate, Respond
<1>12. CASE FWUpdateManager_VerifyIntegrity
  BY <1>12, SamePages DEF FWUpdateManager_VerifyIntegrity, Respond, managerVars
<1>13. CASE PowerLoss
  BY <1>13, NothingWritten DEF PowerLoss
<1>14. CASE UNCHANGED fwVars
  BY <1>14 DEF fwVars, managerVars, PagesInv, AllWhole, Whole, Kept, Returned
<1> QED BY <1>1, <1>2, <1>3, <1>4, <1>5, <1>6, <1>7, <1>8, <1>9, <1>10, <1>11, <1>12, <1>13, <1>14
        DEF Next, Returns, Calls

\* A caller whose chunks are whole pages and begin on one keeps what was
\* acknowledged, through errors, retries, refused chunks and failed calls
\* (FWUpdateManager_ProcessChunk).
THEOREM PagesAreKept == Spec => []WholePagesKept
<1>1. Init => PagesInv
  BY DEF Init, PagesInv
<1>2. FwInv /\ PagesInv /\ [Next]_fwVars => PagesInv'  BY PagesStep
<1>3. PagesInv => WholePagesKept
  BY DEF PagesInv, WholePagesKept, AllWhole, Whole, Kept
<1> QED BY <1>1, <1>2, <1>3, FwInvariance, PTL DEF Spec

----------------------------------------------------------------------------
\* What becomes of an update after the next start.

\* A bank whose update was reported complete is not valid after the reset that
\* should start it: Partition_Init reads the mark where it looks for the flag
\* (fw_update_manager.c:78, partition_manager.c).
THEOREM CompletedUpdateIsLost ==
  Spec => [][Finalized /\ PowerLoss => ~Partition_IsValid(inactive_flag')]_fwVars
<1>1. VALID_MARK # PARTITION_VALID_FLAG
  BY BlocksAssumption, FwAssumption
<1>2. FinalizeSpoilsBank /\ [Next]_fwVars
        => [Finalized /\ PowerLoss => ~Partition_IsValid(inactive_flag')]_fwVars
  BY <1>1 DEF FinalizeSpoilsBank, PowerLoss, Partition_Init, Partition_IsValid
<1> QED BY <1>2, FinalizeAlwaysSpoils, PTL DEF Spec

----------------------------------------------------------------------------
\* Why every function returns.

\* The steps the function in progress has still to take at most: FinalizeUpdate
\* writes its second block after its first.
FunctionWork ==
  CASE running = "crc"                         -> CallWork + MAX_RETRY_COUNT + 3
    [] running \in {"start", "chunk", "mark"} -> CallWork + 1
    [] OTHER                                  -> 0

LEMMA FunctionSteps ==
  ASSUME FwInv, FlashCall \/ Returns, FwInv'
  PROVE  FunctionWork' < FunctionWork
<1>1. MAX_RETRY_COUNT \in Nat  BY FlashAssumption
<1>2. FlashTypeOK /\ CallWork \in 0 .. MAX_RETRY_COUNT + 1
  BY CallWorkRange DEF FwInv, FwTypeOK
<1>3. CallWork' \in 0 .. MAX_RETRY_COUNT + 1
  BY <1>1 DEF FwInv, FwTypeOK, FlashTypeOK, CallType, CallWork
<1>4. CASE FlashCall
  <2>1. CallWork' < CallWork /\ call.step \in {"erase", "write"} /\ running' = running
    BY <1>2, <1>4, FlashStepWork, FlashStepCall DEF FlashCall
  <2>2. running \in {"start", "chunk", "crc", "mark"}
    BY <2>1 DEF FwInv, FwTypeOK, CallOfFunction, NoCall
  <2> QED BY <1>1, <1>2, <1>3, <2>1, <2>2 DEF FunctionWork
<1>5. CASE Returns
  <2>1. \/ running \in {"start", "chunk", "crc", "mark"} /\ running' = "none"
        \/ running = "crc" /\ running' = "mark"
    BY <1>5 DEF Returns, StartReturn, ChunkReturn, CrcReturn, MarkReturn, Back, Respond, Await
  <2>2. CASE running' = "none"
    <3>1. FunctionWork' = 0  BY <2>2 DEF FunctionWork
    <3>2. FunctionWork > 0  BY <1>1, <1>2, <2>1, <2>2 DEF FunctionWork
    <3> QED BY <3>1, <3>2
  <2>3. CASE running = "crc" /\ running' = "mark"
    BY <1>1, <1>2, <1>3, <2>3 DEF FunctionWork
  <2> QED BY <2>1, <2>2, <2>3
<1> QED BY <1>4, <1>5

\* No function of the manager takes more steps than its erase or its writes,
\* twice over for FinalizeUpdate, and each step leaves it less: whatever the
\* controller reports, it returns (fw_update_manager.c, crc.c:82).
THEOREM FunctionsAreBounded ==
  Spec => /\ [](FunctionWork \in 0 .. 2 * MAX_RETRY_COUNT + 4)
          /\ [][FlashCall \/ Returns => FunctionWork' < FunctionWork]_fwVars
<1>1. ASSUME FwInv PROVE FunctionWork \in 0 .. 2 * MAX_RETRY_COUNT + 4
  <2>1. MAX_RETRY_COUNT \in Nat /\ CallWork \in 0 .. MAX_RETRY_COUNT + 1
    BY <1>1, CallWorkRange, FlashAssumption DEF FwInv, FwTypeOK
  <2> QED BY <2>1 DEF FunctionWork
<1>2. FwInv /\ FwInv' /\ [Next]_fwVars
        => [FlashCall \/ Returns => FunctionWork' < FunctionWork]_fwVars
  BY FunctionSteps
<1> QED BY <1>1, <1>2, FwInvariance, PTL DEF Spec
=============================================================================
