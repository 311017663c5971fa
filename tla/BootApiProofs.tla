--------------------------- MODULE BootApiProofs ---------------------------
(***************************************************************************)
(* Theorems about the bootloader and update manager as a library, for      *)
(* every geometry, retry count, set of sizes and sequence of calls.        *)
(***************************************************************************)
EXTENDS BootApi, FlashProofs

FirstPage == PageWords(PARTITION_INACTIVE_START)
FlagPage  == PageWords(UpdateFlagWord)

----------------------------------------------------------------------------
\* Where things lie.

LEMMA Numbers ==
  /\ FLASH_PAGE_SIZE \in Nat \ {0} /\ FLASH_TOTAL_SIZE \in Nat /\ PARTITION_SIZE \in Nat
  /\ PARTITION_INACTIVE_START \in Nat /\ PARTITION_ACTIVE_START \in Nat
  /\ PARTITION_ACTIVE_START + PARTITION_SIZE <= PARTITION_INACTIVE_START
  /\ PARTITION_SIZE >= 2 * FLASH_PAGE_SIZE
  /\ BankEnd = PARTITION_INACTIVE_START + PARTITION_SIZE /\ BankEnd <= FLASH_TOTAL_SIZE
  /\ UpdateFlagWord \in Nat /\ BankEnd <= UpdateFlagWord
  /\ UpdateFlagWord + 4 <= FLASH_TOTAL_SIZE
  /\ UINT32_RANGE \in Nat /\ UINT32_RANGE > 2 * FLASH_TOTAL_SIZE
  /\ CRC_METADATA_SIZE \in Nat
BY LayoutAssumption, ApiAssumption DEF BankEnd, UpdateFlagWord

LEMMA PageIsWords == FLASH_PAGE_SIZE >= 4
<1>1. FLASH_PAGE_SIZE \in Nat \ {0} /\ FLASH_PAGE_SIZE % 4 = 0  BY LayoutAssumption
<1> QED BY <1>1

LEMMA FlagWords ==
  UpdateFlagWord \in Words /\ ActiveFlagWord \in Words /\ InactiveFlagWord \in Words
BY LayoutAssumption, ApiAssumption
   DEF UpdateFlagWord, ActiveFlagWord, InactiveFlagWord, FlagWord, Words

\* The first page ends within the bank, before its flag.
LEMMA FirstPageBounds ==
  \A w \in FirstPage : /\ PARTITION_INACTIVE_START <= w
                       /\ w < PARTITION_INACTIVE_START + FLASH_PAGE_SIZE
<1>1. PARTITION_INACTIVE_START % FLASH_PAGE_SIZE = 0  BY LayoutAssumption
<1>2. PAGE_START_ADDR(PARTITION_INACTIVE_START) = PARTITION_INACTIVE_START
  BY <1>1, Numbers DEF PAGE_START_ADDR
<1> QED BY <1>2 DEF FirstPage, PageWords

\* The page of the update flag begins behind the bank.
LEMMA FlagPageBounds == \A w \in FlagPage : BankEnd <= w
<1>1. BankEnd % FLASH_PAGE_SIZE = 0
  <2>1. PARTITION_SIZE % FLASH_PAGE_SIZE = 0 /\ PARTITION_INACTIVE_START % FLASH_PAGE_SIZE = 0
    BY LayoutAssumption
  <2>2. PARTITION_INACTIVE_START \in Int /\ PARTITION_SIZE \in Int
        /\ FLASH_PAGE_SIZE \in Nat \ {0}
    BY Numbers
  <2> QED BY <2>1, <2>2, MultipleSum DEF BankEnd
<1>2. BankEnd \in Int /\ UpdateFlagWord \in Int /\ FLASH_PAGE_SIZE \in Nat \ {0}
  BY Numbers
<1>3. BankEnd <= UpdateFlagWord - (UpdateFlagWord % FLASH_PAGE_SIZE)
  BY <1>1, <1>2, Numbers, PageAbove
<1>4. BankEnd <= PAGE_START_ADDR(UpdateFlagWord)  BY <1>3 DEF PAGE_START_ADDR
<1>5. PAGE_START_ADDR(UpdateFlagWord) \in Int  BY <1>2, Division DEF PAGE_START_ADDR
<1> QED BY <1>2, <1>4, <1>5 DEF FlagPage, PageWords, Words

LEMMA PagesApart ==
  /\ ActiveFlagWord \notin FirstPage /\ InactiveFlagWord \notin FirstPage
  /\ ActiveFlagWord \notin FlagPage /\ InactiveFlagWord \notin FlagPage
  /\ UpdateFlagWord \notin FirstPage
BY Numbers, PageIsWords, FirstPageBounds, FlagPageBounds
   DEF ActiveFlagWord, InactiveFlagWord, FlagWord

\* A firmware of at most a page stays in the first page.
LEMMA FirmwareFootprint ==
  ASSUME NEW length \in Nat, length <= FLASH_PAGE_SIZE
  PROVE  Footprint(PARTITION_INACTIVE_START, length) \subseteq FirstPage
<1>1. PARTITION_INACTIVE_START % FLASH_PAGE_SIZE = 0  BY LayoutAssumption
<1>2. PAGE_START_ADDR(PARTITION_INACTIVE_START) = PARTITION_INACTIVE_START
  BY <1>1, Numbers DEF PAGE_START_ADDR
<1>3. BlockWords(PARTITION_INACTIVE_START, length) \subseteq FirstPage
  BY <1>2, Numbers DEF BlockWords, FirstPage, PageWords, Words
<1> QED BY <1>3 DEF Footprint, FirstPage

LEMMA FlagBlock ==
  /\ BlockWords(UpdateFlagWord, 4) = {UpdateFlagWord}
  /\ Footprint(UpdateFlagWord, 4) = FlagPage
<1>1. BlockWords(UpdateFlagWord, 4) = {UpdateFlagWord}
  <2>1. UpdateFlagWord \in BlockWords(UpdateFlagWord, 4)
    BY FlagWords, Numbers DEF BlockWords
  <2>2. ASSUME NEW w \in BlockWords(UpdateFlagWord, 4) PROVE w = UpdateFlagWord
    <3>1. w \in Nat /\ w % 4 = 0 /\ UpdateFlagWord % 4 = 0
      BY FlagWords, Numbers DEF BlockWords, Words
    <3>2. UpdateFlagWord <= w /\ w < UpdateFlagWord + 4  BY DEF BlockWords
    <3> QED BY <3>1, <3>2, Numbers
  <2> QED BY <2>1, <2>2
<1>2. UpdateFlagWord \in FlagPage
  <2>1. UpdateFlagWord % FLASH_PAGE_SIZE \in 0 .. FLASH_PAGE_SIZE - 1
    BY Numbers, Division
  <2> QED BY <2>1, Numbers, FlagWords DEF FlagPage, PageWords, PAGE_START_ADDR
<1> QED BY <1>1, <1>2 DEF Footprint, FlagPage

----------------------------------------------------------------------------
\* The inductive invariant.

\* The call in progress is that of the function in progress, a firmware of
\* more than a page or a status other than success has left the flash alone,
\* and the flag a finished call has answered for is stored.
FirmwareCall ==
  /\ call.address = PARTITION_INACTIVE_START
  /\ call.step # "done" => call.length <= FLASH_PAGE_SIZE
FlagCall ==
  /\ call.op = "program" /\ call.address = UpdateFlagWord /\ call.length = 4
  /\ call.step # "done" => call.status = "FLASH_SUCCESS"
  /\ Returned("FLASH_SUCCESS") => flash[UpdateFlagWord] = call.data
  /\ lastFlag = Unknown
CallOfFunction ==
  /\ running \in {"none", "fault"} => call = NoCall
  /\ running \in {"firmware", "session"} => FirmwareCall
  /\ running = "flag" => FlagCall

SessionFits == update_in_progress => firmware_size <= PARTITION_SIZE
SizeFits == running = "session" => size <= PARTITION_SIZE

ApiInv ==
  /\ ApiTypeOK /\ CallOfFunction /\ SessionFits /\ SizeFits
  /\ FlagsOfTheFlash /\ UpdateFlagKept

LEMMA NoCallType == NoCall \in CallType
BY FlashAssumption DEF NoCall, CallType, Data, flash_status_t

LEMMA ApiInitial == Init => ApiInv
<1> SUFFICES ASSUME Init PROVE ApiInv  OBVIOUS
<1>1. flash \in Memory /\ call = NoCall /\ running = "none" /\ lastFlag = flash[UpdateFlagWord]
      /\ update_in_progress = FALSE /\ firmware_size = 0 /\ size = 0
      /\ active_flag = Erased /\ inactive_flag = Erased
      /\ current_state = "BOOTLOADER_BOOT" /\ last_error = "BOOTLOADER_NO_ERROR"
  BY ApiAssumption DEF Init, RamAtReset, PARTITION_INVALID_FLAG
<1>2. ApiTypeOK
  BY <1>1, NoCallType, FlagWords
     DEF ApiTypeOK, FlashTypeOK, BootloaderTypeOK, Memory, WordValues, bootloader_state_t,
         bootloader_error_t
<1>3. FlagsOfTheFlash
  BY <1>1 DEF FlagsOfTheFlash, Partition_IsValid, PARTITION_VALID_FLAG, Erased
<1> QED BY <1>1, <1>2, <1>3
        DEF ApiInv, CallOfFunction, SessionFits, SizeFits, UpdateFlagKept

\* What a call in progress may change.
LEMMA CallFootprint ==
  ASSUME ApiInv, FlashCall
  PROVE  /\ FlashTypeOK /\ FlashStep
         /\ running \in {"firmware", "session", "flag"}
         /\ running # "flag" => Footprint(call.address, call.length) \subseteq FirstPage
         /\ running = "flag" => Footprint(call.address, call.length) = FlagPage
<1>1. FlashTypeOK /\ FlashStep  BY DEF FlashCall, ApiInv, ApiTypeOK
<1>2. call.step \in {"erase", "write"} /\ call \in CallType
  BY <1>1, FlashStepCall DEF FlashTypeOK
<1>3. running \in {"firmware", "session", "flag"}
  BY <1>2 DEF ApiInv, ApiTypeOK, CallOfFunction, NoCall
<1>4. ASSUME running # "flag"
      PROVE  Footprint(call.address, call.length) \subseteq FirstPage
  <2>1. FirmwareCall  BY <1>3, <1>4 DEF ApiInv, CallOfFunction
  <2>2. call.length \in Nat /\ call.length <= FLASH_PAGE_SIZE
        /\ call.address = PARTITION_INACTIVE_START
    BY <1>2, <2>1 DEF FirmwareCall, CallType
  <2> QED BY <2>2, FirmwareFootprint
<1>5. running = "flag" => Footprint(call.address, call.length) = FlagPage
  BY FlagBlock DEF ApiInv, CallOfFunction, FlagCall
<1> QED BY <1>1, <1>3, <1>4, <1>5

LEMMA FlashCallInv ==
  ASSUME ApiInv, FlashCall
  PROVE  ApiInv'
<1>1. /\ FlashTypeOK /\ FlashStep
      /\ running \in {"firmware", "session", "flag"}
      /\ running # "flag" => Footprint(call.address, call.length) \subseteq FirstPage
      /\ running = "flag" => Footprint(call.address, call.length) = FlagPage
  BY CallFootprint
<1>2. UNCHANGED <<bootloaderVars, sessionVars, running, lastFlag>>  BY DEF FlashCall
<1>3. FlashTypeOK'  BY <1>1, FlashStepType
<1>4. ApiTypeOK' /\ SessionFits' /\ SizeFits'
  BY <1>2, <1>3
     DEF ApiInv, ApiTypeOK, SessionFits, SizeFits, bootloaderVars, sessionVars,
         BootloaderTypeOK
<1>5. \A w \in Words : w \notin FirstPage \cup FlagPage => flash'[w] = flash[w]
  BY <1>1, FlashStepFrame
<1>6. FlagsOfTheFlash'
  BY <1>2, <1>5, FlagWords, PagesApart
     DEF ApiInv, FlagsOfTheFlash, bootloaderVars, Partition_IsValid
<1>7. UpdateFlagKept'
  <2>1. CASE running = "flag"
    BY <1>2, <2>1 DEF ApiInv, CallOfFunction, FlagCall, UpdateFlagKept
  <2>2. CASE running # "flag"
    <3>1. flash'[UpdateFlagWord] = flash[UpdateFlagWord]
      BY <1>1, <2>2, FlagWords, PagesApart, FlashStepFrame
    <3> QED BY <1>2, <3>1 DEF ApiInv, UpdateFlagKept
  <2> QED BY <2>1, <2>2
<1>8. CallOfFunction'
  <2>1. /\ call.step \in {"erase", "write"}
        /\ call'.op = call.op /\ call'.address = call.address
        /\ call'.data = call.data /\ call'.length = call.length
        /\ call'.step # "done" => call'.status = call.status
    BY <1>1, FlashStepCall
  <2>2. running # "flag" => FirmwareCall'
    BY <1>1, <2>1 DEF ApiInv, CallOfFunction, FirmwareCall
  <2>3. ASSUME running = "flag" PROVE FlagCall'
    <3>1. FlagCall  BY <2>3 DEF ApiInv, CallOfFunction
    <3>2. call.status = "FLASH_SUCCESS"  BY <2>1, <3>1 DEF FlagCall
    <3>3. ASSUME Returned("FLASH_SUCCESS")' PROVE flash'[UpdateFlagWord] = call'.data
      <4>1. call'.step = "done" /\ call'.status = "FLASH_SUCCESS"  BY <3>3 DEF Returned
      <4>2. Holds(flash', BlockWords(call.address, call.length), call.data)
        BY <1>1, <3>1, <3>2, <4>1, FlashStepStored DEF FlagCall
      <4> QED BY <2>1, <3>1, <4>2, FlagBlock DEF FlagCall, Holds
    <3> QED BY <1>2, <2>1, <3>1, <3>2, <3>3 DEF FlagCall
  <2> QED BY <1>1, <1>2, <2>2, <2>3 DEF CallOfFunction
<1> QED BY <1>4, <1>6, <1>7, <1>8 DEF ApiInv

----------------------------------------------------------------------------
\* Calls, returns and resets.

LEMMA NewCalls ==
  /\ Flash_ErasePage(PARTITION_INACTIVE_START) \in CallType
  /\ Flash_ErasePage(PARTITION_INACTIVE_START).address = PARTITION_INACTIVE_START
  /\ Flash_ErasePage(PARTITION_INACTIVE_START).length = 0
  /\ \A address \in Nat, data \in Data, length \in Nat :
       LET c == Flash_ProgramPage(address, data, length)
       IN /\ c \in CallType
          /\ c.op = "program" /\ c.address = address /\ c.data = data /\ c.length = length
          /\ c.step # "done" => c.status = "FLASH_SUCCESS" /\ length <= FLASH_PAGE_SIZE
          /\ ~(c.step = "done" /\ c.status = "FLASH_SUCCESS")
<1>1. /\ Flash_ErasePage(PARTITION_INACTIVE_START) \in CallType
      /\ Flash_ErasePage(PARTITION_INACTIVE_START).address = PARTITION_INACTIVE_START
      /\ Flash_ErasePage(PARTITION_INACTIVE_START).length = 0
  BY NoCallType, Numbers DEF Flash_ErasePage, CallType, flash_status_t, NoCall
<1>2. ASSUME NEW address \in Nat, NEW data \in Data, NEW length \in Nat
      PROVE  LET c == Flash_ProgramPage(address, data, length)
             IN /\ c \in CallType
                /\ c.op = "program" /\ c.address = address /\ c.data = data /\ c.length = length
                /\ c.step # "done" => c.status = "FLASH_SUCCESS" /\ length <= FLASH_PAGE_SIZE
                /\ ~(c.step = "done" /\ c.status = "FLASH_SUCCESS")
  <2> DEFINE accepted == Flash_IsAddressValid(address) /\ length <= FLASH_PAGE_SIZE
  <2>1. Flash_ProgramPage(address, data, length) =
          [NoCall EXCEPT
             !.op = "program", !.address = address, !.data = data, !.length = length,
             !.step = IF accepted THEN "erase" ELSE "done",
             !.status = IF accepted THEN "FLASH_SUCCESS" ELSE "FLASH_ERROR_INVALID_ADDRESS"]
    BY DEF Flash_ProgramPage
  <2>2. accepted => length <= FLASH_PAGE_SIZE  OBVIOUS
  <2> HIDE DEF accepted
  <2> QED BY NoCallType, <2>1, <2>2 DEF CallType, flash_status_t
<1> QED BY <1>1, <1>2

\* A step that leaves the flash, the call and the session as they are keeps
\* the invariant if it keeps the RAM flags honest.
LEMMA CoreInv ==
  ASSUME ApiInv, CoreOnly, BootloaderTypeOK', FlagsOfTheFlash'
  PROVE  ApiInv'
BY DEF ApiInv, CoreOnly, ApiTypeOK, FlashTypeOK, CallOfFunction, FirmwareCall, FlagCall,
       SessionFits, SizeFits, UpdateFlagKept, sessionVars, Returned

\* Each of these only lowers the flags or copies them from the flash.
LEMMA HonestFlags ==
  ASSUME ApiInv, UNCHANGED flash,
         \/ UNCHANGED partitionVars
         \/ Partition_Init
         \/ Partition_IsValid(inactive_flag) /\ Partition_SwitchActive
         \/ active_flag' = PARTITION_INVALID_FLAG /\ UNCHANGED inactive_flag
         \/ inactive_flag' = PARTITION_INVALID_FLAG /\ UNCHANGED active_flag
  PROVE  FlagsOfTheFlash' /\ active_flag' \in WordValues /\ inactive_flag' \in WordValues
<1>1. /\ flash \in Memory /\ active_flag \in WordValues /\ inactive_flag \in WordValues
      /\ FlagsOfTheFlash
  BY DEF ApiInv, ApiTypeOK, FlashTypeOK, BootloaderTypeOK
<1>2. PARTITION_INVALID_FLAG # PARTITION_VALID_FLAG
      /\ PARTITION_INVALID_FLAG \in WordValues /\ PARTITION_VALID_FLAG \in WordValues
  BY DEF PARTITION_INVALID_FLAG, PARTITION_VALID_FLAG, Erased, WordValues, Data
<1>3. flash[ActiveFlagWord] \in WordValues /\ flash[InactiveFlagWord] \in WordValues
  BY <1>1, FlagWords DEF Memory
<1>4. CASE UNCHANGED partitionVars
  BY <1>1, <1>4 DEF partitionVars, FlagsOfTheFlash, Partition_IsValid
<1>5. CASE Partition_Init
  BY <1>3, <1>5 DEF Partition_Init, FlagsOfTheFlash, Partition_IsValid
<1>6. CASE Partition_IsValid(inactive_flag) /\ Partition_SwitchActive
  BY <1>1, <1>2, <1>6 DEF Partition_SwitchActive, FlagsOfTheFlash, Partition_IsValid
<1>7. CASE \/ active_flag' = PARTITION_INVALID_FLAG /\ UNCHANGED inactive_flag
           \/ inactive_flag' = PARTITION_INVALID_FLAG /\ UNCHANGED active_flag
  BY <1>1, <1>2, <1>7 DEF FlagsOfTheFlash, Partition_IsValid
<1> QED BY <1>4, <1>5, <1>6, <1>7

\* A function that begins to wait for the driver.
LEMMA AwaitInv ==
  ASSUME ApiInv, NEW place \in {"firmware", "session", "flag"}, NEW c \in CallType,
         Await(place, c), CallOfFunction', SizeFits', size' \in Nat,
         lastFlag' \in {lastFlag, Unknown},
         UNCHANGED <<flash, bootloaderVars, update_in_progress, firmware_size>>
  PROVE  ApiInv'
<1>1. running' = place /\ call' = c  BY DEF Await
<1>2. ApiTypeOK'
  BY <1>1 DEF ApiInv, ApiTypeOK, FlashTypeOK, BootloaderTypeOK, bootloaderVars
<1>3. FlagsOfTheFlash' /\ UpdateFlagKept' /\ SessionFits'
  BY DEF ApiInv, FlagsOfTheFlash, UpdateFlagKept, SessionFits, bootloaderVars,
         Partition_IsValid
<1> QED BY <1>2, <1>3 DEF ApiInv

LEMMA CoreStep ==
  ASSUME ApiInv, Core
  PROVE  ApiInv'
<1>0. /\ flash \in Memory /\ BootloaderTypeOK /\ last_error \in bootloader_error_t
      /\ size \in Nat /\ CallOfFunction /\ SizeFits
  BY DEF ApiInv, ApiTypeOK, FlashTypeOK, BootloaderTypeOK
<1>1. CASE CoreOnly /\ Bootloader_Init
  <2>1. UNCHANGED flash /\ Partition_Init  BY <1>1 DEF CoreOnly, Bootloader_Init
  <2>2. FlagsOfTheFlash' /\ active_flag' \in WordValues /\ inactive_flag' \in WordValues
    BY <2>1, HonestFlags
  <2>3. current_state' \in bootloader_state_t /\ last_error' \in bootloader_error_t
    BY <1>0, <1>1 DEF Bootloader_Init, bootloader_state_t, bootloader_error_t
  <2> QED BY <1>1, <2>2, <2>3, CoreInv DEF BootloaderTypeOK
<1>2. CASE CoreOnly /\ Bootloader_Rollback(last_error)
  <2>1. UNCHANGED flash /\ (\/ UNCHANGED partitionVars
                            \/ Partition_IsValid(inactive_flag) /\ Partition_SwitchActive)
    BY <1>2 DEF CoreOnly, Bootloader_Rollback
  <2>2. FlagsOfTheFlash' /\ active_flag' \in WordValues /\ inactive_flag' \in WordValues
    BY <2>1, HonestFlags
  <2>3. current_state' \in bootloader_state_t /\ last_error' \in bootloader_error_t
    BY <1>0, <1>2 DEF Bootloader_Rollback, bootloader_state_t, bootloader_error_t
  <2> QED BY <1>2, <2>2, <2>3, CoreInv DEF BootloaderTypeOK
<1>3. ASSUME CoreOnly, UNCHANGED partitionVars, current_state' \in bootloader_state_t,
             last_error' \in bootloader_error_t
      PROVE  ApiInv'
  <2>1. FlagsOfTheFlash' /\ active_flag' \in WordValues /\ inactive_flag' \in WordValues
    BY <1>3, HonestFlags DEF CoreOnly
  <2> QED BY <1>3, <2>1, CoreInv DEF BootloaderTypeOK
<1>4. CASE Bootloader_ValidateAndBoot
  BY <1>0, <1>3, <1>4 DEF Bootloader_ValidateAndBoot, bootloader_state_t, bootloader_error_t
<1>5. ASSUME NEW state \in bootloader_state_t, StateManager_SetState(state) PROVE ApiInv'
  BY <1>0, <1>3, <1>5 DEF StateManager_SetState
<1>6. ASSUME NEW n \in FirmwareSizes, FirmwareRefused(n) PROVE ApiInv'
  BY <1>3, <1>6 DEF FirmwareRefused, SetError, bootloader_state_t, bootloader_error_t
<1>7. ASSUME NEW n \in FirmwareSizes, NEW image \in Images, Bootloader_FirmwareUpdate(image, n)
      PROVE  ApiInv'
  <2> DEFINE c == Flash_ProgramPage(PARTITION_INACTIVE_START, image, n)
  <2>1. /\ c \in CallType /\ c.address = PARTITION_INACTIVE_START /\ c.length = n
        /\ c.step # "done" => n <= FLASH_PAGE_SIZE
    <3>1. n \in Nat /\ image \in Data  BY ApiAssumption DEF Data
    <3> QED BY <3>1, NewCalls, Numbers
  <2>2. Await("firmware", c) /\ UNCHANGED <<flash, bootloaderVars, sessionVars, lastFlag>>
    BY <1>7 DEF Bootloader_FirmwareUpdate
  <2> HIDE DEF c
  <2>3. CallOfFunction' /\ SizeFits'
    BY <2>1, <2>2 DEF Await, CallOfFunction, FirmwareCall, SizeFits
  <2> QED BY <1>0, <2>1, <2>2, <2>3, AwaitInv DEF sessionVars
<1> QED BY <1>1, <1>2, <1>4, <1>5, <1>6, <1>7 DEF Core

LEMMA PartitionsStep ==
  ASSUME ApiInv, Partitions
  PROVE  ApiInv'
<1>0. size \in Nat /\ current_state \in bootloader_state_t /\ last_error \in bootloader_error_t
  BY DEF ApiInv, ApiTypeOK, BootloaderTypeOK
<1>1. ASSUME NEW value \in FlagValues, WriteUpdateFlag(value) PROVE ApiInv'
  <2> DEFINE c == Flash_ProgramPage(UpdateFlagWord, value, 4)
  <2>1. /\ c \in CallType /\ c.op = "program" /\ c.address = UpdateFlagWord /\ c.length = 4
        /\ c.step # "done" => c.status = "FLASH_SUCCESS"
        /\ ~(c.step = "done" /\ c.status = "FLASH_SUCCESS")
    <3>1. value \in Data
      BY ApiAssumption DEF Data, FlagValues, PARTITION_UPDATE_IN_PROGRESS
    <3> QED BY <3>1, NewCalls, Numbers
  <2>2. Await("flag", c) /\ lastFlag' = Unknown
        /\ UNCHANGED <<flash, bootloaderVars, sessionVars>>
    BY <1>1 DEF WriteUpdateFlag, UpdateFlagWord
  <2> HIDE DEF c
  <2>3. CallOfFunction' /\ SizeFits'
    BY <2>1, <2>2 DEF Await, CallOfFunction, FlagCall, Returned, SizeFits
  <2> QED BY <1>0, <2>1, <2>2, <2>3, AwaitInv DEF sessionVars
<1>2. ASSUME CoreOnly, UNCHANGED <<current_state, last_error>>,
             \/ Partition_Init
             \/ Partition_IsValid(inactive_flag) /\ Partition_SwitchActive
             \/ active_flag' = PARTITION_INVALID_FLAG /\ UNCHANGED inactive_flag
             \/ inactive_flag' = PARTITION_INVALID_FLAG /\ UNCHANGED active_flag
      PROVE  ApiInv'
  <2>1. FlagsOfTheFlash' /\ active_flag' \in WordValues /\ inactive_flag' \in WordValues
    BY <1>2, HonestFlags DEF CoreOnly
  <2> QED BY <1>0, <1>2, <2>1, CoreInv DEF BootloaderTypeOK
<1>3. CASE PartitionInit  BY <1>2, <1>3 DEF PartitionInit
<1>4. CASE PartitionSwitch  BY <1>2, <1>4 DEF PartitionSwitch
<1>5. CASE Partition_MarkRollback  BY <1>2, <1>5 DEF Partition_MarkRollback
<1> QED BY <1>1, <1>3, <1>4, <1>5 DEF Partitions

LEMMA UpdateManagerStep ==
  ASSUME ApiInv, UpdateManager
  PROVE  ApiInv'
<1>0. /\ size \in Nat /\ firmware_size \in Nat /\ call \in CallType
  BY DEF ApiInv, ApiTypeOK, FlashTypeOK
<1>1. CASE UpdateManager_Reset
  BY <1>1 DEF UpdateManager_Reset, EndSession, ApiInv, ApiTypeOK, FlashTypeOK,
              BootloaderTypeOK, bootloaderVars, CallOfFunction, SessionFits, SizeFits,
              FlagsOfTheFlash, UpdateFlagKept, Partition_IsValid
<1>2. CASE UpdateManager_FinalizeUpdate
  BY <1>2 DEF UpdateManager_FinalizeUpdate, ApiInv, ApiTypeOK, FlashTypeOK,
              BootloaderTypeOK, bootloaderVars, CallOfFunction, SessionFits, SizeFits,
              FlagsOfTheFlash, UpdateFlagKept, Partition_IsValid
<1>3. ASSUME NEW n \in FirmwareSizes, UpdateManager_StartUpdate(n) PROVE ApiInv'
  <2> DEFINE c == Flash_ErasePage(PARTITION_INACTIVE_START)
  <2>1. c \in CallType /\ c.address = PARTITION_INACTIVE_START /\ c.length = 0
    BY NewCalls
  <2>2. Await("session", c) /\ size' = n /\ n <= PARTITION_SIZE /\ n \in Nat
        /\ UNCHANGED <<flash, bootloaderVars, update_in_progress, firmware_size, lastFlag>>
    BY <1>3, ApiAssumption DEF UpdateManager_StartUpdate, SessionAccepted
  <2> HIDE DEF c
  <2>3. CallOfFunction' /\ SizeFits'
    BY <2>1, <2>2, Numbers DEF Await, CallOfFunction, FirmwareCall, SizeFits
  <2> QED BY <2>1, <2>2, <2>3, AwaitInv
<1> QED BY <1>1, <1>2, <1>3 DEF UpdateManager

LEMMA ReturnsStep ==
  ASSUME ApiInv, Returns
  PROVE  ApiInv'
<1>0. /\ ApiTypeOK /\ BootloaderTypeOK /\ CallOfFunction /\ SessionFits /\ SizeFits
      /\ FlagsOfTheFlash /\ UpdateFlagKept /\ call \in CallType
  BY DEF ApiInv, ApiTypeOK, FlashTypeOK
<1>1. running' = "none" /\ call' = NoCall /\ UNCHANGED <<flash, partitionVars>>
  BY DEF Returns, FirmwareReturn, FlagReturn, SessionReturn, Back, bootloaderVars, partitionVars
<1>2. CallOfFunction' /\ SizeFits' /\ FlagsOfTheFlash'
  BY <1>0, <1>1
     DEF CallOfFunction, SizeFits, FlagsOfTheFlash, partitionVars, Partition_IsValid
<1>3. CASE FirmwareReturn
  <2>1. UNCHANGED <<sessionVars, lastFlag>>
        /\ current_state' \in bootloader_state_t /\ last_error' \in bootloader_error_t
    BY <1>0, <1>3
       DEF FirmwareReturn, SetError, BootloaderTypeOK, bootloader_state_t, bootloader_error_t
  <2> QED BY <1>0, <1>1, <1>2, <2>1, NoCallType
          DEF ApiInv, ApiTypeOK, FlashTypeOK, BootloaderTypeOK, partitionVars, sessionVars,
              SessionFits, UpdateFlagKept
<1>4. CASE FlagReturn
  <2>1. UNCHANGED <<bootloaderVars, sessionVars>>  BY <1>4 DEF FlagReturn
  <2>2. lastFlag' \in WordValues \cup {Unknown} /\ UpdateFlagKept'
    <3>1. FlagCall  BY <1>0, <1>4 DEF FlagReturn, Back, CallOfFunction
    <3>2. call.data \in WordValues  BY <1>0 DEF CallType, WordValues
    <3>3. lastFlag' = IF Returned("FLASH_SUCCESS") THEN call.data ELSE Unknown
      BY <1>4 DEF FlagReturn
    <3> QED BY <1>1, <3>1, <3>2, <3>3 DEF FlagCall, UpdateFlagKept
  <2> QED BY <1>0, <1>1, <1>2, <2>1, <2>2, NoCallType
          DEF ApiInv, ApiTypeOK, FlashTypeOK, BootloaderTypeOK, bootloaderVars, sessionVars,
              SessionFits
<1>5. CASE SessionReturn
  <2>1. UNCHANGED <<bootloaderVars, lastFlag>> /\ size' = 0
        /\ (\/ update_in_progress' = TRUE /\ firmware_size' = size
            \/ UNCHANGED <<update_in_progress, firmware_size>>)
    BY <1>5 DEF SessionReturn
  <2>2. SessionFits'
    BY <1>0, <1>5, <2>1 DEF SessionReturn, Back, SessionFits, SizeFits
  <2> QED BY <1>0, <1>1, <1>2, <2>1, <2>2, NoCallType
          DEF ApiInv, ApiTypeOK, FlashTypeOK, BootloaderTypeOK, bootloaderVars, UpdateFlagKept
<1> QED BY <1>3, <1>4, <1>5 DEF Returns

LEMMA PowerLossStep ==
  ASSUME ApiInv, PowerLoss
  PROVE  ApiInv'
<1>1. /\ active_flag' = Erased /\ inactive_flag' = Erased
      /\ current_state' = "BOOTLOADER_BOOT" /\ last_error' = "BOOTLOADER_NO_ERROR"
      /\ update_in_progress' = FALSE /\ firmware_size' = 0 /\ size' = 0
      /\ call' = NoCall /\ running' = "none" /\ UNCHANGED <<flash, lastFlag>>
  BY DEF PowerLoss, BootloaderReset, RamAtReset, PARTITION_INVALID_FLAG
<1>2. ApiTypeOK'
  BY <1>1, NoCallType
     DEF ApiInv, ApiTypeOK, FlashTypeOK, BootloaderTypeOK, WordValues, bootloader_state_t,
         bootloader_error_t
<1>3. FlagsOfTheFlash'
  BY <1>1 DEF FlagsOfTheFlash, Partition_IsValid, PARTITION_VALID_FLAG, Erased
<1> QED BY <1>1, <1>2, <1>3
        DEF ApiInv, CallOfFunction, SessionFits, SizeFits, UpdateFlagKept

THEOREM ApiInvariance == Spec => []ApiInv
<1>1. ApiInv /\ UNCHANGED apiVars => ApiInv'
  BY DEF ApiInv, apiVars, ApiTypeOK, FlashTypeOK, BootloaderTypeOK, bootloaderVars,
         sessionVars, CallOfFunction, FirmwareCall, FlagCall, Returned, SessionFits, SizeFits,
         FlagsOfTheFlash, UpdateFlagKept, Partition_IsValid
<1>2. ApiInv /\ [Next]_apiVars => ApiInv'
  BY <1>1, CoreStep, PartitionsStep, UpdateManagerStep, FlashCallInv, ReturnsStep,
     PowerLossStep
     DEF Next
<1> QED BY <1>2, ApiInitial, PTL DEF Spec

----------------------------------------------------------------------------
\* What follows.

\* The variables of bootloader core, partition and update manager keep their
\* types in every program (bootloader.c, partition_manager.c, update_manager.c).
THEOREM ApiTyped == Spec => []ApiTypeOK
BY ApiInvariance, PTL DEF ApiInv

\* The RAM never believes in a bank that the flash does not call valid, for
\* every sequence of calls, failures and resets.
THEOREM FlagsStayHonest == Spec => []FlagsOfTheFlash
BY ApiInvariance, PTL DEF ApiInv

\* An update flag that was set with success survives everything but its next
\* write.
THEOREM UpdateFlagSurvives == Spec => []UpdateFlagKept
BY ApiInvariance, PTL DEF ApiInv

\* A session for a firmware of at least the length of the metadata reads
\* within the flash.
THEOREM SessionsReadTheFlash == Spec => []OverreadOnlyIfTiny
<1>1. ApiInv => OverreadOnlyIfTiny
  <2> SUFFICES ASSUME ApiInv, update_in_progress, firmware_size >= CRC_METADATA_SIZE
               PROVE  ~ReadsBeyond
    BY DEF OverreadOnlyIfTiny
  <2> DEFINE n == firmware_size - CRC_METADATA_SIZE
  <2>1. n \in Nat /\ n <= PARTITION_SIZE /\ n < UINT32_RANGE
    BY Numbers DEF ApiInv, ApiTypeOK, SessionFits
  <2>2. ReadsBeyond => PARTITION_INACTIVE_START + (n % UINT32_RANGE) > FLASH_TOTAL_SIZE
    BY DEF ReadsBeyond
  <2> HIDE DEF n
  <2>3. n % UINT32_RANGE = n  BY <2>1, Numbers
  <2> QED BY <2>1, <2>2, <2>3, Numbers
<1> QED BY <1>1, ApiInvariance, PTL

\* No function changes anything but the first page of the inactive bank and
\* the page of the update flag.
THEOREM ApiKeepsToTwoPages == Spec => OnlyTwoPagesWritten
<1> DEFINE Keeps == \A w \in Words \ (FirstPage \cup FlagPage) : flash'[w] = flash[w]
<1>1. ASSUME ApiInv, [Next]_apiVars PROVE [Keeps]_apiVars
  <2>1. CASE FlashCall
    BY <1>1, <2>1, CallFootprint, FlashStepFrame
  <2>2. CASE ~FlashCall
    BY <1>1, <2>2
       DEF Next, Core, CoreOnly, FirmwareRefused, Bootloader_FirmwareUpdate,
           Bootloader_ValidateAndBoot, StateManager_SetState, Partitions, PartitionInit,
           PartitionSwitch, Partition_MarkRollback, WriteUpdateFlag, UpdateManager,
           UpdateManager_Reset, UpdateManager_StartUpdate, UpdateManager_FinalizeUpdate,
           Returns, FirmwareReturn, FlagReturn, SessionReturn, PowerLoss, apiVars
  <2> QED BY <2>1, <2>2
<1> QED BY <1>1, ApiInvariance, PTL DEF Spec, OnlyTwoPagesWritten, FirstPage, FlagPage
=============================================================================
