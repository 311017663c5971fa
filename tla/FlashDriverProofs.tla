------------------------- MODULE FlashDriverProofs -------------------------
(***************************************************************************)
(* The flash driver implements its contract, for every geometry, retry     *)
(* count, caller and fault of the controller.                              *)
(***************************************************************************)
EXTENDS FlashDriver, FlashProofs

\* The operations of a call are those of its place: nothing but a program call
\* writes, an erase has no block, and what was refused is at its end.  Before
\* the first write attempt the page has been erased, and the writes touch
\* nothing else of it.
CallShape ==
  /\ call.step = "idle" => call = NoCall
  /\ call.step # "idle" => call.op \in {"erase", "program"}
  /\ call.step \in {"erase", "write"} => /\ Flash_IsAddressValid(call.address)
                                         /\ call.length <= FLASH_PAGE_SIZE
                                         /\ call.status = "FLASH_SUCCESS"
  /\ call.step = "write" => call.op = "program"
  /\ call.op = "erase" => call.length = 0 /\ call.data = PARTITION_VALID_FLAG

PageClear ==
  call.step = "write" =>
    \A w \in PageWords(call.address) \ BlockWords(call.address, call.length) : flash[w] = Erased

DriverInv == FlashTypeOK /\ CallShape /\ PageClear

LEMMA DriverStarts ==
  ASSUME DriverInv, CallErasePage \/ CallProgramPage
  PROVE  DriverInv'
<1>1. CASE CallErasePage
  <2>1. PICK address \in Addresses : call' = Flash_ErasePage(address)
    BY <1>1 DEF CallErasePage
  <2>2. flash' = flash /\ address \in Nat
    BY <1>1, DriverAssumption DEF CallErasePage
  <2>3. call' \in CallType  BY <2>1, <2>2, CallTypes
  <2>4. CallShape' /\ PageClear'
    BY <2>1, <2>2, LayoutAssumption DEF Flash_ErasePage, NoCall, CallShape, PageClear
  <2> QED BY <2>2, <2>3, <2>4 DEF DriverInv, FlashTypeOK
<1>2. CASE CallProgramPage
  <2>1. PICK address \in Addresses, data \in Data, length \in Lengths :
          call' = Flash_ProgramPage(address, data, length)
    BY <1>2 DEF CallProgramPage
  <2>2. flash' = flash /\ address \in Nat /\ length \in Nat
    BY <1>2, DriverAssumption DEF CallProgramPage
  <2>3. call' \in CallType  BY <2>1, <2>2, CallTypes
  <2>4. CallShape' /\ PageClear'
    BY <2>1, <2>2, LayoutAssumption DEF Flash_ProgramPage, NoCall, CallShape, PageClear
  <2> QED BY <2>2, <2>3, <2>4 DEF DriverInv, FlashTypeOK
<1> QED BY <1>1, <1>2

\* An erase that succeeds clears its page.
LEMMA EraseClears ==
  ASSUME DriverInv, PageErase, call'.step = "write" \/ call'.status = "FLASH_SUCCESS"
  PROVE  \A w \in PageWords(call.address) : flash'[w] = Erased
BY DEF PageErase, Fill, PageWords, DriverInv, FlashTypeOK, CallType

\* A write attempt leaves what is outside its block alone.
LEMMA WriteLeaves ==
  ASSUME DriverInv, WriteAttempt, NEW w \in Words \ BlockWords(call.address, call.length)
  PROVE  flash'[w] = flash[w]
<1>1. PICK n \in 0 .. call.length :
        flash' = Program(flash, BlockWords(call.address, n), call.data)
  BY DEF WriteAttempt
<1>2. w \notin BlockWords(call.address, n)
  BY LayoutAssumption DEF BlockWords, DriverInv, FlashTypeOK, CallType, Words
<1> QED BY <1>1, <1>2 DEF Program

LEMMA DriverSteps ==
  ASSUME DriverInv, FlashStep
  PROVE  DriverInv'
<1>1. FlashTypeOK'  BY FlashStepType DEF DriverInv
<1>2. /\ call.step \in {"erase", "write"}
      /\ call'.op = call.op /\ call'.address = call.address
      /\ call'.data = call.data /\ call'.length = call.length
      /\ call'.step \in {"write", "done"}
      /\ call'.step # "done" => call'.status = call.status
      /\ call.op # "program" /\ call.step = "erase" => call'.step = "done"
  BY FlashStepCall DEF DriverInv
<1>3. CallShape'
  BY <1>2 DEF DriverInv, CallShape
<1>4. PageClear'
  <2>1. CASE PageErase
    <3>1. call'.step = "write" => \A w \in PageWords(call.address) : flash'[w] = Erased
      BY <2>1, EraseClears
    <3> QED BY <1>2, <3>1 DEF PageClear
  <2>2. CASE WriteAttempt
    <3>1. call.step = "write"  BY <2>2 DEF WriteAttempt
    <3>2. \A w \in PageWords(call.address) \ BlockWords(call.address, call.length) :
            flash'[w] = flash[w]
      BY <2>2, WriteLeaves DEF PageWords
    <3> QED BY <1>2, <3>1, <3>2 DEF DriverInv, PageClear
  <2> QED BY <2>1, <2>2 DEF FlashStep
<1> QED BY <1>1, <1>3, <1>4 DEF DriverInv

LEMMA DriverInvariance == Spec => []DriverInv
<1>1. Init => DriverInv
  BY DriverAssumption, CallTypes
     DEF Init, DriverInv, FlashTypeOK, CallShape, PageClear, NoCall
<1>2. ASSUME DriverInv, [Next]_flashVars PROVE DriverInv'
  <2>1. CASE Return \/ PowerLoss
    <3>1. flash' = flash /\ call' = NoCall  BY <2>1 DEF Return, PowerLoss
    <3> QED BY <1>2, <3>1, CallTypes
            DEF DriverInv, FlashTypeOK, CallShape, PageClear, NoCall
  <2>2. CASE UNCHANGED flashVars
    BY <1>2, <2>2 DEF flashVars, DriverInv, FlashTypeOK, CallShape, PageClear
  <2> QED BY <1>2, <2>1, <2>2, DriverStarts, DriverSteps DEF Next
<1> QED BY <1>1, <1>2, PTL DEF Spec

\* The driver's variables keep their types; the retry counter stays within
\* MAX_RETRY_COUNT (Flash_ProgramPage).
THEOREM DriverTyped == Spec => []FlashTypeOK
BY DriverInvariance, PTL DEF DriverInv

----------------------------------------------------------------------------
\* The contract.

Phase ==
  CASE call.step = "idle" -> "idle"
    [] call.step = "done" -> "done"
    [] OTHER -> "busy"

Request == [op |-> call.op, address |-> call.address, data |-> call.data, length |-> call.length]

\* The contract speaks of the same layout, and of calls as its requests.
LEMMA SameLayout ==
  /\ Contract!Words = Words /\ Contract!Memory = Memory /\ Contract!Data = Data
  /\ Contract!Erased = Erased /\ Contract!PARTITION_VALID_FLAG = PARTITION_VALID_FLAG
  /\ \A a : /\ Contract!Flash_IsAddressValid(a) = Flash_IsAddressValid(a)
           /\ Contract!PageWords(a) = PageWords(a)
  /\ \A a, n : /\ Contract!BlockWords(a, n) = BlockWords(a, n)
              /\ Contract!Footprint(a, n) = Footprint(a, n)
<1>1. /\ Contract!Words = Words /\ Contract!Erased = Erased
      /\ Contract!PARTITION_VALID_FLAG = PARTITION_VALID_FLAG
      /\ Contract!PARTITION_INVALID_FLAG = PARTITION_INVALID_FLAG
      /\ Contract!Garbled = Garbled
      /\ \A a : Contract!PAGE_START_ADDR(a) = PAGE_START_ADDR(a)
  BY DEF Contract!Words, Words, Contract!Erased, Erased, Contract!PARTITION_VALID_FLAG,
     PARTITION_VALID_FLAG, Contract!PARTITION_INVALID_FLAG, PARTITION_INVALID_FLAG,
     Contract!Garbled, Garbled, Contract!PAGE_START_ADDR, PAGE_START_ADDR
<1>2. Contract!Data = Data  BY <1>1 DEF Contract!Data, Data
<1>3. Contract!Memory = Memory
  BY <1>1, <1>2 DEF Contract!Memory, Memory, Contract!WordValues, WordValues
<1>4. \A a : /\ Contract!Flash_IsAddressValid(a) = Flash_IsAddressValid(a)
            /\ Contract!PageWords(a) = PageWords(a)
  BY <1>1 DEF Contract!Flash_IsAddressValid, Flash_IsAddressValid, Contract!PageWords, PageWords
<1>5. \A a, n : /\ Contract!BlockWords(a, n) = BlockWords(a, n)
               /\ Contract!Footprint(a, n) = Footprint(a, n)
  BY <1>1, <1>4 DEF Contract!BlockWords, BlockWords, Contract!Footprint, Footprint
<1> QED BY <1>1, <1>2, <1>3, <1>4, <1>5

\* A step of the driver is one of these, in the contract's terms.
LEMMA MappedSteps ==
  /\ Contract!ContractInit <=>
       /\ flash \in InitialMemory
       /\ Phase = "idle" /\ Request = Contract!NoRequest /\ call.status = "FLASH_SUCCESS"
  /\ Contract!Accept <=>
       /\ Phase = "idle" /\ Phase' = "busy"
       /\ \E r \in Contract!Requests : Contract!Acceptable(r) /\ Request' = r
       /\ UNCHANGED <<flash, call.status>>
  /\ Contract!Refuse <=>
       /\ Phase = "idle" /\ Phase' = "done"
       /\ \E r \in Contract!Requests : ~Contract!Acceptable(r) /\ Request' = r
       /\ (call.status)' = "FLASH_ERROR_INVALID_ADDRESS"
       /\ UNCHANGED flash
  /\ Contract!Work <=>
       /\ Phase = "busy"
       /\ Contract!OnlyFootprintChanges(Request)
       /\ UNCHANGED <<Phase, Request, call.status>>
  /\ Contract!Finish <=>
       /\ Phase = "busy" /\ Phase' = "done"
       /\ Contract!OnlyFootprintChanges(Request)
       /\ \/ (call.status)' = "FLASH_SUCCESS" /\ Contract!Fulfilled(flash', Request)
          \/ (call.status)' \in {"FLASH_ERROR_ERASE", "FLASH_ERROR_WRITE"}
       /\ UNCHANGED Request
  /\ Contract!Clear <=>
       /\ Phase' = "idle" /\ Request' = Contract!NoRequest /\ (call.status)' = "FLASH_SUCCESS"
       /\ UNCHANGED flash
BY DEF Contract!ContractInit, Contract!Accept, Contract!Refuse, Contract!Work, Contract!Finish,
   Contract!Clear, Phase, Request

\* A request as the contract's functions see it.
LEMMA OfRequest ==
  ASSUME NEW r, r \in Contract!Requests
  PROVE  Contract!Acceptable(r) <=>
           Flash_IsAddressValid(r.address) /\ (r.op = "program" => r.length <= FLASH_PAGE_SIZE)
BY SameLayout DEF Contract!Acceptable

LEMMA StartsAreContract ==
  ASSUME DriverInv, CallErasePage \/ CallProgramPage
  PROVE  Contract!Accept \/ Contract!Refuse
<1>1. Phase = "idle" /\ call.status = "FLASH_SUCCESS" /\ flash' = flash
  BY DEF CallErasePage, CallProgramPage, Phase, DriverInv, CallShape, NoCall
<1>2. CASE CallErasePage
  <2>1. PICK address \in Addresses : call' = Flash_ErasePage(address)
    BY <1>2 DEF CallErasePage
  <2>2. /\ Request' = [op |-> "erase", address |-> address, data |-> PARTITION_VALID_FLAG, length |-> 0]
        /\ (call.status)' = IF Flash_IsAddressValid(address) THEN "FLASH_SUCCESS"
                            ELSE "FLASH_ERROR_INVALID_ADDRESS"
        /\ Phase' = IF Flash_IsAddressValid(address) THEN "busy" ELSE "done"
    BY <2>1 DEF Flash_ErasePage, NoCall, Request, Phase
  <2>3. Request' \in Contract!Requests
    BY <2>2, SameLayout DEF Contract!Requests
  <2> QED BY <1>1, <2>2, <2>3, OfRequest, MappedSteps
<1>3. CASE CallProgramPage
  <2>1. PICK address \in Addresses, data \in Data, length \in Lengths :
          call' = Flash_ProgramPage(address, data, length)
    BY <1>3 DEF CallProgramPage
  <2> DEFINE accepted == Flash_IsAddressValid(address) /\ length <= FLASH_PAGE_SIZE
  <2>2. /\ Request' = [op |-> "program", address |-> address, data |-> data, length |-> length]
        /\ (call.status)' = IF accepted THEN "FLASH_SUCCESS" ELSE "FLASH_ERROR_INVALID_ADDRESS"
        /\ Phase' = IF accepted THEN "busy" ELSE "done"
    BY <2>1 DEF Flash_ProgramPage, NoCall, Request, Phase
  <2>3. Request' \in Contract!Requests
    BY <2>2, SameLayout DEF Contract!Requests
  <2> QED BY <1>1, <2>2, <2>3, OfRequest, MappedSteps
<1> QED BY <1>2, <1>3

LEMMA StepsAreContract ==
  ASSUME DriverInv, FlashStep
  PROVE  Contract!Work \/ Contract!Finish
<1>1. /\ call.step \in {"erase", "write"}
      /\ call'.op = call.op /\ call'.address = call.address
      /\ call'.data = call.data /\ call'.length = call.length
      /\ call'.step \in {"write", "done"}
      /\ call'.step # "done" => call'.status = call.status
  BY FlashStepCall DEF DriverInv
<1>2. Phase = "busy" /\ UNCHANGED Request /\ Phase' = IF call'.step = "done" THEN "done" ELSE "busy"
  BY <1>1 DEF Phase, Request
<1>3. Contract!OnlyFootprintChanges(Request)
  <2>1. flash' \in Memory  BY FlashStepType DEF DriverInv, FlashTypeOK
  <2>2. \A w \in Words \ Footprint(call.address, call.length) : flash'[w] = flash[w]
    BY FlashStepFrame DEF DriverInv
  <2> QED BY <2>1, <2>2, SameLayout DEF Contract!OnlyFootprintChanges, Request
<1>4. CASE call'.step # "done"
  BY <1>1, <1>2, <1>3, <1>4, MappedSteps
<1>5. CASE call'.step = "done"
  <2>1. call.status = "FLASH_SUCCESS"  BY <1>1 DEF DriverInv, CallShape
  <2>2. call'.status \in {"FLASH_SUCCESS", "FLASH_ERROR_ERASE", "FLASH_ERROR_WRITE"}
    <3>1. CASE PageErase
      BY <2>1, <3>1 DEF PageErase, DriverInv, FlashTypeOK, CallType
    <3>2. CASE WriteAttempt
      <4>1. \E outcome \in {"stored", "exhausted", "retry"} : call' = AfterWrite(outcome)
        BY <3>2 DEF WriteAttempt, WriteOutcome
      <4> QED BY <2>1, <4>1 DEF AfterWrite, DriverInv, FlashTypeOK, CallType
    <3> QED BY <3>1, <3>2 DEF FlashStep
  <2>3. ASSUME call'.status = "FLASH_SUCCESS"
        PROVE  /\ \A w \in BlockWords(call.address, call.length) : flash'[w] = call.data
               /\ \A w \in PageWords(call.address) \ BlockWords(call.address, call.length) :
                    flash'[w] = Erased
    <3>1. CASE PageErase
      <4>1. call.op = "erase"
        BY <1>1, <1>5, <2>3, <3>1 DEF PageErase, DriverInv, CallShape, FlashTypeOK, CallType
      <4>2. BlockWords(call.address, call.length) = {}
        BY <4>1, LayoutAssumption DEF DriverInv, CallShape, FlashTypeOK, CallType, BlockWords, Words
      <4> QED BY <2>3, <3>1, <4>2, EraseClears
    <3>2. CASE WriteAttempt
      <4>1. call.step = "write" /\ call.op = "program"
        BY <3>2 DEF WriteAttempt, DriverInv, CallShape
      <4>2. Holds(flash', BlockWords(call.address, call.length), call.data)
        BY <1>5, <2>1, <2>3, <4>1, FlashStepStored DEF DriverInv
      <4>3. \A w \in PageWords(call.address) \ BlockWords(call.address, call.length) :
              flash'[w] = flash[w]
        BY <3>2, WriteLeaves DEF PageWords
      <4> QED BY <4>1, <4>2, <4>3 DEF Holds, DriverInv, PageClear
    <3> QED BY <3>1, <3>2 DEF FlashStep
  <2>4. call'.status = "FLASH_SUCCESS" => Contract!Fulfilled(flash', Request)
    BY <2>3, SameLayout DEF Contract!Fulfilled, Request
  <2> QED BY <1>2, <1>3, <1>5, <2>2, <2>4, MappedSteps
<1> QED BY <1>4, <1>5

\* Whatever a caller asks and the controller does, a call changes nothing but
\* its page and its block, a refused one changes nothing at all, and
\* FLASH_SUCCESS means the block is stored and the rest of its page erased
\* (Flash_ErasePage, Flash_ProgramPage).
THEOREM DriverKeepsContract == Spec => ImplementsContract
<1>1. Init => Contract!ContractInit
  BY MappedSteps DEF Init, NoCall, Phase, Request, Contract!NoRequest,
     Contract!PARTITION_VALID_FLAG, PARTITION_VALID_FLAG
<1>2. DriverInv /\ [Next]_flashVars => [Contract!ContractNext]_(Contract!cvars)
  <2> SUFFICES ASSUME DriverInv, [Next]_flashVars
               PROVE  [Contract!ContractNext]_(Contract!cvars)
    OBVIOUS
  <2>1. CASE Return \/ PowerLoss
    <3>1. flash' = flash /\ call' = NoCall  BY <2>1 DEF Return, PowerLoss
    <3>2. Contract!Clear
      BY <3>1, MappedSteps DEF NoCall, Phase, Request, Contract!NoRequest,
         Contract!PARTITION_VALID_FLAG, PARTITION_VALID_FLAG
    <3> QED BY <3>2 DEF Contract!ContractNext
  <2>2. CASE UNCHANGED flashVars
    BY <2>2 DEF flashVars, Contract!cvars
  <2> QED BY <2>1, <2>2, StartsAreContract, StepsAreContract DEF Next, Contract!ContractNext
<1> QED BY <1>1, <1>2, DriverInvariance, PTL DEF Spec, ImplementsContract, Contract!ContractSpec

----------------------------------------------------------------------------
\* Why a call returns.

\* A call never has more to do than one erase and MAX_RETRY_COUNT writes, and
\* every step of it leaves it less, whatever the controller reports: neither
\* the verification nor the errors make the loop of Flash_ProgramPage go round
\* for ever.
THEOREM CallsAreBounded ==
  Spec => /\ [](CallWork \in 0 .. MAX_RETRY_COUNT + 1)
          /\ [][FlashStep => CallWork' < CallWork]_flashVars
<1>1. FlashTypeOK => CallWork \in 0 .. MAX_RETRY_COUNT + 1  BY CallWorkRange
<1>2. FlashTypeOK /\ [Next]_flashVars => [FlashStep => CallWork' < CallWork]_flashVars
  BY FlashStepWork
<1> QED BY <1>1, <1>2, DriverTyped, PTL DEF Spec
=============================================================================
