------------------------------- MODULE Flash -------------------------------
(***************************************************************************)
(* The flash driver of the slave (flash_manager.c): Flash_ErasePage,       *)
(* Flash_ProgramPage and Flash_VerifyPage.                                 *)
(*                                                                         *)
(* A call is not atomic: the controller erases the page, then writes up to *)
(* MAX_RETRY_COUNT times, and power may be lost between any two of these.  *)
(* The call in progress is the record call; a component that uses the      *)
(* driver starts a call, lets FlashStep run it, and reads call.status when *)
(* call.step is "done".  The controller below the driver (MXC_FLC) is      *)
(* external and is modelled by the outcomes the driver distinguishes.      *)
(***************************************************************************)
EXTENDS FlashLayout

CONSTANTS
  MAX_RETRY_COUNT,  \* 3
  FLASH_FAULTS      \* what the controller may do: report no errors, fail and
                    \* spoil the whole page, or fail and spoil any part of it

ASSUME FlashAssumption ==
  /\ MAX_RETRY_COUNT \in Nat \ {0}
  /\ FLASH_FAULTS \in {"none", "whole", "part"}

VARIABLES
  flash,  \* contents of the flash, survives a reset
  call    \* the flash call in progress, lost with the stack on a reset

flashVars == <<flash, call>>

flash_status_t == {"FLASH_SUCCESS", "FLASH_ERROR_INVALID_ADDRESS",
                   "FLASH_ERROR_WRITE", "FLASH_ERROR_ERASE"}

CallType ==
  [op      : {"none", "erase", "program"},
   step    : {"idle", "erase", "write", "done"},
   address : Nat,
   data    : Data,
   length  : Nat,
   attempt : 0 .. MAX_RETRY_COUNT,
   status  : flash_status_t]

FlashTypeOK == flash \in Memory /\ call \in CallType

NoCall ==
  [op |-> "none", step |-> "idle", address |-> 0, data |-> PARTITION_VALID_FLAG,
   length |-> 0, attempt |-> 0, status |-> "FLASH_SUCCESS"]

Returned(status) == call.step = "done" /\ call.status = status

----------------------------------------------------------------------------

\* The entry checks of Flash_ErasePage decide between an early return and
\* the erase.
Flash_ErasePage(address) ==
  [NoCall EXCEPT
     !.op      = "erase",
     !.address = address,
     !.step    = IF Flash_IsAddressValid(address) THEN "erase" ELSE "done",
     !.status  = IF Flash_IsAddressValid(address) THEN "FLASH_SUCCESS"
                 ELSE "FLASH_ERROR_INVALID_ADDRESS"]

\* Mutant: the length is not tested.
Flash_ProgramPage_AnyLength(address, data, length) ==
  LET accepted == Flash_IsAddressValid(address)
  IN [NoCall EXCEPT
        !.op      = "program",
        !.address = address,
        !.data    = data,
        !.length  = length,
        !.step    = IF accepted THEN "erase" ELSE "done",
        !.status  = IF accepted THEN "FLASH_SUCCESS"
                    ELSE "FLASH_ERROR_INVALID_ADDRESS"]

\* Flash_ProgramPage refuses a bad address or more than a page of data, and
\* otherwise begins by erasing the page of the address.
Flash_ProgramPage(address, data, length) ==
  LET accepted == Flash_IsAddressValid(address) /\ length <= FLASH_PAGE_SIZE
  IN [NoCall EXCEPT
        !.op      = "program",
        !.address = address,
        !.data    = data,
        !.length  = length,
        !.step    = IF accepted THEN "erase" ELSE "done",
        !.status  = IF accepted THEN "FLASH_SUCCESS"
                    ELSE "FLASH_ERROR_INVALID_ADDRESS"]

\* What a failed erase may leave: the page as it was or in no known state, or
\* each of its words as it was, erased or in no known state.
Damaged(page) ==
  IF FLASH_FAULTS = "part"
  THEN {Fill(Fill(flash, cleared, Erased), spoilt, Garbled) : cleared, spoilt \in SUBSET page}
  ELSE {flash, Fill(flash, page, Garbled)}

\* MXC_FLC_PageErase: the whole page reads all ones, or the controller
\* reports an error.
PageErase ==
  LET page == PageWords(call.address)
  IN /\ call.step = "erase"
     /\ \/ /\ flash' = Fill(flash, page, Erased)
           /\ call' = IF call.op = "program"
                      THEN [call EXCEPT !.step = "write", !.attempt = 1]
                      ELSE [call EXCEPT !.step = "done"]
        \/ /\ FLASH_FAULTS # "none"
           /\ flash' \in Damaged(page)
           /\ call' = [call EXCEPT !.step = "done", !.status = "FLASH_ERROR_ERASE"]

\* Mutant: the result of MXC_FLC_Write is believed without Flash_VerifyPage.
WriteOutcome_NoVerify(mem, ok) ==
  IF ok THEN "stored"
  ELSE IF call.attempt = MAX_RETRY_COUNT THEN "exhausted" ELSE "retry"

\* Mutant: the loop runs once more than MAX_RETRY_COUNT.
WriteOutcome_OneMore(mem, ok) ==
  IF ok /\ Holds(mem, BlockWords(call.address, call.length), call.data)
  THEN "stored"
  ELSE IF call.attempt > MAX_RETRY_COUNT THEN "exhausted" ELSE "retry"

\* What the loop of Flash_ProgramPage makes of one attempt: return, try
\* again, or give up after MAX_RETRY_COUNT attempts.
WriteOutcome(mem, ok) ==
  IF ok /\ Holds(mem, BlockWords(call.address, call.length), call.data)
  THEN "stored"
  ELSE IF call.attempt = MAX_RETRY_COUNT THEN "exhausted" ELSE "retry"

\* Mutant: the loop counter is not advanced.
NextAttempt_Stuck(attempt) == attempt

NextAttempt(attempt) == attempt + 1

\* Mutant: the status falls through to success after the last attempt.
AfterWrite_ErrorLost(outcome) ==
  CASE outcome = "retry" -> [call EXCEPT !.attempt = NextAttempt(@)]
    [] OTHER             -> [call EXCEPT !.step = "done"]

\* Mutant: a failed attempt starts over with the erase and so with the count.
AfterWrite_EraseAgain(outcome) ==
  CASE outcome = "stored"    -> [call EXCEPT !.step = "done"]
    [] outcome = "retry"     -> [call EXCEPT !.step = "erase"]
    [] outcome = "exhausted" -> [call EXCEPT !.step = "done",
                                             !.status = "FLASH_ERROR_WRITE"]

AfterWrite(outcome) ==
  CASE outcome = "stored"    -> [call EXCEPT !.step = "done"]
    [] outcome = "retry"     -> [call EXCEPT !.attempt = NextAttempt(@)]
    [] outcome = "exhausted" -> [call EXCEPT !.step = "done",
                                             !.status = "FLASH_ERROR_WRITE"]

\* One attempt: MXC_FLC_Write programs the first n bytes of the block and
\* reports ok or an error.  It reports ok only for a block it wrote in full,
\* and never writes beyond the end of the flash.
WriteAttempt ==
  /\ call.step = "write"
  /\ \E n \in 0 .. call.length, ok \in BOOLEAN :
       LET inRange == call.address + call.length <= FLASH_TOTAL_SIZE
           mem == Program(flash, BlockWords(call.address, n), call.data)
       IN /\ ok => n = call.length /\ inRange
          /\ ~ok => FLASH_FAULTS # "none" \/ ~inRange
          /\ flash' = mem
          /\ call' = AfterWrite(WriteOutcome(mem, ok))

FlashStep == PageErase \/ WriteAttempt
=============================================================================
