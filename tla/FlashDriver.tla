---------------------------- MODULE FlashDriver ----------------------------
(***************************************************************************)
(* The flash driver under any caller: erase and program calls on any of    *)
(* Addresses, with any of Lengths, one after the other, and power lost at  *)
(* any moment.                                                             *)
(***************************************************************************)
EXTENDS Flash

CONSTANTS
  Addresses,     \* the addresses callers pass, bad ones included
  Lengths,       \* the lengths callers pass, too long ones included
  InitialMemory  \* what the chip may hold when it is first powered

ASSUME DriverAssumption ==
  /\ Addresses \subseteq Nat
  /\ Lengths \subseteq Nat
  /\ InitialMemory \subseteq Memory

Init == flash \in InitialMemory /\ call = NoCall

CallErasePage ==
  /\ call.step = "idle"
  /\ \E address \in Addresses : call' = Flash_ErasePage(address)
  /\ UNCHANGED flash

CallProgramPage ==
  /\ call.step = "idle"
  /\ \E address \in Addresses, data \in Data, length \in Lengths :
       call' = Flash_ProgramPage(address, data, length)
  /\ UNCHANGED flash

Return ==
  /\ call.step = "done"
  /\ call' = NoCall
  /\ UNCHANGED flash

PowerLoss ==
  /\ call.step # "idle"
  /\ call' = NoCall
  /\ UNCHANGED flash

Next == CallErasePage \/ CallProgramPage \/ FlashStep \/ Return \/ PowerLoss

Spec == Init /\ [][Next]_flashVars

\* The driver is a synchronous function: once called it runs.
FairSpec == Spec /\ WF_flashVars(FlashStep)

----------------------------------------------------------------------------

\* The driver keeps the contract a caller may rely on: a refused call changes
\* nothing, no call changes a word outside its page and its block, and
\* FLASH_SUCCESS means the block is stored and the rest of the page erased,
\* through failed erases, partial writes, retries and resets
\* (Flash_ErasePage, Flash_ProgramPage).
Contract == INSTANCE FlashContract WITH
  mem     <- flash,
  phase   <- CASE call.step = "idle" -> "idle"
               [] call.step = "done" -> "done"
               [] OTHER -> "busy",
  request <- [op |-> call.op, address |-> call.address,
              data |-> call.data, length |-> call.length],
  status  <- call.status
ImplementsContract == Contract!ContractSpec

\* However often the controller fails, a call returns or power is lost: the
\* retry loop of Flash_ProgramPage is bounded.
CallReturns == (call.step \in {"erase", "write"}) ~> (call.step \in {"done", "idle"})
=============================================================================
