--------------------------- MODULE FlashContract ---------------------------
(***************************************************************************)
(* What the flash driver promises a caller, whatever the controller does:  *)
(* while a call runs only its page and its block may change, in any way;   *)
(* a refused call changes nothing; a call that returns FLASH_SUCCESS       *)
(* leaves the block stored and the rest of the page erased.  A reset may   *)
(* drop a call at any moment.                                              *)
(***************************************************************************)
EXTENDS FlashLayout

CONSTANTS Addresses, Lengths, InitialMemory

VARIABLES
  mem,      \* contents of the flash
  phase,    \* of the call: "idle", "busy" or "done"
  request,  \* what was asked
  status    \* what was answered, meaningful when phase is "done"

cvars == <<mem, phase, request, status>>

NoRequest ==
  [op |-> "none", address |-> 0, data |-> PARTITION_VALID_FLAG, length |-> 0]

Requests ==
  [op : {"erase"}, address : Addresses, data : {PARTITION_VALID_FLAG}, length : {0}]
    \cup [op : {"program"}, address : Addresses, data : Data, length : Lengths]

Acceptable(r) ==
  Flash_IsAddressValid(r.address) /\ (r.op = "program" => r.length <= FLASH_PAGE_SIZE)

OnlyFootprintChanges(r) ==
  /\ mem' \in Memory
  /\ \A w \in Words \ Footprint(r.address, r.length) : mem'[w] = mem[w]

\* The state a successful call leaves behind.
Fulfilled(m, r) ==
  /\ \A w \in BlockWords(r.address, r.length) : m[w] = r.data
  /\ \A w \in PageWords(r.address) \ BlockWords(r.address, r.length) : m[w] = Erased

ContractInit ==
  /\ mem \in InitialMemory
  /\ phase = "idle" /\ request = NoRequest /\ status = "FLASH_SUCCESS"

Accept ==
  /\ phase = "idle" /\ phase' = "busy"
  /\ \E r \in Requests : Acceptable(r) /\ request' = r
  /\ UNCHANGED <<mem, status>>

Refuse ==
  /\ phase = "idle" /\ phase' = "done"
  /\ \E r \in Requests : ~Acceptable(r) /\ request' = r
  /\ status' = "FLASH_ERROR_INVALID_ADDRESS"
  /\ UNCHANGED mem

Work ==
  /\ phase = "busy"
  /\ OnlyFootprintChanges(request)
  /\ UNCHANGED <<phase, request, status>>

Finish ==
  /\ phase = "busy" /\ phase' = "done"
  /\ OnlyFootprintChanges(request)
  /\ \/ status' = "FLASH_SUCCESS" /\ Fulfilled(mem', request)
     \/ status' \in {"FLASH_ERROR_ERASE", "FLASH_ERROR_WRITE"}
  /\ UNCHANGED request

\* The caller takes the answer, or a reset drops the call.
Clear ==
  /\ phase' = "idle" /\ request' = NoRequest /\ status' = "FLASH_SUCCESS"
  /\ UNCHANGED mem

ContractNext == Accept \/ Refuse \/ Work \/ Finish \/ Clear

ContractSpec == ContractInit /\ [][ContractNext]_cvars
=============================================================================
