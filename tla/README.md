# A verification of the I2C firmware update: bootloader slave and update master

The repository holds two programs for MAX32660 boards. The *slave* is a
bootloader with two firmware banks in flash; the *master* sends it a new
firmware over I2C, one command and one response byte at a time. This directory
models both in TLA+, checks the models with TLC and proves theorems about them
with TLAPS.

## 1. The system

### Components

| component | source | state | operations |
|---|---|---|---|
| flash driver | `I2C_Slave/flash_manager.c` | the flash itself | `Flash_ErasePage`, `Flash_ProgramPage` (erase, then up to three writes, each verified), `Flash_IsAddressValid` |
| partition manager | `I2C_Slave/partition_manager.c` | RAM copies of two validation flags | `Partition_Init` (the only reader of the flash), `Partition_Validate`/`IsValid`, `Partition_SwitchActive`, `Partition_MarkRollback`, update flag |
| bootloader core, state manager | `I2C_Slave/bootloader.c`, `state_manager.c` | `current_state`, `last_error` | `Bootloader_Init`, `ValidateAndBoot`, `Rollback`, `FirmwareUpdate`, `StateManager_SetState` |
| slave program | `I2C_Slave/main.c` | the receive buffer, where it is | start-up, the switch on the state, `ProcessI2CCommands` |
| command handler | `I2C_Slave/command_handler.c` | `program_offset` | one case per command |
| slave I2C driver | `I2C_Slave/i2c_driver.c` | receive and transmit FIFOs | blocking receive, FIFO send |
| CRC | `I2C_Slave/crc.c` | two words at the end of a bank | calculate, validate, store |
| validation manager | `I2C_Slave/validation_manager.c` | none | magic number and CRC of a whole bank |
| communication manager | `I2C_Slave/communication_manager.c` | one allocated buffer | init, deinit, validate a packet; send and receive are mocks |
| firmware update manager | `I2C_Slave/fw_update_manager.c` | write address, byte count | start, chunk, finalize, cancel, verify |
| update manager | `I2C_Slave/update_manager.c` | `update_in_progress`, size | start, finalize, cancel |
| memory manager | `I2C_Slave/memory_manager.c` | one shared buffer and its flag, an update buffer | get, release, allocate, free, init, deinit |
| master program | `I2C_master/main.c` | step of the procedure, attempt, response | handshake, then seven steps, each a command sent up to three times |
| master I2C driver | `I2C_master/i2c_driver.c` | the flag a callback sets | send, receive |

`reboot_manager.c` and `log_manager.c` complete the slave. Nothing the programs
run calls
`fw_update_manager.c`, `update_manager.c`, `communication_manager.c`,
`validation_manager.c`, `Bootloader_FirmwareUpdate`, `StateManager_SetState`,
`Partition_MarkRollback` or the update flag: they are libraries beside the
programs.

The declared and the called names of the I2C drivers do not match their
definitions (`I2C_Receive` is called, `I2C_Slave_Receive` and
`I2C_Master_Receive` are defined). The models take each call for the function
of its own driver.

### Interactions

The master's commands reach the handler through the two I2C drivers. The handler
calls the flash driver, the partition manager, the CRC and the bootloader core
directly; everything on the slave runs in one thread. The state the parts share
is the flash: it alone survives a reset, and each of them believes something
about it (the flags of the partition manager, the offset of the handler). The
heap is shared in the same way: CRC validation needs a buffer of it, and answers
as it does for a corrupt firmware when another component has used it up.

### What is hard

Power may fail inside an erase or a write; the controller may report errors
after a part of a block is written; a driver call retries. RAM flags and offset
have to agree with a flash that changes under them. Frames may be short or
empty, and the slave then acts on old bytes. Answers may be lost, doubled or
left in the FIFO, and the master sends a command again that was executed. A
whole sequence of legal commands ends in a state from which nothing boots.
`PROJECT.json` lists these hazards with the lines they bite at.

### What makes each component correct

- flash driver: changes nothing outside the page and the block of a call;
  success means the block is stored and the rest of the page erased; it returns.
- partition manager and core: the flags follow the flash; the decision to boot
  follows the flags; exactly one of booting and serving.
- command handler and program: never writes the running bank; an acknowledged
  chunk is stored; every command comes back to the receive, with its answer in the
  transmit FIFO if there was room for it.
- CRC: the register is the remainder a CRC is about; a burst of wrong bits shows in
  the verdict; what is stored can be found again and matches what is computed.
- memory manager: no buffer is freed under its owner, handed out twice or lost.
- update managers: bytes counted are bytes stored, never past the bank.
- master: reports success only for an update that took place; terminates.

## 2. Modules

| module | models |
|---|---|
| `FlashLayout` | geometry, address helpers, what an erase or a write does to words |
| `Flash` | the flash driver, one call at a time, step by step |
| `FlashContract` | abstract: what a caller of the driver may rely on |
| `FlashDriver` | the driver under any caller; implements `FlashContract` |
| `Bootloader` | partition flags, global state, bootloader core, as operators on four variables |
| `BootPolicy` | abstract: start, boot or serve, fault, power cycle |
| `Slave` | the slave's program and command handler under any master; implements `BootPolicy` |
| `Master` | the master's program and I2C driver, each transaction an operator |
| `UpdateSystem` | `Slave` and `Master` on one bus; implements `Slave` |
| `FwUpdate` | the firmware update manager and the CRC store under any caller |
| `BootApi` | bootloader core, partition manager with its update flag, state manager and update manager under any caller |
| `Crc` | `CRC_Calculate` bit by bit and the verdicts built on it: `CRC_Validate`, `ValidationManager_ValidateFirmware`, `CommunicationManager_ValidatePacket`; with the long division it is measured against |
| `CrcPair` | the same calls on two memories in lockstep |
| `MemoryManager` | heap and shared buffer with the functions that use them |
| `FlashProofs`, `FlashDriverProofs`, `SlaveProofs`, `SystemProofs`, `FwUpdateProofs`, `BootApiProofs`, `CrcProofs`, `MemoryManagerProofs` | lemmas and theorems |
| `MCFlashDriver`, `MCSlave`, `MCUpdateSystem`, `MCFwUpdate`, `MCBootApi`, `MCCrc`, `MCMemoryManager` | instances for TLC |

`Flash` holds `flash` and the record `call`, the call in progress. A component
that uses the driver sets `call` with `Flash_ErasePage(..)` or
`Flash_ProgramPage(..)` (entry checks included), lets `FlashStep` run, and reads
`call.status` once `call.step` is `"done"`. That keeps a power failure possible
between any two steps of the controller.

`Bootloader` adds the four variables of the core; its operators describe their
primed values. `Slave` adds `pc` (where the single thread is), the handler's
offset, the receive buffer, the response and the transmit FIFO. Each case of the
handler is an action; the two cases that call the flash driver end in
`FlashReturn`. `Reset` gives every RAM variable its initial value and leaves the
flash, and may happen at any time.

`Master` is the place in `main` and `FirmwareUpdateProcess` (`step`), the place in
`Master_SendCommand` (`stage`), its attempt (`tries`), the byte of the response
(`answer`) and the number of chunks programmed (`sent`). It is written against a bus that somebody else supplies: the
operators `WriteDone` and `ReadDone` say what the master does when a transaction
ends. `UpdateSystem` supplies the bus. A write ends when the slave, blocked in its
receive, takes the frame; a read when the FIFO gives up a byte; and, depending
on `BUS`, a transaction may be refused at once (`"refusal"`), end with an error
that the master's callback does not tell from success (`"error"`), or complete the
slave's blocked receive without a byte (`"wake"`). The last may come with the end
of any read and of any failed write, since `i2c_slave_callback` sees the end of a
transaction and nothing else. The slave then handles the command of the frame
before once more; one that took no frame since it was powered runs the byte its
uninitialised buffer holds (`Blind`). Three variables are there for the bus or the
properties: `woken` says that such an end is there for the slave to take,
`unwritten` is a history of the steps whose response a failed read left
unwritten, `fed` says whether the slave has taken a frame since it was powered.

`FwUpdate` and `BootApi` are libraries that nothing in the programs calls, so
every sequence of calls is allowed. `running` names the function that waits for
the driver. In `FwUpdate`, `bootFlag` and `written` are history: the inactive
bank's flag when it was last read from the flash, and the chunks acknowledged
since the bank was started. In `BootApi`, `lastFlag` is the update flag last set
with success, or unknown while a write of it is in progress or after one failed.

`Crc` is the one module that keeps data as they are: a byte, a register, the
polynomial and the magic number are sets of bit positions of their real width,
exclusive or is the symmetric difference. `place` is where the call is (the loop
over chunks, over bytes, over bits), each round of a loop is an action, and a
read beyond the memory ends in `"fault"`. `CrcPair` runs two copies of the module
(`INSTANCE Crc WITH`) that share the control, which does not depend on the data,
and differ in `memory`, `crc`, `calculated_crc` and `answer`: what a checksum can
tell apart is a statement about two memories.

`MemoryManager` has a heap of equal blocks: `malloc` returns any block that is
not live, and `NULL` only when there is none. `crc_buffer` is the local of
`CRC_Validate` while it runs; no other function runs meanwhile. `paired`,
`holders` and `evicted` are history: whether `CommunicationManager_Init` was ever
called over a buffer, who was given the shared buffer and has not released it,
and which of them lost it to somebody else's release. `COMM_BUFFER_SIZE` is 1:
it is the second name of an enumeration of status codes
(`communication_manager.h:23`), not a size.

In the other modules data are abstracted to tags: a flash word holds a flag, a block's tag, `Erased`
or `Garbled`. A payload is a member of `Chunks`, or `Mixed` when part of it is
left over from an earlier frame or uninitialised. The update of a word on
which bits were already cleared gives `Garbled`, as two programs of the same
word do. Addresses and lengths are byte-exact, since alignment is where the code
goes wrong; sums the code computes in 32 bits are taken modulo `UINT32_RANGE`.

External parts, modelled from their use: the flash controller (`MXC_FLC_*`), which
does its work, or reports an error and has done a part of it: a failed write has
burnt any first part of the block, and what a failed erase leaves is set by
`FLASH_FAULTS`: with `"part"` each word of the page is as it was, erased or garbled
(`flash_driver`, and the theorems, which hold for each value), with `"whole"` the
page is as it was or garbled altogether (the runs of the flash's users, where
the parts would multiply the states and a page that is lost is lost), with `"none"`
it never fails (the runs on the bus);
the I2C peripheral (a receive returns any part of a frame, a transmit FIFO of
`TX_FIFO_DEPTH` answers, an asynchronous transaction ends in its callback; the
end of a read, or of a write that failed, may complete the slave's pending
transaction, which `i2c_slave_callback` does not tell from a frame received),
and resets.

### Fairness

`FairSpec` of `Slave` and `FlashDriver` has weak fairness of the program's own
steps, since one thread runs on a processor that is not suspended (the run
`slave` checks all its properties under it); nothing is
assumed of the master, and power may fail for ever, which is why `StartUpEnds`
speaks of runs in which it eventually does not. `SystemFairSpec` adds weak
fairness of the master's thread and of a transaction that both sides wait for:
the peripheral then moves the bytes. It assumes nothing of errors, refusals or
empty receives, and does not make a slave serve that boots.

## 3. Runs

| run | question | bounds |
|---|---|---|
| `flash_driver` | does the driver keep its contract, and return? | five pages of two words; addresses: page start, mid-page, last word, unaligned, beyond; lengths: below a word, a page, more than a page |
| `slave` | start-up decision, writes, answers; `BootPolicy`; does every command return and find its answer queued, does start-up end? | six pages of four words, two banks of two pages and one page behind; payload of 11 bytes, one short of whole words like the real 1023; three write attempts; two chunk contents; three initial memories |
| `update_system` | when can the master begin an update? what does the slave handle and write before? is the slave still the slave of the other runs? | pages of two words, a file of two chunks of the same content, a slave that serves and one that boots; transactions refused, failed before or after the frame was taken, receives completed without a byte; power failures of the slave |
| `update_live` | does the master return when the slave serves? | as above without bus errors and power failures |
| `fw_update` | counters, stored chunks, verdict and writes of the firmware update manager | pages of two words, bank of three; lengths: none, unaligned, half a page, a page, more than the bank, and one that wraps around 32 bits; two contents; a bank that was valid and a blank one |
| `boot_api` | what RAM flags, update flag and sessions can be relied on for | pages of two words, bank of two, update flag in the second half of the page behind; every initial verdict of the two flags; sizes: 0, less than the metadata, a page, more than a page, more than the bank |
| `crc` | what the checksum computes, what its verdicts mean, what they see and what they do not | the real polynomial and register; a partition of 24 bytes in chunks of 6 and 2 bytes behind it; four accepted or stored CRCs, each memory also with a burst of 32 bits over four bytes of the first chunk, or a wrong bit in the last one or in the stored CRC, one without magic number; sizes from 0 to beyond the flash |
| `memory` | dangling, lost and doubly given buffers | a heap of four blocks, three users of the shared buffer |
| `crc_overread`, `mark_active` | findings: see section 5 | as `slave` |
| `reported_update`, `master_returns` | findings: see section 5 | as `update_system`; the second on a bus that does nothing wrong |

Two pages per bank are enough to tell the page a command writes from the page of
the flag; `fw_update` has three, since a chunk across two pages that loses its end
to the next one needs two pages before the last; a payload that is three bytes over a word boundary has the alignment
of the real one; two chunk contents tell a stored chunk from an old one; two
chunks in the file make the master's inner loop go round; three chunks of a
partition tell "the last one" from "all but the first" in `crc`, and `MCCrc`
checks the reference division against the published check value of the
polynomial. The last chunk is not
shorter than the others, since the handler ignores how much of a frame arrived.
No counter is bounded: the state spaces are finite and explored in full.

Deadlock is not checked in the runs of the composed system without power
failures: the master ends, and the slave then waits for a frame for ever. Every
other run checks it.

Every property of a passing run comes with a mutant, an operator kept beside the
one it replaces, under which TLC refutes the property.

## 4. Proofs

Every theorem holds for all constants that satisfy the assumptions named with
them: `LayoutAssumption` (banks of whole pages, at least two each, word-aligned,
inactive bank page-aligned and behind the active one), any retry count, and the
assumption of each module (`FwAssumption`, whose metadata have the eight bytes of
`crc.c:19`, `ApiAssumption`, `CrcAssumption`, `MemoryAssumption`, ...). The values of
the headers satisfy them; TLC evaluates them on the small instances.

- `FlashProofs` holds what is needed of pages (a page of an address between two
  page boundaries lies between them, from a lemma on quotients) and of one step of
  the driver (types, frame, success).
- `FlashDriverProofs`: the driver implements `FlashContract`. That a program call
  which succeeds leaves the rest of its page erased needs that no attempt of the
  retry loop writes there after the one erase (`PageClear`); the contract has
  one step for the end of a call and stutters on each step before it.
- `SlaveProofs`, for any master:
  only a running flash call writes. Which words it may write follows from who
  started it (`CallBelongsToHandler`, stated with the proofs): the flag page for `SimulateValidFirmware`,
  the first page for an erase, and for a program the first chunk, because a
  second one starts unaligned (`NextChunkUnaligned`) and never gets past the entry
  checks. That needs the offset to stop after one chunk (`OffsetStops`), which
  needs a successful call to have had offset 0. So the invariants are proved
  together (`IInv`); each theorem is a part of it, the action property and the
  refinement of `BootPolicy` follow from it step by step.
- `SystemProofs`: each step of the bus is a step of `Slave` or leaves it alone
  (`SystemImplementsSlave`), so every safety theorem above holds on the bus. The
  master's side needs that a response in flight is none the master expects at its
  first two steps: the slave has none of them to give, whatever it handles. So
  the master goes on only where a read failed (`UpdatesBeginByAccident`), and until
  then every frame the slave took was a `CMD_PING`: `OnlyPingsAreCommanded`. A flash
  call that runs meanwhile is the one of the start-up (`OnlyStartUpCalls`), which
  changes the page of the flag and no more, unless the slave runs a command that
  no frame brought it: `NothingIsInstalled`.
- `FwUpdateProofs`: the counters stay within the bank although the sum that tests
  it may wrap: a length that wraps is longer than a page, and the driver refuses
  it (`NoWrap`). With the call tied to the function in progress
  (`CallOfFunction`) this gives where the manager writes; the RAM flag tied to
  the one last read (`OldFlag`) gives what its verdict rests on. `FinalizeAlwaysSpoils`
  follows the page through `CRC_Store`'s second write (`MarkCall`). `PagesAreKept`
  needs that every chunk ends where the next one goes or before
  (`PagesInv`), so that a later erase lies behind it (`PageBefore`), and that
  `CRC_Store` only touches the last page (`StoreFootprint`).
- `BootApiProofs`: a call either stays in the first page of the inactive bank or
  is the write of the update flag, in a page behind both banks; neither holds a
  validation flag, so the RAM flags, which are only lowered or copied, never
  exceed the flash, and an update flag is disturbed by its own writes only.

- `CrcProofs` has four parts. *Division*: in the reference the terms above 32 are
  taken out from the top; that every step is defined and leaves nothing above it
  is shown downward, by the greatest index at which it would not
  (`DownToRemainder`, through `WFMin` of the library). From this,
  remainders add (`RemaindersAdd`), and a burst of 32 bits or less has a remainder
  that is not zero: the generator has its lowest term, so whatever is cancelled at
  the top of the window comes back within it (`CancelKeepsWindow`, `BurstRemains`).
  *Register*: taking a byte and then a bit is one step of that division, so what
  the register holds, shifted to where the loop is, and what the data have not
  delivered yet leave together the remainder of the data (`RestAt`).
  *Invariant*: `CrcInv` has this for the running calculation, with how far the
  chunks went (`ChunksCount`) and what was compared for a verdict (`Passed`).
  `RegisterIsRemainder` is its end, where no data are left; `VerdictsMean` follows, and from
  it `ExpectedIsRefused`. With what is left of the size in each place (`Lengths`) it
  gives `FaultsAreByLength`. *Pairs*: both copies are the
  specification above (`PairRefines`), so two memories get the same CRC exactly if
  the remainder of their difference is zero (`DifferenceRemains`): `BurstErrorsSeen`,
  and with `ChunksCount` `LastChunkAlwaysDecides`.
- `MemoryManagerProofs`: the properties are inductive together; heap and shared
  buffer are proved apart (`HeapInv`, `SharedInv`). The size of the update buffer
  exceeds the limit of the allocator, so its pointer never is anything but `NULL`;
  two live blocks are then all that paired users need, which is why two blocks of
  heap are assumed.

Liveness itself is beyond the prover, but not the reason for it. Five modules have
a count of the steps that are left (`CallWork`, `SlaveWork`, `FunctionWork`,
`MasterWork`, `CalculationWork`), a natural number that each step of the program
lowers and nothing but a new command, call or reset raises: so no retry, rollback
or loop goes round for ever, and where a program does not end it waits
(`CallsAreBounded`, `SlaveWorkShrinks`, `FunctionsAreBounded`, `MasterWorkShrinks`,
`CalculationsAreBounded`). What is left to TLC is that a step is then possible and
fairness takes it.

Model-checked only: that part of `CallReturns`, `CommandReturns`, `StartUpEnds` and
`MasterReturnsIfServed`, since the prover has neither fairness nor `ENABLED`; the
published check value of the polynomial, a calculation; and the findings. Every
safety property of a passing run is a theorem.

## 5. Findings

The runs that expect a violation show, each with a short trace:
- `crc_overread`: `CMD_VALIDATE_CRC` before any chunk underflows a length and reads beyond the flash (`crc.c:44`).
- `mark_active`: a successful `CMD_MARK_ACTIVE` leaves no valid active bank (`partition_manager.c:70`).
- `reported_update`: the master reports a completed update after transactions that all failed (`I2C_master/i2c_driver.c:18`).
- `master_returns`: the master waits for ever for a slave in its boot arm; the time-out it defines is not used (`I2C_master/i2c_driver.c:55`).

What the passing runs and the theorems show is no kinder:
- `UpdateOnlyByAccident`, `OnlyPingsCommanded`: the slave has no `CMD_PING`, so the
  handshake of `I2C_master/main.c:46` fails and no update begins, unless a response
  that was never written happens to be right. Until then nothing is written but
  the page of the inactive flag, by the slave's own start-up (`NothingInstalled`).
- Both leave one case out, and need to: a slave that was powered and took no frame
  yet may have its receive completed without a byte, by a write that failed or a
  read, and then runs the byte its uninitialised buffer holds (`main.c:61`,
  `i2c_driver.c:44`). That byte may be an erase or a program command, with a
  payload that nobody sent, on the inactive bank; `RunningBankUntouched` and the
  rest of `Slave`'s properties hold of it.
- `CommandReturns` promises an answer only to a command that finds the transmit
  FIFO empty: a full one drops the response, and `main` goes on after a line in the
  log (`i2c_driver.c:56`, `main.c:83`).
- `OneChunkOnly`, `BootPolicy`: no update gets past its first 1023 bytes, because
  the offset of the second chunk is not a multiple of four and
  `Flash_IsAddressValid` refuses it (`command_handler.c:60`); and no command
  changes what the slave boots. `CMD_ERASE_PARTITION` erases one page of
  the bank (`command_handler.c:36`).
- `FinalizeSpoilsBank`: the firmware update manager's `FinalizeUpdate` erases
  the CRC it has just stored and puts its mark where the validation flag is
  (`crc.c:91`). The next start finds the bank invalid (`CompletedUpdateIsLost`).
- `WholePagesKept` holds for chunks that are whole pages and begin on one, and
  needs both: a chunk that does not begin a page erases the chunks before it in
  that page, and after a `StartUpdate` whose erase failed the address of the update
  before is still there (`fw_update_manager.c:28`), which may lie inside a page:
  whole pages written from it lose their ends one after the other.
- `OldFlagDecides`: its verdict on a new firmware is the one on the old.
- `VerdictMeaning`: `CRC_Validate` complements a CRC that `CRC_Calculate` has
  already complemented (`crc.c:61`), so it does not accept what
  `CRC_UpdateExpected` stores, even for a firmware of one chunk.
- `LastChunkDecides`: of a larger firmware the verdict of `CRC_Validate` depends
  on the last 512 bytes alone (`crc.c:53`); `BurstErrorSeen` says the CRC does its
  work on these.
- `OverreadOnlyIfTiny` holds of sessions of eight bytes or more. One that
  `UpdateManager_StartUpdate` accepts with less makes `UpdateManager_FinalizeUpdate`
  read beyond the flash, since the length wraps (`update_manager.c:74`, `crc.c:44`);
  so does a packet of less than four bytes (`communication_manager.c:79`).
  `FaultsByLength` says that these, and data that do not fit the memory, are the
  only ones, and that none of the small ones is ever judged.
- `SharedBufferExclusive` speaks of holders under whom nobody else released the
  buffer: it has no owner, and a release by another user gives it away twice
  (`memory_manager.c:76`).
- `UpdateBufferRefused`: `UpdateManager_StartFirmwareUpdate` never gets its buffer
  (`memory_manager.c:83`).
- `PairedNeverLeaks`: a second `CommunicationManager_Init` loses the first one's
  buffer, and a heap lost in this way makes `CRC_Validate` call a firmware invalid
  without looking at it (`communication_manager.c:22`, `crc.c:39`).

## 6. Not modelled, and the plan

Not modelled:
- the contents of log messages (`log_manager.c` keeps nothing but a level) and the
  reason for a reboot, which is only printed; `RebootManager_Reboot` itself is a
  reset;
- the write protection of the flash, whose three functions do nothing, and
  `Flash_Init`, which nobody calls;
- `I2C_Master_Init` and `I2C_Slave_Init`, which configure the peripheral;
- `CommunicationManager_Send` and `CommunicationManager_Receive`: mocks without a
  link. The first reports success at its first try; the second validates a
  hundred zeros, whatever was sent;
- CRC values outside `Crc`: in `Slave`, `FwUpdate` and `BootApi` the data are tags
  and the verdict of `CRC_Validate` is open, which covers every value `Crc` shows;
- `CRC_CheckValidMark` and `CRC_ReadValidMark`, which nobody calls;
- generated, vendor and build files.

What could come next:
1. an abstract `UpdateSession` (begin, store, end) that `FwUpdate` implements as
   far as it does, from which `WholePagesKept` would follow;
2. counts of the steps left for `BootApi` and `MemoryManager`, and an enabledness
   argument in the form of invariants that name the next action in each state.
