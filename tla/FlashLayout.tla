---------------------------- MODULE FlashLayout ----------------------------
(***************************************************************************)
(* Geometry of the slave's on-chip flash and what one erase or one write   *)
(* does to it (flash_manager.h, partition_manager.h and the address        *)
(* helpers of flash_manager.c).                                            *)
(*                                                                         *)
(* Addresses are byte addresses, as in the code.  A memory is a function   *)
(* from the 4-byte word addresses to what the word holds: a tag of the     *)
(* block of data it was programmed from, a flag word, Erased (all ones) or *)
(* Garbled (bits cleared by two different writes, or an unfinished erase). *)
(***************************************************************************)
EXTENDS Integers

CONSTANTS
  FLASH_PAGE_SIZE,           \* erase unit, 0x2000 bytes on the chip
  FLASH_TOTAL_SIZE,          \* 0x40000 bytes on the chip
  PARTITION_ACTIVE_START,    \* bank 0, 0x04000
  PARTITION_INACTIVE_START,  \* bank 1, 0x20000
  PARTITION_SIZE,            \* 0x1C000 bytes, the same for both banks
  Blocks                     \* tags of the data blocks a caller may program

\* The masks and additions of the code are only meaningful on this layout;
\* the values of the headers satisfy it.
ASSUME LayoutAssumption ==
  /\ FLASH_PAGE_SIZE \in Nat \ {0}
  /\ FLASH_TOTAL_SIZE \in Nat
  /\ PARTITION_SIZE \in Nat
  /\ PARTITION_ACTIVE_START \in Nat
  /\ PARTITION_INACTIVE_START \in Nat
  /\ FLASH_PAGE_SIZE % 4 = 0
  /\ PARTITION_SIZE % 4 = 0
  /\ PARTITION_ACTIVE_START % 4 = 0
  /\ PARTITION_INACTIVE_START % 4 = 0
  /\ PARTITION_INACTIVE_START % FLASH_PAGE_SIZE = 0
  /\ PARTITION_SIZE % FLASH_PAGE_SIZE = 0
  /\ PARTITION_SIZE >= 2 * FLASH_PAGE_SIZE
  /\ PARTITION_ACTIVE_START + PARTITION_SIZE <= PARTITION_INACTIVE_START
  /\ PARTITION_INACTIVE_START + PARTITION_SIZE <= FLASH_TOTAL_SIZE

Erased  == "erased"    \* 0xFFFFFFFF, also PARTITION_INVALID_FLAG
Garbled == "garbled"
PARTITION_VALID_FLAG   == "valid_flag"
PARTITION_INVALID_FLAG == Erased

\* A block tag is none of the words the code gives a meaning to.
ASSUME BlocksAssumption ==
  {Erased, Garbled, PARTITION_VALID_FLAG} \cap Blocks = {}

Data       == Blocks \cup {PARTITION_VALID_FLAG, PARTITION_INVALID_FLAG}
WordValues == Data \cup {Erased, Garbled}

Words == {a \in 0 .. FLASH_TOTAL_SIZE - 1 : a % 4 = 0}
Memory == [Words -> WordValues]

----------------------------------------------------------------------------

\* Mutant: the alignment half of the test is missing.
Flash_IsAddressValid_Unaligned(address) ==
  address >= 0 /\ address < FLASH_TOTAL_SIZE

Flash_IsAddressValid(address) ==
  address >= 0 /\ address < FLASH_TOTAL_SIZE /\ address % 4 = 0

\* Mutant: rounds up to the next page, as a mask with the bits of the page
\* size added instead of removed would.
PAGE_START_ADDR_Up(address) ==
  (address - (address % FLASH_PAGE_SIZE)) + FLASH_PAGE_SIZE

\* addr & ~(FLASH_PAGE_SIZE - 1), for a page size that is a power of two.
PAGE_START_ADDR(address) == address - (address % FLASH_PAGE_SIZE)

PageWords(address) ==
  {w \in Words : /\ PAGE_START_ADDR(address) <= w
                 /\ w < PAGE_START_ADDR(address) + FLASH_PAGE_SIZE}

\* The words that length bytes at address touch; the last one may be touched
\* in part only, and then counts as programmed with the block.
BlockWords(address, length) ==
  {w \in Words : address <= w /\ w < address + length}

PartitionWords(start) == BlockWords(start, PARTITION_SIZE)

\* The word at the end of a partition that says whether it is valid.
FlagWord(start) == start + PARTITION_SIZE - 4

\* Everything one call on address may change: the page it erases and the
\* block it programs.
Footprint(address, length) == PageWords(address) \cup BlockWords(address, length)

----------------------------------------------------------------------------

Fill(mem, S, v) == [w \in Words |-> IF w \in S THEN v ELSE mem[w]]

\* Programming only clears bits: an erased word takes the data, a word that
\* already holds the data keeps it, all ones change nothing, any other word is
\* spoilt.
Burn(old, data) ==
  CASE old = Erased                  -> data
    [] data \in {old, Erased}        -> old
    [] OTHER                         -> Garbled

Program(mem, S, data) ==
  [w \in Words |-> IF w \in S THEN Burn(mem[w], data) ELSE mem[w]]

\* memcmp of the flash at S with the block (Flash_VerifyPage).
Holds(mem, S, data) == \A w \in S : mem[w] = data
=============================================================================
