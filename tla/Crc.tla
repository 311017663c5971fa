-------------------------------- MODULE Crc --------------------------------
(***************************************************************************)
(* The checksum of the slave (crc.c) and the three functions that judge    *)
(* with it: CRC_Validate, ValidationManager_ValidateFirmware               *)
(* (validation_manager.c) and CommunicationManager_ValidatePacket          *)
(* (communication_manager.c).  CRC_UpdateExpected calculates here; its two *)
(* writes are in FwUpdate.                                                 *)
(*                                                                         *)
(* A byte or a register is the set of its bits that are one, a polynomial  *)
(* over two elements is the set of its exponents, exclusive or is the      *)
(* symmetric difference.  Addresses count from the start of the partition  *)
(* or packet.  One call at a time runs, bit by bit, on a memory that       *)
(* nobody changes meanwhile; place says where it is:                       *)
(*   idle   no call, answer is that of the last one                        *)
(*   chunk  CRC_Validate, at the head of its loop over chunks              *)
(*   byte   CRC_Calculate, at the head of its loop over bytes              *)
(*   bit    CRC_Calculate, in its loop over the eight bits                 *)
(*   fault  the processor faulted on a read beyond the memory              *)
(***************************************************************************)
EXTENDS Integers

CONSTANTS
  PARTITION_SIZE,  \* 0x1C000
  CHUNK_SIZE,      \* 512
  UINT32_RANGE,    \* 2^32
  MEMORY_SIZE,     \* bytes from the partition's start to the end of the flash
  Contents,        \* what these bytes may hold
  Sizes            \* the sizes and lengths callers pass

CRC_METADATA_SIZE == 8

Byte     == SUBSET (0 .. 7)
Register == SUBSET (0 .. 31)
Address  == 0 .. MEMORY_SIZE - 1

ASSUME CrcAssumption ==
  /\ PARTITION_SIZE \in Nat /\ PARTITION_SIZE >= 16
  /\ MEMORY_SIZE \in Nat /\ MEMORY_SIZE >= PARTITION_SIZE
  /\ CHUNK_SIZE \in Nat \ {0}
  /\ UINT32_RANGE \in Nat /\ UINT32_RANGE > MEMORY_SIZE + 8
  /\ Contents \subseteq [Address -> Byte]
  /\ Sizes \subseteq 0 .. UINT32_RANGE - 1

VARIABLES
  memory,
  place, caller,       \* the call in progress, or the last one
  size,                \* its argument
  remaining_size,      \* of CRC_Validate
  base, length,        \* the data of the last CRC_Calculate
  i, j,                \* its loop counters
  crc,                 \* its register
  calculated_crc,      \* the local of the callers
  answer               \* of the last call

\* What does not depend on the contents of the memory.
control == <<place, caller, size, remaining_size, base, length, i, j>>
crcVars == <<memory, control, crc, calculated_crc, answer>>

Callers == {"CRC_Validate", "CRC_UpdateExpected", "ValidatePacket"}
Answers == {"none", "true", "false", "no_buffer", "no_magic"}  \* the last two are false as well

----------------------------------------------------------------------------
\* The arithmetic of CRC_Calculate.

CRC_POLYNOMIAL    == {26, 23, 22, 16, 12, 11, 10, 8, 7, 5, 4, 2, 1, 0}  \* 0x04C11DB7
INITIAL_CRC_VALUE == 0 .. 31
MAGIC_NUMBER      == {30, 27, 26, 24, 22, 16, 14, 12, 9, 6, 3, 1, 0}    \* 0x4D41524B

Xor(a, b) == (a \ b) \cup (b \ a)

Complement(crc32) == (0 .. 31) \ crc32

\* Mutant: the bit that leaves the register is kept.
ShiftLeft_Wide(crc32) == {b + 1 : b \in crc32}

ShiftLeft(crc32) == {b \in 0 .. 31 : b - 1 \in crc32}

\* data[i] << 24
TopByte(byte) == {b \in 24 .. 31 : b - 24 \in byte}

\* Mutant: the register is shifted before its top bit is tested.
NextBit_ShiftFirst(crc32) ==
  LET shifted == ShiftLeft(crc32)
  IN IF 31 \in shifted THEN Xor(shifted, CRC_POLYNOMIAL) ELSE shifted

\* Mutant: the mask lost a digit, 0x8000000.
NextBit_Mask(crc32) ==
  IF 27 \in crc32 THEN Xor(ShiftLeft(crc32), CRC_POLYNOMIAL) ELSE ShiftLeft(crc32)

NextBit(crc32) ==
  IF 31 \in crc32 THEN Xor(ShiftLeft(crc32), CRC_POLYNOMIAL) ELSE ShiftLeft(crc32)

\* The little-endian word at an address.
WordAt(address) == {b \in 0 .. 31 : (b % 8) \in memory[address + (b \div 8)]}
WordBytes(address) == address .. address + 3

StoredCrcAddress == PARTITION_SIZE - CRC_METADATA_SIZE
MagicAddress     == PARTITION_SIZE - 16

----------------------------------------------------------------------------
\* The calls.

Init ==
  /\ memory \in Contents
  /\ place = "idle" /\ caller = "CRC_Validate" /\ size = 0 /\ remaining_size = 0
  /\ base = 0 /\ length = 0 /\ i = 0 /\ j = 0
  /\ crc = {} /\ calculated_crc = {} /\ answer = "none"

\* The locals of a call before their first assignment are of no account.
Enter(function, n) ==
  /\ place = "idle"
  /\ caller' = function /\ size' = n
  /\ base' = 0 /\ i' = 0 /\ j' = 0
  /\ UNCHANGED memory

\* Mutant: the data is taken to reach to the end of the metadata.
CRC_Validate_WithTrailer(n) ==
  /\ Enter("CRC_Validate", n)
  /\ place' = "chunk"
  /\ remaining_size' = n /\ length' = 0
  /\ crc' = {} /\ calculated_crc' = INITIAL_CRC_VALUE /\ answer' = "none"

CRC_Validate(n) ==
  /\ Enter("CRC_Validate", n)
  /\ place' = "chunk"
  /\ remaining_size' = (n - CRC_METADATA_SIZE) % UINT32_RANGE
  /\ length' = 0
  /\ crc' = {} /\ calculated_crc' = INITIAL_CRC_VALUE /\ answer' = "none"

\* A call that returns at once.
Refuse(n, why) ==
  /\ Enter("CRC_Validate", n)
  /\ remaining_size' = 0 /\ length' = 0
  /\ crc' = {} /\ calculated_crc' = INITIAL_CRC_VALUE
  /\ answer' = why
  /\ UNCHANGED place

\* MemoryManager_Allocate returned NULL.
NoBuffer(n) == Refuse(n, "no_buffer")

\* ValidationManager_ValidateFirmware looks for the magic number before it
\* calls CRC_Validate for the whole partition.
ValidationManager_ValidateFirmware ==
  /\ WordAt(MagicAddress) = MAGIC_NUMBER
  /\ CRC_Validate(PARTITION_SIZE) \/ NoBuffer(PARTITION_SIZE)

MagicMissing ==
  /\ WordAt(MagicAddress) # MAGIC_NUMBER
  /\ Refuse(PARTITION_SIZE, "no_magic")

\* CRC_UpdateExpected and ValidatePacket calculate over all of their data.
Calculate(function, n, trailer) ==
  /\ Enter(function, n)
  /\ place' = "byte"
  /\ remaining_size' = 0 /\ length' = (n - trailer) % UINT32_RANGE
  /\ crc' = INITIAL_CRC_VALUE /\ calculated_crc' = {} /\ answer' = "none"

CRC_UpdateExpected(n) == Calculate("CRC_UpdateExpected", n, CRC_METADATA_SIZE)
CommunicationManager_ValidatePacket(n) == Calculate("ValidatePacket", n, 4)

ChunkLength == IF remaining_size > CHUNK_SIZE THEN CHUNK_SIZE ELSE remaining_size

\* Mutant: the register goes on from one chunk to the next.
CopyChunk_Incremental ==
  /\ place = "chunk" /\ remaining_size > 0
  /\ base' = base + length /\ length' = ChunkLength
  /\ remaining_size' = remaining_size - ChunkLength
  /\ i' = 0 /\ j' = 0
  /\ crc' = IF base + length = 0 THEN INITIAL_CRC_VALUE ELSE crc
  /\ place' = IF base' + length' <= MEMORY_SIZE THEN "byte" ELSE "fault"
  /\ UNCHANGED <<memory, caller, size, calculated_crc, answer>>

\* The next chunk is copied to the buffer and CRC_Calculate called for it.
CopyChunk ==
  /\ place = "chunk" /\ remaining_size > 0
  /\ base' = base + length /\ length' = ChunkLength
  /\ remaining_size' = remaining_size - ChunkLength
  /\ i' = 0 /\ j' = 0
  /\ crc' = INITIAL_CRC_VALUE
  /\ place' = IF base' + length' <= MEMORY_SIZE THEN "byte" ELSE "fault"
  /\ UNCHANGED <<memory, caller, size, calculated_crc, answer>>

TakeByte ==
  /\ place = "byte" /\ i < length /\ base + i < MEMORY_SIZE
  /\ crc' = Xor(crc, TopByte(memory[base + i]))
  /\ place' = "bit" /\ j' = 0
  /\ UNCHANGED <<memory, caller, size, remaining_size, base, length, i, calculated_crc, answer>>

\* A byte beyond the end, or the CRC of a packet beyond it.
ReadBeyond ==
  /\ place = "byte"
  /\ \/ i < length /\ base + i >= MEMORY_SIZE
     \/ i = length /\ caller = "ValidatePacket" /\ size > MEMORY_SIZE
  /\ place' = "fault"
  /\ UNCHANGED <<memory, caller, size, remaining_size, base, length, i, j, crc,
                 calculated_crc, answer>>

TakeBit ==
  /\ place = "bit"
  /\ crc' = NextBit(crc)
  /\ IF j < 7
     THEN j' = j + 1 /\ UNCHANGED <<place, i>>
     ELSE j' = 0 /\ i' = i + 1 /\ place' = "byte"
  /\ UNCHANGED <<memory, caller, size, remaining_size, base, length, calculated_crc, answer>>

\* CRC_Calculate returns.
Return(function) == place = "byte" /\ i = length /\ caller = function

ChunkDone ==
  /\ Return("CRC_Validate")
  /\ calculated_crc' = Complement(crc)
  /\ place' = "chunk"
  /\ UNCHANGED <<memory, caller, size, remaining_size, base, length, i, j, crc, answer>>

Verdict(equal) == IF equal THEN "true" ELSE "false"

\* Mutant: the CRC is not complemented a second time.
CompareStored_Once ==
  /\ place = "chunk" /\ remaining_size = 0
  /\ answer' = Verdict(calculated_crc = WordAt(StoredCrcAddress))
  /\ place' = "idle"
  /\ UNCHANGED <<memory, caller, size, remaining_size, base, length, i, j, crc, calculated_crc>>

\* The last lines of CRC_Validate, which complement the CRC again.
CompareStored ==
  /\ place = "chunk" /\ remaining_size = 0
  /\ answer' = Verdict(Complement(calculated_crc) = WordAt(StoredCrcAddress))
  /\ place' = "idle"
  /\ UNCHANGED <<memory, caller, size, remaining_size, base, length, i, j, crc, calculated_crc>>

PacketDone ==
  /\ Return("ValidatePacket") /\ size <= MEMORY_SIZE
  /\ calculated_crc' = Complement(crc)
  /\ answer' = Verdict(calculated_crc' = WordAt(size - 4))
  /\ place' = "idle"
  /\ UNCHANGED <<memory, caller, size, remaining_size, base, length, i, j, crc>>

\* calculated_crc goes to CRC_Store.
ExpectedDone ==
  /\ Return("CRC_UpdateExpected")
  /\ calculated_crc' = Complement(crc)
  /\ place' = "idle"
  /\ UNCHANGED <<memory, caller, size, remaining_size, base, length, i, j, crc, answer>>

\* Nothing of a call survives a reset.
Reset ==
  /\ place' = "idle" /\ caller' = "CRC_Validate" /\ size' = 0 /\ remaining_size' = 0
  /\ base' = 0 /\ length' = 0 /\ i' = 0 /\ j' = 0
  /\ crc' = {} /\ calculated_crc' = {} /\ answer' = "none"
  /\ UNCHANGED memory

Next ==
  \/ \E n \in Sizes : \/ CRC_Validate(n) \/ NoBuffer(n)
                      \/ CRC_UpdateExpected(n) \/ CommunicationManager_ValidatePacket(n)
  \/ ValidationManager_ValidateFirmware \/ MagicMissing
  \/ CopyChunk \/ TakeByte \/ ReadBeyond \/ TakeBit
  \/ ChunkDone \/ CompareStored \/ PacketDone \/ ExpectedDone
  \/ Reset

Spec == Init /\ [][Next]_crcVars

----------------------------------------------------------------------------
\* The reference: remainders of polynomials by long division.

Generator == CRC_POLYNOMIAL \cup {32}

\* n bytes from an address as a polynomial, first byte first and top bit first,
\* times the 32nd power.
Polynomial(bytes, from, n) ==
  {d \in 32 .. 8 * n + 31 : (d % 8) \in bytes[from + n - 1 - ((d - 32) \div 8)]}

\* The division of a polynomial of degree at most top: in rest[d] the terms
\* above d are gone.
Division(polynomial, top) ==
  LET rest[d \in 31 .. top] ==
        IF d = top THEN polynomial
        ELSE LET p == rest[d + 1]
             IN IF d + 1 \in p THEN Xor(p, {e + d - 31 : e \in Generator}) ELSE p
  IN rest

Remainder(polynomial, top) == Division(polynomial, top)[31]

\* The remainder a checksum is about: the first 32 bits are complemented.
DataRemainder(bytes, from, n) ==
  Remainder(Xor(Polynomial(bytes, from, n), 8 * n .. 8 * n + 31), 8 * n + 31)

----------------------------------------------------------------------------
\* Properties.

CrcTypeOK ==
  /\ memory \in [Address -> Byte]
  /\ place \in {"idle", "chunk", "byte", "bit", "fault"}
  /\ caller \in Callers /\ size \in Nat /\ remaining_size \in Nat
  /\ base \in Nat /\ length \in Nat
  /\ i \in 0 .. length /\ j \in 0 .. 7
  /\ crc \in Register /\ calculated_crc \in Register
  /\ answer \in Answers

\* The register of CRC_Calculate's two loops is, whenever it returns, the
\* remainder of its data by the generator polynomial (crc.c:21).
RemainderCalculated ==
  place = "byte" /\ i = length => crc = DataRemainder(memory, base, length)

\* What a verdict says of the data.  A packet is accepted for the complement of
\* the remainder of all its data.  A bank is accepted for the remainder itself,
\* which CRC_UpdateExpected never stores for the data of one chunk, and for
\* that of its last chunk alone (crc.c:53, crc.c:61); with nothing to check,
\* for a stored word of zero.
VerdictMeaning ==
  /\ caller = "ValidatePacket" =>
       /\ answer = "true"  => WordAt(size - 4) = Complement(DataRemainder(memory, 0, size - 4))
       /\ answer = "false" => WordAt(size - 4) # Complement(DataRemainder(memory, 0, size - 4))
  /\ caller = "CRC_Validate" =>
       LET accepted == IF length = 0 THEN {} ELSE DataRemainder(memory, base, length)
       IN /\ answer = "true"  => WordAt(StoredCrcAddress) = accepted
          /\ answer = "false" => WordAt(StoredCrcAddress) # accepted

\* What a caller's size has to hold besides the data.
Trailer == IF caller = "ValidatePacket" THEN 4 ELSE CRC_METADATA_SIZE

\* The size alone decides which call reads beyond the memory, whatever the chunks
\* it goes through: only one with less than its trailer, whose length wraps, or
\* with more than the memory faults.  And with less than its trailer no packet
\* and no bank is ever judged, neither good nor bad (crc.c:44, crc.c:101,
\* communication_manager.c:79).
FaultsByLength ==
  /\ place = "fault" => size < Trailer \/ size > MEMORY_SIZE
  /\ size < Trailer => answer \notin {"true", "false"}
=============================================================================
