------------------------------ MODULE CrcPair ------------------------------
(***************************************************************************)
(* What the checksum can tell apart: the same calls on two memories, step  *)
(* by step beside each other.  The control of the two is shared, since it  *)
(* does not depend on the data, but for the test of the magic number:      *)
(* where that alone tells the two apart, one of them answers false at once *)
(* and there is nothing to compare.                                        *)
(***************************************************************************)
EXTENDS Crc

VARIABLES twinMemory, twinCrc, twinCalculated, twinAnswer

Twin == INSTANCE Crc WITH
  memory         <- twinMemory,
  crc            <- twinCrc,
  calculated_crc <- twinCalculated,
  answer         <- twinAnswer

twinVars == <<twinMemory, twinCrc, twinCalculated, twinAnswer>>
pairVars == <<crcVars, twinVars>>

PairInit == Init /\ Twin!Init

PairNext ==
  \/ \E n \in Sizes :
       \/ CRC_Validate(n) /\ Twin!CRC_Validate(n)
       \/ NoBuffer(n) /\ Twin!NoBuffer(n)
       \/ CRC_UpdateExpected(n) /\ Twin!CRC_UpdateExpected(n)
       \/ CommunicationManager_ValidatePacket(n) /\ Twin!CommunicationManager_ValidatePacket(n)
  \/ ValidationManager_ValidateFirmware /\ Twin!ValidationManager_ValidateFirmware
  \/ MagicMissing /\ Twin!MagicMissing
  \/ CopyChunk /\ Twin!CopyChunk
  \/ TakeByte /\ Twin!TakeByte
  \/ ReadBeyond /\ Twin!ReadBeyond
  \/ TakeBit /\ Twin!TakeBit
  \/ ChunkDone /\ Twin!ChunkDone
  \/ CompareStored /\ Twin!CompareStored
  \/ PacketDone /\ Twin!PacketDone
  \/ ExpectedDone /\ Twin!ExpectedDone
  \/ Reset /\ Twin!Reset

PairSpec == PairInit /\ [][PairNext]_pairVars

----------------------------------------------------------------------------

PairTypeOK == CrcTypeOK /\ Twin!CrcTypeOK

AgreeOn(addresses) == \A a \in addresses : memory[a] = twinMemory[a]

\* The data of the last CRC_Calculate, and the word it was compared with.
LastData == base .. base + length - 1
CheckWord == WordBytes(IF caller = "ValidatePacket" THEN size - 4 ELSE StoredCrcAddress)

\* The bits of that data in which the two memories differ, and when they lie
\* within 32 of each other.
Errors == Xor(Polynomial(memory, base, length), Polynomial(twinMemory, base, length))
Burst  == Errors # {} /\ \E k \in 32 .. 8 * length + 31 : Errors \subseteq k .. k + 31

Judged == place = "idle" /\ answer \in {"true", "false"} /\ twinAnswer \in {"true", "false"}

\* A burst of wrong bits no longer than the CRC shows: in the data the CRC is
\* calculated of it changes the CRC, and neither there nor anywhere in the check
\* word does it go unnoticed.  For a packet that is any of its bytes, for a bank
\* one of its last chunk (CRC_Calculate).
BurstErrorSeen ==
  Judged =>
    /\ Burst => calculated_crc # twinCalculated
    /\ (Burst /\ AgreeOn(CheckWord)) \/ (Errors = {} /\ ~AgreeOn(CheckWord))
         => ~(answer = "true" /\ twinAnswer = "true")

\* The last CHUNK_SIZE bytes of what CRC_Validate was asked to check.
LastChunk ==
  {a \in Address : /\ size - CRC_METADATA_SIZE - CHUNK_SIZE <= a
                   /\ a < size - CRC_METADATA_SIZE}

\* The verdict on a bank rests on these bytes at most: banks that agree on them
\* and on the stored word get the same one, whatever the firmware before them
\* is, although crc.c:47 says the CRC is calculated incrementally (CRC_Validate
\* starts a new one for each chunk).
LastChunkDecides ==
  Judged /\ caller = "CRC_Validate" /\ AgreeOn(LastChunk \cup CheckWord)
    => answer = twinAnswer
=============================================================================
