------------------------------- MODULE MCCrc -------------------------------
(***************************************************************************)
(* A partition of 24 bytes: 8 of firmware, the metadata at 8, of which the *)
(* CRC covers the first 8, the CRC at 16 and the mark at 20; 2 bytes of    *)
(* flash behind it.  Chunks are 6 bytes, so a whole partition takes three. *)
(* Registers, polynomial and magic number have their real 32 bits.         *)
(***************************************************************************)
EXTENDS CrcPair

\* The published check value of this polynomial, initial value and final
\* complement, for the characters "1" to "9" (0x31 to 0x39), is 0xFC891918.
Digit(n) == {4, 5} \cup {b \in 0 .. 3 : (n \div 2 ^ b) % 2 = 1}
ASSUME CheckValue ==
  Complement(DataRemainder([a \in 0 .. 8 |-> Digit(a + 1)], 0, 9))
    = {31, 30, 29, 28, 27, 26, 23, 19, 16, 12, 11, 8, 4, 3}

ByteAt(word, k) == {b \in 0 .. 7 : b + 8 * k \in word}

PutWord(bytes, address, word) ==
  [a \in Address |-> IF a \in WordBytes(address) THEN ByteAt(word, a - address) ELSE bytes[a]]

Corrupt(bytes, a, bits) == [bytes EXCEPT ![a] = Xor(@, bits)]

\* Firmware that is neither blank nor regular, with its magic number.
Firmware ==
  PutWord([a \in Address |-> {b \in 0 .. 7 : (a * a + 3 * a + b) % 5 < 2}], MagicAddress, MAGIC_NUMBER)

\* A bank that CRC_Validate accepts for its last chunk, one that holds the CRC
\* of all its data, one that holds what CRC_UpdateExpected calculates for its
\* first four bytes, one that CRC_Validate accepts for these, and a packet of
\* nine bytes; the same with a burst of 32 bits in the first chunk, one bit
\* corrupted in the last or in the stored word; one without the magic number.
Good ==
  {PutWord(Firmware, StoredCrcAddress, DataRemainder(Firmware, 12, 4)),
   PutWord(Firmware, StoredCrcAddress, DataRemainder(Firmware, 0, 16)),
   PutWord(Firmware, StoredCrcAddress, Complement(DataRemainder(Firmware, 0, 4))),
   PutWord(Firmware, StoredCrcAddress, DataRemainder(Firmware, 0, 4)),
   PutWord(Firmware, 5, Complement(DataRemainder(Firmware, 0, 5)))}
MCContents ==
  UNION {{m, Corrupt(Corrupt(m, 1, {0, 3, 7}), 4, {0, 6}), Corrupt(m, 13, {7}),
         Corrupt(m, 17, {4})} : m \in Good}
    \cup {PutWord(Firmware, MagicAddress, {})}

\* Too small for the metadata, nothing but metadata, a packet, one chunk of
\* four bytes, and more than partition and flash; ValidateFirmware adds the
\* partition.
MCSizes == {0, 8, 9, 12, 28}
=============================================================================
