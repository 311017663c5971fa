------------------------------ MODULE MCSlave ------------------------------
(***************************************************************************)
(* A slave with six pages: the bootloader, two banks of two pages and the  *)
(* page behind them.  A payload is one byte less than a whole number of    *)
(* words, as 1023 is on the chip.                                          *)
(***************************************************************************)
EXTENDS Slave

CONSTANTS c1, c2, mixed

MCDeliveries == {"none", "command", "partial", "full"}

\* A chip with valid firmware in the active bank, one with a blank active
\* bank, and one whose active flag was spoilt and whose inactive bank still
\* holds an old valid flag that the first flash call erases.
Blank == [w \in Words |-> Erased]
MCInitialFlash ==
  {[Blank EXCEPT ![ActiveFlagWord] = PARTITION_VALID_FLAG],
   Blank,
   [Blank EXCEPT ![ActiveFlagWord] = Garbled,
                 ![InactiveFlagWord] = PARTITION_VALID_FLAG]}
=============================================================================
