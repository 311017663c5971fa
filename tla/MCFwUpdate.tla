----------------------------- MODULE MCFwUpdate -----------------------------
(***************************************************************************)
(* Pages of two words, banks of three pages, so that a chunk may lie       *)
(* across two pages before the last, and a page behind them.               *)
(***************************************************************************)
EXTENDS FwUpdate, TLC

CONSTANTS c1, c2

\* Nothing tells the two contents apart.
ContentSymmetry == Permutations(Chunks)

\* Half a page, a page, an odd length, more than the bank, and a length that
\* wraps around 2^32 onto an address inside the bank.
MCLengths == {0, 4, 6, 8, 32, UINT32_RANGE - 8}

\* An inactive bank that was valid before, and a blank one.
Blank == [w \in Words |-> Erased]
MCInitialFlash == {Blank, [Blank EXCEPT ![InactiveFlagWord] = PARTITION_VALID_FLAG]}
=============================================================================
