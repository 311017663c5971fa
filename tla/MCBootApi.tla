----------------------------- MODULE MCBootApi -----------------------------
(***************************************************************************)
(* Pages of two words, banks of two pages, the update flag in the second   *)
(* half of the page behind them as on the chip.                            *)
(***************************************************************************)
EXTENDS BootApi

\* Every verdict the two flags may give, no update flag yet.
MCInitialFlash ==
  {[w \in Words |-> IF w \in valid THEN PARTITION_VALID_FLAG ELSE Erased] :
     valid \in SUBSET {ActiveFlagWord, InactiveFlagWord}}
=============================================================================
