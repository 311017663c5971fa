--------------------------- MODULE MCFlashDriver ---------------------------
(***************************************************************************)
(* Five pages of two words: two banks of two pages and a spare page.       *)
(***************************************************************************)
EXTENDS FlashDriver

CONSTANT d1

\* Page starts, the middle of a page, the last word of the flash, an
\* unaligned address and one beyond the flash.
MCAddresses == {24, 28, 36, 26, 40}

\* Less than a word, a block that fits no page from its middle, a whole
\* page, and more than a page.
MCLengths == {3, 8, 9}

MCInitialMemory == {[w \in Words |-> Erased]}
=============================================================================
