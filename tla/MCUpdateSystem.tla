--------------------------- MODULE MCUpdateSystem ---------------------------
(***************************************************************************)
(* A slave with pages of two words and a file of two chunks.               *)
(***************************************************************************)
EXTENDS UpdateSystem

CONSTANTS c1, c2, mixed

MCFile == <<c1, c2>>

\* Two chunks alike, for the runs that do not ask which of them is stored.
MCEvenFile == <<c1, c1>>

\* A chip that serves and one that boots.
Blank == [w \in Words |-> Erased]
MCInitialFlash == {Blank, [Blank EXCEPT ![ActiveFlagWord] = PARTITION_VALID_FLAG]}
=============================================================================
