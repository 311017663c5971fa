-------------------------- MODULE MCMemoryManager --------------------------
(***************************************************************************)
(* Three users of the shared buffer, so that one can take it from a second *)
(* for a third, and a heap of four blocks, so that leaks can fill it.      *)
(***************************************************************************)
EXTENDS MemoryManager
=============================================================================
