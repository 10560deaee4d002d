----------------------------- MODULE MCValHeap ------------------------------
(***************************************************************************)
(* Four values, lists of two and maps of two pairs: shared values, a value *)
(* in another twice, chains of four, keys found equal.                     *)
(***************************************************************************)
EXTENDS ValHeapRef, TLC

Symmetry == Permutations(Addr)
=============================================================================
