----------------------------- MODULE MCAllocator -----------------------------
(* Small heaps for TLC.  The word limit is a few granules, so that the size  *)
(* guard, the allocation bit and u32 wrap-around are all within reach.       *)
EXTENDS Allocator

(* A payload word that reads as the header of an allocated block.            *)
Forged == [size |-> 1, alloc |-> TRUE, external |-> FALSE]

PlainWords == {Forged}
NoWords == {}

=============================================================================
