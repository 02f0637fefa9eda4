------------------------------- MODULE MCHeap -------------------------------
(* Heap for TLC; the pointer variables of the kernel are interchangeable. *)
EXTENDS Heap, TLC

Symmetric == Permutations(Owners)
=============================================================================
