------------------------------- MODULE MCHeap --------------------------------
(* Values of the constants of Heap for model checking: the sizes of the     *)
(* headers and the least rest are those of the code, in words.              *)
EXTENDS Heap, TLC

Symmetry == Permutations(Thread)
==============================================================================
