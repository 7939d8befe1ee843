------------------------------ MODULE MCLzHeap ------------------------------
(* LzHeap with a few threads and pages. *)
EXTENDS LzHeap

Symmetry == Permutations(Threads) \cup Permutations(Pages)
=============================================================================
