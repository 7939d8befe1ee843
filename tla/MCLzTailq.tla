----------------------------- MODULE MCLzTailq -----------------------------
(* LzTailq with interchangeable addresses and data.                        *)
EXTENDS LzTailq

MCSymmetry ==
  Permutations(Elems) \cup Permutations(Queues) \cup Permutations(Data)
=============================================================================
