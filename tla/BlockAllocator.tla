--------------------------- MODULE BlockAllocator ---------------------------
(***************************************************************************)
(* What a fixed-size block allocator promises its clients: a block is      *)
(* handed out only while nobody holds it, and giving it back ends exactly  *)
(* one holding.  LzHeap implements this specification (it adds threads,    *)
(* free lists, recycling and running out of memory).                       *)
(***************************************************************************)
EXTENDS Naturals

CONSTANT Blocks

VARIABLE holders   \* holders[b]: how many clients believe block b is theirs

BAInit == holders = [b \in Blocks |-> 0]

Alloc(b) ==
  /\ holders[b] = 0
  /\ holders' = [holders EXCEPT ![b] = 1]

Free(b) ==
  /\ holders[b] = 1
  /\ holders' = [holders EXCEPT ![b] = 0]

BANext == \E b \in Blocks : Alloc(b) \/ Free(b)

BASpec == BAInit /\ [][BANext]_holders
=============================================================================
