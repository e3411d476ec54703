------------------------------ MODULE Allocator -------------------------------
(***************************************************************************)
(* What both allocators of CP promise: alloc hands out a block of the      *)
(* memory that overlaps no block in use, aligned for any object, or it     *)
(* hands out nothing; free gives back one block in use and no other.       *)
(***************************************************************************)
EXTENDS Integers

CONSTANTS
  From, To,   \* the memory: addresses From .. To - 1
  Align       \* every block starts at a multiple of Align

VARIABLE used   \* the blocks in use: [ptr |-> first address, size |-> bytes]

Disjoint(b, c) == b.ptr + b.size <= c.ptr \/ c.ptr + c.size <= b.ptr

Init == used = {}

Alloc(b) ==
  /\ b \notin used
  /\ b.size > 0
  /\ From <= b.ptr /\ b.ptr + b.size <= To
  /\ b.ptr % Align = 0
  /\ \A c \in used : Disjoint(b, c)
  /\ used' = used \cup {b}

Free(b) ==
  /\ b \in used
  /\ used' = used \ {b}

Next ==
  \/ \E b \in used' : Alloc(b)
  \/ \E b \in used : Free(b)

Spec == Init /\ [][Next]_used
=============================================================================
