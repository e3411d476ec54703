-------------------------------- MODULE Memory --------------------------------
(***************************************************************************)
(* The memory an allocator of CP gets from mmap, in addresses of bytes.    *)
(***************************************************************************)
EXTENDS Integers

CONSTANTS
  memory,        \* what mmap returns
  memory_size,   \* what the constructor is asked for
  PAGE_SIZE

Null == 0        \* nullptr

\* mmap returns a page of its own, and pages hold whole words.
ASSUME MemoryAssumption ==
  /\ PAGE_SIZE \in Nat \ {0} /\ PAGE_SIZE % 8 = 0
  /\ memory \in Nat \ {0} /\ memory % PAGE_SIZE = 0
  /\ memory_size \in Nat \ {0}

\* The smallest multiple of unit that is not below n (for unit > 0).
RoundUp(n, unit) == ((n + unit - 1) \div unit) * unit
=============================================================================
